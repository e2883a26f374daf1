-------------------------- MODULE RemoteTemperature --------------------------
(***************************************************************************)
(* The room temperature that Home Assistant feeds to the unit instead of   *)
(* the unit's own sensor: rate limit and deferral of the samples, the      *)
(* keep-alive that feeds a stable value again, the watchdog that gives up  *)
(* a value nobody renews, and the queue that the end of an info cycle      *)
(* empties.                                                                *)
(*                                                                         *)
(* The three timers hold the time left and tick with the clock; a timer    *)
(* that is due fires before the clock goes on, since the main loop runs    *)
(* it.  DriverLoop shows that a queued temperature leaves within a bounded *)
(* time on a link that stays up (RemoteTemperatureNotStalled): that bound  *)
(* is SendBound here, and the two ways out are one action.  Both write on  *)
(* an active link only, so the retry slot of write_packet has no part.     *)
(*                                                                         *)
(* A temperature is an integer, in tenths of a degree.                     *)
(***************************************************************************)
EXTENDS WireFormat

CONSTANTS
    Samples,            \* what Home Assistant may send, 0 ("revert") apart
    Internal,           \* no remote temperature
    MinSendInterval,    \* REMOTE_TEMP_MIN_SEND_INTERVAL_MS
    MinKeepAlive,       \* the 20 s below which the keep-alive interval is raised
    KeepAlive,          \* the interval that is configured
    Timeouts,           \* the watchdog delays that may be configured, 0 is "never"
    SendBound,          \* how long a temperature is queued on a link that stays up
    Margin              \* remote_temp_margin_, 0.4 degrees by default

ASSUME RemoteAssumption ==
    /\ Samples \subseteq Int \ {0}
    /\ Internal \notin Int
    /\ MinSendInterval \in Nat \ {0}
    /\ MinKeepAlive \in Nat \ {0}
    /\ KeepAlive \in Nat
    /\ Timeouts \subseteq Nat
    /\ SendBound \in Nat
    /\ Margin \in Nat

VARIABLES
    remote_temperature,
    remote_temp_timeout,    \* remote_temp_timeout_, 0 when never
    queued_for,             \* should_send_external_temperature_: how long, or NotQueued
    last_sent,              \* last_remote_temp_sent_
    since_send,             \* the age of last_remote_temp_send_ms_, Never when it is 0
    deferred,               \* "deferred_remote_temp_send": time left, or Off
    watchdog,               \* SCHEDULER_REMOTE_TEMP_TIMEOUT: time left, or Off
    keepalive,              \* SCHEDULER_REMOTE_TEMP_KEEPALIVE: time left, or Off when inactive
    connected,              \* is_heatpump_connected
    unit,                   \* what the unit regulates on, as it was told
    sample_age,             \* history: time since the last sample, while one is held
    unfed_for               \* history: how long a connected unit was not sent the value held

timerVars == <<deferred, watchdog, keepalive>>
sentVars == <<last_sent, since_send>>
vars == <<remote_temperature, remote_temp_timeout, queued_for, last_sent, since_send, deferred,
          watchdog, keepalive, connected, unit, sample_age, unfed_for>>

NotQueued == -1
Never == -1
Off == -1

-----------------------------------------------------------------------------
(***************************************************************************)
(* What is on the wire.                                                    *)
(***************************************************************************)
\* No sample is outside -64 .. 63.5 degrees, where the byte is exact.  The code does not
\* check it: two samples 128 degrees apart have the same byte.
SamplesFitTheByte == \A t \in Samples : HalfDegrees(t) + 128 \in 0 .. 255

\* What the packet tells the unit.
Wire(t) == IF t = Internal THEN Internal ELSE encode_remote_temperature(t)

Told == {Wire(t) : t \in Samples} \union {Internal}

\* decoder.h: the unit took our value if it reports one close to it.
unit_adopted_remote_temperature(reported, remote, active) ==
    /\ active
    /\ remote # Internal
    /\ reported - remote \in -Margin .. Margin

-----------------------------------------------------------------------------
(***************************************************************************)
(* Configuration.                                                          *)
(***************************************************************************)
\* set_remote_temp_keepalive_interval
keepalive_interval == Larger(KeepAlive, MinKeepAlive)

\* The histories count no further than it takes to tell.
feeding_period == keepalive_interval + SendBound

Held == Samples \union {Internal}

TypeOK ==
    /\ remote_temperature \in Held
    /\ remote_temp_timeout \in Timeouts
    /\ queued_for \in 0 .. SendBound \union {NotQueued}
    /\ last_sent \in Held
    /\ since_send \in 0 .. MinSendInterval \union {Never}
    /\ deferred \in 0 .. MinSendInterval \union {Off}
    /\ watchdog \in 0 .. remote_temp_timeout \union {Off}
    /\ keepalive \in 0 .. keepalive_interval \union {Off}
    /\ connected \in BOOLEAN
    /\ unit \in Told
    /\ sample_age \in 0 .. remote_temp_timeout + 1
    /\ unfed_for \in 0 .. feeding_period + 1

(***************************************************************************)
(* The functions that the handlers call.                                   *)
(***************************************************************************)
queue_remote_temperature_send == queued_for' = Larger(queued_for, 0)

ping_external_temperature ==
    watchdog' = IF remote_temp_timeout = 0 THEN watchdog ELSE remote_temp_timeout

\* Mutant: each sample starts the interval anew.
MutStartKeepAliveAnew == keepalive' = keepalive_interval

\* The first period of an ESPHome interval is shorter, by a random amount.
start_remote_temp_keep_alive ==
    \/ /\ keepalive = Off
       /\ keepalive' \in 0 .. keepalive_interval
    \/ /\ keepalive # Off
       /\ UNCHANGED keepalive

\* Mutant: the sample is compared with the one before it, sent or not.
MutByteUnchangedSinceLastSample(t) ==
    /\ remote_temperature # Internal
    /\ encode_temperature_b(remote_temperature) = encode_temperature_b(t)
    /\ since_send # Never

byte_unchanged(t) ==
    /\ last_sent # Internal
    /\ encode_temperature_b(last_sent) = encode_temperature_b(t)
    /\ since_send # Never

may_send_now == since_send \in {Never, MinSendInterval}

(***************************************************************************)
(* Home Assistant: an action, or the state of the source sensor.  A sample *)
(* that is not a number is ignored.                                        *)
(***************************************************************************)
set_remote_temperature(t) ==
    /\ remote_temperature' = t
    /\ sample_age' = 0
    /\ ping_external_temperature
    /\ start_remote_temp_keep_alive
    /\ \/ /\ byte_unchanged(t)
          /\ deferred' = Off
          /\ UNCHANGED queued_for
       \/ /\ ~byte_unchanged(t)
          /\ may_send_now
          /\ deferred' = Off
          /\ queue_remote_temperature_send
       \/ /\ ~byte_unchanged(t)
          /\ ~may_send_now
          /\ deferred' = MinSendInterval - since_send
          /\ UNCHANGED queued_for
    /\ UNCHANGED <<remote_temp_timeout, sentVars, connected, unit, unfed_for>>

\* Mutant: the watchdog is re-armed, as it is by a sample.
MutClearRearms ==
    /\ remote_temperature' = Internal
    /\ sample_age' = 0
    /\ unfed_for' = 0
    /\ ping_external_temperature
    /\ keepalive' = Off
    /\ deferred' = Off
    /\ queue_remote_temperature_send
    /\ UNCHANGED <<remote_temp_timeout, sentVars, connected, unit>>

clear_remote_temperature ==
    /\ remote_temperature' = Internal
    /\ sample_age' = 0
    /\ unfed_for' = 0
    /\ watchdog' = Off
    /\ keepalive' = Off
    /\ deferred' = Off
    /\ queue_remote_temperature_send
    /\ UNCHANGED <<remote_temp_timeout, sentVars, connected, unit>>

HomeAssistant ==
    \/ \E t \in Samples : set_remote_temperature(t)
    \/ clear_remote_temperature

(***************************************************************************)
(* Timers.                                                                 *)
(***************************************************************************)
\* send_remote_temperature_deferred
DeferredTimer ==
    /\ deferred = 0
    /\ deferred' = Off
    /\ queue_remote_temperature_send
    /\ UNCHANGED <<remote_temperature, remote_temp_timeout, sentVars, watchdog, keepalive,
                   connected, unit, sample_age, unfed_for>>

Watchdog ==
    /\ watchdog = 0
    /\ clear_remote_temperature

KeepAliveQueues == remote_temperature # Internal /\ connected

\* Mutant: the keep-alive counts as a sample.
MutKeepAlivePings ==
    /\ keepalive = 0
    /\ keepalive' = keepalive_interval
    /\ IF KeepAliveQueues
         THEN queue_remote_temperature_send /\ ping_external_temperature
         ELSE UNCHANGED <<queued_for, watchdog>>
    /\ UNCHANGED <<remote_temperature, remote_temp_timeout, sentVars, deferred, connected, unit,
                   sample_age, unfed_for>>

\* Mutant: a keep-alive is sent only when the driver thinks the unit lacks the value.
MutKeepAliveOnlyOnChange ==
    /\ keepalive = 0
    /\ keepalive' = keepalive_interval
    /\ IF KeepAliveQueues /\ Wire(last_sent) # Wire(remote_temperature)
         THEN queue_remote_temperature_send
         ELSE UNCHANGED queued_for
    /\ UNCHANGED <<remote_temperature, remote_temp_timeout, sentVars, deferred, watchdog,
                   connected, unit, sample_age, unfed_for>>

KeepAliveTimer ==
    /\ keepalive = 0
    /\ keepalive' = keepalive_interval
    /\ IF KeepAliveQueues
         THEN queue_remote_temperature_send
         ELSE UNCHANGED queued_for
    /\ UNCHANGED <<remote_temperature, remote_temp_timeout, sentVars, deferred, watchdog,
                   connected, unit, sample_age, unfed_for>>

(***************************************************************************)
(* send_remote_temperature, at the end of a cycle (a late answer may end   *)
(* one while the link is down) or from the safety net of loop().  What is  *)
(* sent is what is held now.  The driver does not read the acknowledgement *)
(* and records the value as sent, whether the unit gets it or not.         *)
(***************************************************************************)
send_remote_temperature(told) ==
    /\ queued_for # NotQueued
    /\ queued_for' = NotQueued
    /\ deferred' = Off
    /\ last_sent' = remote_temperature
    /\ since_send' = 0
    /\ unit' = told
    /\ unfed_for' = 0
    /\ UNCHANGED <<remote_temperature, remote_temp_timeout, watchdog, keepalive, connected,
                   sample_age>>

SendDelivered == send_remote_temperature(Wire(remote_temperature))
SendLost == send_remote_temperature(unit)

(***************************************************************************)
(* The link, the unit and time.                                            *)
(***************************************************************************)
\* A reconnection starts the wait for a cycle anew.
LinkDown ==
    /\ connected
    /\ connected' = FALSE
    /\ queued_for' = Smaller(queued_for, 0)
    /\ unfed_for' = 0
    /\ UNCHANGED <<remote_temperature, remote_temp_timeout, sentVars, timerVars, unit,
                   sample_age>>

LinkUp ==
    /\ ~connected
    /\ connected' = TRUE
    /\ UNCHANGED <<remote_temperature, remote_temp_timeout, queued_for, sentVars, timerVars,
                   unit, sample_age, unfed_for>>

\* The unit goes back to its own sensor, silently; when is its own affair.
UnitFallsBack ==
    /\ unit # Internal
    /\ unit' = Internal
    /\ UNCHANGED <<remote_temperature, remote_temp_timeout, queued_for, sentVars, timerVars,
                   connected, sample_age, unfed_for>>

Left(timer) == IF timer = Off THEN Off ELSE timer - 1

Tick ==
    /\ 0 \notin {deferred, watchdog, keepalive}
    /\ connected => queued_for # SendBound
    /\ deferred' = Left(deferred)
    /\ watchdog' = Left(watchdog)
    /\ keepalive' = Left(keepalive)
    /\ since_send' = IF since_send = Never THEN Never
                                           ELSE Smaller(since_send + 1, MinSendInterval)
    /\ queued_for' = IF queued_for = NotQueued \/ ~connected THEN queued_for
                                                             ELSE queued_for + 1
    /\ sample_age' = IF remote_temperature = Internal \/ remote_temp_timeout = 0
                       THEN 0 ELSE Smaller(sample_age + 1, remote_temp_timeout + 1)
    /\ unfed_for' = IF remote_temperature = Internal \/ ~connected
                      THEN 0 ELSE Smaller(unfed_for + 1, feeding_period + 1)
    /\ UNCHANGED <<remote_temperature, remote_temp_timeout, last_sent, connected, unit>>

(***************************************************************************)
(* Boot.  The setup code configures the timeout, which starts the watchdog *)
(* although no sample has come yet.                                        *)
(***************************************************************************)
Init ==
    /\ remote_temperature = Internal
    /\ remote_temp_timeout \in Timeouts
    /\ queued_for = NotQueued
    /\ last_sent = Internal
    /\ since_send = Never
    /\ deferred = Off
    /\ watchdog = IF remote_temp_timeout = 0 THEN Off ELSE remote_temp_timeout
    /\ keepalive = Off
    /\ connected = FALSE
    /\ unit = Internal
    /\ sample_age = 0
    /\ unfed_for = 0

Timers == DeferredTimer \/ Watchdog \/ KeepAliveTimer
Link == LinkDown \/ LinkUp

Next ==
    HomeAssistant \/ Timers \/ SendDelivered \/ SendLost \/ Link \/ UnitFallsBack \/ Tick

Spec == Init /\ [][Next]_vars

\* The main loop runs timers and cycles again and again.  A frame that is sent again
\* and again gets through once.  A unit that is not fed uses its own sensor in the end.
Fairness ==
    /\ WF_vars(Tick)
    /\ WF_vars(DeferredTimer)
    /\ WF_vars(Watchdog)
    /\ WF_vars(KeepAliveTimer)
    /\ SF_vars(SendDelivered)
    /\ WF_vars(remote_temperature = Internal /\ queued_for = NotQueued /\ UnitFallsBack)

FairSpec == Spec /\ Fairness

-----------------------------------------------------------------------------
(***************************************************************************)
(* Properties.                                                             *)
(***************************************************************************)

\* Whatever order samples, timers and sends come in, a temperature that differs from
\* the one sent last is on its way: queued, or deferred.  Each cancellation of the
\* deferred send (an equal sample, a send, a clear) must leave one of them.
ChangeNotForgotten ==
    Wire(remote_temperature) # Wire(last_sent) => queued_for # NotQueued \/ deferred # Off

\* While a value is held and the link is up, the unit is sent it at least once per
\* keep-alive interval and a cycle, however stable the value is and however often
\* equal samples arrive: a unit that is not fed silently uses its own sensor.
FedInTime == unfed_for <= feeding_period

InRange(t) == t \in 80 .. 375

\* When the unit does regulate on the value held, what it reports is recognized as
\* such: the keep-alive is active, and the half degree is within the margin.
AdoptionIsSeen ==
    remote_temperature # Internal /\ InRange(remote_temperature)
      /\ unit = Wire(remote_temperature)
      => unit_adopted_remote_temperature(decode_temperature_b(unit), remote_temperature,
                                         keepalive # Off)

\* The abstract feed is implemented: the unit is only ever told what is held at that
\* moment, although the send was queued for an earlier value, and a value is held no
\* longer than its lease, which the keep-alive does not extend.
Feed == INSTANCE RemoteFeed WITH
            wanted <- Wire(remote_temperature),
            age    <- sample_age,
            lease  <- remote_temp_timeout

FeedIsImplemented == Feed!Spec

\* On a link that stays up a value that stays is what the unit regulates on again and
\* again, although any frame may be lost and the loss is not noticed.
UnitFollows ==
    <>[]connected =>
      \A t \in Samples :
        <>[](remote_temperature = t) => []<>(unit = Wire(t))

\* When no more samples come and the timeout is not "never", the unit is back on
\* its own sensor, and the watchdog is at rest: reverting does not re-arm it, which would
\* send the revert again once per timeout for ever.
WatchdogReverts ==
    <>[]connected /\ <>[][\A t \in Samples : ~set_remote_temperature(t)]_vars =>
      (remote_temp_timeout # 0 => <>[](unit = Internal /\ watchdog = Off))
=============================================================================
