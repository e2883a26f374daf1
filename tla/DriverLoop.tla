----------------------------- MODULE DriverLoop -----------------------------
(***************************************************************************)
(* The main loop of the driver during its connected life: loop() choosing  *)
(* one action per iteration (scheduling_policy.h), the info cycle          *)
(* (CycleManagement and the request chain of RequestScheduler), the writes *)
(* Home Assistant asks for, the single retry slot of write_packet, and the *)
(* unit at the other end of the half-duplex UART.                          *)
(*                                                                         *)
(* Time is explicit: Tick advances the unsigned clock by one grid point,   *)
(* and only after loop() has taken a decision since the previous tick, so  *)
(* that "how late can it get" is a safety question.                        *)
(*                                                                         *)
(* A frame on the wire is represented by the answer it will elicit: a      *)
(* request code, Ack for any SET frame, Hello for CONNECT.  `owed` is what *)
(* the unit has yet to answer, oldest first; it answers or loses each.     *)
(***************************************************************************)
EXTENDS SchedulingPolicy, Sequences

CONSTANTS
    NumRequests,          \* registered info requests; 1 is 0x02, the only one never skipped
    CycleTimeoutMargin,   \* the 1000 ms of does_cycle_time_out
    DeferDelay,           \* how far defer_cycle pushes the next cycle
    ResponseFactor,       \* MAX_DELAY_RESPONSE_FACTOR
    DebounceDelay,        \* debounce_delay_
    FnAckDelay,           \* the 500 ms fallback of fn_set_part2
    WriteRetryDelay,      \* the 4 s "write" timer
    ConnectCheckDelay,    \* the 10 s "checkFirstConnection" timer
    Clients,              \* which Home Assistant requests happen
    LateAnswers,          \* may the unit answer a frame after a cycle timed out waiting?
    Horizon,              \* bound on the clock; outside Millis means none, so it wraps
    StartTimes,           \* clock values at which the first connection succeeds
    MaxOwed               \* bound on the frames the unit has yet to answer

ClientKinds == {"settings", "run_states", "functions", "remote"}

ASSUME DriverAssumption ==
    /\ NumRequests \in Nat \ {0}
    /\ CycleTimeoutMargin \in Nat
    /\ DeferDelay \in Nat
    /\ ResponseFactor \in Nat \ {0}
    /\ DebounceDelay \in Nat
    /\ FnAckDelay \in Nat \ {0}
    /\ WriteRetryDelay \in Nat \ {0}
    /\ ConnectCheckDelay \in Nat \ {0}
    /\ Clients \subseteq ClientKinds
    /\ LateAnswers \in BOOLEAN
    /\ Horizon \in Nat
    /\ StartTimes \subseteq Millis
    /\ MaxOwed \in Nat \ {0}

\* Every window the code compares an age with fits the clock.
ASSUME ClockIsWide ==
    /\ remote_temp_stall_threshold + 3 < ClockMod
    /\ DeferDelay < ClockMod

VARIABLES
    now,                  \* CUSTOM_MILLIS
    looped,               \* loop() has taken a decision since the last tick
    connected,            \* state_ = CONNECTED (CONNECTING otherwise)
    cycle_running, last_cycle_start, last_complete_cycle, last_cycle_end,
    wanted_settings,      \* has_changed, has_payload and last_change of wanted_settings_
    wanted_run_states,    \* has_changed and last_change of wanted_run_states_
    set_functions_wanted, \* is_set_functions_
    functions_part2,      \* when fn_set_part2 was armed, or None when no part 2 is pending
    remote_pending, remote_pending_since,
    remote_queued_at,     \* history: when the pending remote temperature was first queued
    last_send, last_response, last_connect_rq,
    pending_packet,       \* the retry slot of write_packet, or NoPacket
    owed                  \* the wire and the unit

cycleVars == <<cycle_running, last_cycle_start, last_complete_cycle, last_cycle_end>>
linkVars  == <<connected, last_send, last_connect_rq, pending_packet, owed>>
wantVars  == <<wanted_settings, wanted_run_states, set_functions_wanted>>
remoteVars == <<remote_pending, remote_pending_since, remote_queued_at>>
vars == <<now, looped, connected, cycle_running, last_cycle_start, last_complete_cycle,
          last_cycle_end, wanted_settings, wanted_run_states, set_functions_wanted,
          functions_part2, remote_pending, remote_pending_since, remote_queued_at, last_send,
          last_response, last_connect_rq, pending_packet, owed>>

Ack == 0
Codes == 1 .. NumRequests
NoPacket == NumRequests + 1
Hello == NumRequests + 2
Frames == Codes \union {Ack, Hello}
None == ClockMod

Settings == [has_changed : BOOLEAN, has_payload : BOOLEAN, last_change : Millis]
RunStates == [has_changed : BOOLEAN, last_change : Millis]

TypeOK ==
    /\ now \in Millis
    /\ looped \in BOOLEAN
    /\ connected \in BOOLEAN
    /\ cycle_running \in BOOLEAN
    /\ last_cycle_start \in Millis
    /\ last_complete_cycle \in Millis
    /\ last_cycle_end \in Millis
    /\ wanted_settings \in Settings
    /\ wanted_run_states \in RunStates
    /\ set_functions_wanted \in BOOLEAN
    /\ functions_part2 \in Millis \union {None}
    /\ remote_pending \in BOOLEAN
    /\ remote_pending_since \in Millis
    /\ remote_queued_at \in Millis
    /\ last_send \in Millis
    /\ last_response \in Millis
    /\ last_connect_rq \in Millis
    /\ pending_packet \in Frames \union {NoPacket}
    /\ owed \in Seq(Frames)

Elapsed(t) == Minus(now, t)

\* last_change is never read while has_changed is FALSE, so it is normalised to 0.
NoSettings == [has_changed |-> FALSE, has_payload |-> FALSE, last_change |-> 0]
NoRunStates == [has_changed |-> FALSE, last_change |-> 0]

(***************************************************************************)
(* The unit.  It remembers at most MaxOwed frames: a frame written to a    *)
(* unit that is further behind pushes the oldest one out.                  *)
(***************************************************************************)
Owe(queue, frame) ==
    IF Len(queue) < MaxOwed THEN Append(queue, frame) ELSE Append(Tail(queue), frame)

(***************************************************************************)
(* The link: write_packet and the reconnection it falls back on.  These    *)
(* say what becomes of linkVars; `queue` is what the unit owes so far.     *)
(***************************************************************************)
is_heatpump_connection_active == Elapsed(last_response) < ResponseFactor * UpdateInterval

Transmit(queue, frame) ==
    /\ owed' = Owe(queue, frame)
    /\ last_send' = now

\* reconnect_uart and the CONNECT frame of send_first_connection_packet.
reconnect_uart ==
    /\ connected' = FALSE
    /\ last_connect_rq' = now
    /\ Transmit(owed, Hello)

write_packet(frame) ==
    \/ /\ is_heatpump_connection_active
       /\ Transmit(owed, frame)
       /\ UNCHANGED <<connected, last_connect_rq, pending_packet>>
    \/ /\ ~is_heatpump_connection_active
       /\ reconnect_uart
       /\ pending_packet' = frame

reconnect_if_connection_lost ==
    IF Elapsed(last_connect_rq) > UpdateInterval /\ ~is_heatpump_connection_active
      THEN reconnect_uart /\ UNCHANGED pending_packet
      ELSE UNCHANGED linkVars

(***************************************************************************)
(* CycleManagement.                                                        *)
(***************************************************************************)
cycle_init ==
    /\ cycle_running' = FALSE
    /\ last_complete_cycle' = now
    /\ last_cycle_end' = now
    /\ UNCHANGED last_cycle_start

defer_cycle ==
    /\ last_complete_cycle' = Plus(now, DeferDelay)
    /\ UNCHANGED <<cycle_running, last_cycle_start, last_cycle_end>>

cycle_started ==
    /\ cycle_running' = TRUE
    /\ last_cycle_start' = now
    /\ UNCHANGED <<last_complete_cycle, last_cycle_end>>

\* Mutant: the end of the cycle is not recorded for the starvation guard.
MutCycleEndedUnrecorded ==
    /\ cycle_running' = FALSE
    /\ last_complete_cycle' = IF last_complete_cycle < now THEN now ELSE last_complete_cycle
    /\ UNCHANGED <<last_cycle_start, last_cycle_end>>

cycle_ended ==
    /\ cycle_running' = FALSE
    /\ last_cycle_end' = now
    /\ last_complete_cycle' = IF last_complete_cycle < now THEN now ELSE last_complete_cycle
    /\ UNCHANGED last_cycle_start

cycle_timeout == 2 * UpdateInterval + CycleTimeoutMargin

\* Mutant: a cycle is given the starvation threshold to end.
MutDoesCycleTimeOutLate == Elapsed(last_cycle_start) > cycle_starvation_threshold

does_cycle_time_out ==
    /\ now >= last_cycle_start
    /\ Elapsed(last_cycle_start) > cycle_timeout

(***************************************************************************)
(* Time.                                                                   *)
(***************************************************************************)
Tick ==
    /\ connected => looped
    /\ functions_part2 # None => Elapsed(functions_part2) < FnAckDelay
    /\ now # Horizon
    /\ now' = Plus(now, 1)
    /\ looped' = FALSE
    /\ UNCHANGED <<cycleVars, wantVars, remoteVars, functions_part2, last_response, linkVars>>

(***************************************************************************)
(* Home Assistant: calls, selects, buttons and timers that ask for a write.*)
(***************************************************************************)
\* control(), the vane selects and evaluate_fan_stop_and_ltp; the payload is
\* empty when the reconciler suppressed the command.
RequestSettings ==
    /\ "settings" \in Clients
    /\ \E payload \in BOOLEAN :
         wanted_settings' = [has_changed |-> TRUE,
                             has_payload |-> wanted_settings.has_payload \/ payload,
                             last_change |-> now]
    /\ UNCHANGED <<now, looped, cycleVars, wanted_run_states, set_functions_wanted, remoteVars,
                   functions_part2, last_response, linkVars>>

RequestRunStates ==
    /\ "run_states" \in Clients
    /\ wanted_run_states' = [has_changed |-> TRUE, last_change |-> now]
    /\ UNCHANGED <<now, looped, cycleVars, wanted_settings, set_functions_wanted, remoteVars,
                   functions_part2, last_response, linkVars>>

RequestFunctions ==
    /\ "functions" \in Clients
    /\ set_functions_wanted' = TRUE
    /\ UNCHANGED <<now, looped, cycleVars, wanted_settings, wanted_run_states, remoteVars,
                   functions_part2, last_response, linkVars>>

\* Mutant: queueing a temperature again restarts the stall clock.
MutQueueRestartsStallClock ==
    /\ "remote" \in Clients
    /\ remote_pending' = TRUE
    /\ remote_pending_since' = now
    /\ remote_queued_at' = IF remote_pending THEN remote_queued_at ELSE now
    /\ UNCHANGED <<now, looped, cycleVars, wantVars, functions_part2, last_response, linkVars>>

queue_remote_temperature_send ==
    /\ "remote" \in Clients
    /\ remote_pending' = TRUE
    /\ remote_pending_since' = IF remote_pending THEN remote_pending_since ELSE now
    /\ remote_queued_at' = IF remote_pending THEN remote_queued_at ELSE now
    /\ UNCHANGED <<now, looped, cycleVars, wantVars, functions_part2, last_response, linkVars>>

\* send_remote_temperature clears the queue before it writes.
remote_sent ==
    /\ remote_pending' = FALSE
    /\ remote_pending_since' = 0
    /\ remote_queued_at' = 0

(***************************************************************************)
(* loop(), when no input is available and the handshake succeeded.         *)
(***************************************************************************)
LoopInputs ==
    [now                 |-> now,
     cycle_running       |-> cycle_running,
     last_cycle_end      |-> last_cycle_end,
     last_complete_cycle |-> last_complete_cycle,
     settings_changed    |-> wanted_settings.has_changed,
     run_states_changed  |-> wanted_run_states.has_changed,
     set_functions       |-> set_functions_wanted,
     remote_pending      |-> remote_pending,
     remote_since        |-> remote_pending_since,
     last_send           |-> last_send]

Decides(action) ==
    /\ connected
    /\ decide_loop_action(LoopInputs) = action
    /\ looped' = TRUE
    /\ UNCHANGED <<now, last_response>>

\* check_timeout.  A punctual unit has by then answered, or lost, all it was sent.
CheckCycleTimeout ==
    /\ Decides("CHECK_CYCLE_TIMEOUT")
    /\ \/ /\ does_cycle_time_out
          /\ cycle_ended
          /\ owed' = IF LateAnswers THEN owed ELSE << >>
       \/ /\ ~does_cycle_time_out
          /\ UNCHANGED <<cycleVars, owed>>
    /\ UNCHANGED <<wantVars, remoteVars, functions_part2, connected, last_send,
                   last_connect_rq, pending_packet>>

\* send_pending_remote_temperature_: with the link down, only restart the stall clock.
SendPendingRemoteTemperature ==
    /\ Decides("SEND_REMOTE_TEMP")
    /\ \/ /\ is_heatpump_connection_active
          /\ remote_sent
          /\ write_packet(Ack)
       \/ /\ ~is_heatpump_connection_active
          /\ remote_pending_since' = now
          /\ UNCHANGED <<remote_pending, remote_queued_at, linkVars>>
    /\ UNCHANGED <<cycleVars, wantVars, functions_part2>>

ReadyToSend(wanted) ==
    /\ Elapsed(wanted.last_change) >= DebounceDelay
    /\ Elapsed(last_send) > WriteGap

\* Mutant: the link is not checked, so on an inactive one the packet goes to the slot.
MutSendWantedSettingsUnchecked ==
    /\ Decides("SEND_SETTINGS")
    /\ \/ /\ ~ReadyToSend(wanted_settings)
          /\ UNCHANGED <<wanted_settings, cycleVars, linkVars>>
       \/ /\ ReadyToSend(wanted_settings)
          /\ wanted_settings' = NoSettings
          /\ IF wanted_settings.has_payload
               THEN write_packet(Ack) /\ defer_cycle
               ELSE UNCHANGED <<cycleVars, linkVars>>
    /\ UNCHANGED <<wanted_run_states, set_functions_wanted, remoteVars, functions_part2>>

\* check_pending_wanted_settings and send_wanted_settings.
SendWantedSettings ==
    /\ Decides("SEND_SETTINGS")
    /\ \/ /\ ~ReadyToSend(wanted_settings)
          /\ UNCHANGED <<wanted_settings, cycleVars, linkVars>>
       \/ /\ ReadyToSend(wanted_settings)
          /\ ~wanted_settings.has_payload
          /\ wanted_settings' = NoSettings
          /\ UNCHANGED <<cycleVars, linkVars>>
       \/ /\ ReadyToSend(wanted_settings)
          /\ wanted_settings.has_payload
          /\ is_heatpump_connection_active
          /\ write_packet(Ack)
          /\ wanted_settings' = NoSettings
          /\ defer_cycle
       \/ /\ ReadyToSend(wanted_settings)
          /\ wanted_settings.has_payload
          /\ ~is_heatpump_connection_active
          /\ reconnect_if_connection_lost
          /\ UNCHANGED <<wanted_settings, cycleVars>>
    /\ UNCHANGED <<wanted_run_states, set_functions_wanted, remoteVars, functions_part2>>

\* check_pending_wanted_run_states and send_wanted_run_states.
SendWantedRunStates ==
    /\ Decides("SEND_RUN_STATES")
    /\ \/ /\ ~ReadyToSend(wanted_run_states)
          /\ UNCHANGED <<wanted_run_states, cycleVars, linkVars>>
       \/ /\ ReadyToSend(wanted_run_states)
          /\ write_packet(Ack)
          /\ wanted_run_states' = NoRunStates
          /\ defer_cycle
    /\ UNCHANGED <<wanted_settings, set_functions_wanted, remoteVars, functions_part2>>

\* The functions are written in two frames, or not at all before both halves were read.
SetFunctions ==
    /\ Decides("SET_FUNCTIONS")
    /\ set_functions_wanted' = FALSE
    /\ \/ /\ write_packet(Ack)
          /\ functions_part2' = now
       \/ UNCHANGED <<linkVars, functions_part2>>
    /\ UNCHANGED <<cycleVars, wanted_settings, wanted_run_states, remoteVars>>

\* build_and_send_requests_info_packets: the chain starts with the first request.
StartCycle ==
    /\ Decides("START_CYCLE")
    /\ cycle_started
    /\ write_packet(1)
    /\ UNCHANGED <<wantVars, remoteVars, functions_part2>>

Idle ==
    /\ Decides("IDLE")
    /\ UNCHANGED <<cycleVars, wantVars, remoteVars, functions_part2, linkVars>>

(***************************************************************************)
(* process_input: one frame read, checked and dispatched by                *)
(* process_command.  The answer marks the link active before it is         *)
(* handled, so whatever the handler writes is transmitted.                 *)
(***************************************************************************)
Answered(frame) ==
    /\ owed # << >>
    /\ Head(owed) = frame
    /\ last_response' = now
    /\ UNCHANGED <<now, looped, wantVars>>

\* terminate_cycle: the queued remote temperature, then the end of the cycle.
terminate_cycle(queue) ==
    /\ cycle_ended
    /\ IF remote_pending
         THEN remote_sent /\ Transmit(queue, Ack)
         ELSE /\ owed' = queue
              /\ UNCHANGED <<remoteVars, last_send>>

\* process_response: whoever asked, the next eligible request after `code` is
\* sent.  Which of the later requests are eligible (disabled, not due) is left open.
ReceiveData ==
    \E code \in Codes :
      /\ Answered(code)
      /\ \/ terminate_cycle(Tail(owed))
         \/ \E next \in code + 1 .. NumRequests :
              /\ Transmit(Tail(owed), next)
              /\ UNCHANGED <<cycleVars, remoteVars>>
      /\ UNCHANGED <<connected, last_connect_rq, pending_packet, functions_part2>>

\* 0x61: any acknowledgement releases a waiting second half of the functions.
ReceiveAck ==
    /\ Answered(Ack)
    /\ functions_part2' = None
    /\ \/ /\ functions_part2 # None
          /\ Transmit(Tail(owed), Ack)
       \/ /\ functions_part2 = None
          /\ owed' = Tail(owed)
          /\ UNCHANGED last_send
    /\ UNCHANGED <<cycleVars, remoteVars, connected, last_connect_rq, pending_packet>>

\* 0x7a / 0x7b.
ReceiveHello ==
    /\ Answered(Hello)
    /\ connected' = TRUE
    /\ cycle_init
    /\ owed' = Tail(owed)
    /\ UNCHANGED <<remoteVars, functions_part2, last_send, last_connect_rq, pending_packet>>

\* The unit, or the wire, loses the frame.
Lose ==
    /\ owed # << >>
    /\ owed' = Tail(owed)
    /\ UNCHANGED <<now, looped, cycleVars, wantVars, remoteVars, functions_part2, last_response,
                   connected, last_send, last_connect_rq, pending_packet>>

(***************************************************************************)
(* Timers.                                                                 *)
(***************************************************************************)
\* fn_set_part2: no acknowledgement of part 1 came, send part 2 anyway.
FunctionsPart2Timer ==
    /\ functions_part2 # None
    /\ Elapsed(functions_part2) >= FnAckDelay
    /\ functions_part2' = None
    /\ write_packet(Ack)
    /\ UNCHANGED <<now, looped, cycleVars, wantVars, remoteVars, last_response>>

\* "write": a failed write and the CONNECT it caused happen together, so the age
\* of the last CONNECT is the age of the timer.
try_write_pending_packet ==
    /\ pending_packet # NoPacket
    /\ Elapsed(last_connect_rq) >= WriteRetryDelay
    /\ \/ /\ is_heatpump_connection_active
          /\ Transmit(owed, pending_packet)
          /\ pending_packet' = NoPacket
          /\ UNCHANGED <<connected, last_connect_rq>>
       \/ /\ ~is_heatpump_connection_active
          /\ reconnect_uart
          /\ UNCHANGED pending_packet
    /\ UNCHANGED <<now, looped, cycleVars, wantVars, remoteVars, functions_part2, last_response>>

\* "checkFirstConnection".
CheckFirstConnection ==
    /\ ~connected
    /\ Elapsed(last_connect_rq) >= ConnectCheckDelay
    /\ reconnect_uart
    /\ UNCHANGED <<now, looped, cycleVars, wantVars, remoteVars, functions_part2, last_response,
                   pending_packet>>

(***************************************************************************)
(* The first handshake has just succeeded.                                 *)
(***************************************************************************)
Init ==
    /\ now \in StartTimes
    /\ looped = FALSE
    /\ connected = TRUE
    /\ cycle_running = FALSE
    /\ last_cycle_start = 0
    /\ last_complete_cycle = now
    /\ last_cycle_end = now
    /\ wanted_settings = NoSettings
    /\ wanted_run_states = NoRunStates
    /\ set_functions_wanted = FALSE
    /\ functions_part2 = None
    /\ remote_pending = FALSE
    /\ remote_pending_since = 0
    /\ remote_queued_at = 0
    /\ last_send = now
    /\ last_response = now
    /\ last_connect_rq = now
    /\ pending_packet = NoPacket
    /\ owed = << >>

HomeAssistant ==
    RequestSettings \/ RequestRunStates \/ RequestFunctions \/ queue_remote_temperature_send

LoopStep ==
    \/ CheckCycleTimeout \/ SendPendingRemoteTemperature \/ SendWantedSettings
    \/ SendWantedRunStates \/ SetFunctions \/ StartCycle \/ Idle

Unit == ReceiveData \/ ReceiveAck \/ ReceiveHello \/ Lose

Timers == FunctionsPart2Timer \/ try_write_pending_packet \/ CheckFirstConnection

Next == Tick \/ HomeAssistant \/ LoopStep \/ Unit \/ Timers

Spec == Init /\ [][Next]_vars

-----------------------------------------------------------------------------
(***************************************************************************)
(* Properties.                                                             *)
(***************************************************************************)

\* However many writes are requested, and across the wrap of the clock, the gap
\* between two cycles is bounded: past the starvation threshold the loop takes at
\* most one other action (a stalled remote temperature) before it starts a cycle.
CyclesNotStarved ==
    connected /\ ~cycle_running => Elapsed(last_cycle_end) <= cycle_starvation_threshold + 2

\* A cycle whose answer was lost releases the loop: no cycle outlives its timeout
\* by more than one iteration of the loop.
CycleTimesOut ==
    connected /\ cycle_running => Elapsed(last_cycle_start) <= cycle_timeout + 1

\* A queued remote temperature reaches the unit, through the end of a cycle or the
\* safety net, although a cycle may be in flight when the net is due, a write may have
\* just been sent and the keep-alive queues it again.  On a link not reconnected since.
RemoteTemperatureNotStalled ==
    connected /\ is_heatpump_connection_active /\ remote_pending
      /\ Elapsed(last_connect_rq) > Elapsed(remote_queued_at)
      => Elapsed(remote_queued_at)
           <= remote_temp_stall_threshold + cycle_timeout + 2 * WriteGap + 2

\* The converse of CyclesNotStarved: reads that outrank writes do not starve them.
\* On a link that was not reconnected since, a settled change of the settings is on
\* its way within one cycle, one other write and the throttles of the writes.
SettingsNotStalled ==
    connected /\ is_heatpump_connection_active /\ wanted_settings.has_changed
      /\ Elapsed(last_connect_rq) > Elapsed(wanted_settings.last_change)
      => Elapsed(wanted_settings.last_change) <= DebounceDelay + cycle_timeout + 3 * WriteGap + 4

\* What the user asked for is forgotten only when it is put on the wire in that very
\* step: settings and remote temperature never go through the single retry slot,
\* where another packet would overwrite them.
ForgottenOnlyWhenTransmitted ==
    [][ \/ /\ wanted_settings.has_changed
           /\ wanted_settings.has_payload
           /\ ~wanted_settings'.has_changed
        \/ /\ remote_pending
           /\ ~remote_pending'
        => /\ owed' # << >>
           /\ owed'[Len(owed')] = Ack
           /\ last_send' = now
           /\ UNCHANGED pending_packet ]_vars

\* The starvation guard is a safety net: when nothing goes before the cycles or defers
\* them (the remote temperature is all that is written), polling keeps its own pace and
\* the guard stays silent.
GuardSilentWithoutWrites ==
    Clients \subseteq {"remote"}
      => (connected /\ ~cycle_running => Elapsed(last_cycle_end) <= UpdateInterval + 2)

Outstanding(kind) == {i \in 1 .. Len(owed) : owed[i] \in kind}

\* The bus is serialized: the unit is never asked for a second piece of data while
\* it still owes the first.
OneRequestOutstanding ==
    \A i, j \in Outstanding(Codes) : i = j

\* No SET frame goes out while the unit owes the answer to a request.
SetsOutsideRequests ==
    [][ Len(owed') > Len(owed) /\ owed'[Len(owed')] = Ack
        => Outstanding(Codes) = {} ]_vars
=============================================================================
