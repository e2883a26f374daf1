----------------------------- MODULE Connection -----------------------------
(***************************************************************************)
(* The connection of the driver to the unit, from boot on: the DriverState *)
(* machine of cn105.h, the bootstrap (WiFi, grace delay, 120 s fallback),  *)
(* the CONNECT handshake with its 10 s check and its one fallback from the *)
(* installer to the standard handshake, write_packet with its single retry *)
(* slot, and the named timers that keep all this going.                    *)
(*                                                                         *)
(* Time advances by Tick; a named timer holds the number of ticks it still *)
(* waits plus one, 0 when it is not armed, and arming it again replaces it *)
(* as ESPHome's set_timeout does.  The info cycles appear only as Poll:    *)
(* DriverLoop shows that a connected driver starts one at least every      *)
(* PollPeriod.                                                             *)
(***************************************************************************)
EXTENDS Naturals

CONSTANTS
    LinkTimeout,       \* ten update intervals: the silence after which the link is inactive
    PollPeriod,        \* bound on the time between two info cycles while connected
    GraceDelay,        \* conn_bootstrap_delay_ms_
    BootstrapDelay,    \* the 120 s of cn105_bootstrap_timeout
    UartRetryDelay,    \* the 10 s of retry_uart_setup
    ConnectCheckDelay, \* the 10 s of checkFirstConnection
    WriteRetryDelay,   \* the 4 s of "write"
    FnAckDelay         \* the 500 ms of fn_set_part2

ASSUME ConnectionAssumption ==
    /\ LinkTimeout \in Nat \ {0}
    /\ PollPeriod \in Nat \ {0}
    /\ GraceDelay \in Nat
    /\ BootstrapDelay \in Nat \ {0}
    /\ UartRetryDelay \in Nat \ {0}
    /\ ConnectCheckDelay \in Nat \ {0}
    /\ WriteRetryDelay \in Nat \ {0}
    /\ FnAckDelay \in Nat \ {0}

VARIABLES
    state,                     \* the DriverState
    boot_age,                  \* age of boot_ms_, counted up to GraceDelay
    uart_retry_pending,
    installer_mode_effective, installer_mode_fallback_done,
    silence,                   \* age of last_response_ms_, counted up to LinkTimeout
    pending_packet,            \* the retry slot of write_packet
    functions_part2_pending,
    uptime_running,            \* the uptime sensor is counting
    timers,                    \* the named timers
    looped,                    \* loop() ran since the last tick
    wifi, installer_mode, uart_is_8E1,   \* the node: WiFi now, and its configuration
    unit_alive, unit_installer,          \* the unit: powered now, and whether it knows 0x5B
    connects,                  \* kinds of CONNECT frames it has yet to answer
    asked                      \* it has yet to answer some other frame

configVars == <<installer_mode, uart_is_8E1, unit_installer>>
handshakeVars == <<installer_mode_effective, installer_mode_fallback_done>>
bootVars == <<boot_age, uart_retry_pending>>
wireVars == <<connects, asked>>
linkVars == <<state, uptime_running, timers, pending_packet, connects, asked>>
vars == <<state, boot_age, uart_retry_pending, installer_mode_effective,
          installer_mode_fallback_done, silence, pending_packet, functions_part2_pending,
          uptime_running, timers, looped, wifi, installer_mode, uart_is_8E1, unit_alive,
          unit_installer, connects, asked>>

DriverStates == {"BOOT", "WAIT_WIFI", "WAIT_GRACE", "CONNECTING", "CONNECTED", "DISCONNECTED"}
UartReady == {"CONNECTING", "CONNECTED", "DISCONNECTED"}
Handshakes == {"standard", "installer"}
Packets == {"info", "run_states", "functions1", "functions2"}
NoPacket == "none"
Timers == {"bootstrap", "retry_uart", "check_connection", "write", "fn_set_part2", "poll"}

TypeOK ==
    /\ state \in DriverStates
    /\ boot_age \in 0 .. GraceDelay
    /\ uart_retry_pending \in BOOLEAN
    /\ installer_mode_effective \in BOOLEAN
    /\ installer_mode_fallback_done \in BOOLEAN
    /\ silence \in 0 .. LinkTimeout
    /\ pending_packet \in Packets \union {NoPacket}
    /\ functions_part2_pending \in BOOLEAN
    /\ uptime_running \in BOOLEAN
    /\ timers \in [Timers -> Nat]
    /\ looped \in BOOLEAN
    /\ wifi \in BOOLEAN
    /\ installer_mode \in BOOLEAN
    /\ uart_is_8E1 \in BOOLEAN
    /\ unit_alive \in BOOLEAN
    /\ unit_installer \in BOOLEAN
    /\ connects \subseteq Handshakes
    /\ asked \in BOOLEAN

is_uart_ready == state \in UartReady

Arm(tm, name, delay) == [tm EXCEPT ![name] = delay + 1]
Cancel(tm, name) == [tm EXCEPT ![name] = 0]
Armed(name) == timers[name] # 0
Due(name) == timers[name] = 1

(***************************************************************************)
(* setup_uart, send_first_connection_packet, reconnect_uart.  The first    *)
(* two leave the state of a driver whose UART is misconfigured alone (but  *)
(* for a connection that drops); `mode` is the handshake to use and `tm`   *)
(* the timers as the caller leaves them.                                   *)
(***************************************************************************)
\* Mutant: dropping the connection does not stop the uptime sensor.
MutSetupUartKeepsUptime ==
    /\ state' = IF uart_is_8E1 THEN "CONNECTING"
                ELSE IF state = "CONNECTED" THEN "DISCONNECTED" ELSE state
    /\ UNCHANGED uptime_running

setup_uart ==
    /\ state' = IF uart_is_8E1 THEN "CONNECTING"
                ELSE IF state = "CONNECTED" THEN "DISCONNECTED" ELSE state
    /\ uptime_running' = FALSE

\* Mutant: the answer to CONNECT is not checked after 10 s.
MutSendFirstUnchecked(installer, tm) ==
    /\ timers' = tm
    /\ IF state' \in UartReady
         THEN connects' = connects \union {IF installer THEN "installer" ELSE "standard"}
         ELSE UNCHANGED connects

send_first_connection_packet(installer, tm) ==
    IF state' \in UartReady
      THEN /\ connects' = connects \union {IF installer THEN "installer" ELSE "standard"}
           /\ timers' = Arm(tm, "check_connection", ConnectCheckDelay)
      ELSE /\ timers' = tm
           /\ UNCHANGED connects

reconnect_uart(installer, tm) ==
    /\ setup_uart
    /\ send_first_connection_packet(installer, tm)
    /\ UNCHANGED asked

(***************************************************************************)
(* write_packet: on the wire when the link is active, otherwise reconnect  *)
(* and keep the packet in the only retry slot.                             *)
(***************************************************************************)
is_heatpump_connection_active == silence < LinkTimeout

\* Mutant: the link is not checked before writing.
MutWriteUnchecked(packet, tm) ==
    /\ asked' = TRUE
    /\ timers' = tm
    /\ UNCHANGED <<state, uptime_running, pending_packet, connects>>

write_packet(packet, tm) ==
    \/ /\ is_uart_ready /\ is_heatpump_connection_active
       /\ asked' = TRUE
       /\ timers' = tm
       /\ UNCHANGED <<state, uptime_running, pending_packet, connects>>
    \/ /\ ~(is_uart_ready /\ is_heatpump_connection_active)
       /\ reconnect_uart(installer_mode_effective, Arm(tm, "write", WriteRetryDelay))
       /\ pending_packet' = packet

(***************************************************************************)
(* maybe_start_connection_, called by every iteration of loop().           *)
(***************************************************************************)
BootLoop ==
    /\ looped' = TRUE
    /\ UNCHANGED <<handshakeVars, silence, pending_packet, functions_part2_pending, wifi,
                   unit_alive, asked, configVars>>

\* Mutant: the 120 s fallback is armed only when WiFi is missing.
MutEnterWaitArmsForWifi ==
    /\ state = "BOOT"
    /\ BootLoop
    /\ state' = IF wifi THEN "WAIT_GRACE" ELSE "WAIT_WIFI"
    /\ timers' = IF wifi THEN timers ELSE Arm(timers, "bootstrap", BootstrapDelay)
    /\ UNCHANGED <<bootVars, uptime_running, connects>>

EnterWait ==
    /\ state = "BOOT"
    /\ BootLoop
    /\ state' = IF wifi THEN "WAIT_GRACE" ELSE "WAIT_WIFI"
    /\ timers' = Arm(timers, "bootstrap", BootstrapDelay)
    /\ UNCHANGED <<bootVars, uptime_running, connects>>

WaitWifi ==
    /\ state = "WAIT_WIFI"
    /\ BootLoop
    /\ IF wifi THEN state' = "WAIT_GRACE" /\ boot_age' = 0
               ELSE UNCHANGED <<state, boot_age>>
    /\ UNCHANGED <<uart_retry_pending, timers, uptime_running, connects>>

WaitGrace ==
    /\ state = "WAIT_GRACE"
    /\ BootLoop
    /\ IF uart_retry_pending \/ boot_age < GraceDelay
         THEN UNCHANGED <<state, uptime_running, uart_retry_pending, timers, connects>>
         ELSE /\ setup_uart
              /\ uart_retry_pending' = (state' \notin UartReady)
              /\ IF state' \in UartReady
                   THEN send_first_connection_packet(installer_mode_effective, timers)
                   ELSE /\ timers' = Arm(timers, "retry_uart", UartRetryDelay)
                        /\ UNCHANGED connects
    /\ UNCHANGED boot_age

ConnectionStarted ==
    /\ is_uart_ready
    /\ BootLoop
    /\ UNCHANGED <<state, bootVars, timers, uptime_running, connects>>

(***************************************************************************)
(* The writes of a connected driver.                                       *)
(***************************************************************************)
Connected ==
    /\ state = "CONNECTED"
    /\ UNCHANGED <<bootVars, handshakeVars, silence, looped, wifi, unit_alive, configVars>>

\* START_CYCLE: the first request of an info cycle.
Poll ==
    /\ Connected
    /\ write_packet("info", Arm(timers, "poll", PollPeriod))
    /\ UNCHANGED functions_part2_pending

\* Mutant: the write waits for a configured UART instead of a connected unit.
MutSendRunStatesEarly ==
    /\ is_uart_ready
    /\ write_packet("run_states", timers)
    /\ UNCHANGED <<bootVars, handshakeVars, silence, looped, wifi, unit_alive, configVars,
                   functions_part2_pending>>

SendRunStates ==
    /\ Connected
    /\ write_packet("run_states", timers)
    /\ UNCHANGED functions_part2_pending

\* set_functions: part 1 now, part 2 on the acknowledgement or after FnAckDelay.
SetFunctions ==
    /\ Connected
    /\ functions_part2_pending' = TRUE
    /\ write_packet("functions1", Arm(timers, "fn_set_part2", FnAckDelay))

\* send_wanted_settings on an inactive link: reconnect_if_connection_lost.  The
\* answer that made the driver CONNECTED is younger than the CONNECT it answers,
\* so a link silent for ten intervals was last contacted at least as long ago.
SettingsOnLostLink ==
    /\ Connected
    /\ ~is_heatpump_connection_active
    /\ reconnect_uart(installer_mode_effective, timers)
    /\ UNCHANGED <<functions_part2_pending, pending_packet>>

(***************************************************************************)
(* The named timers.                                                       *)
(***************************************************************************)
BootstrapTimeout ==
    /\ Due("bootstrap")
    /\ IF is_uart_ready
         THEN timers' = Cancel(timers, "bootstrap") /\ UNCHANGED <<state, uptime_running, connects>>
         ELSE /\ setup_uart
              /\ send_first_connection_packet(installer_mode_effective, Cancel(timers, "bootstrap"))
    /\ UNCHANGED <<bootVars, handshakeVars, silence, pending_packet, functions_part2_pending,
                   looped, wifi, unit_alive, asked, configVars>>

RetryUartTimeout ==
    /\ Due("retry_uart")
    /\ uart_retry_pending' = FALSE
    /\ timers' = Cancel(timers, "retry_uart")
    /\ UNCHANGED <<state, boot_age, handshakeVars, silence, pending_packet,
                   functions_part2_pending, uptime_running, looped, wifi, unit_alive, wireVars,
                   configVars>>

\* Mutant: every unanswered CONNECT swaps the handshake.
MutCheckFirstAlternates ==
    /\ Due("check_connection")
    /\ IF state = "CONNECTED"
         THEN /\ timers' = Cancel(timers, "check_connection")
              /\ UNCHANGED <<state, uptime_running, wireVars, handshakeVars>>
         ELSE /\ installer_mode_effective' = (installer_mode /\ ~installer_mode_effective)
              /\ installer_mode_fallback_done' = installer_mode
              /\ reconnect_uart(installer_mode_effective', Cancel(timers, "check_connection"))
    /\ UNCHANGED <<bootVars, silence, pending_packet, functions_part2_pending, looped, wifi,
                   unit_alive, configVars>>

\* Not connected after 10 s: fall back to the standard handshake once, and retry.
CheckFirstConnection ==
    LET fallback == installer_mode /\ installer_mode_effective /\ ~installer_mode_fallback_done
    IN
    /\ Due("check_connection")
    /\ IF state = "CONNECTED"
         THEN /\ timers' = Cancel(timers, "check_connection")
              /\ UNCHANGED <<state, uptime_running, wireVars, handshakeVars>>
         ELSE /\ installer_mode_effective' = (installer_mode_effective /\ ~fallback)
              /\ installer_mode_fallback_done' = (installer_mode_fallback_done \/ fallback)
              /\ reconnect_uart(installer_mode_effective', Cancel(timers, "check_connection"))
    /\ UNCHANGED <<bootVars, silence, pending_packet, functions_part2_pending, looped, wifi,
                   unit_alive, configVars>>

\* try_write_pending_packet.  Its branch for an unready UART cannot be taken:
\* see PendingIsRetried.
TryWritePendingPacket ==
    /\ Due("write")
    /\ \/ /\ is_heatpump_connection_active
          /\ asked' = TRUE
          /\ pending_packet' = NoPacket
          /\ timers' = Cancel(timers, "write")
          /\ UNCHANGED <<state, uptime_running, connects>>
       \/ /\ ~is_heatpump_connection_active
          /\ reconnect_uart(installer_mode_effective, Arm(timers, "write", WriteRetryDelay))
          /\ UNCHANGED pending_packet
    /\ UNCHANGED <<bootVars, handshakeVars, silence, functions_part2_pending, looped, wifi,
                   unit_alive, configVars>>

FunctionsPart2Timeout ==
    /\ Due("fn_set_part2")
    /\ functions_part2_pending' = FALSE
    /\ write_packet("functions2", Cancel(timers, "fn_set_part2"))
    /\ UNCHANGED <<bootVars, handshakeVars, silence, looped, wifi, unit_alive, configVars>>

(***************************************************************************)
(* The unit and the wire.                                                  *)
(***************************************************************************)
\* process_command 0x7a / 0x7b.
Hello ==
    \E kind \in connects :
      /\ unit_alive
      /\ kind = "installer" => unit_installer
      /\ connects' = connects \ {kind}
      /\ state' = "CONNECTED"
      /\ uptime_running' = TRUE
      /\ silence' = 0
      /\ timers' = Arm(timers, "poll", PollPeriod)
      /\ UNCHANGED <<bootVars, handshakeVars, pending_packet, functions_part2_pending, looped,
                     wifi, unit_alive, asked, configVars>>

\* Any other answer.  An acknowledgement releases a waiting part 2, whose write
\* succeeds because the answer has just marked the link active.
Answer ==
    /\ unit_alive
    /\ asked
    /\ silence' = 0
    /\ \/ /\ asked' = FALSE
          /\ UNCHANGED <<functions_part2_pending, timers>>
       \/ /\ functions_part2_pending
          /\ functions_part2_pending' = FALSE
          /\ timers' = Cancel(timers, "fn_set_part2")
          /\ UNCHANGED asked
    /\ UNCHANGED <<state, bootVars, handshakeVars, pending_packet, uptime_running, looped, wifi,
                   unit_alive, connects, configVars>>

Lose ==
    /\ \/ asked /\ asked' = FALSE /\ UNCHANGED connects
       \/ \E kind \in connects : connects' = connects \ {kind} /\ UNCHANGED asked
    /\ UNCHANGED <<state, bootVars, handshakeVars, silence, pending_packet,
                   functions_part2_pending, uptime_running, timers, looped, wifi, unit_alive,
                   configVars>>

UnitPower ==
    /\ unit_alive' = ~unit_alive
    /\ UNCHANGED <<state, bootVars, handshakeVars, silence, pending_packet,
                   functions_part2_pending, uptime_running, timers, looped, wifi, wireVars,
                   configVars>>

Wifi ==
    /\ wifi' = ~wifi
    /\ UNCHANGED <<state, bootVars, handshakeVars, silence, pending_packet,
                   functions_part2_pending, uptime_running, timers, looped, unit_alive, wireVars,
                   configVars>>

(***************************************************************************)
(* Time passes once loop() ran and every timer that is due has fired; the  *)
(* info cycles of a connected driver are never further apart than          *)
(* PollPeriod.                                                             *)
(***************************************************************************)
Tick ==
    /\ looped
    /\ \A t \in Timers \ {"poll"} : ~Due(t)
    /\ state = "CONNECTED" => ~Due("poll")
    /\ looped' = FALSE
    /\ timers' = [t \in Timers |-> IF timers[t] > 1 THEN timers[t] - 1 ELSE 0]
    /\ boot_age' = IF boot_age < GraceDelay THEN boot_age + 1 ELSE boot_age
    /\ silence' = IF silence < LinkTimeout THEN silence + 1 ELSE silence
    /\ UNCHANGED <<state, uart_retry_pending, handshakeVars, pending_packet,
                   functions_part2_pending, uptime_running, wifi, unit_alive, wireVars, configVars>>

\* setup() has run, loop() has not.
Init ==
    /\ state = "BOOT"
    /\ boot_age = 0
    /\ uart_retry_pending = FALSE
    /\ installer_mode \in BOOLEAN
    /\ installer_mode_effective = installer_mode
    /\ installer_mode_fallback_done = FALSE
    /\ silence = 0
    /\ pending_packet = NoPacket
    /\ functions_part2_pending = FALSE
    /\ uptime_running = FALSE
    /\ timers = [t \in Timers |-> 0]
    /\ looped = FALSE
    /\ wifi \in BOOLEAN
    /\ uart_is_8E1 \in BOOLEAN
    /\ unit_alive \in BOOLEAN
    /\ unit_installer \in BOOLEAN
    /\ connects = {}
    /\ asked = FALSE

Loop == EnterWait \/ WaitWifi \/ WaitGrace \/ ConnectionStarted
Writes == Poll \/ SendRunStates \/ SetFunctions \/ SettingsOnLostLink
Timeouts == BootstrapTimeout \/ RetryUartTimeout \/ CheckFirstConnection
            \/ TryWritePendingPacket \/ FunctionsPart2Timeout
Environment == Hello \/ Answer \/ Lose \/ UnitPower \/ Wifi

Next == Loop \/ Writes \/ Timeouts \/ Environment \/ Tick

Spec == Init /\ [][Next]_vars

\* Timers and loop() keep running, a powered unit reads frames now and then, and
\* not every handshake with a unit that understands it is lost.
Fairness ==
    /\ WF_vars(Tick)
    /\ WF_vars(Loop)
    /\ WF_vars(Poll)
    /\ WF_vars(BootstrapTimeout)
    /\ WF_vars(RetryUartTimeout)
    /\ WF_vars(CheckFirstConnection)
    /\ WF_vars(TryWritePendingPacket)
    /\ WF_vars(FunctionsPart2Timeout)
    /\ SF_vars(Hello)

FairSpec == Spec /\ Fairness

-----------------------------------------------------------------------------
(***************************************************************************)
(* Properties.                                                             *)
(***************************************************************************)

\* An unfinished handshake is never abandoned: while the driver is not connected,
\* the 10 s check that reconnects is armed, whichever path led there.
ConnectingIsWatched ==
    is_uart_ready /\ state # "CONNECTED" => Armed("check_connection")

\* The retry slot and its timer agree: a queued packet has its retry armed, and
\* it is queued only once the UART was set up (the branch of
\* try_write_pending_packet for an unready UART is dead).
PendingIsRetried ==
    /\ Armed("write") <=> pending_packet # NoPacket
    /\ Armed("write") => is_uart_ready

\* A boot that waits for WiFi or for the grace delay keeps its way out: the 120 s
\* fallback, which is armed once and never postponed, or a misconfigured UART
\* that no fallback could use.
WaitingHasAFallback ==
    state \in {"WAIT_WIFI", "WAIT_GRACE"} /\ uart_is_8E1 => Armed("bootstrap")

\* The back-off from a misconfigured UART always ends.
UartRetryIsArmed ==
    uart_retry_pending <=> Armed("retry_uart")

\* Nothing is waited for without the timer that ends the wait: a handshake, a queued
\* packet, a boot without WiFi, a back-off.
EveryWaitHasItsTimer ==
    ConnectingIsWatched /\ PendingIsRetried /\ WaitingHasAFallback /\ UartRetryIsArmed

\* The uptime sensor counts exactly while the driver is connected.
UptimeCountsTheConnection ==
    uptime_running <=> state = "CONNECTED"

\* The installer handshake is given up at most once, only when it was asked for,
\* and for good: a later reconnection never returns to it.
FallbackIsFinal ==
    [][ installer_mode_fallback_done
        => ~installer_mode_effective' /\ installer_mode_fallback_done' ]_vars

\* A packet leaves the retry slot by being written, unless it is overwritten by the
\* second half of the functions, the one write that does not wait for a connection.
SlotLostOnlyToFunctionsPart2 ==
    [][ pending_packet # NoPacket /\ pending_packet' # pending_packet
        => \/ pending_packet' = NoPacket /\ asked'
           \/ pending_packet' = "functions2" ]_vars

\* With a working UART, a unit that stays powered is connected again and again,
\* without WiFi, in either handshake, and whatever was lost before.
PoweredUnitIsConnected ==
    (uart_is_8E1 /\ <>[]unit_alive) => []<>(state = "CONNECTED")

\* A connected driver does not keep a link that stays silent.
SilentLinkIsLeft ==
    []<>(state # "CONNECTED" \/ is_heatpump_connection_active)
=============================================================================
