--------------------------- MODULE Connection_proofs ---------------------------
(***************************************************************************)
(* Theorems about the connection, for every duration of its timers.        *)
(***************************************************************************)
EXTENDS Connection, TLAPS

-----------------------------------------------------------------------------
(***************************************************************************)
(* The named timers.                                                       *)
(***************************************************************************)

\* Arming or cancelling a timer leaves the others as they are.
LEMMA ArmCancel ==
    ASSUME NEW tm \in [Timers -> Nat], NEW name \in Timers, NEW delay \in Nat
    PROVE  /\ Arm(tm, name, delay) \in [Timers -> Nat]
           /\ Arm(tm, name, delay)[name] # 0
           /\ Cancel(tm, name) \in [Timers -> Nat]
           /\ Cancel(tm, name)[name] = 0
           /\ \A other \in Timers \ {name} :
                /\ Arm(tm, name, delay)[other] = tm[other]
                /\ Cancel(tm, name)[other] = tm[other]
BY DEF Arm, Cancel

\* The delays are natural numbers.
LEMMA Delays ==
    /\ LinkTimeout \in Nat \ {0}
    /\ PollPeriod \in Nat
    /\ GraceDelay \in Nat
    /\ BootstrapDelay \in Nat
    /\ UartRetryDelay \in Nat
    /\ ConnectCheckDelay \in Nat
    /\ WriteRetryDelay \in Nat
    /\ FnAckDelay \in Nat
BY ConnectionAssumption

-----------------------------------------------------------------------------
(***************************************************************************)
(* The invariant.  The six checked ones are inductive once three facts are *)
(* added: only an 8E1 UART gets the driver past the bootstrap, and the     *)
(* timers and the CONNECTs of a started connection only come after it.     *)
(***************************************************************************)
ReadyUartIsValid == is_uart_ready => uart_is_8E1

StartedTimers == {"check_connection", "write", "fn_set_part2"}

TimersFollowTheStart == \A t \in StartedTimers : Armed(t) => is_uart_ready

ConnectFollowsTheStart == connects # {} => is_uart_ready

ConnInv ==
    /\ TypeOK
    /\ ConnectingIsWatched
    /\ PendingIsRetried
    /\ WaitingHasAFallback
    /\ UartRetryIsArmed
    /\ UptimeCountsTheConnection
    /\ ReadyUartIsValid
    /\ TimersFollowTheStart
    /\ ConnectFollowsTheStart

\* reconnect_uart with a valid UART: connecting, and watched.
LEMMA Reconnects ==
    ASSUME NEW installer, NEW tm \in [Timers -> Nat],
           TypeOK, uart_is_8E1, reconnect_uart(installer, tm)
    PROVE  /\ state' = "CONNECTING"
           /\ uptime_running' = FALSE
           /\ connects' \subseteq Handshakes
           /\ asked' = asked
           /\ timers' \in [Timers -> Nat]
           /\ timers'["check_connection"] # 0
           /\ \A t \in Timers \ {"check_connection"} : timers'[t] = tm[t]
<1>1. state' = "CONNECTING" /\ uptime_running' = FALSE /\ asked' = asked
  BY DEF reconnect_uart, setup_uart
<1>2. timers' = Arm(tm, "check_connection", ConnectCheckDelay) /\ connects' \subseteq Handshakes
  BY <1>1 DEF reconnect_uart, send_first_connection_packet, UartReady, Handshakes, TypeOK
<1>3. "check_connection" \in Timers
  BY DEF Timers
<1> QED BY <1>1, <1>2, <1>3, ArmCancel, Delays

\* What ConnInv says of the variables a write or a reconnection may change.
LinkOK ==
    /\ state \in UartReady
    /\ connects \subseteq Handshakes
    /\ asked \in BOOLEAN
    /\ pending_packet \in Packets \union {NoPacket}
    /\ timers \in [Timers -> Nat]
    /\ uptime_running \in BOOLEAN
    /\ uptime_running <=> state = "CONNECTED"
    /\ state # "CONNECTED" => timers["check_connection"] # 0
    /\ timers["write"] # 0 <=> pending_packet # NoPacket

\* The variables the invariant only types.
OthersTyped ==
    /\ boot_age \in 0 .. GraceDelay
    /\ silence \in 0 .. LinkTimeout
    /\ {wifi, unit_alive, looped, functions_part2_pending, asked,
        installer_mode_effective, installer_mode_fallback_done} \subseteq BOOLEAN

\* An action that starts a connection, or restores LinkOK, and leaves alone what it
\* does not govern preserves the invariant.
LEMMA LinkSuffices ==
    ASSUME ConnInv, uart_is_8E1, LinkOK', OthersTyped',
           timers'["retry_uart"] = timers["retry_uart"],
           UNCHANGED <<uart_retry_pending, configVars>>
    PROVE  ConnInv'
<1> USE DEF configVars
<1>1. state' \in DriverStates /\ state' \notin {"WAIT_WIFI", "WAIT_GRACE"}
  BY DEF LinkOK, UartReady, DriverStates
<1>2. TypeOK'
  BY <1>1 DEF LinkOK, OthersTyped, ConnInv, TypeOK
<1>3. UartRetryIsArmed'
  BY DEF ConnInv, UartRetryIsArmed, Armed
<1>4. ReadyUartIsValid'
  BY DEF ConnInv, ReadyUartIsValid
<1>5. ConnectingIsWatched' /\ PendingIsRetried' /\ UptimeCountsTheConnection'
      /\ TimersFollowTheStart' /\ ConnectFollowsTheStart'
  BY DEF LinkOK, ConnectingIsWatched, PendingIsRetried, UptimeCountsTheConnection,
         TimersFollowTheStart, ConnectFollowsTheStart, Armed, is_uart_ready
<1>6. WaitingHasAFallback'
  BY <1>1 DEF WaitingHasAFallback
<1> QED BY <1>2, <1>3, <1>4, <1>5, <1>6 DEF ConnInv

\* The invariant gives LinkOK to a started connection.
LEMMA StartedLink ==
    ASSUME ConnInv, is_uart_ready
    PROVE  LinkOK
BY DEF ConnInv, TypeOK, ConnectingIsWatched, PendingIsRetried, UptimeCountsTheConnection,
       LinkOK, Armed, is_uart_ready

\* Before the connection is started there is nothing to watch, retry or answer.
Unstarted ==
    /\ state \in {"BOOT", "WAIT_WIFI", "WAIT_GRACE"}
    /\ pending_packet = NoPacket
    /\ connects = {}
    /\ uptime_running = FALSE
    /\ \A t \in StartedTimers : timers[t] = 0

\* The invariant says so of every state before the UART is set up.
LEMMA UnstartedLink ==
    ASSUME ConnInv, ~is_uart_ready
    PROVE  Unstarted
BY DEF ConnInv, TypeOK, DriverStates, UartReady, PendingIsRetried, UptimeCountsTheConnection,
       TimersFollowTheStart, ConnectFollowsTheStart, StartedTimers, Armed, is_uart_ready, Unstarted

\* A step that stays before the start of the connection preserves the invariant if the
\* fallback and the back-off keep their timers.
LEMMA UnstartedSuffices ==
    ASSUME Unstarted', OthersTyped', TypeOK, UNCHANGED configVars,
           uart_retry_pending' \in BOOLEAN, timers' \in [Timers -> Nat],
           uart_retry_pending' <=> timers'["retry_uart"] # 0,
           state' \in {"WAIT_WIFI", "WAIT_GRACE"} /\ uart_is_8E1 => timers'["bootstrap"] # 0
    PROVE  ConnInv'
<1> USE DEF configVars
<1>1. TypeOK'
  BY DEF Unstarted, OthersTyped, TypeOK, DriverStates, Handshakes
<1>2. ~is_uart_ready'
  BY DEF Unstarted, is_uart_ready, UartReady
<1>3. PendingIsRetried' /\ UptimeCountsTheConnection' /\ TimersFollowTheStart'
      /\ ConnectFollowsTheStart'
  BY <1>2 DEF Unstarted, PendingIsRetried, UptimeCountsTheConnection, TimersFollowTheStart,
              ConnectFollowsTheStart, StartedTimers, Armed
<1>4. ConnectingIsWatched' /\ ReadyUartIsValid' /\ UartRetryIsArmed' /\ WaitingHasAFallback'
  BY <1>2 DEF ConnectingIsWatched, ReadyUartIsValid, UartRetryIsArmed, WaitingHasAFallback, Armed
<1> QED BY <1>1, <1>3, <1>4 DEF ConnInv

\* A step that leaves the state, the slot and which of the timers are armed alone.
LEMMA Undisturbed ==
    ASSUME ConnInv, OthersTyped',
           UNCHANGED <<state, uptime_running, pending_packet, uart_retry_pending, configVars>>,
           timers' \in [Timers -> Nat],
           \A t \in Timers \ {"poll", "fn_set_part2"} : timers'[t] # 0 <=> timers[t] # 0,
           timers'["fn_set_part2"] # 0 => timers["fn_set_part2"] # 0,
           connects' \subseteq connects
    PROVE  ConnInv'
<1> USE DEF configVars
<1>0. {"bootstrap", "retry_uart", "check_connection", "write"}
      \subseteq Timers \ {"poll", "fn_set_part2"}
  BY DEF Timers
<1>1. TypeOK'
  BY DEF ConnInv, OthersTyped, TypeOK
<1>2. ConnectingIsWatched' /\ PendingIsRetried' /\ WaitingHasAFallback' /\ UartRetryIsArmed'
  BY <1>0 DEF ConnInv, ConnectingIsWatched, PendingIsRetried, WaitingHasAFallback,
              UartRetryIsArmed, Armed, is_uart_ready
<1>3. UptimeCountsTheConnection' /\ ReadyUartIsValid' /\ ConnectFollowsTheStart'
  BY DEF ConnInv, UptimeCountsTheConnection, ReadyUartIsValid, ConnectFollowsTheStart, is_uart_ready
<1>4. TimersFollowTheStart'
  BY <1>0 DEF ConnInv, TimersFollowTheStart, StartedTimers, Armed, is_uart_ready
<1> QED BY <1>1, <1>2, <1>3, <1>4 DEF ConnInv

\* A write restores LinkOK and leaves the timer of the bootstrap's back-off alone.
LEMMA WriteRestores ==
    ASSUME ConnInv, is_uart_ready, NEW packet \in Packets, NEW tm \in [Timers -> Nat],
           \A t \in Timers \ {"poll", "fn_set_part2"} : tm[t] = timers[t],
           write_packet(packet, tm)
    PROVE  LinkOK' /\ timers'["retry_uart"] = timers["retry_uart"]
<1>0. /\ "retry_uart" \in Timers \ {"poll", "fn_set_part2", "check_connection", "write"}
      /\ "write" \in Timers \ {"poll", "fn_set_part2", "check_connection"}
      /\ "check_connection" \in Timers \ {"poll", "fn_set_part2", "write"}
  BY DEF Timers
<1>1. CASE /\ asked' = TRUE
           /\ timers' = tm
           /\ UNCHANGED <<state, uptime_running, pending_packet, connects>>
  BY <1>0, <1>1
  DEF ConnInv, TypeOK, ConnectingIsWatched, PendingIsRetried, UptimeCountsTheConnection,
      LinkOK, Armed, is_uart_ready
<1>2. CASE /\ reconnect_uart(installer_mode_effective, Arm(tm, "write", WriteRetryDelay))
           /\ pending_packet' = packet
  <2> DEFINE armed == Arm(tm, "write", WriteRetryDelay)
  <2>1. /\ armed \in [Timers -> Nat]
        /\ armed["write"] # 0
        /\ armed["retry_uart"] = timers["retry_uart"]
    <3>1. "write" \in Timers /\ "retry_uart" \in Timers \ {"write"}
      BY DEF Timers
    <3>2. armed["retry_uart"] = tm["retry_uart"]
      BY <3>1 DEF Arm
    <3>3. armed["write"] # 0 /\ armed \in [Timers -> Nat]
      BY <3>1, Delays DEF Arm
    <3> QED BY <1>0, <3>2, <3>3
  <2>2. uart_is_8E1 /\ TypeOK
    BY DEF ConnInv, ReadyUartIsValid
  <2> HIDE DEF armed
  <2>3. /\ state' = "CONNECTING"
        /\ uptime_running' = FALSE
        /\ connects' \subseteq Handshakes
        /\ asked' = asked
        /\ timers' \in [Timers -> Nat]
        /\ timers'["check_connection"] # 0
        /\ timers'["write"] # 0
        /\ timers'["retry_uart"] = timers["retry_uart"]
    BY <1>0, <1>2, <2>1, <2>2, Reconnects DEF armed
  <2> QED BY <1>2, <2>2, <2>3 DEF LinkOK, TypeOK, UartReady, Packets, NoPacket
<1> QED BY <1>1, <1>2 DEF write_packet

\* After setup() nothing is armed, queued or on the wire.
LEMMA ConnInit == Init => ConnInv
<1> SUFFICES ASSUME Init PROVE ConnInv
  OBVIOUS
<1>1. TypeOK
  <2>1. timers \in [Timers -> Nat]
    BY DEF Init
  <2>2. state \in DriverStates /\ pending_packet \in Packets \union {NoPacket}
    BY DEF Init, DriverStates
  <2>3. boot_age \in 0 .. GraceDelay /\ silence \in 0 .. LinkTimeout
    BY Delays DEF Init
  <2> QED BY <2>1, <2>2, <2>3 DEF Init, TypeOK
<1>2. \A t \in Timers : ~Armed(t)
  BY DEF Init, Armed
<1>3. state = "BOOT" /\ ~is_uart_ready
  BY DEF Init, is_uart_ready, UartReady
<1> QED
  BY <1>1, <1>2, <1>3
  DEF Init, ConnInv, ConnectingIsWatched, PendingIsRetried, WaitingHasAFallback,
      UartRetryIsArmed, UptimeCountsTheConnection, ReadyUartIsValid, TimersFollowTheStart,
      ConnectFollowsTheStart, StartedTimers, Timers

-----------------------------------------------------------------------------
(***************************************************************************)
(* Every action preserves the invariant.                                   *)
(***************************************************************************)

\* reconnect_uart alone restores LinkOK too, when it leaves the slot and its timer be.
LEMMA ReconnectRestores ==
    ASSUME ConnInv, is_uart_ready, NEW installer, NEW tm \in [Timers -> Nat],
           tm["write"] = timers["write"], tm["retry_uart"] = timers["retry_uart"],
           reconnect_uart(installer, tm), UNCHANGED pending_packet
    PROVE  LinkOK' /\ timers'["retry_uart"] = timers["retry_uart"]
<1>1. uart_is_8E1 /\ TypeOK
  BY DEF ConnInv, ReadyUartIsValid
<1>2. {"retry_uart", "write"} \subseteq Timers \ {"check_connection"}
  BY DEF Timers
<1>3. /\ state' = "CONNECTING"
      /\ uptime_running' = FALSE
      /\ connects' \subseteq Handshakes
      /\ asked' = asked
      /\ timers' \in [Timers -> Nat]
      /\ timers'["check_connection"] # 0
      /\ timers'["write"] = timers["write"]
      /\ timers'["retry_uart"] = timers["retry_uart"]
  BY <1>1, <1>2, Reconnects
<1> QED BY <1>1, <1>3, StartedLink DEF LinkOK, TypeOK, UartReady

\* setup_uart and the first CONNECT, as the bootstrap calls them.
LEMMA FirstConnect ==
    ASSUME ConnInv, ~is_uart_ready, NEW tm \in [Timers -> Nat],
           setup_uart, uart_is_8E1, UNCHANGED <<asked, pending_packet>>,
           send_first_connection_packet(installer_mode_effective, tm),
           \A t \in StartedTimers : tm[t] = 0
    PROVE  /\ LinkOK'
           /\ \A t \in Timers \ {"check_connection"} : timers'[t] = tm[t]
<1>1. TypeOK /\ Unstarted
  BY UnstartedLink DEF ConnInv
<1>2. reconnect_uart(installer_mode_effective, tm)
  BY DEF reconnect_uart
<1>3. "write" \in Timers \ {"check_connection"} /\ "write" \in StartedTimers
  BY DEF Timers, StartedTimers
<1>4. /\ state' = "CONNECTING"
      /\ uptime_running' = FALSE
      /\ connects' \subseteq Handshakes
      /\ timers' \in [Timers -> Nat]
      /\ timers'["check_connection"] # 0
      /\ \A t \in Timers \ {"check_connection"} : timers'[t] = tm[t]
  BY <1>1, <1>2, Reconnects
<1> QED BY <1>1, <1>3, <1>4 DEF LinkOK, TypeOK, UartReady, Unstarted

\* The bootstrap, i.e. maybe_start_connection_, preserves the invariant.
LEMMA LoopStep == ConnInv /\ Loop => ConnInv'
<1> SUFFICES ASSUME ConnInv, Loop PROVE ConnInv'
  OBVIOUS
<1> USE DEF bootVars, handshakeVars
<1>0. TypeOK /\ 0 \in 0 .. GraceDelay
  BY Delays DEF ConnInv
<1>1. BootLoop /\ OthersTyped'
  BY <1>0 DEF Loop, EnterWait, WaitWifi, WaitGrace, ConnectionStarted, BootLoop, TypeOK, OthersTyped
<1>2. UNCHANGED configVars /\ UNCHANGED <<pending_packet, asked>>
  BY <1>1 DEF BootLoop
<1>3. CASE EnterWait
  <2>1. Unstarted
    BY <1>3, UnstartedLink DEF EnterWait, is_uart_ready, UartReady
  <2>2. timers' = Arm(timers, "bootstrap", BootstrapDelay)
    BY <1>3 DEF EnterWait
  <2>3. /\ timers' \in [Timers -> Nat]
        /\ timers'["bootstrap"] # 0
        /\ timers'["retry_uart"] = timers["retry_uart"]
        /\ \A t \in StartedTimers : timers'[t] = timers[t]
    BY <1>0, <2>2, Delays DEF Arm, Timers, StartedTimers, TypeOK
  <2>4. uart_retry_pending' \in BOOLEAN /\ (uart_retry_pending' <=> timers'["retry_uart"] # 0)
    BY <1>0, <1>3, <2>3 DEF EnterWait, ConnInv, UartRetryIsArmed, Armed, TypeOK
  <2>5. Unstarted'
    BY <1>2, <1>3, <2>1, <2>3 DEF EnterWait, Unstarted
  <2> QED BY <1>0, <1>1, <1>2, <2>3, <2>4, <2>5, UnstartedSuffices
<1>4. CASE WaitWifi
  <2>1. Unstarted
    BY <1>4, UnstartedLink DEF WaitWifi, is_uart_ready, UartReady
  <2>2. Unstarted'
    BY <1>2, <1>4, <2>1 DEF WaitWifi, Unstarted
  <2>3. uart_retry_pending' \in BOOLEAN /\ timers' \in [Timers -> Nat]
        /\ (uart_retry_pending' <=> timers'["retry_uart"] # 0)
    BY <1>0, <1>4 DEF WaitWifi, ConnInv, UartRetryIsArmed, Armed, TypeOK
  <2>4. uart_is_8E1 => timers'["bootstrap"] # 0
    BY <1>4 DEF WaitWifi, ConnInv, WaitingHasAFallback, Armed
  <2> QED BY <1>0, <1>1, <1>2, <2>2, <2>3, <2>4, UnstartedSuffices
<1>5. CASE WaitGrace
  <2>1. Unstarted /\ ~is_uart_ready
    BY <1>5, UnstartedLink DEF WaitGrace, is_uart_ready, UartReady
  <2>2. CASE uart_retry_pending \/ boot_age < GraceDelay
    BY <1>0, <1>1, <1>2, <1>5, <2>2, Undisturbed DEF WaitGrace, TypeOK
  <2>3. CASE ~(uart_retry_pending \/ boot_age < GraceDelay) /\ uart_is_8E1
    <3>1. /\ setup_uart
          /\ ~uart_retry_pending
          /\ ~uart_retry_pending'
          /\ uart_retry_pending' \in BOOLEAN
          /\ send_first_connection_packet(installer_mode_effective, timers)
      BY <1>5, <2>3 DEF WaitGrace, setup_uart, UartReady
    <3>2. LinkOK' /\ timers'["retry_uart"] = timers["retry_uart"]
      <4>1. "retry_uart" \in Timers \ {"check_connection"}
        BY DEF Timers
      <4> QED BY <1>0, <1>2, <2>1, <2>3, <3>1, <4>1, FirstConnect DEF TypeOK, Unstarted
    <3>3. UNCHANGED uart_retry_pending
      BY <1>0, <3>1 DEF TypeOK
    <3> QED BY <1>1, <1>2, <2>3, <3>2, <3>3, LinkSuffices
  <2>4. CASE ~(uart_retry_pending \/ boot_age < GraceDelay) /\ ~uart_is_8E1
    <3>1. /\ state' = "WAIT_GRACE"
          /\ uptime_running' = FALSE
          /\ uart_retry_pending' = TRUE
          /\ timers' = Arm(timers, "retry_uart", UartRetryDelay)
          /\ connects' = connects
      BY <1>5, <2>4 DEF WaitGrace, setup_uart, UartReady
    <3>2. /\ timers' \in [Timers -> Nat]
          /\ timers'["retry_uart"] # 0
          /\ \A t \in StartedTimers : timers'[t] = timers[t]
      BY <1>0, <3>1, Delays DEF Arm, Timers, StartedTimers, TypeOK
    <3>3. Unstarted'
      BY <1>2, <2>1, <3>1, <3>2 DEF Unstarted
    <3> QED BY <1>0, <1>1, <1>2, <2>4, <3>1, <3>2, <3>3, UnstartedSuffices DEF configVars
  <2> QED BY <2>2, <2>3, <2>4
<1>6. CASE ConnectionStarted
  BY <1>0, <1>1, <1>2, <1>6, Undisturbed DEF ConnectionStarted, TypeOK
<1> QED BY <1>3, <1>4, <1>5, <1>6 DEF Loop

\* So do the writes of a connected driver,
LEMMA WriteStep == ConnInv /\ Writes => ConnInv'
<1> SUFFICES ASSUME ConnInv, Writes PROVE ConnInv'
  OBVIOUS
<1> USE DEF bootVars, handshakeVars
<1>0. TypeOK
  BY DEF ConnInv
<1>1. Connected /\ UNCHANGED <<uart_retry_pending, configVars>>
  BY DEF Writes, Poll, SendRunStates, SetFunctions, SettingsOnLostLink, Connected
<1>2. is_uart_ready /\ uart_is_8E1 /\ LinkOK
  BY <1>1, StartedLink DEF Connected, is_uart_ready, UartReady, ConnInv, ReadyUartIsValid
<1>3. functions_part2_pending' \in BOOLEAN
  BY <1>0 DEF Writes, Poll, SendRunStates, SetFunctions, SettingsOnLostLink, TypeOK
<1>4. ASSUME LinkOK' PROVE OthersTyped'
  BY <1>0, <1>1, <1>3, <1>4 DEF Connected, OthersTyped, TypeOK, LinkOK
<1>5. \A name \in {"poll", "fn_set_part2"} : \A delay \in Nat :
         /\ Arm(timers, name, delay) \in [Timers -> Nat]
         /\ \A t \in Timers \ {"poll", "fn_set_part2"} : Arm(timers, name, delay)[t] = timers[t]
  BY <1>0 DEF Arm, TypeOK, Timers
<1>6. CASE Poll
  <2>1. LinkOK' /\ timers'["retry_uart"] = timers["retry_uart"]
    BY <1>2, <1>5, <1>6, Delays, WriteRestores DEF Poll, Packets
  <2> QED BY <1>1, <1>2, <1>4, <2>1, LinkSuffices
<1>7. CASE SendRunStates
  <2>1. LinkOK' /\ timers'["retry_uart"] = timers["retry_uart"]
    BY <1>0, <1>2, <1>7, WriteRestores DEF SendRunStates, Packets, TypeOK
  <2> QED BY <1>1, <1>2, <1>4, <2>1, LinkSuffices
<1>8. CASE SetFunctions
  <2>1. LinkOK' /\ timers'["retry_uart"] = timers["retry_uart"]
    BY <1>2, <1>5, <1>8, Delays, WriteRestores DEF SetFunctions, Packets
  <2> QED BY <1>1, <1>2, <1>4, <2>1, LinkSuffices
<1>9. CASE SettingsOnLostLink
  <2>1. LinkOK' /\ timers'["retry_uart"] = timers["retry_uart"]
    BY <1>0, <1>2, <1>9, ReconnectRestores DEF SettingsOnLostLink, TypeOK
  <2> QED BY <1>1, <1>2, <1>4, <2>1, LinkSuffices
<1> QED BY <1>6, <1>7, <1>8, <1>9 DEF Writes

\* the named timers,
LEMMA TimeoutsStep == ConnInv /\ Timeouts => ConnInv'
<1> SUFFICES ASSUME ConnInv, Timeouts PROVE ConnInv'
  OBVIOUS
<1> USE DEF bootVars, handshakeVars
<1>0. TypeOK
  BY DEF ConnInv
<1>1. OthersTyped' /\ UNCHANGED configVars
  BY <1>0
  DEF Timeouts, BootstrapTimeout, RetryUartTimeout, CheckFirstConnection, TryWritePendingPacket,
      FunctionsPart2Timeout, OthersTyped, TypeOK, write_packet, reconnect_uart, wireVars
<1>2. \A name \in Timers :
         /\ Cancel(timers, name) \in [Timers -> Nat]
         /\ Cancel(timers, name)[name] = 0
         /\ \A t \in Timers \ {name} : Cancel(timers, name)[t] = timers[t]
  BY <1>0 DEF Cancel, TypeOK
<1>3. {"bootstrap", "retry_uart", "check_connection", "write", "fn_set_part2"} \subseteq Timers
  BY DEF Timers
<1>4. ASSUME NEW t \in StartedTimers, Due(t)
      PROVE  is_uart_ready /\ uart_is_8E1 /\ LinkOK
  BY <1>4, StartedLink
  DEF Due, Armed, ConnInv, TimersFollowTheStart, ReadyUartIsValid
<1>5. CASE BootstrapTimeout
  <2>1. UNCHANGED <<uart_retry_pending, asked, pending_packet>>
    BY <1>5 DEF BootstrapTimeout
  <2> DEFINE tm == Cancel(timers, "bootstrap")
  <2>2. /\ tm \in [Timers -> Nat]
        /\ tm["retry_uart"] = timers["retry_uart"]
        /\ \A t \in StartedTimers : tm[t] = timers[t]
    BY <1>0 DEF Cancel, TypeOK, Timers, StartedTimers
  <2> HIDE DEF tm
  <2>3. CASE is_uart_ready
    <3>1. timers' = tm /\ UNCHANGED <<state, uptime_running, connects>>
      BY <1>5, <2>3 DEF BootstrapTimeout, tm
    <3>2. LinkOK'
      BY <2>1, <2>2, <2>3, <3>1, StartedLink DEF LinkOK, StartedTimers
    <3>3. uart_is_8E1
      BY <2>3 DEF ConnInv, ReadyUartIsValid
    <3> QED BY <1>1, <2>1, <2>2, <3>1, <3>2, <3>3, LinkSuffices
  <2>4. CASE ~is_uart_ready
    <3>1. setup_uart /\ send_first_connection_packet(installer_mode_effective, tm)
      BY <1>5, <2>4 DEF BootstrapTimeout, tm
    <3>2. Unstarted
      BY <2>4, UnstartedLink
    <3>3. CASE uart_is_8E1
      <4>1. LinkOK' /\ timers'["retry_uart"] = timers["retry_uart"]
        <5>1. "retry_uart" \in Timers \ {"check_connection"}
          BY DEF Timers
        <5> QED BY <2>1, <2>2, <2>4, <3>1, <3>2, <3>3, <5>1, FirstConnect DEF Unstarted
      <4> QED BY <1>1, <2>1, <3>3, <4>1, LinkSuffices
    <3>4. CASE ~uart_is_8E1
      <4>1. UNCHANGED <<state, connects>> /\ timers' = tm /\ uptime_running' = FALSE
        BY <3>1, <3>2, <3>4 DEF setup_uart, send_first_connection_packet, Unstarted, UartReady
      <4>2. Unstarted'
        BY <2>1, <2>2, <3>2, <4>1 DEF Unstarted
      <4>3. uart_retry_pending' \in BOOLEAN /\ (uart_retry_pending' <=> timers'["retry_uart"] # 0)
        BY <1>0, <2>1, <2>2, <4>1 DEF ConnInv, UartRetryIsArmed, Armed, TypeOK
      <4> QED BY <1>0, <1>1, <2>2, <3>4, <4>1, <4>2, <4>3, UnstartedSuffices DEF configVars
    <3> QED BY <3>3, <3>4
  <2> QED BY <2>3, <2>4
<1>6. CASE RetryUartTimeout
  <2>1. /\ ~uart_retry_pending'
        /\ uart_retry_pending' \in BOOLEAN
        /\ timers' = Cancel(timers, "retry_uart")
        /\ UNCHANGED <<state, uptime_running, pending_packet, connects>>
    BY <1>6 DEF RetryUartTimeout, wireVars
  <2>2. /\ timers' \in [Timers -> Nat]
        /\ timers'["retry_uart"] = 0
        /\ \A t \in StartedTimers \union {"bootstrap"} : timers'[t] = timers[t]
    BY <1>0, <2>1 DEF Cancel, TypeOK, Timers, StartedTimers
  <2>3. TypeOK'
    BY <1>0, <1>1, <2>1, <2>2 DEF TypeOK, OthersTyped, configVars
  <2> QED
    BY <1>1, <2>1, <2>2, <2>3
    DEF ConnInv, ConnectingIsWatched, PendingIsRetried, WaitingHasAFallback, UartRetryIsArmed,
        UptimeCountsTheConnection, ReadyUartIsValid, TimersFollowTheStart,
        ConnectFollowsTheStart, StartedTimers, Armed, is_uart_ready, configVars
<1>7. CASE CheckFirstConnection
  <2>1. is_uart_ready /\ uart_is_8E1 /\ LinkOK /\ UNCHANGED <<uart_retry_pending, pending_packet>>
    BY <1>4, <1>7 DEF CheckFirstConnection, StartedTimers
  <2> DEFINE tm == Cancel(timers, "check_connection")
  <2>2. /\ tm \in [Timers -> Nat]
        /\ tm["retry_uart"] = timers["retry_uart"]
        /\ tm["write"] = timers["write"]
    BY <1>0 DEF Cancel, TypeOK, Timers
  <2> HIDE DEF tm
  <2>3. CASE state = "CONNECTED"
    <3>1. timers' = tm /\ UNCHANGED <<state, uptime_running, connects, asked>>
      BY <1>7, <2>3 DEF CheckFirstConnection, tm, wireVars
    <3>2. LinkOK'
      BY <2>1, <2>2, <2>3, <3>1 DEF LinkOK
    <3> QED BY <1>1, <2>1, <2>2, <3>1, <3>2, LinkSuffices
  <2>4. CASE state # "CONNECTED"
    <3>1. PICK installer : reconnect_uart(installer, tm)
      BY <1>7, <2>4 DEF CheckFirstConnection, tm
    <3> QED BY <1>1, <2>1, <2>2, <3>1, ReconnectRestores, LinkSuffices
  <2> QED BY <2>3, <2>4
<1>8. CASE TryWritePendingPacket
  <2>1. is_uart_ready /\ uart_is_8E1 /\ LinkOK /\ UNCHANGED uart_retry_pending
    BY <1>4, <1>8 DEF TryWritePendingPacket, StartedTimers
  <2>2. CASE /\ asked' = TRUE
             /\ pending_packet' = NoPacket
             /\ timers' = Cancel(timers, "write")
             /\ UNCHANGED <<state, uptime_running, connects>>
    <3>1. LinkOK' /\ timers'["retry_uart"] = timers["retry_uart"]
      BY <1>2, <1>3, <2>1, <2>2 DEF LinkOK
    <3> QED BY <1>1, <2>1, <3>1, LinkSuffices
  <2>3. CASE /\ reconnect_uart(installer_mode_effective, Arm(timers, "write", WriteRetryDelay))
             /\ UNCHANGED pending_packet
    <3> DEFINE tm == Arm(timers, "write", WriteRetryDelay)
    <3>1. tm \in [Timers -> Nat] /\ tm["write"] # 0 /\ tm["retry_uart"] = timers["retry_uart"]
      BY <1>0, Delays DEF Arm, TypeOK, Timers
    <3>2. {"retry_uart", "write"} \subseteq Timers \ {"check_connection"}
      BY DEF Timers
    <3> HIDE DEF tm
    <3>3. /\ state' = "CONNECTING"
          /\ uptime_running' = FALSE
          /\ connects' \subseteq Handshakes
          /\ asked' = asked
          /\ timers' \in [Timers -> Nat]
          /\ timers'["check_connection"] # 0
          /\ timers'["write"] # 0
          /\ timers'["retry_uart"] = timers["retry_uart"]
      BY <1>0, <2>1, <2>3, <3>1, <3>2, Reconnects DEF tm
    <3>4. pending_packet # NoPacket
      BY <1>8, <2>1 DEF TryWritePendingPacket, Due, LinkOK
    <3>5. LinkOK'
      BY <1>0, <2>3, <3>3, <3>4 DEF LinkOK, TypeOK, UartReady
    <3> QED BY <1>1, <2>1, <3>3, <3>5, LinkSuffices
  <2> QED BY <1>8, <2>2, <2>3 DEF TryWritePendingPacket
<1>9. CASE FunctionsPart2Timeout
  <2>1. is_uart_ready /\ uart_is_8E1 /\ UNCHANGED uart_retry_pending
    BY <1>4, <1>9 DEF FunctionsPart2Timeout, StartedTimers
  <2>2. LinkOK' /\ timers'["retry_uart"] = timers["retry_uart"]
    BY <1>2, <1>3, <1>9, <2>1, WriteRestores DEF FunctionsPart2Timeout, Packets
  <2> QED BY <1>1, <2>1, <2>2, LinkSuffices
<1> QED BY <1>5, <1>6, <1>7, <1>8, <1>9 DEF Timeouts

\* the unit, the wire and the WiFi,
LEMMA EnvironmentStep == ConnInv /\ Environment => ConnInv'
<1> SUFFICES ASSUME ConnInv, Environment PROVE ConnInv'
  OBVIOUS
<1> USE DEF bootVars, handshakeVars, wireVars
<1>0. TypeOK /\ 0 \in 0 .. LinkTimeout
  BY Delays DEF ConnInv
<1>1. /\ UNCHANGED <<configVars, uart_retry_pending, pending_packet>>
      /\ OthersTyped'
  BY <1>0 DEF Environment, Hello, Answer, Lose, UnitPower, Wifi, OthersTyped, TypeOK
<1>2. CASE Hello
  <2>1. /\ connects # {}
        /\ connects' \subseteq connects
        /\ state' = "CONNECTED"
        /\ uptime_running' = TRUE
        /\ timers' = Arm(timers, "poll", PollPeriod)
        /\ asked' = asked
    BY <1>2 DEF Hello
  <2>2. uart_is_8E1 /\ LinkOK
    BY <2>1, StartedLink DEF ConnInv, ConnectFollowsTheStart, ReadyUartIsValid
  <2>3. /\ timers' \in [Timers -> Nat]
        /\ timers'["write"] = timers["write"]
        /\ timers'["retry_uart"] = timers["retry_uart"]
    BY <1>0, <2>1, Delays DEF Arm, TypeOK, Timers
  <2>4. LinkOK'
    BY <1>1, <2>1, <2>2, <2>3 DEF LinkOK, UartReady
  <2> QED BY <1>1, <2>2, <2>3, <2>4, LinkSuffices
<1>3. CASE Answer
  <2>1. CASE UNCHANGED timers
    BY <1>0, <1>1, <1>3, <2>1, Undisturbed DEF Answer, TypeOK
  <2>2. CASE timers' = Cancel(timers, "fn_set_part2")
    <3>1. /\ timers' \in [Timers -> Nat]
          /\ timers'["fn_set_part2"] = 0
          /\ \A t \in Timers \ {"poll", "fn_set_part2"} : timers'[t] = timers[t]
      BY <1>0, <2>2 DEF Cancel, TypeOK, Timers
    <3> QED BY <1>1, <1>3, <3>1, Undisturbed DEF Answer
  <2> QED BY <1>3, <2>1, <2>2 DEF Answer
<1>4. CASE Lose \/ UnitPower \/ Wifi
  <2>1. UNCHANGED <<state, uptime_running, timers>> /\ connects' \subseteq connects
    BY <1>4 DEF Lose, UnitPower, Wifi
  <2> QED BY <1>0, <1>1, <2>1, Undisturbed DEF TypeOK
<1> QED BY <1>2, <1>3, <1>4 DEF Environment

\* and the passage of time.
LEMMA TickStep == ConnInv /\ Tick => ConnInv'
<1> SUFFICES ASSUME ConnInv, Tick PROVE ConnInv'
  OBVIOUS
<1> USE DEF handshakeVars, wireVars
<1>0. TypeOK
  BY DEF ConnInv
<1>1. OthersTyped'
  <2>1. boot_age' \in 0 .. GraceDelay /\ silence' \in 0 .. LinkTimeout
    BY <1>0, Delays DEF Tick, TypeOK
  <2>2. {wifi', unit_alive', looped', functions_part2_pending', asked',
         installer_mode_effective', installer_mode_fallback_done'} \subseteq BOOLEAN
    BY <1>0 DEF Tick, TypeOK
  <2> QED BY <2>1, <2>2 DEF OthersTyped
<1>2. /\ timers' \in [Timers -> Nat]
      /\ \A t \in Timers \ {"poll"} : timers'[t] # 0 <=> timers[t] # 0
  BY <1>0 DEF Tick, Due, TypeOK
<1>3. timers'["fn_set_part2"] # 0 => timers["fn_set_part2"] # 0
  BY <1>2 DEF Timers
<1> QED BY <1>1, <1>2, <1>3, Undisturbed DEF Tick

\* The invariant holds at boot and every step preserves it.
LEMMA Invariance == Spec => []ConnInv
<1>1. ConnInv /\ UNCHANGED vars => ConnInv'
  <2> SUFFICES ASSUME ConnInv, UNCHANGED vars PROVE ConnInv'
    OBVIOUS
  <2> QED BY Undisturbed DEF vars, configVars, ConnInv, TypeOK, OthersTyped
<1>2. ConnInv /\ [Next]_vars => ConnInv'
  BY <1>1, LoopStep, WriteStep, TimeoutsStep, EnvironmentStep, TickStep DEF Next
<1> QED BY <1>2, ConnInit, PTL DEF Spec

-----------------------------------------------------------------------------
(***************************************************************************)
(* The theorems.                                                           *)
(***************************************************************************)

\* The state of the connection is one the code can name, at every age of every timer.
THEOREM ConnectionTypeCorrect == Spec => []TypeOK
<1>1. ConnInv => TypeOK
  BY DEF ConnInv
<1> QED BY <1>1, Invariance, PTL

\* Whichever path led out of CONNECTED, the 10 s check that reconnects is armed.
THEOREM HandshakeIsWatched == Spec => []ConnectingIsWatched
<1>1. ConnInv => ConnectingIsWatched
  BY DEF ConnInv
<1> QED BY <1>1, Invariance, PTL

\* A packet in the retry slot always has its retry armed, and conversely.
THEOREM QueuedPacketIsRetried == Spec => []PendingIsRetried
<1>1. ConnInv => PendingIsRetried
  BY DEF ConnInv
<1> QED BY <1>1, Invariance, PTL

\* A boot that waits for WiFi keeps its 120 s way out.
THEOREM BootHasAFallback == Spec => []WaitingHasAFallback
<1>1. ConnInv => WaitingHasAFallback
  BY DEF ConnInv
<1> QED BY <1>1, Invariance, PTL

\* The back-off from a misconfigured UART is ended by its own timer.
THEOREM BackOffEnds == Spec => []UartRetryIsArmed
<1>1. ConnInv => UartRetryIsArmed
  BY DEF ConnInv
<1> QED BY <1>1, Invariance, PTL

\* Every wait of the connection, in every state, has a timer that ends it.
THEOREM WaitsAreTimed == Spec => []EveryWaitHasItsTimer
<1>1. ConnInv => EveryWaitHasItsTimer
  BY DEF ConnInv, EveryWaitHasItsTimer
<1> QED BY <1>1, Invariance, PTL

\* The uptime sensor runs exactly during connections.
THEOREM UptimeIsTheConnection == Spec => []UptimeCountsTheConnection
<1>1. ConnInv => UptimeCountsTheConnection
  BY DEF ConnInv
<1> QED BY <1>1, Invariance, PTL

-----------------------------------------------------------------------------
(***************************************************************************)
(* The fallback from the installer handshake.                              *)
(***************************************************************************)
FallbackInv ==
    /\ installer_mode_effective \in BOOLEAN
    /\ installer_mode_fallback_done \in BOOLEAN
    /\ installer_mode_fallback_done => ~installer_mode_effective

\* Only the 10 s check touches the handshake in use, and only from installer to standard.
LEMMA FallbackStep ==
    FallbackInv /\ [Next]_vars
      => FallbackInv' /\ (installer_mode_fallback_done
                            => ~installer_mode_effective' /\ installer_mode_fallback_done')
<1> SUFFICES ASSUME FallbackInv, [Next]_vars
             PROVE  /\ FallbackInv'
                    /\ installer_mode_fallback_done
                         => ~installer_mode_effective' /\ installer_mode_fallback_done'
  OBVIOUS
<1> USE DEF handshakeVars, FallbackInv
<1>1. CASE CheckFirstConnection
  <2>1. CASE UNCHANGED handshakeVars
    BY <2>1
  <2>2. CASE /\ installer_mode_effective' \in BOOLEAN
             /\ installer_mode_fallback_done' \in BOOLEAN
             /\ installer_mode_effective' => installer_mode_effective
             /\ installer_mode_fallback_done => installer_mode_fallback_done'
             /\ installer_mode_fallback_done' => ~installer_mode_effective'
    BY <2>2
  <2> QED BY <1>1, <2>1, <2>2 DEF CheckFirstConnection
<1>2. CASE UNCHANGED handshakeVars
  BY <1>2
<1>3. Next => CheckFirstConnection \/ UNCHANGED handshakeVars
  BY DEF Next, Loop, EnterWait, WaitWifi, WaitGrace, ConnectionStarted, BootLoop, Writes, Poll,
         SendRunStates, SetFunctions, SettingsOnLostLink, Connected, Timeouts, BootstrapTimeout,
         RetryUartTimeout, TryWritePendingPacket, FunctionsPart2Timeout, Environment, Hello,
         Answer, Lose, UnitPower, Wifi, Tick
<1> QED BY <1>1, <1>2, <1>3 DEF vars

\* Once given up, the installer handshake is never used again.
THEOREM FallbackHappensOnce == Spec => FallbackIsFinal
<1>1. Init => FallbackInv
  BY DEF Init, FallbackInv
<1>2. FallbackInv /\ [Next]_vars
        => FallbackInv' /\ (installer_mode_fallback_done
                              => ~installer_mode_effective' /\ installer_mode_fallback_done')
  BY FallbackStep
<1> QED BY <1>1, <1>2, PTL DEF Spec, FallbackIsFinal

-----------------------------------------------------------------------------
(***************************************************************************)
(* The retry slot.  On a connected link a queued packet is retried before  *)
(* the link can be found silent, so that no other write of a connected     *)
(* driver fails while the slot is taken: the silence since the connection  *)
(* grows as fast as the retry timer runs down.                             *)
(***************************************************************************)
RetryBeforeSilence == WriteRetryDelay < LinkTimeout

SlotInv ==
    /\ timers["write"] <= WriteRetryDelay + 1
    /\ state = "CONNECTED" /\ timers["write"] # 0
         => silence + timers["write"] <= WriteRetryDelay + 1

\* A write that fails leaves the driver connecting, with the retry just armed.
LEMMA FailedWrite ==
    ASSUME ConnInv, is_uart_ready, NEW installer, NEW tm \in [Timers -> Nat],
           reconnect_uart(installer, tm), tm["write"] <= WriteRetryDelay + 1
    PROVE  SlotInv'
<1>1. uart_is_8E1 /\ TypeOK /\ "write" \in Timers \ {"check_connection"}
  BY DEF ConnInv, ReadyUartIsValid, Timers
<1>2. state' = "CONNECTING" /\ timers'["write"] = tm["write"]
  BY <1>1, Reconnects
<1> QED BY <1>2 DEF SlotInv

LEMMA WritePacketKeepsSlot ==
    ASSUME ConnInv, SlotInv, is_uart_ready, NEW packet, NEW tm \in [Timers -> Nat],
           tm["write"] = timers["write"], write_packet(packet, tm), silence' = silence
    PROVE  SlotInv'
<1>1. CASE timers' = tm /\ UNCHANGED state
  BY <1>1 DEF SlotInv
<1>2. CASE reconnect_uart(installer_mode_effective, Arm(tm, "write", WriteRetryDelay))
  <2> DEFINE armed == Arm(tm, "write", WriteRetryDelay)
  <2>1. armed \in [Timers -> Nat] /\ armed["write"] <= WriteRetryDelay + 1
    BY Delays DEF Arm, Timers
  <2> QED BY <1>2, <2>1, FailedWrite
<1> QED BY <1>1, <1>2 DEF write_packet

LEMMA SlotStep ==
    ASSUME ConnInv, SlotInv, [Next]_vars
    PROVE  SlotInv'
<1> USE DEF bootVars, handshakeVars, wireVars
<1>0. /\ timers \in [Timers -> Nat] /\ silence \in Nat /\ WriteRetryDelay \in Nat
      /\ "write" \in Timers /\ timers["write"] \in Nat
  BY Delays DEF ConnInv, TypeOK, Timers
<1>k. ASSUME UNCHANGED <<state, silence>>, timers'["write"] = timers["write"]
      PROVE  SlotInv'
  BY <1>k DEF SlotInv
<1>d. ASSUME timers'["write"] = timers["write"], state' # "CONNECTED"
      PROVE  SlotInv'
  BY <1>d DEF SlotInv
<1>1. CASE Loop
  <2>1. CASE ConnectionStarted
    BY <1>k, <1>1, <2>1 DEF ConnectionStarted, BootLoop
  <2>2. CASE EnterWait \/ WaitWifi
    <3>1. timers'["write"] = timers["write"]
      BY <1>0, <2>2 DEF EnterWait, WaitWifi, Arm, Timers
    <3>2. state' # "CONNECTED"
      BY <2>2 DEF EnterWait, WaitWifi
    <3> QED BY <1>d, <3>1, <3>2
  <2>3. CASE WaitGrace
    <3>1. timers'["write"] = timers["write"]
      BY <1>0, <2>3 DEF WaitGrace, send_first_connection_packet, Arm, Timers
    <3>2. state' # "CONNECTED"
      BY <2>3 DEF WaitGrace, setup_uart
    <3> QED BY <1>d, <3>1, <3>2
  <2> QED BY <1>1, <2>1, <2>2, <2>3 DEF Loop
<1>2. CASE Poll \/ SendRunStates \/ SetFunctions
  <2>1. is_uart_ready /\ silence' = silence
    BY <1>2 DEF Poll, SendRunStates, SetFunctions, Connected, is_uart_ready, UartReady
  <2>2. \E packet, tm : write_packet(packet, tm) /\ tm \in [Timers -> Nat]
                          /\ tm["write"] = timers["write"]
    <3>1. \A name \in {"poll", "fn_set_part2"} : \A delay \in Nat :
             /\ Arm(timers, name, delay) \in [Timers -> Nat]
             /\ Arm(timers, name, delay)["write"] = timers["write"]
      BY <1>0 DEF Arm, Timers
    <3> QED BY <1>0, <1>2, <3>1, Delays DEF Poll, SendRunStates, SetFunctions
  <2> QED BY <2>1, <2>2, WritePacketKeepsSlot
<1>3. CASE SettingsOnLostLink
  <2>1. is_uart_ready /\ timers["write"] <= WriteRetryDelay + 1
    BY <1>3 DEF SettingsOnLostLink, Connected, is_uart_ready, UartReady, SlotInv
  <2> QED BY <1>0, <1>3, <2>1, FailedWrite DEF SettingsOnLostLink
<1>4. CASE BootstrapTimeout
  <2>1. timers'["write"] = timers["write"] /\ silence' = silence
    BY <1>0, <1>4
    DEF BootstrapTimeout, send_first_connection_packet, Arm, Cancel, Timers
  <2>2. UNCHANGED state \/ state' # "CONNECTED"
    BY <1>4 DEF BootstrapTimeout, setup_uart
  <2> QED BY <1>k, <1>d, <2>1, <2>2
<1>5. CASE RetryUartTimeout
  BY <1>0, <1>k, <1>5 DEF RetryUartTimeout, Cancel, Timers
<1>6. CASE CheckFirstConnection
  <2> DEFINE tm == Cancel(timers, "check_connection")
  <2>1. tm \in [Timers -> Nat] /\ tm["write"] = timers["write"]
    BY <1>0 DEF Cancel, Timers
  <2>2. is_uart_ready
    BY <1>6 DEF CheckFirstConnection, Due, Armed, ConnInv, TimersFollowTheStart, StartedTimers
  <2> HIDE DEF tm
  <2>3. CASE timers' = tm /\ UNCHANGED state
    BY <1>6, <1>k, <2>1, <2>3 DEF CheckFirstConnection
  <2>4. CASE reconnect_uart(installer_mode_effective', tm)
    <3>1. tm["write"] <= WriteRetryDelay + 1
      BY <2>1 DEF SlotInv
    <3> QED BY <2>1, <2>2, <2>4, <3>1, FailedWrite
  <2> QED BY <1>6, <2>3, <2>4 DEF CheckFirstConnection, tm
<1>7. CASE TryWritePendingPacket
  <2>1. CASE timers' = Cancel(timers, "write")
    <3>1. timers'["write"] = 0
      BY <1>0, <2>1 DEF Cancel
    <3> QED BY <1>0, <3>1 DEF SlotInv
  <2>2. CASE reconnect_uart(installer_mode_effective, Arm(timers, "write", WriteRetryDelay))
    <3> DEFINE tm == Arm(timers, "write", WriteRetryDelay)
    <3>1. tm \in [Timers -> Nat] /\ tm["write"] <= WriteRetryDelay + 1
      BY <1>0 DEF Arm
    <3>2. is_uart_ready
      BY <1>7 DEF TryWritePendingPacket, Due, Armed, ConnInv, TimersFollowTheStart, StartedTimers
    <3> QED BY <2>2, <3>1, <3>2, FailedWrite
  <2> QED BY <1>7, <2>1, <2>2 DEF TryWritePendingPacket
<1>8. CASE FunctionsPart2Timeout
  <2>1. is_uart_ready /\ silence' = silence
    BY <1>8 DEF FunctionsPart2Timeout, Due, Armed, ConnInv, TimersFollowTheStart, StartedTimers
  <2>2. /\ Cancel(timers, "fn_set_part2") \in [Timers -> Nat]
        /\ Cancel(timers, "fn_set_part2")["write"] = timers["write"]
    BY <1>0 DEF Cancel, Timers
  <2> QED BY <1>8, <2>1, <2>2, WritePacketKeepsSlot DEF FunctionsPart2Timeout
<1>9. CASE Hello \/ Answer
  <2>1. silence' = 0 /\ timers'["write"] = timers["write"]
    BY <1>0, <1>9 DEF Hello, Answer, Arm, Cancel, Timers
  <2> QED BY <1>0, <2>1 DEF SlotInv
<1>10. CASE Lose \/ UnitPower \/ Wifi
  BY <1>k, <1>10 DEF Lose, UnitPower, Wifi
<1>11. CASE Tick
  <2>1. /\ timers["write"] # 1
        /\ timers'["write"] = IF timers["write"] > 1 THEN timers["write"] - 1 ELSE 0
        /\ silence' \in {silence, silence + 1}
        /\ state' = state
    BY <1>0, <1>11 DEF Tick, Due, Timers
  <2> QED BY <1>0, <2>1 DEF SlotInv
<1>12. CASE UNCHANGED vars
  BY <1>k, <1>12 DEF vars
<1> QED
  BY <1>1, <1>2, <1>3, <1>4, <1>5, <1>6, <1>7, <1>8, <1>9, <1>10, <1>11, <1>12
  DEF Next, Writes, Timeouts, Environment

\* A packet that waits for its retry is not lost to another write of the connected
\* driver, which finds the link active as long as the slot is taken; it is to the second
\* half of the functions, sent by its timer whether or not the driver is connected.
THEOREM SlotIsKept ==
    ASSUME RetryBeforeSilence
    PROVE  Spec => SlotLostOnlyToFunctionsPart2
<1>1. Init => SlotInv
  BY Delays DEF Init, SlotInv, Timers
<1>2. ConnInv /\ SlotInv /\ [Next]_vars => SlotInv'
  BY SlotStep
<1>3. ASSUME ConnInv, SlotInv, [Next]_vars,
             pending_packet # NoPacket, pending_packet' # pending_packet
      PROVE  \/ pending_packet' = NoPacket /\ asked'
             \/ pending_packet' = "functions2"
  <2>1. timers["write"] \in Nat /\ timers["write"] # 0
    BY <1>3 DEF ConnInv, PendingIsRetried, Armed, TypeOK, Timers
  <2>2. state = "CONNECTED" => is_uart_ready /\ is_heatpump_connection_active
    <3>1. silence \in Nat /\ WriteRetryDelay \in Nat /\ LinkTimeout \in Nat
      BY <1>3, Delays DEF ConnInv, TypeOK
    <3> QED BY <1>3, <2>1, <3>1
            DEF SlotInv, RetryBeforeSilence, is_heatpump_connection_active, is_uart_ready,
                UartReady
  <2>3. ~Poll /\ ~SendRunStates /\ ~SetFunctions
    BY <1>3, <2>2 DEF Poll, SendRunStates, SetFunctions, Connected, write_packet
  <2>4. CASE TryWritePendingPacket
    BY <1>3, <2>4 DEF TryWritePendingPacket
  <2>5. CASE FunctionsPart2Timeout
    BY <1>3, <2>5 DEF FunctionsPart2Timeout, write_packet
  <2> QED
    BY <1>3, <2>3, <2>4, <2>5
    DEF Next, Loop, EnterWait, WaitWifi, WaitGrace, ConnectionStarted, BootLoop, Writes,
        SettingsOnLostLink, Timeouts, BootstrapTimeout, RetryUartTimeout, CheckFirstConnection,
        Environment, Hello, Answer, Lose, UnitPower, Wifi, Tick, vars
<1>4. ConnInv /\ SlotInv /\ [Next]_vars
        => (pending_packet # NoPacket /\ pending_packet' # pending_packet
              => \/ pending_packet' = NoPacket /\ asked'
                 \/ pending_packet' = "functions2")
  BY <1>3
<1> QED BY <1>1, <1>2, <1>4, Invariance, PTL DEF Spec, SlotLostOnlyToFunctionsPart2

=============================================================================
