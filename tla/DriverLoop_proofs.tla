--------------------------- MODULE DriverLoop_proofs ---------------------------
(***************************************************************************)
(* Theorems about the main loop, for every poll interval, margin, number   *)
(* of requests, width of the clock and mix of clients.                     *)
(***************************************************************************)
EXTENDS DriverLoop, SequenceTheorems, TLAPS

-----------------------------------------------------------------------------
(***************************************************************************)
(* The unsigned clock.                                                     *)
(***************************************************************************)

\* A timestamp or an age computed from timestamps is again a value of the clock.
LEMMA ClockClosed ==
    ASSUME NEW a \in Millis, NEW b \in Millis
    PROVE  Minus(a, b) \in Millis
BY ClockModAssumption DEF Millis, Minus

\* Adding a duration shorter than the clock stays on the clock.
LEMMA PlusClosed ==
    ASSUME NEW a \in Millis, NEW d \in Nat, d < ClockMod
    PROVE  Plus(a, d) \in Millis
BY ClockModAssumption DEF Millis, Plus

\* A tick makes every age one older, across the wrap too, unless the age itself
\* is the largest the clock can express.
LEMMA TickAges ==
    ASSUME NEW a \in Millis, NEW b \in Millis, Minus(a, b) + 1 < ClockMod
    PROVE  Minus(Plus(a, 1), b) = Minus(a, b) + 1
BY ClockModAssumption DEF Millis, Minus, Plus

\* Something that happens now has age zero.
LEMMA AgeOfNow ==
    ASSUME NEW a \in Millis
    PROVE  Minus(a, a) = 0
BY ClockModAssumption DEF Millis, Minus

\* The windows of the scheduling policy are natural numbers that fit the clock.
LEMMA Windows ==
    /\ cycle_starvation_threshold \in Nat
    /\ remote_temp_stall_threshold \in Nat
    /\ remote_temp_stall_threshold >= cycle_starvation_threshold
    /\ cycle_starvation_threshold >= 3
    /\ cycle_starvation_threshold + 3 < ClockMod
    /\ ClockMod \in Nat
    /\ 1 < ClockMod
BY ClockModAssumption, PolicyAssumption, ClockIsWide
DEF cycle_starvation_threshold, remote_temp_stall_threshold

-----------------------------------------------------------------------------
(***************************************************************************)
(* The unit's queue.                                                       *)
(***************************************************************************)

\* Writing a frame leaves a queue of frames that ends with it.
LEMMA OweAppends ==
    ASSUME NEW queue \in Seq(Frames), NEW frame \in Frames
    PROVE  /\ Owe(queue, frame) \in Seq(Frames)
           /\ Owe(queue, frame) # << >>
           /\ Owe(queue, frame)[Len(Owe(queue, frame))] = frame
<1>1. MaxOwed \in Nat /\ MaxOwed > 0
  BY DriverAssumption
<1>2. CASE Len(queue) < MaxOwed
  BY <1>2, AppendProperties DEF Owe
<1>3. CASE ~(Len(queue) < MaxOwed)
  <2>1. queue # << >>
    BY <1>1, <1>3
  <2>2. Tail(queue) \in Seq(Frames)
    BY <2>1, HeadTailProperties
  <2> QED BY <1>3, <2>2, AppendProperties DEF Owe
<1> QED BY <1>2, <1>3

\* The codes, the acknowledgement and the handshake are frames.
LEMMA FrameTypes ==
    /\ Ack \in Frames
    /\ Hello \in Frames
    /\ Codes \subseteq Frames
    /\ 1 \in Frames
    /\ NoPacket \notin Frames
BY DriverAssumption DEF Frames, Ack, Hello, Codes, NoPacket

\* What a write leaves behind is well typed.
LEMMA LinkTypes ==
    ASSUME TypeOK, NEW frame \in Frames, write_packet(frame)
    PROVE  /\ connected' \in BOOLEAN
           /\ last_send' \in Millis
           /\ last_connect_rq' \in Millis
           /\ pending_packet' \in Frames \union {NoPacket}
           /\ owed' \in Seq(Frames)
BY FrameTypes, OweAppends DEF TypeOK, write_packet, reconnect_uart, Transmit

\* So is what a bare reconnection leaves behind.
LEMMA ReconnectTypes ==
    ASSUME TypeOK, reconnect_uart
    PROVE  /\ connected' = FALSE
           /\ last_send' \in Millis
           /\ last_connect_rq' \in Millis
           /\ owed' \in Seq(Frames)
BY FrameTypes, OweAppends DEF TypeOK, reconnect_uart, Transmit

\* The end of a cycle is well typed too.
LEMMA TerminateTypes ==
    ASSUME TypeOK, NEW queue \in Seq(Frames), terminate_cycle(queue)
    PROVE  /\ cycle_running' = FALSE
           /\ last_cycle_start' \in Millis
           /\ last_complete_cycle' \in Millis
           /\ last_cycle_end' = now
           /\ remote_pending' \in BOOLEAN
           /\ remote_pending_since' \in Millis
           /\ remote_queued_at' \in Millis
           /\ last_send' \in Millis
           /\ owed' \in Seq(Frames)
<1>1. 0 \in Millis
  BY ClockModAssumption DEF Millis
<1>2. CASE remote_pending
  BY <1>1, <1>2, FrameTypes, OweAppends
  DEF TypeOK, terminate_cycle, cycle_ended, remote_sent, Transmit
<1>3. CASE ~remote_pending
  BY <1>3 DEF TypeOK, terminate_cycle, cycle_ended, remoteVars
<1> QED BY <1>2, <1>3

-----------------------------------------------------------------------------
(***************************************************************************)
(* Type correctness, one step per action.                                  *)
(***************************************************************************)
\* The state after the first handshake is well typed.
LEMMA InitType == Init => TypeOK
<1> SUFFICES ASSUME Init PROVE TypeOK
  OBVIOUS
<1>1. now \in Millis /\ 0 \in Millis
  BY ClockModAssumption, DriverAssumption DEF Init, Millis
<1>2. NoSettings \in Settings /\ NoRunStates \in RunStates
  BY <1>1 DEF NoSettings, NoRunStates, Settings, RunStates
<1>3. << >> \in Seq(Frames)
  OBVIOUS
<1> QED BY <1>1, <1>2, <1>3 DEF Init, TypeOK

\* Every action of the loop, the unit, Home Assistant and the timers keeps the types.
LEMMA NextType == TypeOK /\ [Next]_vars => TypeOK'
<1> SUFFICES ASSUME TypeOK, [Next]_vars PROVE TypeOK'
  OBVIOUS
<1> USE DEF cycleVars, linkVars, wantVars, remoteVars
<1>0. 0 \in Millis
  BY ClockModAssumption DEF Millis
<1>1. CASE Tick
  BY <1>1, PlusClosed, Windows DEF Tick, TypeOK
<1>2. CASE RequestSettings
  BY <1>2 DEF RequestSettings, TypeOK, Settings
<1>3. CASE RequestRunStates
  BY <1>3 DEF RequestRunStates, TypeOK, RunStates
<1>4. CASE RequestFunctions
  BY <1>4 DEF RequestFunctions, TypeOK
<1>5. CASE queue_remote_temperature_send
  BY <1>5 DEF queue_remote_temperature_send, TypeOK
<1>6. CASE CheckCycleTimeout
  <2>1. << >> \in Seq(Frames)
    OBVIOUS
  <2> QED BY <1>6, <2>1 DEF CheckCycleTimeout, Decides, cycle_ended, TypeOK
<1>7. CASE SendPendingRemoteTemperature
  BY <1>0, <1>7, LinkTypes, FrameTypes
  DEF SendPendingRemoteTemperature, Decides, remote_sent, TypeOK
<1>8. CASE SendWantedSettings
  <2>1. NoSettings \in Settings
    BY <1>0 DEF NoSettings, Settings
  <2>2. Plus(now, DeferDelay) \in Millis
    BY PlusClosed, DriverAssumption, ClockIsWide DEF TypeOK
  <2> QED BY <1>8, <2>1, <2>2, LinkTypes, ReconnectTypes, FrameTypes
          DEF SendWantedSettings, Decides, defer_cycle, reconnect_if_connection_lost, TypeOK
<1>9. CASE SendWantedRunStates
  <2>1. NoRunStates \in RunStates
    BY <1>0 DEF NoRunStates, RunStates
  <2>2. Plus(now, DeferDelay) \in Millis
    BY PlusClosed, DriverAssumption, ClockIsWide DEF TypeOK
  <2> QED BY <1>9, <2>1, <2>2, LinkTypes, FrameTypes
          DEF SendWantedRunStates, Decides, defer_cycle, TypeOK
<1>10. CASE SetFunctions
  BY <1>10, LinkTypes, FrameTypes DEF SetFunctions, Decides, TypeOK
<1>11. CASE StartCycle
  BY <1>11, LinkTypes, FrameTypes DEF StartCycle, Decides, cycle_started, TypeOK
<1>12. CASE Idle
  BY <1>12 DEF Idle, Decides, TypeOK
<1>13. CASE ReceiveData
  <2>1. PICK code \in Codes :
          /\ Answered(code)
          /\ \/ terminate_cycle(Tail(owed))
             \/ \E next \in code + 1 .. NumRequests :
                  /\ Transmit(Tail(owed), next)
                  /\ UNCHANGED <<cycleVars, remoteVars>>
          /\ UNCHANGED <<connected, last_connect_rq, pending_packet, functions_part2>>
    BY <1>13 DEF ReceiveData
  <2>2. Tail(owed) \in Seq(Frames)
    BY <2>1 DEF Answered, TypeOK
  <2>3. CASE terminate_cycle(Tail(owed))
    BY <2>1, <2>2, <2>3, TerminateTypes DEF Answered, TypeOK
  <2>4. ASSUME NEW next \in code + 1 .. NumRequests,
               Transmit(Tail(owed), next),
               UNCHANGED <<cycleVars, remoteVars>>
        PROVE  TypeOK'
    <3>1. next \in Frames
      BY <2>4, DriverAssumption DEF Codes, Frames
    <3> QED BY <2>1, <2>2, <2>4, <3>1, OweAppends DEF Answered, Transmit, TypeOK
  <2> QED BY <2>1, <2>3, <2>4
<1>14. CASE ReceiveAck
  <2>1. Tail(owed) \in Seq(Frames)
    BY <1>14 DEF ReceiveAck, Answered, TypeOK
  <2> QED BY <1>14, <2>1, OweAppends, FrameTypes DEF ReceiveAck, Answered, Transmit, TypeOK
<1>15. CASE ReceiveHello
  <2>1. Tail(owed) \in Seq(Frames)
    BY <1>15 DEF ReceiveHello, Answered, TypeOK
  <2> QED BY <1>15, <2>1 DEF ReceiveHello, Answered, cycle_init, TypeOK
<1>16. CASE Lose
  <2>1. Tail(owed) \in Seq(Frames)
    BY <1>16 DEF Lose, TypeOK
  <2> QED BY <1>16, <2>1 DEF Lose, TypeOK
<1>17. CASE FunctionsPart2Timer
  BY <1>17, LinkTypes, FrameTypes DEF FunctionsPart2Timer, TypeOK
<1>18. CASE try_write_pending_packet
  BY <1>18, OweAppends, ReconnectTypes
  DEF try_write_pending_packet, Transmit, TypeOK
<1>19. CASE CheckFirstConnection
  BY <1>19, ReconnectTypes DEF CheckFirstConnection, TypeOK
<1>20. CASE UNCHANGED vars
  BY <1>20 DEF vars, TypeOK
<1> QED
  BY <1>1, <1>2, <1>3, <1>4, <1>5, <1>6, <1>7, <1>8, <1>9, <1>10, <1>11, <1>12, <1>13,
     <1>14, <1>15, <1>16, <1>17, <1>18, <1>19, <1>20
  DEF Next, HomeAssistant, LoopStep, Unit, Timers

\* Every timestamp stays on the clock and every frame the unit owes an answer to is
\* one the driver can write, whatever the requests, losses and retries.
THEOREM TypeCorrect == Spec => []TypeOK
<1>1. Init => TypeOK
  BY InitType
<1>2. TypeOK /\ [Next]_vars => TypeOK'
  BY NextType
<1> QED BY <1>1, <1>2, PTL DEF Spec

-----------------------------------------------------------------------------
(***************************************************************************)
(* The cycles are not starved.  CyclesNotStarved is not inductive: it does *)
(* not say what the loop may still do once the guard is active.  Past the  *)
(* threshold the only rival of a cycle is a remote temperature queued for  *)
(* longer than the stall threshold, and sending it restarts its clock, so  *)
(* the strengthening follows the age of the queued temperature over the    *)
(* two ticks after the threshold.                                          *)
(***************************************************************************)
Polling == connected /\ ~cycle_running

CycleAge == Elapsed(last_cycle_end)

FreshRemote(age) == remote_pending => Elapsed(remote_pending_since) <= age

\* A poll that starts past `limit` starts within the two ticks that follow it.
GapInv(limit) ==
    Polling =>
      /\ CycleAge <= limit + 2
      /\ CycleAge = limit + 1 /\ looped => FreshRemote(0)
      /\ CycleAge = limit + 2 => ~looped /\ FreshRemote(1)

StarvationInv == GapInv(cycle_starvation_threshold)

\* A limit that the windows of the policy leave room for.
IsLimit(limit) == limit \in Nat /\ limit <= cycle_starvation_threshold

\* A write the guard blocks, or an idle iteration, is chosen only below the threshold.
LEMMA WritesYield ==
    ASSUME NEW action \in {"SEND_SETTINGS", "SEND_RUN_STATES", "SET_FUNCTIONS", "IDLE"},
           decide_loop_action(LoopInputs) = action, TypeOK
    PROVE  CycleAge <= cycle_starvation_threshold
<1>1. ~is_cycle_starved(now, last_cycle_end)
  BY DEF decide_loop_action, LoopInputs
<1>2. CycleAge \in Nat
  BY ClockClosed, ClockModAssumption DEF CycleAge, Elapsed, TypeOK, Millis
<1> QED BY <1>1, <1>2, Windows DEF is_cycle_starved, CycleAge, Elapsed

\* The safety net fires only for a temperature queued for the stall threshold.
LEMMA ForcedIsStalled ==
    ASSUME decide_loop_action(LoopInputs) = "SEND_REMOTE_TEMP"
    PROVE  /\ ~cycle_running
           /\ remote_pending
           /\ Elapsed(remote_pending_since) >= remote_temp_stall_threshold
BY DEF decide_loop_action, LoopInputs, should_force_remote_temp_send, Elapsed

\* A step that ends a cycle, or the handshake, restarts the count.
LEMMA CountRestarts ==
    ASSUME NEW limit, IsLimit(limit), TypeOK, now' = now, last_cycle_end' = now
    PROVE  GapInv(limit)'
<1>1. CycleAge' = 0
  BY AgeOfNow DEF CycleAge, Elapsed, TypeOK
<1> QED BY <1>1, Windows DEF IsLimit, GapInv, Polling

\* A step below the limit that leaves the clock and the count alone keeps it.
LEMMA BelowTheThreshold ==
    ASSUME NEW limit, IsLimit(limit), CycleAge <= limit, TypeOK,
           now' = now, last_cycle_end' = last_cycle_end
    PROVE  GapInv(limit)'
<1>1. CycleAge' = CycleAge
  BY DEF CycleAge, Elapsed
<1>2. CycleAge \in Nat
  BY ClockClosed, ClockModAssumption DEF CycleAge, Elapsed, TypeOK, Millis
<1> QED BY <1>1, <1>2, Windows DEF IsLimit, GapInv, Polling

\* Any other step of the same instant preserves it, if it starts no new poll and
\* neither ages the queued temperature nor takes a decision of the loop.
LEMMA SameInstant ==
    ASSUME NEW limit, IsLimit(limit), GapInv(limit), TypeOK, Polling' => Polling,
           now' = now, looped' = looped, last_cycle_end' = last_cycle_end,
           \/ ~remote_pending'
           \/ remote_pending' /\ remote_pending_since' = now
           \/ UNCHANGED <<remote_pending, remote_pending_since>>
    PROVE  GapInv(limit)'
<1>1. CycleAge' = CycleAge
  BY DEF CycleAge, Elapsed
<1>2. ASSUME NEW age \in {0, 1}, FreshRemote(age)
      PROVE  FreshRemote(age)'
  <2>1. CASE remote_pending_since' = now
    BY <2>1, AgeOfNow DEF FreshRemote, Elapsed, TypeOK
  <2>2. CASE UNCHANGED <<remote_pending, remote_pending_since>>
    BY <1>2, <2>2 DEF FreshRemote, Elapsed
  <2>3. CASE ~remote_pending'
    BY <2>3 DEF FreshRemote
  <2> QED BY <2>1, <2>2, <2>3
<1> QED BY <1>1, <1>2 DEF IsLimit, GapInv

\* Every action preserves the bound, if the loop finds something better to do than to
\* poll only below the limit.
LEMMA GapStep ==
    ASSUME NEW limit, IsLimit(limit), TypeOK, GapInv(limit), [Next]_vars,
           connected /\ decide_loop_action(LoopInputs)
                          \in {"SEND_SETTINGS", "SEND_RUN_STATES", "SET_FUNCTIONS", "IDLE"}
             => CycleAge <= limit
    PROVE  GapInv(limit)'
<1> USE DEF cycleVars, linkVars, remoteVars
<1>0. now \in Millis /\ last_cycle_end \in Millis /\ remote_pending_since \in Millis
  BY DEF TypeOK
<1>1. CASE Tick
  <2> SUFFICES ASSUME Polling PROVE GapInv(limit)'
    BY <1>1 DEF Tick, GapInv, Polling
  <2>1. looped /\ ~looped' /\ now' = Plus(now, 1)
    BY <1>1 DEF Tick, Polling
  <2>2. CycleAge \in Nat /\ CycleAge <= limit + 1
    <3>1. CycleAge \in Nat
      BY <1>0, ClockClosed DEF CycleAge, Elapsed, Millis
    <3> QED BY <2>1, <3>1, Windows DEF IsLimit, GapInv
  <2>3. CycleAge' = CycleAge + 1
    BY <1>0, <1>1, <2>1, <2>2, TickAges, Windows DEF IsLimit, Tick, CycleAge, Elapsed
  <2>4. ASSUME CycleAge = limit + 1 PROVE FreshRemote(1)'
    <3> SUFFICES ASSUME remote_pending PROVE Elapsed(remote_pending_since)' <= 1
      BY <1>1 DEF Tick, FreshRemote
    <3>1. Elapsed(remote_pending_since) = 0
      BY <1>0, <2>1, <2>4, ClockClosed DEF IsLimit, GapInv, FreshRemote, Elapsed, Millis
    <3> QED BY <1>0, <1>1, <2>1, <3>1, TickAges, Windows DEF Tick, Elapsed
  <2> QED BY <2>1, <2>2, <2>3, <2>4, Windows DEF IsLimit, GapInv
<1>2. CASE RequestSettings
  BY <1>2, SameInstant DEF RequestSettings, Polling
<1>3. CASE RequestRunStates
  BY <1>3, SameInstant DEF RequestRunStates, Polling
<1>4. CASE RequestFunctions
  BY <1>4, SameInstant DEF RequestFunctions, Polling
<1>5. CASE queue_remote_temperature_send
  BY <1>5, SameInstant DEF queue_remote_temperature_send, Polling, TypeOK
<1>6. CASE CheckCycleTimeout
  <2>1. CASE cycle_ended
    BY <1>6, <2>1, CountRestarts DEF CheckCycleTimeout, Decides, cycle_ended
  <2>2. CASE UNCHANGED cycleVars
    <3>1. cycle_running
      BY <1>6 DEF CheckCycleTimeout, Decides, decide_loop_action, LoopInputs
    <3> QED BY <2>2, <3>1 DEF IsLimit, GapInv, Polling
  <2> QED BY <1>6, <2>1, <2>2 DEF CheckCycleTimeout
<1>7. CASE SendPendingRemoteTemperature
  <2>1. now' = now /\ looped' /\ cycle_running' = cycle_running /\ last_cycle_end' = last_cycle_end
    BY <1>7 DEF SendPendingRemoteTemperature, Decides
  <2>2. ~cycle_running /\ remote_pending /\ connected
        /\ Elapsed(remote_pending_since) >= remote_temp_stall_threshold
    BY <1>7, ForcedIsStalled DEF SendPendingRemoteTemperature, Decides
  <2>3. CycleAge' = CycleAge /\ CycleAge \in Nat /\ Elapsed(remote_pending_since) \in Nat
    BY <1>0, <2>1, ClockClosed DEF CycleAge, Elapsed, Millis
  <2>4. CycleAge <= limit + 1
    BY <2>2, <2>3, Windows DEF IsLimit, GapInv, Polling, FreshRemote
  <2>5. FreshRemote(0)'
    <3>1. CASE remote_sent
      BY <3>1 DEF remote_sent, FreshRemote
    <3>2. CASE remote_pending_since' = now
      BY <1>0, <2>1, <3>2, AgeOfNow DEF FreshRemote, Elapsed
    <3> QED BY <1>7, <3>1, <3>2 DEF SendPendingRemoteTemperature
  <2> QED BY <2>1, <2>3, <2>4, <2>5, Windows DEF IsLimit, GapInv
<1>8. CASE SendWantedSettings
  <2>1. CycleAge <= limit
    BY <1>8 DEF SendWantedSettings, Decides
  <2>2. now' = now /\ last_cycle_end' = last_cycle_end
    BY <1>8 DEF SendWantedSettings, Decides, defer_cycle
  <2> QED BY <2>1, <2>2, BelowTheThreshold
<1>9. CASE SendWantedRunStates
  <2>1. CycleAge <= limit
    BY <1>9 DEF SendWantedRunStates, Decides
  <2>2. now' = now /\ last_cycle_end' = last_cycle_end
    BY <1>9 DEF SendWantedRunStates, Decides, defer_cycle
  <2> QED BY <2>1, <2>2, BelowTheThreshold
<1>10. CASE SetFunctions
  <2>1. CycleAge <= limit
    BY <1>10 DEF SetFunctions, Decides
  <2>2. now' = now /\ last_cycle_end' = last_cycle_end
    BY <1>10 DEF SetFunctions, Decides
  <2> QED BY <2>1, <2>2, BelowTheThreshold
<1>11. CASE StartCycle
  <2>1. cycle_running'
    BY <1>11 DEF StartCycle, cycle_started
  <2> QED BY <2>1 DEF IsLimit, GapInv, Polling
<1>12. CASE Idle
  <2>1. CycleAge <= limit
    BY <1>12 DEF Idle, Decides
  <2>2. now' = now /\ last_cycle_end' = last_cycle_end
    BY <1>12 DEF Idle, Decides
  <2> QED BY <2>1, <2>2, BelowTheThreshold
<1>13. CASE ReceiveData
  <2>1. now' = now /\ looped' = looped /\ connected' = connected
    BY <1>13 DEF ReceiveData, Answered
  <2>2. CASE terminate_cycle(Tail(owed))
    BY <2>1, <2>2, CountRestarts DEF terminate_cycle, cycle_ended
  <2>3. CASE UNCHANGED <<cycleVars, remoteVars>>
    BY <2>1, <2>3, SameInstant DEF Polling
  <2> QED BY <1>13, <2>2, <2>3 DEF ReceiveData
<1>14. CASE ReceiveAck
  BY <1>14, SameInstant DEF ReceiveAck, Answered, Polling
<1>15. CASE ReceiveHello
  BY <1>15, CountRestarts DEF ReceiveHello, Answered, cycle_init
<1>16. CASE Lose
  BY <1>16, SameInstant DEF Lose, Polling
<1>17. CASE FunctionsPart2Timer
  BY <1>17, SameInstant DEF FunctionsPart2Timer, write_packet, reconnect_uart, Polling
<1>18. CASE try_write_pending_packet
  BY <1>18, SameInstant DEF try_write_pending_packet, reconnect_uart, Polling
<1>19. CASE CheckFirstConnection
  BY <1>19, SameInstant DEF CheckFirstConnection, reconnect_uart, Polling
<1>20. CASE UNCHANGED vars
  BY <1>20, SameInstant DEF vars, Polling
<1> QED
  BY <1>1, <1>2, <1>3, <1>4, <1>5, <1>6, <1>7, <1>8, <1>9, <1>10, <1>11, <1>12, <1>13,
     <1>14, <1>15, <1>16, <1>17, <1>18, <1>19, <1>20
  DEF Next, HomeAssistant, LoopStep, Unit, Timers

\* Every action preserves the strengthened bound on the age of the last cycle.
LEMMA StarvationStep == TypeOK /\ StarvationInv /\ [Next]_vars => StarvationInv'
<1> SUFFICES ASSUME TypeOK, StarvationInv, [Next]_vars PROVE StarvationInv'
  OBVIOUS
<1>1. IsLimit(cycle_starvation_threshold)
  BY Windows DEF IsLimit
<1>2. ASSUME decide_loop_action(LoopInputs)
               \in {"SEND_SETTINGS", "SEND_RUN_STATES", "SET_FUNCTIONS", "IDLE"}
      PROVE  CycleAge <= cycle_starvation_threshold
  BY <1>2, WritesYield
<1> QED BY <1>1, <1>2, GapStep DEF StarvationInv

\* Whatever Home Assistant asks for and however often, and across the wrap of the
\* clock, a connected driver starts its next info cycle at most two iterations of
\* the loop after the starvation threshold.
THEOREM CyclesAreNotStarved == Spec => []CyclesNotStarved
<1>1. Init => TypeOK /\ StarvationInv
  <2> SUFFICES ASSUME Init PROVE StarvationInv
    BY InitType
  <2>1. CycleAge = 0
    BY InitType, AgeOfNow DEF Init, TypeOK, CycleAge, Elapsed
  <2> QED BY <2>1, Windows DEF StarvationInv, GapInv
<1>2. TypeOK /\ StarvationInv /\ [Next]_vars => (TypeOK /\ StarvationInv)'
  BY NextType, StarvationStep
<1>3. StarvationInv => CyclesNotStarved
  BY DEF StarvationInv, GapInv, CyclesNotStarved, Polling, CycleAge
<1> QED BY <1>1, <1>2, <1>3, PTL DEF Spec

-----------------------------------------------------------------------------
(***************************************************************************)
(* No cycle outlives its timeout, as long as the clock does not wrap: the  *)
(* comparison of does_cycle_time_out that guards the subtraction is blind  *)
(* for a cycle started before the wrap.  TimeoutInv says what the bound    *)
(* rests on: the start of the cycle is not in the future, and once the age *)
(* is one past the timeout the loop has yet to run in this instant.        *)
(***************************************************************************)
WithoutWrap ==
    /\ Horizon \in Millis
    /\ \A t \in StartTimes : t <= Horizon

InCycle == connected /\ cycle_running

TimeoutInv ==
    /\ now <= Horizon
    /\ last_cycle_start <= now
    /\ InCycle => /\ now - last_cycle_start <= cycle_timeout + 1
                  /\ now - last_cycle_start = cycle_timeout + 1 => ~looped

\* The timeout is a natural number.
LEMMA TimeoutWindow == cycle_timeout \in Nat
BY PolicyAssumption, DriverAssumption DEF cycle_timeout

\* Any step of the same instant that neither starts a cycle nor runs the loop.
LEMMA SameInstantOfCycle ==
    ASSUME TimeoutInv, InCycle' => InCycle,
           now' = now, looped' = looped, last_cycle_start' = last_cycle_start
    PROVE  TimeoutInv'
BY DEF TimeoutInv

\* A step after which no cycle runs on a connected link.
LEMMA NoCycle ==
    ASSUME TimeoutInv, ~InCycle', now' = now, last_cycle_start' = last_cycle_start
    PROVE  TimeoutInv'
BY DEF TimeoutInv

\* Every action preserves the bound on the age of the running cycle.
LEMMA TimeoutStep ==
    WithoutWrap /\ TypeOK /\ TimeoutInv /\ [Next]_vars => TimeoutInv'
<1> SUFFICES ASSUME WithoutWrap, TypeOK, TimeoutInv, [Next]_vars PROVE TimeoutInv'
  OBVIOUS
<1> USE DEF cycleVars, linkVars, remoteVars
<1>0. /\ now \in Nat
      /\ last_cycle_start \in Nat
      /\ Horizon \in Nat
      /\ Horizon < ClockMod
      /\ ClockMod \in Nat
  BY ClockModAssumption DEF TypeOK, WithoutWrap, Millis
<1>1. CASE Tick
  <2>1. now' = now + 1 /\ now + 1 <= Horizon /\ ~looped' /\ UNCHANGED <<last_cycle_start, connected, cycle_running>>
    BY <1>0, <1>1 DEF Tick, Plus, TimeoutInv
  <2>2. connected => looped
    BY <1>1 DEF Tick
  <2> QED BY <1>0, <2>1, <2>2, TimeoutWindow DEF TimeoutInv, InCycle
<1>2. CASE HomeAssistant
  BY <1>2, SameInstantOfCycle
  DEF HomeAssistant, RequestSettings, RequestRunStates, RequestFunctions,
      queue_remote_temperature_send, InCycle
<1>3. CASE CheckCycleTimeout
  <2>1. now' = now /\ connected' = connected /\ last_cycle_start' = last_cycle_start
    BY <1>3 DEF CheckCycleTimeout, Decides, cycle_ended
  <2>2. CASE cycle_ended
    BY <2>1, <2>2, NoCycle DEF cycle_ended, InCycle
  <2>3. CASE ~does_cycle_time_out /\ UNCHANGED cycleVars
    <3>1. now - last_cycle_start <= cycle_timeout
      BY <1>0, <2>3, TimeoutWindow DEF does_cycle_time_out, Elapsed, Minus, TimeoutInv
    <3> QED BY <1>0, <2>1, <2>3, <3>1, TimeoutWindow DEF TimeoutInv
  <2> QED BY <1>3, <2>2, <2>3 DEF CheckCycleTimeout
<1>4. CASE StartCycle
  <2>1. now' = now /\ last_cycle_start' = now
    BY <1>4 DEF StartCycle, Decides, cycle_started
  <2> QED BY <1>0, <2>1, TimeoutWindow DEF TimeoutInv
<1>5. CASE SendPendingRemoteTemperature
  BY <1>5, NoCycle, ForcedIsStalled DEF SendPendingRemoteTemperature, Decides, InCycle
<1>6. ASSUME NEW action \in {"SEND_SETTINGS", "SEND_RUN_STATES", "SET_FUNCTIONS", "IDLE"},
             Decides(action), cycle_running' = cycle_running,
             last_cycle_start' = last_cycle_start
      PROVE  TimeoutInv'
  <2>1. ~cycle_running /\ now' = now
    BY <1>6 DEF Decides, decide_loop_action, LoopInputs
  <2> QED BY <1>6, <2>1, NoCycle DEF InCycle
<1>7. CASE SendWantedSettings
  BY <1>6, <1>7 DEF SendWantedSettings, defer_cycle
<1>8. CASE SendWantedRunStates
  BY <1>6, <1>8 DEF SendWantedRunStates, defer_cycle
<1>9. CASE SetFunctions
  BY <1>6, <1>9 DEF SetFunctions
<1>10. CASE Idle
  BY <1>6, <1>10 DEF Idle
<1>11. CASE ReceiveData
  <2>1. now' = now /\ looped' = looped /\ connected' = connected
    BY <1>11 DEF ReceiveData, Answered
  <2>2. CASE terminate_cycle(Tail(owed))
    BY <2>1, <2>2, NoCycle DEF terminate_cycle, cycle_ended, InCycle
  <2>3. CASE UNCHANGED <<cycleVars, remoteVars>>
    BY <2>1, <2>3, SameInstantOfCycle DEF InCycle
  <2> QED BY <1>11, <2>2, <2>3 DEF ReceiveData
<1>12. CASE ReceiveAck
  BY <1>12, SameInstantOfCycle DEF ReceiveAck, Answered, InCycle
<1>13. CASE ReceiveHello
  BY <1>13, NoCycle DEF ReceiveHello, Answered, cycle_init, InCycle
<1>14. CASE Lose
  BY <1>14, SameInstantOfCycle DEF Lose, InCycle
<1>15. CASE FunctionsPart2Timer
  BY <1>15, SameInstantOfCycle DEF FunctionsPart2Timer, write_packet, reconnect_uart, InCycle
<1>16. CASE try_write_pending_packet
  BY <1>16, SameInstantOfCycle DEF try_write_pending_packet, reconnect_uart, InCycle
<1>17. CASE CheckFirstConnection
  BY <1>17, SameInstantOfCycle DEF CheckFirstConnection, reconnect_uart, InCycle
<1>18. CASE UNCHANGED vars
  BY <1>18, SameInstantOfCycle DEF vars, InCycle
<1> QED
  BY <1>1, <1>2, <1>3, <1>4, <1>5, <1>7, <1>8, <1>9, <1>10, <1>11, <1>12, <1>13, <1>14,
     <1>15, <1>16, <1>17, <1>18
  DEF Next, LoopStep, Unit, Timers

\* Until the clock wraps, a cycle whose answer was lost is given up in the first
\* iteration of the loop after its timeout.  (Across the wrap it is not: the run
\* loop_wrap_wedge.)
THEOREM CyclesTimeOut ==
    ASSUME WithoutWrap
    PROVE  Spec => []CycleTimesOut
<1>1. Init => TypeOK /\ TimeoutInv
  <2> SUFFICES ASSUME Init PROVE TimeoutInv
    BY InitType
  <2>1. now \in Nat
    BY ClockModAssumption, InitType DEF TypeOK, Millis
  <2> QED BY <2>1, WithoutWrap DEF Init, TimeoutInv, InCycle, WithoutWrap
<1>2. TypeOK /\ TimeoutInv /\ [Next]_vars => (TypeOK /\ TimeoutInv)'
  BY NextType, TimeoutStep
<1>3. TypeOK /\ TimeoutInv => CycleTimesOut
  BY ClockModAssumption
  DEF TypeOK, TimeoutInv, CycleTimesOut, InCycle, Elapsed, Minus, Millis
<1> QED BY <1>1, <1>2, <1>3, PTL DEF Spec

-----------------------------------------------------------------------------
(***************************************************************************)
(* The starvation guard is a safety net.  With no write to defer them, the *)
(* cycles follow each other at the pace of has_update_interval_passed, and *)
(* the bound that holds past the starvation threshold holds past the poll  *)
(* interval already.  Across the wrap it does not: that comparison is      *)
(* blind there, and the guard is what polls again.                         *)
(***************************************************************************)
PaceInv ==
    /\ now <= Horizon
    /\ last_cycle_end <= now
    /\ last_complete_cycle = last_cycle_end
    /\ ~wanted_settings.has_changed /\ ~wanted_run_states.has_changed /\ ~set_functions_wanted
    /\ GapInv(UpdateInterval)

\* With nothing to write, the loop is idle only while the interval lasts.
LEMMA NothingToWrite ==
    ASSUME TypeOK, PaceInv
    PROVE  /\ decide_loop_action(LoopInputs)
                \notin {"SEND_SETTINGS", "SEND_RUN_STATES", "SET_FUNCTIONS"}
           /\ decide_loop_action(LoopInputs) = "IDLE" => CycleAge <= UpdateInterval
<1>1. ~LoopInputs.settings_changed /\ ~LoopInputs.run_states_changed /\ ~LoopInputs.set_functions
  BY DEF LoopInputs, PaceInv
<1>2. CycleAge \in Nat /\ UpdateInterval \in Nat
  BY ClockClosed, ClockModAssumption, PolicyAssumption DEF CycleAge, Elapsed, TypeOK, Millis
<1>3. decide_loop_action(LoopInputs) = "IDLE"
        => ~has_update_interval_passed(now, last_complete_cycle)
  BY DEF decide_loop_action, LoopInputs
<1> QED BY <1>1, <1>2, <1>3, PolicyAssumption
        DEF decide_loop_action, has_update_interval_passed, PaceInv, CycleAge, Elapsed

\* Every action preserves the pace, when the remote temperature is all that is written.
LEMMA PaceStep ==
    ASSUME WithoutWrap, Clients \subseteq {"remote"}, TypeOK, PaceInv, [Next]_vars
    PROVE  PaceInv'
<1> USE DEF cycleVars, wantVars
<1>1. GapInv(UpdateInterval)'
  <2>1. IsLimit(UpdateInterval)
    BY PolicyAssumption DEF IsLimit, cycle_starvation_threshold
  <2> QED BY <2>1, NothingToWrite, GapStep DEF PaceInv
<1>2. now' <= Horizon /\ (now' = now \/ (now' = now + 1 /\ UNCHANGED cycleVars))
  <2>1. now \in Nat /\ Horizon \in Nat /\ Horizon < ClockMod /\ ClockMod \in Nat
    BY ClockModAssumption DEF TypeOK, WithoutWrap, Millis
  <2>2. CASE Tick
    BY <2>1, <2>2 DEF Tick, Plus, PaceInv
  <2>3. CASE now' = now
    BY <2>3 DEF PaceInv
  <2> QED BY <2>2, <2>3
          DEF Next, HomeAssistant, LoopStep, Unit, Timers, RequestSettings, RequestRunStates,
              RequestFunctions, queue_remote_temperature_send, CheckCycleTimeout, Decides,
              SendPendingRemoteTemperature, SendWantedSettings, SendWantedRunStates,
              SetFunctions, StartCycle, Idle, ReceiveData, ReceiveAck, ReceiveHello, Answered,
              Lose, FunctionsPart2Timer, try_write_pending_packet, CheckFirstConnection, vars
<1>3. /\ ~wanted_settings'.has_changed /\ ~wanted_run_states'.has_changed
      /\ ~set_functions_wanted'
      /\ \/ UNCHANGED <<last_complete_cycle, last_cycle_end>>
         \/ now' = now /\ (cycle_ended \/ cycle_init)
  <2>1. CASE HomeAssistant
    BY <2>1 DEF PaceInv, HomeAssistant, RequestSettings, RequestRunStates, RequestFunctions,
                queue_remote_temperature_send
  <2>2. CASE LoopStep
    BY <2>2, NothingToWrite
       DEF PaceInv, LoopStep, CheckCycleTimeout, SendPendingRemoteTemperature,
           SendWantedSettings, SendWantedRunStates, SetFunctions, StartCycle, cycle_started,
           Idle, Decides
  <2>3. CASE Unit
    BY <2>3 DEF PaceInv, Unit, ReceiveData, ReceiveAck, ReceiveHello, Answered, Lose,
                terminate_cycle
  <2>4. CASE Tick \/ Timers \/ UNCHANGED vars
    BY <2>4 DEF PaceInv, Tick, Timers, FunctionsPart2Timer, try_write_pending_packet,
                CheckFirstConnection, vars
  <2> QED BY <2>1, <2>2, <2>3, <2>4 DEF Next
<1>4. last_cycle_end' <= now' /\ last_complete_cycle' = last_cycle_end'
  <2>1. now \in Nat /\ last_cycle_end \in Nat
    BY DEF TypeOK, Millis
  <2> QED BY <1>2, <1>3, <2>1 DEF PaceInv, cycle_ended, cycle_init
<1> QED BY <1>1, <1>2, <1>3, <1>4 DEF PaceInv

\* Where nothing but the remote temperature is written, and until the clock wraps, the
\* next cycle starts at most two iterations of the loop after the poll interval: the
\* starvation guard of decide_loop_action is never what starts it.
THEOREM GuardStaysSilent ==
    ASSUME WithoutWrap
    PROVE  Spec => []GuardSilentWithoutWrites
<1>1. CASE Clients \subseteq {"remote"}
  <2>1. Init => TypeOK /\ PaceInv
    <3> SUFFICES ASSUME Init PROVE PaceInv
      BY InitType
    <3>1. now \in Nat /\ now \in Millis /\ now <= Horizon
      BY InitType, WithoutWrap DEF Init, TypeOK, WithoutWrap, Millis
    <3>2. CycleAge = 0
      BY <3>1, AgeOfNow DEF Init, CycleAge, Elapsed
    <3> QED BY <3>1, <3>2, PolicyAssumption
            DEF Init, PaceInv, GapInv, NoSettings, NoRunStates
  <2>2. TypeOK /\ PaceInv /\ [Next]_vars => (TypeOK /\ PaceInv)'
    BY <1>1, WithoutWrap, NextType, PaceStep
  <2>3. PaceInv => GuardSilentWithoutWrites
    BY DEF PaceInv, GapInv, GuardSilentWithoutWrites, Polling, CycleAge
  <2> QED BY <2>1, <2>2, <2>3, PTL DEF Spec
<1>2. CASE ~(Clients \subseteq {"remote"})
  <2>1. GuardSilentWithoutWrites
    BY <1>2 DEF GuardSilentWithoutWrites
  <2> QED BY <2>1, PTL
<1> QED BY <1>1, <1>2

-----------------------------------------------------------------------------
(***************************************************************************)
(* Nothing the user asked for is forgotten in the driver.                  *)
(***************************************************************************)

\* Putting a frame on an active link leaves the retry slot alone.
LEMMA ActiveWrite ==
    ASSUME TypeOK, is_heatpump_connection_active, write_packet(Ack)
    PROVE  /\ owed' # << >>
           /\ owed'[Len(owed')] = Ack
           /\ last_send' = now
           /\ UNCHANGED pending_packet
BY FrameTypes, OweAppends DEF TypeOK, write_packet, Transmit

SentNow ==
    /\ owed' # << >>
    /\ owed'[Len(owed')] = Ack
    /\ last_send' = now
    /\ UNCHANGED pending_packet

SettingsForgotten ==
    wanted_settings.has_changed /\ wanted_settings.has_payload /\ ~wanted_settings'.has_changed

RemoteForgotten == remote_pending /\ ~remote_pending'

\* A step that forgets a pending write is one that put it on the wire.
LEMMA ForgettingStep ==
    TypeOK /\ [Next]_vars => (SettingsForgotten \/ RemoteForgotten => SentNow)
<1> SUFFICES ASSUME TypeOK, [Next]_vars, SettingsForgotten \/ RemoteForgotten
             PROVE  SentNow
  OBVIOUS
<1> USE DEF linkVars, wantVars, remoteVars, SettingsForgotten, RemoteForgotten
<1>1. CASE SendPendingRemoteTemperature
  BY <1>1, ActiveWrite DEF SendPendingRemoteTemperature, SentNow
<1>2. CASE SendWantedSettings
  BY <1>2, ActiveWrite DEF SendWantedSettings, SentNow
<1>3. CASE ReceiveData
  <2>1. Tail(owed) \in Seq(Frames)
    BY <1>3, HeadTailProperties DEF ReceiveData, Answered, TypeOK
  <2>2. terminate_cycle(Tail(owed)) /\ remote_pending /\ UNCHANGED pending_packet
    BY <1>3 DEF ReceiveData, Answered
  <2> QED BY <2>1, <2>2, FrameTypes, OweAppends DEF terminate_cycle, Transmit, SentNow
<1>4. CASE HomeAssistant
  BY <1>4 DEF HomeAssistant, RequestSettings, RequestRunStates, RequestFunctions,
              queue_remote_temperature_send
<1>5. CASE Tick \/ CheckCycleTimeout \/ SendWantedRunStates \/ SetFunctions \/ StartCycle \/ Idle
  BY <1>5 DEF Tick, CheckCycleTimeout, SendWantedRunStates, SetFunctions, StartCycle, Idle
<1>6. CASE ReceiveAck \/ ReceiveHello \/ Lose \/ Timers \/ UNCHANGED vars
  BY <1>6 DEF ReceiveAck, ReceiveHello, Lose, Answered, Timers, FunctionsPart2Timer,
              try_write_pending_packet, CheckFirstConnection, vars
<1> QED BY <1>1, <1>2, <1>3, <1>4, <1>5, <1>6 DEF Next, LoopStep, Unit

\* A change of the settings and a remote temperature leave the driver's memory only
\* in the step that writes them, never through the retry slot.
THEOREM NothingIsForgotten == Spec => ForgottenOnlyWhenTransmitted
<1>1. Init => TypeOK
  BY InitType
<1>2. TypeOK /\ [Next]_vars => TypeOK'
  BY NextType
<1>3. TypeOK /\ [Next]_vars => (SettingsForgotten \/ RemoteForgotten => SentNow)
  BY ForgettingStep
<1> QED BY <1>1, <1>2, <1>3, PTL
        DEF Spec, ForgottenOnlyWhenTransmitted, SettingsForgotten, RemoteForgotten, SentNow

-----------------------------------------------------------------------------
(***************************************************************************)
(* The bus is serialized.  On a link that is never reconnected, a request  *)
(* is owed only while a cycle runs, and never a second one: the chain of   *)
(* process_response starts with an empty queue of requests and goes on     *)
(* only when the last one was answered.  A cycle that times out leaves     *)
(* none behind if the unit is punctual.                                    *)
(***************************************************************************)
NoRequest(queue) == \A i \in 1 .. Len(queue) : queue[i] \notin Codes

OneRequest(queue) ==
    \A i, j \in 1 .. Len(queue) : queue[i] \in Codes /\ queue[j] \in Codes => i = j

NoHello(queue) == \A i \in 1 .. Len(queue) : queue[i] # Hello

RequestInv ==
    /\ connected
    /\ pending_packet = NoPacket
    /\ NoHello(owed)
    /\ OneRequest(owed)
    /\ ~cycle_running => NoRequest(owed)

\* What the answer to the oldest frame leaves in the queue.
LEMMA Answering ==
    ASSUME NEW queue \in Seq(Frames), queue # << >>
    PROVE  /\ Tail(queue) \in Seq(Frames)
           /\ Len(Tail(queue)) = Len(queue) - 1
           /\ NoHello(queue) => NoHello(Tail(queue)) /\ Head(queue) # Hello
           /\ NoRequest(queue) => NoRequest(Tail(queue)) /\ Head(queue) \notin Codes
           /\ OneRequest(queue) => OneRequest(Tail(queue))
           /\ OneRequest(queue) /\ Head(queue) \in Codes => NoRequest(Tail(queue))
<1>1. /\ Tail(queue) \in Seq(Frames)
      /\ Len(Tail(queue)) = Len(queue) - 1
      /\ \A i \in 1 .. Len(Tail(queue)) : Tail(queue)[i] = queue[i + 1]
  BY HeadTailProperties
<1>2. Len(queue) \in Nat /\ Len(queue) > 0 /\ Head(queue) = queue[1]
  BY LenProperties
<1>3. NoHello(queue) => NoHello(Tail(queue)) /\ Head(queue) # Hello
  BY <1>1, <1>2 DEF NoHello
<1>4. NoRequest(queue) => NoRequest(Tail(queue)) /\ Head(queue) \notin Codes
  BY <1>1, <1>2 DEF NoRequest
<1>5. OneRequest(queue) => OneRequest(Tail(queue))
  BY <1>1, <1>2 DEF OneRequest
<1>6. OneRequest(queue) /\ Head(queue) \in Codes => NoRequest(Tail(queue))
  BY <1>1, <1>2 DEF OneRequest, NoRequest
<1> QED BY <1>1, <1>3, <1>4, <1>5, <1>6

\* What a frame adds to a queue, whether or not it pushes the oldest one out.
LEMMA Owing ==
    ASSUME NEW queue \in Seq(Frames), NEW frame \in Frames
    PROVE  /\ Owe(queue, frame) \in Seq(Frames)
           /\ Len(Owe(queue, frame)) <= Len(queue) + 1
           /\ NoHello(queue) /\ frame # Hello => NoHello(Owe(queue, frame))
           /\ NoRequest(queue) => OneRequest(Owe(queue, frame))
           /\ NoRequest(queue) /\ frame \notin Codes => NoRequest(Owe(queue, frame))
           /\ OneRequest(queue) /\ frame \notin Codes => OneRequest(Owe(queue, frame))
<1>1. ASSUME NEW before \in Seq(Frames)
      PROVE  LET after == Append(before, frame)
             IN  /\ after \in Seq(Frames)
                 /\ Len(after) = Len(before) + 1
                 /\ NoHello(before) /\ frame # Hello => NoHello(after)
                 /\ NoRequest(before) => OneRequest(after)
                 /\ NoRequest(before) /\ frame \notin Codes => NoRequest(after)
                 /\ OneRequest(before) /\ frame \notin Codes => OneRequest(after)
  <2> DEFINE after == Append(before, frame)
  <2>1. /\ after \in Seq(Frames)
        /\ Len(after) = Len(before) + 1
        /\ \A i \in 1 .. Len(before) : after[i] = before[i]
        /\ after[Len(before) + 1] = frame
    BY AppendProperties
  <2>2. Len(before) \in Nat
    BY LenProperties
  <2> HIDE DEF after
  <2>3. NoHello(before) /\ frame # Hello => NoHello(after)
    BY <2>1, <2>2 DEF NoHello
  <2>4. NoRequest(before) => OneRequest(after)
    BY <2>1, <2>2 DEF NoRequest, OneRequest
  <2>5. NoRequest(before) /\ frame \notin Codes => NoRequest(after)
    BY <2>1, <2>2 DEF NoRequest
  <2>6. OneRequest(before) /\ frame \notin Codes => OneRequest(after)
    BY <2>1, <2>2 DEF OneRequest
  <2> QED BY <2>1, <2>3, <2>4, <2>5, <2>6 DEF after
<1>2. CASE Len(queue) < MaxOwed
  BY <1>1, <1>2 DEF Owe
<1>3. CASE ~(Len(queue) < MaxOwed)
  <2>1. queue # << >>
    BY <1>3, DriverAssumption
  <2>2. Owe(queue, frame) = Append(Tail(queue), frame)
    BY <1>3 DEF Owe
  <2>3. Len(queue) \in Nat
    BY LenProperties
  <2> DEFINE rest == Tail(queue)
  <2>4. /\ rest \in Seq(Frames) /\ Len(rest) = Len(queue) - 1
        /\ NoHello(queue) => NoHello(rest)
        /\ NoRequest(queue) => NoRequest(rest)
        /\ OneRequest(queue) => OneRequest(rest)
    BY <2>1, Answering
  <2> HIDE DEF rest
  <2>5. Owe(queue, frame) = Append(rest, frame)
    BY <2>2 DEF rest
  <2> QED BY <1>1, <2>3, <2>4, <2>5
<1> QED BY <1>2, <1>3

\* While the link is up, a write is a transmission.
LEMMA UpWrite ==
    ASSUME TypeOK, RequestInv, connected', NEW frame \in Frames, frame # Hello,
           write_packet(frame)
    PROVE  /\ Transmit(owed, frame)
           /\ UNCHANGED <<last_connect_rq, pending_packet>>
           /\ NoHello(owed')
           /\ NoRequest(owed) => OneRequest(owed')
           /\ frame \notin Codes => OneRequest(owed')
           /\ NoRequest(owed) /\ frame \notin Codes => NoRequest(owed')
<1>1. Transmit(owed, frame) /\ UNCHANGED <<last_connect_rq, pending_packet>>
  BY DEF write_packet, reconnect_uart
<1> QED BY <1>1, Owing DEF Transmit, TypeOK, RequestInv

\* The acknowledgement is neither a request nor a handshake.
LEMMA AckIsNoRequest == Ack \notin Codes /\ Ack # Hello /\ \A code \in Codes : code # Hello
BY DriverAssumption DEF Ack, Codes, Hello

\* Every action that leaves the link up preserves it.
LEMMA RequestStep ==
    ASSUME ~LateAnswers, TypeOK, RequestInv, connected', [Next]_vars
    PROVE  RequestInv'
<1> USE DEF cycleVars, linkVars
<1>1. CASE Tick \/ HomeAssistant \/ Idle \/ UNCHANGED vars
  BY <1>1 DEF Tick, HomeAssistant, RequestSettings, RequestRunStates, RequestFunctions,
              queue_remote_temperature_send, Idle, vars, RequestInv
<1>2. CASE CheckCycleTimeout
  <2>1. NoHello(<< >>) /\ OneRequest(<< >>) /\ NoRequest(<< >>)
    BY DEF NoHello, OneRequest, NoRequest
  <2> QED BY <1>2, <2>1 DEF CheckCycleTimeout, RequestInv
<1>3. ASSUME NEW action \in {"SEND_REMOTE_TEMP", "SEND_SETTINGS", "SEND_RUN_STATES",
                             "SET_FUNCTIONS", "START_CYCLE"},
             Decides(action)
      PROVE  NoRequest(owed) /\ ~cycle_running
  BY <1>3 DEF Decides, decide_loop_action, LoopInputs, RequestInv
<1>4. ASSUME cycle_running' = cycle_running, NoRequest(owed),
             write_packet(Ack) \/ UNCHANGED linkVars
      PROVE  RequestInv'
  BY <1>4, FrameTypes, AckIsNoRequest, UpWrite DEF RequestInv
<1>5. CASE SendPendingRemoteTemperature
  BY <1>3, <1>4, <1>5 DEF SendPendingRemoteTemperature
<1>6. CASE SendWantedSettings
  <2>1. cycle_running' = cycle_running /\ (write_packet(Ack) \/ UNCHANGED linkVars)
    BY <1>6 DEF SendWantedSettings, defer_cycle, reconnect_if_connection_lost, reconnect_uart
  <2> QED BY <1>3, <1>4, <1>6, <2>1 DEF SendWantedSettings
<1>7. CASE SendWantedRunStates
  BY <1>3, <1>4, <1>7 DEF SendWantedRunStates, defer_cycle
<1>8. CASE SetFunctions
  BY <1>3, <1>4, <1>8 DEF SetFunctions
<1>9. CASE StartCycle
  <2>1. NoRequest(owed) /\ write_packet(1) /\ cycle_running'
    BY <1>3, <1>9 DEF StartCycle, cycle_started
  <2>2. 1 \in Codes
    BY DriverAssumption DEF Codes
  <2> QED BY <2>1, <2>2, FrameTypes, AckIsNoRequest, UpWrite DEF RequestInv
<1>10. CASE ReceiveData
  <2>1. PICK code \in Codes :
          /\ Answered(code)
          /\ \/ terminate_cycle(Tail(owed))
             \/ \E next \in code + 1 .. NumRequests :
                  /\ Transmit(Tail(owed), next)
                  /\ UNCHANGED <<cycleVars, remoteVars>>
          /\ UNCHANGED <<connected, last_connect_rq, pending_packet, functions_part2>>
    BY <1>10 DEF ReceiveData
  <2>2. /\ Tail(owed) \in Seq(Frames) /\ NoRequest(Tail(owed)) /\ OneRequest(Tail(owed))
        /\ NoHello(Tail(owed))
        /\ cycle_running
    BY <2>1, Answering DEF Answered, RequestInv, TypeOK
  <2>3. CASE terminate_cycle(Tail(owed))
    <3>1. owed' = Tail(owed) \/ owed' = Owe(Tail(owed), Ack)
      BY <2>3 DEF terminate_cycle, Transmit
    <3> QED BY <2>1, <2>2, <3>1, Owing, FrameTypes, AckIsNoRequest DEF RequestInv
  <2>4. ASSUME NEW next \in code + 1 .. NumRequests,
               Transmit(Tail(owed), next), UNCHANGED cycleVars
        PROVE  RequestInv'
    <3>1. next \in Codes
      BY <2>4, DriverAssumption DEF Codes
    <3> QED BY <2>1, <2>2, <2>4, <3>1, Owing, FrameTypes, AckIsNoRequest DEF RequestInv, Transmit
  <2> QED BY <2>1, <2>3, <2>4
<1>11. CASE ReceiveAck
  <2>1. /\ Tail(owed) \in Seq(Frames) /\ NoHello(Tail(owed)) /\ OneRequest(Tail(owed))
        /\ ~cycle_running => NoRequest(Tail(owed))
    BY <1>11, Answering DEF ReceiveAck, Answered, RequestInv, TypeOK
  <2>2. owed' = Tail(owed) \/ owed' = Owe(Tail(owed), Ack)
    BY <1>11 DEF ReceiveAck, Transmit
  <2> QED BY <1>11, <2>1, <2>2, Owing, FrameTypes, AckIsNoRequest DEF ReceiveAck, RequestInv
<1>12. CASE ReceiveHello
  BY <1>12, Answering DEF ReceiveHello, Answered, RequestInv, TypeOK
<1>13. CASE Lose
  BY <1>13, Answering DEF Lose, RequestInv, TypeOK
<1>14. CASE FunctionsPart2Timer
  BY <1>14, FrameTypes, AckIsNoRequest, UpWrite DEF FunctionsPart2Timer, RequestInv
<1>15. CASE try_write_pending_packet \/ CheckFirstConnection
  BY <1>15 DEF try_write_pending_packet, CheckFirstConnection, RequestInv
<1> QED
  BY <1>1, <1>2, <1>5, <1>6, <1>7, <1>8, <1>9, <1>10, <1>11, <1>12, <1>13, <1>14, <1>15
  DEF Next, LoopStep, Unit, Timers

\* It holds when the first handshake has succeeded.
LEMMA RequestInit == Init => RequestInv
BY DEF Init, RequestInv, NoHello, OneRequest, NoRequest

\* A punctual unit is never asked for a second piece of data while it owes the first,
\* as long as the link is not reconnected: whatever is written, lost or timed out in
\* between, and however many requests a cycle has.
THEOREM RequestsAreSerialized ==
    ASSUME ~LateAnswers
    PROVE  Spec /\ []connected => []OneRequestOutstanding
<1>1. Init => TypeOK /\ RequestInv
  BY InitType, RequestInit
<1>2. (TypeOK /\ RequestInv) /\ connected' /\ [Next]_vars => (TypeOK /\ RequestInv)'
  BY NextType, RequestStep
<1>3. RequestInv => OneRequestOutstanding
  BY DEF RequestInv, OneRequest, OneRequestOutstanding, Outstanding
<1> QED BY <1>1, <1>2, <1>3, PTL DEF Spec

-----------------------------------------------------------------------------
(***************************************************************************)
(* No write goes out while a request is owed.  The second frame of the     *)
(* installer functions does not wait for anything, so without these.       *)
(***************************************************************************)
NoFunctionsInv == ~set_functions_wanted /\ functions_part2 = None

\* Nobody asks for the functions, so none are written.
LEMMA NoFunctionsStep ==
    ASSUME "functions" \notin Clients, NoFunctionsInv, [Next]_vars
    PROVE  NoFunctionsInv'
<1> USE DEF wantVars, NoFunctionsInv
<1>1. CASE HomeAssistant
  BY <1>1 DEF HomeAssistant, RequestSettings, RequestRunStates, RequestFunctions,
              queue_remote_temperature_send
<1>2. CASE LoopStep
  <2>1. decide_loop_action(LoopInputs) # "SET_FUNCTIONS"
    BY DEF decide_loop_action, LoopInputs
  <2> QED BY <1>2, <2>1
          DEF LoopStep, CheckCycleTimeout, SendPendingRemoteTemperature, SendWantedSettings,
              SendWantedRunStates, SetFunctions, StartCycle, Idle, Decides
<1>3. CASE Unit
  BY <1>3 DEF Unit, ReceiveData, ReceiveAck, ReceiveHello, Answered, Lose
<1>4. CASE Tick \/ Timers \/ UNCHANGED vars
  BY <1>4 DEF Tick, Timers, FunctionsPart2Timer, try_write_pending_packet,
              CheckFirstConnection, vars
<1> QED BY <1>1, <1>2, <1>3, <1>4 DEF Next

\* A frame is added to what the unit owes by a handler, in the place of the frame it
\* answers, or by the loop between two cycles.
LEMMA AddingStep ==
    ASSUME TypeOK, RequestInv, NoFunctionsInv, connected', [Next]_vars, Len(owed') > Len(owed)
    PROVE  NoRequest(owed)
<1> USE DEF linkVars
<1>1. Len(owed) \in Nat
  BY LenProperties DEF TypeOK
<1>2. CASE Tick \/ HomeAssistant \/ UNCHANGED vars
  <2>1. owed' = owed
    BY <1>2 DEF Tick, HomeAssistant, RequestSettings, RequestRunStates, RequestFunctions,
                queue_remote_temperature_send, vars
  <2> QED BY <1>1, <2>1
<1>3. CASE CheckCycleTimeout
  <2>1. owed' = owed \/ owed' = << >>
    BY <1>3 DEF CheckCycleTimeout
  <2> QED BY <1>1, <2>1
<1>4. CASE /\ LoopStep
           /\ ~CheckCycleTimeout
  <2>1. decide_loop_action(LoopInputs) # "CHECK_CYCLE_TIMEOUT"
    BY <1>4 DEF LoopStep, Decides, SendPendingRemoteTemperature, SendWantedSettings,
                SendWantedRunStates, SetFunctions, StartCycle, Idle
  <2>2. ~cycle_running
    BY <2>1 DEF decide_loop_action, LoopInputs
  <2> QED BY <2>2 DEF RequestInv
<1>5. CASE Unit
  <2>1. owed # << >>
    BY <1>5 DEF Unit, ReceiveData, ReceiveAck, ReceiveHello, Answered, Lose
  <2>2. /\ Len(Tail(owed)) = Len(owed) - 1
        /\ \A frame \in Frames : Len(Owe(Tail(owed), frame)) <= Len(owed)
    <3>1. Tail(owed) \in Seq(Frames) /\ Len(Tail(owed)) = Len(owed) - 1
      BY <2>1, Answering DEF TypeOK
    <3>2. \A frame \in Frames : Len(Owe(Tail(owed), frame)) <= Len(Tail(owed)) + 1
      BY <3>1, Owing
    <3> QED BY <1>1, <3>1, <3>2
  <2>3. owed' = Tail(owed) \/ \E frame \in Frames : owed' = Owe(Tail(owed), frame)
    <3>1. CASE ReceiveData
      <4>1. PICK code \in Codes :
              \/ terminate_cycle(Tail(owed))
              \/ \E next \in code + 1 .. NumRequests : Transmit(Tail(owed), next)
        BY <3>1 DEF ReceiveData
      <4>2. code + 1 .. NumRequests \subseteq Frames
        BY DriverAssumption DEF Codes, Frames
      <4> QED BY <4>1, <4>2, FrameTypes DEF terminate_cycle, Transmit
    <3> QED BY <1>5, <3>1, FrameTypes DEF Unit, ReceiveAck, ReceiveHello, Lose, Transmit
  <2> QED BY <1>1, <2>2, <2>3
<1>6. CASE Timers
  BY <1>6 DEF Timers, FunctionsPart2Timer, try_write_pending_packet, CheckFirstConnection,
              NoFunctionsInv, RequestInv
<1> QED BY <1>2, <1>3, <1>4, <1>5, <1>6 DEF Next

\* Settings, run states and remote temperature are written while the unit owes no
\* answer to a request, as long as the unit is punctual, the link is not reconnected
\* and nobody writes the installer functions.
THEOREM SetsWaitForRequests ==
    ASSUME ~LateAnswers, "functions" \notin Clients
    PROVE  Spec /\ []connected => SetsOutsideRequests
<1>1. Init => TypeOK /\ RequestInv /\ NoFunctionsInv
  BY InitType, RequestInit DEF Init, NoFunctionsInv
<1>2. /\ TypeOK /\ RequestInv /\ NoFunctionsInv
      /\ connected'
      /\ [Next]_vars
      => (TypeOK /\ RequestInv /\ NoFunctionsInv)'
  BY NextType, RequestStep, NoFunctionsStep
<1>3. /\ TypeOK /\ RequestInv /\ NoFunctionsInv
      /\ connected'
      /\ [Next]_vars
      => (Len(owed') > Len(owed) /\ owed'[Len(owed')] = Ack => Outstanding(Codes) = {})
  BY AddingStep DEF NoRequest, Outstanding
<1> QED BY <1>1, <1>2, <1>3, PTL DEF Spec, SetsOutsideRequests

-----------------------------------------------------------------------------
(***************************************************************************)
(* How long a write waits.  On a link that stays active, with a punctual   *)
(* unit, no write of the functions and before the clock wraps, everything  *)
(* that can happen is one of nine kinds of steps on the clock, the cycle,  *)
(* the throttle and the two queued writes.  What delays a write is then a  *)
(* matter of counting.                                                     *)
(***************************************************************************)
Calm == WithoutWrap /\ ~LateAnswers /\ "functions" \notin Clients

PastInv ==
    /\ last_cycle_end <= now
    /\ last_send <= now
    /\ wanted_settings.last_change <= now
    /\ remote_pending_since <= now

CalmInv == TypeOK /\ TimeoutInv /\ RequestInv /\ NoFunctionsInv /\ PastInv

\* The age of a timestamp, before the clock wraps.
Age(t) == now - t

\* Time goes by, after the loop took a decision.
Ages ==
    /\ looped /\ ~looped'
    /\ now' = now + 1
    /\ UNCHANGED <<cycleVars, last_send, wanted_settings, remoteVars>>

\* Home Assistant asks for something, or a frame is answered or lost without effect.
Asks ==
    /\ UNCHANGED <<now, looped, cycleVars, last_send>>
    /\ \/ UNCHANGED remoteVars /\ wanted_settings'.last_change = now
       \/ /\ UNCHANGED wanted_settings
          /\ ~remote_pending /\ remote_pending'
          /\ remote_pending_since' = now /\ remote_queued_at' = now
       \/ UNCHANGED <<wanted_settings, remoteVars>>

\* The running cycle goes on.
GoesOn ==
    /\ cycle_running
    /\ now' = now
    /\ last_send' \in {last_send, now}
    /\ UNCHANGED <<cycleVars, wanted_settings, remoteVars>>

\* It ends: by an answer, which takes the remote temperature along, or by its timeout.
Ends ==
    /\ cycle_running
    /\ now' = now
    /\ cycle_ended
    /\ last_send' \in {last_send, now}
    /\ UNCHANGED wanted_settings
    /\ ~remote_pending' \/ UNCHANGED remoteVars

\* Between two cycles the loop does one of five things.
StalledDue ==
    /\ remote_pending
    /\ Age(remote_pending_since) >= remote_temp_stall_threshold
    /\ Age(last_send) > WriteGap

Between == ~cycle_running /\ looped' /\ now' = now

Forces ==
    /\ Between
    /\ StalledDue
    /\ ~remote_pending'
    /\ last_send' = now
    /\ UNCHANGED <<cycleVars, wanted_settings>>

Writes ==
    /\ Between
    /\ ~StalledDue
    /\ Age(last_send) > WriteGap
    /\ ~wanted_settings'.has_changed
    /\ wanted_settings'.last_change <= now
    /\ last_send' \in {last_send, now}
    /\ UNCHANGED <<cycle_running, last_cycle_start, last_cycle_end, remoteVars>>

Holds ==
    /\ Between
    /\ ~StalledDue
    /\ wanted_settings.has_changed
    /\ Age(wanted_settings.last_change) < DebounceDelay \/ Age(last_send) <= WriteGap
    /\ UNCHANGED <<cycleVars, last_send, wanted_settings, remoteVars>>

Rests ==
    /\ Between
    /\ ~StalledDue
    /\ ~wanted_settings.has_changed
    /\ UNCHANGED <<cycleVars, last_send, wanted_settings, remoteVars>>

Starts ==
    /\ Between
    /\ ~StalledDue
    /\ \/ Age(last_cycle_end) > cycle_starvation_threshold
       \/ /\ ~wanted_settings.has_changed
          /\ last_complete_cycle + UpdateInterval < now
    /\ cycle_started
    /\ last_send' = now
    /\ UNCHANGED <<wanted_settings, remoteVars>>

CalmStep == Ages \/ Asks \/ GoesOn \/ Ends \/ Forces \/ Writes \/ Holds \/ Rests \/ Starts

\* Timestamps and windows are natural numbers.
LEMMA Times ==
    ASSUME TypeOK
    PROVE  /\ now \in Nat /\ last_send \in Nat /\ last_cycle_start \in Nat
           /\ last_cycle_end \in Nat /\ last_complete_cycle \in Nat
           /\ remote_pending_since \in Nat /\ remote_queued_at \in Nat
           /\ wanted_settings.last_change \in Nat /\ wanted_run_states.last_change \in Nat
           /\ WriteGap \in Nat /\ UpdateInterval \in Nat /\ UpdateInterval > 0
           /\ DebounceDelay \in Nat
           /\ cycle_timeout \in Nat /\ cycle_starvation_threshold \in Nat
           /\ remote_temp_stall_threshold \in Nat
BY PolicyAssumption, DriverAssumption, Windows, TimeoutWindow
DEF TypeOK, Millis, Settings, RunStates

\* Of a timestamp in the past, the unsigned age is the difference.
LEMMA AgeOfThePast ==
    ASSUME NEW t \in Nat, t <= now
    PROVE  Elapsed(t) = Age(t)
BY DEF Elapsed, Minus, Age

\* An active link is not reconnected.
LEMMA ActiveStaysUp ==
    ASSUME TypeOK, RequestInv, is_heatpump_connection_active, [Next]_vars
    PROVE  connected'
<1> USE DEF RequestInv, linkVars
<1>1. CASE Tick \/ HomeAssistant \/ UNCHANGED vars
  BY <1>1 DEF Tick, HomeAssistant, RequestSettings, RequestRunStates, RequestFunctions,
              queue_remote_temperature_send, vars
<1>2. CASE LoopStep
  BY <1>2 DEF LoopStep, CheckCycleTimeout, SendPendingRemoteTemperature, SendWantedSettings,
              SendWantedRunStates, SetFunctions, StartCycle, Idle, write_packet
<1>3. CASE Unit
  BY <1>3 DEF Unit, ReceiveData, ReceiveAck, ReceiveHello, Lose
<1>4. CASE Timers
  BY <1>4 DEF Timers, FunctionsPart2Timer, try_write_pending_packet, CheckFirstConnection,
              write_packet
<1> QED BY <1>1, <1>2, <1>3, <1>4 DEF Next

\* What the loop decides, read off the ages.
LEMMA Decision ==
    ASSUME CalmInv, NEW action, Decides(action)
    PROVE  /\ action = "CHECK_CYCLE_TIMEOUT" <=> cycle_running
           /\ now' = now /\ looped'
           /\ ~cycle_running =>
                /\ action = "SEND_REMOTE_TEMP" <=> StalledDue
                /\ action = "SEND_SETTINGS" => wanted_settings.has_changed
                /\ action \in {"SEND_RUN_STATES", "IDLE"} => ~wanted_settings.has_changed
                /\ action = "START_CYCLE" =>
                     \/ Age(last_cycle_end) > cycle_starvation_threshold
                     \/ /\ ~wanted_settings.has_changed
                        /\ last_complete_cycle + UpdateInterval < now
                /\ action # "SET_FUNCTIONS"
<1>1. action = decide_loop_action(LoopInputs) /\ now' = now /\ looped' /\ ~set_functions_wanted
  BY DEF Decides, CalmInv, NoFunctionsInv
<1>2. should_force_remote_temp_send(remote_pending, now, remote_pending_since, last_send)
        <=> StalledDue
  BY Times, AgeOfThePast
     DEF should_force_remote_temp_send, StalledDue, CalmInv, PastInv, Elapsed
<1>3. is_cycle_starved(now, last_cycle_end) <=> Age(last_cycle_end) > cycle_starvation_threshold
  BY Times, AgeOfThePast DEF is_cycle_starved, CalmInv, PastInv, Elapsed
<1>4. has_update_interval_passed(now, last_complete_cycle)
        => last_complete_cycle + UpdateInterval < now
  <2> HAVE has_update_interval_passed(now, last_complete_cycle)
  <2>1. last_complete_cycle <= now /\ Elapsed(last_complete_cycle) > UpdateInterval
    BY DEF has_update_interval_passed, Elapsed
  <2> QED BY <2>1, Times, AgeOfThePast DEF Age, CalmInv
<1> QED BY <1>1, <1>2, <1>3, <1>4 DEF decide_loop_action, LoopInputs

\* Every step of a calm system is of one of the nine kinds.
LEMMA CalmKinds ==
    ASSUME Calm, CalmInv, is_heatpump_connection_active, [Next]_vars
    PROVE  CalmStep
<1> USE DEF cycleVars, linkVars, wantVars, remoteVars
<1>0. connected /\ connected' /\ pending_packet = NoPacket
  BY ActiveStaysUp DEF CalmInv, RequestInv
<1>1. CASE Tick
  <2>1. now' = now + 1
    <3>1. now \in Nat /\ Horizon \in Nat /\ Horizon < ClockMod /\ ClockMod \in Nat
      BY ClockModAssumption DEF Calm, WithoutWrap, CalmInv, TypeOK, Millis
    <3> QED BY <1>1, <3>1 DEF Tick, CalmInv, TimeoutInv, Plus
  <2>2. looped /\ ~looped'
    BY <1>0, <1>1 DEF Tick
  <2>3. UNCHANGED <<cycleVars, last_send, wanted_settings, remoteVars>>
    BY <1>1 DEF Tick
  <2> QED BY <2>1, <2>2, <2>3 DEF Ages, CalmStep
<1>2. CASE HomeAssistant
  <2>1. CASE RequestSettings
    <3>1. wanted_settings'.last_change = now
      BY <2>1 DEF RequestSettings
    <3> QED BY <2>1, <3>1 DEF RequestSettings, Asks, CalmStep
  <2>2. CASE RequestRunStates
    BY <2>2 DEF RequestRunStates, Asks, CalmStep
  <2>3. CASE queue_remote_temperature_send
    <3>1. CASE ~remote_pending
      BY <2>3, <3>1 DEF queue_remote_temperature_send, Asks, CalmStep
    <3>2. CASE remote_pending
      <4>1. UNCHANGED remoteVars
        BY <2>3, <3>2 DEF queue_remote_temperature_send, CalmInv, TypeOK
      <4> QED BY <2>3, <4>1 DEF queue_remote_temperature_send, Asks, CalmStep
    <3> QED BY <3>1, <3>2
  <2> QED BY <1>2, <2>1, <2>2, <2>3 DEF HomeAssistant, RequestFunctions, Calm
<1>3. CASE CheckCycleTimeout
  <2>1. cycle_running
    BY <1>3, Decision DEF CheckCycleTimeout
  <2> QED BY <1>3, <2>1 DEF CheckCycleTimeout, Decides, Ends, GoesOn, CalmStep
<1>4. CASE SendPendingRemoteTemperature
  <2>1. ~cycle_running /\ StalledDue
    BY <1>4, Decision DEF SendPendingRemoteTemperature
  <2>2. remote_sent /\ last_send' = now
    BY <1>4 DEF SendPendingRemoteTemperature, write_packet, Transmit
  <2> QED BY <1>4, <2>1, <2>2
          DEF SendPendingRemoteTemperature, Decides, remote_sent, Between, Forces, CalmStep
<1>5. CASE SendWantedSettings
  <2>1. ~cycle_running /\ ~StalledDue /\ wanted_settings.has_changed
    BY <1>5, Decision DEF SendWantedSettings
  <2>2. CASE ~ReadyToSend(wanted_settings) /\ UNCHANGED <<wanted_settings, cycleVars, linkVars>>
    <3>1. Age(wanted_settings.last_change) < DebounceDelay \/ Age(last_send) <= WriteGap
      <4>1. Elapsed(wanted_settings.last_change) = Age(wanted_settings.last_change)
            /\ Elapsed(last_send) = Age(last_send)
        BY Times, AgeOfThePast DEF CalmInv, PastInv
      <4> QED BY <2>2, <4>1, Times DEF ReadyToSend, Age, CalmInv
    <3> QED BY <1>5, <2>1, <2>2, <3>1
            DEF SendWantedSettings, Decides, Between, Holds, CalmStep
  <2>3. CASE /\ ReadyToSend(wanted_settings)
             /\ wanted_settings' = NoSettings
             /\ UNCHANGED <<cycle_running, last_cycle_start, last_cycle_end>>
             /\ last_send' \in {last_send, now}
    <3>1. Age(last_send) > WriteGap
      BY <2>3, Times, AgeOfThePast DEF ReadyToSend, CalmInv, PastInv
    <3>2. ~wanted_settings'.has_changed /\ wanted_settings'.last_change <= now
      BY <2>3, Times DEF NoSettings, CalmInv
    <3> QED BY <1>5, <2>1, <2>3, <3>1, <3>2
            DEF SendWantedSettings, Decides, Between, Writes, CalmStep
  <2> QED BY <1>5, <2>2, <2>3 DEF SendWantedSettings, write_packet, Transmit, defer_cycle
<1>6. CASE SendWantedRunStates
  <2>1. ~cycle_running /\ ~StalledDue /\ ~wanted_settings.has_changed
    BY <1>6, Decision DEF SendWantedRunStates
  <2>2. CASE UNCHANGED <<cycleVars, linkVars>>
    BY <1>6, <2>1, <2>2 DEF SendWantedRunStates, Decides, Between, Rests, CalmStep
  <2>3. CASE ReadyToSend(wanted_run_states) /\ write_packet(Ack) /\ defer_cycle
    <3>1. Age(last_send) > WriteGap
      BY <2>3, Times, AgeOfThePast DEF ReadyToSend, CalmInv, PastInv
    <3>2. last_send' = now
      BY <2>3 DEF write_packet, Transmit
    <3> QED BY <1>6, <2>1, <2>3, <3>1, <3>2
            DEF SendWantedRunStates, Decides, defer_cycle, Between, Writes, CalmStep, CalmInv,
                PastInv
  <2> QED BY <1>6, <2>2, <2>3 DEF SendWantedRunStates
<1>7. CASE SetFunctions
  BY <1>7, Decision DEF SetFunctions
<1>8. CASE StartCycle
  <2>1. last_send' = now
    BY <1>8 DEF StartCycle, write_packet, Transmit
  <2>2. ~cycle_running
    BY <1>8, Decision DEF StartCycle
  <2>3. /\ ~StalledDue
        /\ \/ Age(last_cycle_end) > cycle_starvation_threshold
           \/ /\ ~wanted_settings.has_changed
              /\ last_complete_cycle + UpdateInterval < now
    BY <1>8, <2>2, Decision DEF StartCycle
  <2> QED BY <1>8, <2>1, <2>2, <2>3
          DEF StartCycle, Decides, Between, Starts, CalmStep
<1>9. CASE Idle
  <2>1. ~cycle_running /\ ~StalledDue /\ ~wanted_settings.has_changed
    BY <1>9, Decision DEF Idle
  <2> QED BY <1>9, <2>1 DEF Idle, Decides, Between, Rests, CalmStep
<1>10. CASE ReceiveData
  <2>1. PICK code \in Codes :
          /\ Answered(code)
          /\ \/ terminate_cycle(Tail(owed))
             \/ \E next \in code + 1 .. NumRequests :
                  /\ Transmit(Tail(owed), next)
                  /\ UNCHANGED <<cycleVars, remoteVars>>
    BY <1>10 DEF ReceiveData
  <2>2. cycle_running
    BY <2>1, Answering DEF Answered, CalmInv, RequestInv, TypeOK
  <2>3. CASE terminate_cycle(Tail(owed))
    <3>1. last_send' \in {last_send, now} /\ ~remote_pending'
      BY <2>3 DEF terminate_cycle, remote_sent, Transmit
    <3> QED BY <2>1, <2>2, <2>3, <3>1 DEF terminate_cycle, Answered, Ends, CalmStep
  <2>4. CASE last_send' = now /\ UNCHANGED <<cycleVars, remoteVars>>
    BY <2>1, <2>2, <2>4 DEF Answered, GoesOn, CalmStep
  <2> QED BY <2>1, <2>3, <2>4 DEF Transmit
<1>11. CASE ReceiveAck
  <2>1. functions_part2 = None
    BY DEF CalmInv, NoFunctionsInv
  <2> QED BY <1>11, <2>1 DEF ReceiveAck, Answered, Asks, CalmStep
<1>12. CASE ReceiveHello
  BY <1>12, Answering DEF ReceiveHello, Answered, CalmInv, RequestInv, TypeOK
<1>13. CASE Lose
  BY <1>13 DEF Lose, Asks, CalmStep
<1>14. CASE Timers
  BY <1>0, <1>14 DEF Timers, FunctionsPart2Timer, try_write_pending_packet,
                     CheckFirstConnection, CalmInv, NoFunctionsInv
<1>15. CASE UNCHANGED vars
  BY <1>15 DEF vars, Asks, CalmStep
<1> QED
  BY <1>1, <1>2, <1>3, <1>4, <1>5, <1>6, <1>7, <1>8, <1>9, <1>10, <1>11, <1>12, <1>13,
     <1>14, <1>15
  DEF Next, LoopStep, Unit

\* It stays calm.
LEMMA CalmInvStep ==
    ASSUME Calm, CalmInv, is_heatpump_connection_active, [Next]_vars
    PROVE  CalmInv'
<1>1. TypeOK' /\ TimeoutInv' /\ RequestInv' /\ NoFunctionsInv'
  BY NextType, TimeoutStep, ActiveStaysUp, RequestStep, NoFunctionsStep DEF Calm, CalmInv
<1>2. PastInv'
  <2>1. CalmStep
    BY CalmKinds
  <2>2. remote_pending_since' \in {remote_pending_since, now, 0}
    BY DEF Next, vars, Tick, HomeAssistant, RequestSettings, RequestRunStates, RequestFunctions,
           queue_remote_temperature_send, LoopStep, CheckCycleTimeout,
           SendPendingRemoteTemperature, SendWantedSettings, SendWantedRunStates, SetFunctions,
           StartCycle, Idle, remoteVars, remote_sent, Unit, ReceiveData, terminate_cycle,
           ReceiveAck, ReceiveHello, Lose, Timers, FunctionsPart2Timer,
           try_write_pending_packet, CheckFirstConnection
  <2> QED BY <2>1, <2>2, Times
          DEF CalmInv, PastInv, CalmStep, Ages, Asks, GoesOn, Ends, cycle_ended, Forces, Writes,
              Holds, Rests, Starts, Between, cycle_started, cycleVars, remoteVars
<1> QED BY <1>1, <1>2 DEF CalmInv

\* It is calm when the first handshake has succeeded.
LEMMA CalmInvInit ==
    ASSUME Calm, Init
    PROVE  CalmInv
<1>1. TypeOK /\ RequestInv /\ now <= Horizon
  BY InitType, RequestInit DEF Init, Calm, WithoutWrap
<1>2. TimeoutInv /\ PastInv
  BY <1>1, Times DEF Init, TimeoutInv, InCycle, PastInv, NoSettings
<1> QED BY <1>1, <1>2 DEF Init, CalmInv, NoFunctionsInv

-----------------------------------------------------------------------------
(***************************************************************************)
(* The remote temperature.  Once it is due, a cycle is running or the      *)
(* throttle is closed, else it were sent; what closes the throttle is the  *)
(* last write before it was due, or the last request of the cycle.  While  *)
(* the throttle is closed after a cycle, it is too early for the next one. *)
(***************************************************************************)
ThrottleIsShort == WriteGap <= UpdateInterval

RemoteDueAt == remote_pending_since + remote_temp_stall_threshold

RemoteDebt ==
    remote_pending =>
      /\ remote_pending_since = remote_queued_at
      /\ cycle_running => last_cycle_start <= RemoteDueAt + WriteGap
      /\ ~cycle_running /\ last_cycle_end < RemoteDueAt =>
           /\ last_send <= RemoteDueAt
           /\ now <= RemoteDueAt + WriteGap + 1
           /\ looped /\ now >= RemoteDueAt => Age(last_send) <= WriteGap
      /\ ~cycle_running /\ last_cycle_end >= RemoteDueAt =>
           /\ last_cycle_end <= RemoteDueAt + WriteGap + cycle_timeout + 1
           /\ last_cycle_end <= last_complete_cycle
           /\ last_send <= last_cycle_end
           /\ now <= last_cycle_end + WriteGap + 1
           /\ looped /\ now > last_cycle_end => Age(last_send) <= WriteGap

\* A cycle that starts before the temperature is sent, started soon after it was due.
LEMMA RemoteDebtStep ==
    ASSUME ThrottleIsShort, CalmInv, CalmInv', RemoteDebt, CalmStep
    PROVE  RemoteDebt'
<1> SUFFICES ASSUME remote_pending' PROVE RemoteDebt'
  BY DEF RemoteDebt
<1>w. /\ WriteGap \in Nat /\ UpdateInterval \in Nat /\ cycle_timeout \in Nat
      /\ cycle_starvation_threshold \in Nat /\ remote_temp_stall_threshold \in Nat
      /\ remote_temp_stall_threshold >= cycle_starvation_threshold
      /\ cycle_starvation_threshold >= UpdateInterval
      /\ cycle_starvation_threshold >= 3
  BY Times, Windows, PolicyAssumption DEF CalmInv, cycle_starvation_threshold
<1>t. /\ now \in Nat /\ last_send \in Nat /\ last_cycle_start \in Nat
      /\ last_cycle_end \in Nat /\ last_complete_cycle \in Nat
      /\ remote_pending_since \in Nat /\ remote_queued_at \in Nat
      /\ last_cycle_start <= now /\ last_cycle_end <= now /\ last_send <= now
      /\ cycle_running => now <= last_cycle_start + cycle_timeout + 1
  BY Times DEF CalmInv, TimeoutInv, PastInv, InCycle, RequestInv
<1>p. /\ now' \in Nat /\ last_send' \in Nat /\ last_cycle_start' \in Nat
      /\ last_cycle_end' \in Nat /\ last_complete_cycle' \in Nat
      /\ remote_pending_since' \in Nat /\ remote_queued_at' \in Nat
      /\ last_cycle_start' <= now' /\ last_cycle_end' <= now' /\ last_send' <= now'
  BY Times, CalmInv' DEF CalmInv, TimeoutInv, PastInv, TypeOK, Millis
<1> USE <1>w, <1>t, <1>p DEF cycleVars, remoteVars, Age, RemoteDueAt
<1>1. CASE Ages
  BY <1>1 DEF Ages, RemoteDebt
<1>2. CASE Asks
  <2>1. UNCHANGED <<now, looped, cycleVars, last_send>>
    BY <1>2 DEF Asks
  <2>2. CASE UNCHANGED remoteVars
    BY <2>1, <2>2 DEF RemoteDebt
  <2>3. CASE remote_pending_since' = now /\ remote_queued_at' = now
    BY <2>1, <2>3 DEF RemoteDebt
  <2> QED BY <1>2, <2>2, <2>3 DEF Asks
<1>3. CASE GoesOn
  BY <1>3 DEF GoesOn, RemoteDebt
<1>4. CASE Ends
  <2>1. cycle_running /\ ~cycle_running' /\ remote_pending
    BY <1>4 DEF Ends, cycle_ended
  <2>2. last_cycle_end' = now /\ now' = now /\ now <= last_complete_cycle'
    BY <1>4 DEF Ends, cycle_ended
  <2>3. remote_pending_since' = remote_pending_since /\ remote_queued_at' = remote_queued_at
    BY <1>4 DEF Ends
  <2>4. /\ remote_pending_since = remote_queued_at
        /\ now <= RemoteDueAt + WriteGap + cycle_timeout + 1
    BY <2>1 DEF RemoteDebt
  <2>5. RemoteDueAt' = RemoteDueAt
    BY <2>3
  <2>6. /\ RemoteDueAt \in Nat /\ last_cycle_end' = now'
        /\ last_cycle_end' <= RemoteDueAt + WriteGap + cycle_timeout + 1
        /\ last_cycle_end' <= last_complete_cycle'
    BY <2>2, <2>4
  <2>7. remote_pending_since' = remote_queued_at'
    BY <2>3, <2>4
  <2>8. last_cycle_end' < RemoteDueAt' =>
           /\ last_send' <= RemoteDueAt'
           /\ now' <= RemoteDueAt' + WriteGap + 1
           /\ ~(now' >= RemoteDueAt')
    <3>1. /\ last_cycle_end' < RemoteDueAt => now < RemoteDueAt
          /\ now < RemoteDueAt => last_send' <= RemoteDueAt
          /\ now < RemoteDueAt => now <= RemoteDueAt + WriteGap + 1
      BY <2>2
    <3> QED BY ONLY <1>t, <3>1, <2>2, <2>5, <2>6
  <2>9. last_cycle_end' <= RemoteDueAt' + WriteGap + cycle_timeout + 1
    BY ONLY <1>w, <1>t, <1>p, <2>2, <2>5, <2>6
  <2>10. last_send' <= last_cycle_end'
    BY ONLY <1>w, <1>t, <1>p, <2>2, <2>5, <2>6
  <2>11. now' <= last_cycle_end' + WriteGap + 1
    BY ONLY <1>w, <1>t, <1>p, <2>2, <2>5, <2>6
  <2>12. ~(now' > last_cycle_end')
    BY ONLY <1>w, <1>t, <1>p, <2>2, <2>5, <2>6
  <2> QED BY ONLY <2>1, <2>6, <2>7, <2>8, <2>9, <2>10, <2>11, <2>12 DEF RemoteDebt
<1>5. CASE Writes
  <2>1. ~cycle_running /\ ~cycle_running' /\ remote_pending
    BY <1>5 DEF Writes, Between
  <2>2. /\ last_cycle_end' = last_cycle_end /\ now' = now /\ last_send' <= now
        /\ remote_pending_since' = remote_pending_since /\ remote_queued_at' = remote_queued_at
    BY <1>5 DEF Writes, Between
  <2>3. now < RemoteDueAt
    <3>1. Age(last_send) > WriteGap /\ ~StalledDue
      BY <1>5 DEF Writes
    <3> QED BY <2>1, <3>1 DEF StalledDue
  <2>4. remote_pending_since = remote_queued_at
    BY <2>1 DEF RemoteDebt
  <2>5. RemoteDueAt' = RemoteDueAt
    BY <2>2
  <2>6. /\ RemoteDueAt \in Nat /\ last_cycle_end' < RemoteDueAt /\ now' < RemoteDueAt
        /\ last_send' <= RemoteDueAt
    BY <2>2, <2>3
  <2>7. remote_pending_since' = remote_queued_at'
    BY <2>2, <2>4
  <2>8. /\ last_send' <= RemoteDueAt'
        /\ now' <= RemoteDueAt' + WriteGap + 1
        /\ ~(now' >= RemoteDueAt')
        /\ ~(last_cycle_end' >= RemoteDueAt')
    BY ONLY <1>w, <1>t, <1>p, <2>2, <2>5, <2>6
  <2> QED BY ONLY <2>1, <2>7, <2>8 DEF RemoteDebt
<1>6. CASE Holds \/ Rests
  <2>1. ~cycle_running /\ ~cycle_running' /\ remote_pending /\ ~StalledDue
    <3>1. cycle_running' = cycle_running /\ remote_pending' = remote_pending
      BY ONLY <1>6 DEF Holds, Rests
    <3>2. ~cycle_running /\ ~StalledDue
      BY ONLY <1>6 DEF Holds, Rests, Between
    <3> QED BY ONLY <3>1, <3>2, remote_pending'
  <2>2. /\ now' = now /\ last_cycle_end' = last_cycle_end /\ last_send' = last_send
        /\ last_complete_cycle' = last_complete_cycle
        /\ remote_pending_since' = remote_pending_since /\ remote_queued_at' = remote_queued_at
    BY <1>6 DEF Holds, Rests, Between
  <2>3. now >= RemoteDueAt => Age(last_send) <= WriteGap
    <3>1. Age(remote_pending_since) < remote_temp_stall_threshold \/ ~(Age(last_send) > WriteGap)
      BY <2>1 DEF StalledDue
    <3> QED BY <3>1
  <2>4. /\ remote_pending_since = remote_queued_at
        /\ last_cycle_end < RemoteDueAt =>
             last_send <= RemoteDueAt /\ now <= RemoteDueAt + WriteGap + 1
        /\ last_cycle_end >= RemoteDueAt =>
             /\ last_cycle_end <= RemoteDueAt + WriteGap + cycle_timeout + 1
             /\ last_cycle_end <= last_complete_cycle
             /\ last_send <= last_cycle_end
             /\ now <= last_cycle_end + WriteGap + 1
    BY <2>1 DEF RemoteDebt
  <2>5. RemoteDueAt' = RemoteDueAt /\ Age(last_send)' = Age(last_send)
    BY <2>2
  <2>6. /\ last_cycle_end' < RemoteDueAt =>
             /\ last_send' <= RemoteDueAt /\ now' <= RemoteDueAt + WriteGap + 1
             /\ now' >= RemoteDueAt => Age(last_send)' <= WriteGap
        /\ last_cycle_end' >= RemoteDueAt =>
             /\ last_cycle_end' <= RemoteDueAt + WriteGap + cycle_timeout + 1
             /\ last_cycle_end' <= last_complete_cycle'
             /\ last_send' <= last_cycle_end'
             /\ now' <= last_cycle_end' + WriteGap + 1
             /\ now' > last_cycle_end' => Age(last_send)' <= WriteGap
    BY <2>2, <2>3, <2>4, <2>5
  <2>7. remote_pending_since' = remote_queued_at'
    BY <2>2, <2>4
  <2> QED BY ONLY <2>1, <2>5, <2>6, <2>7 DEF RemoteDebt
<1>7. CASE Starts
  BY <1>7 DEF Starts, Between, StalledDue, cycle_started, ThrottleIsShort, RemoteDebt
<1>8. CASE Forces
  BY <1>8 DEF Forces
<1> QED BY <1>1, <1>2, <1>3, <1>4, <1>5, <1>6, <1>7, <1>8 DEF CalmStep

\* The debt bounds the age of the queued temperature.
LEMMA RemoteDebtBounds ==
    ASSUME CalmInv, RemoteDebt
    PROVE  RemoteTemperatureNotStalled
<1> SUFFICES ASSUME remote_pending
             PROVE  Elapsed(remote_queued_at)
                      <= remote_temp_stall_threshold + cycle_timeout + 2 * WriteGap + 2
  BY DEF RemoteTemperatureNotStalled
<1>1. Elapsed(remote_queued_at) = Age(remote_pending_since)
  BY Times, AgeOfThePast DEF RemoteDebt, CalmInv, PastInv
<1> QED BY <1>1, Times
        DEF RemoteDebt, RemoteDueAt, Age, CalmInv, PastInv, TimeoutInv, InCycle, RequestInv

\* A queued remote temperature reaches the unit within the stall threshold, one cycle
\* and two throttles, on a calm link that stays active; the keep-alive may queue it
\* again as often as it likes.
THEOREM RemoteTemperatureIsSent ==
    ASSUME Calm, ThrottleIsShort
    PROVE  Spec /\ []is_heatpump_connection_active => []RemoteTemperatureNotStalled
<1>1. Init => CalmInv /\ RemoteDebt
  BY CalmInvInit DEF Init, RemoteDebt
<1>2. /\ CalmInv /\ RemoteDebt
      /\ is_heatpump_connection_active
      /\ [Next]_vars
      => (CalmInv /\ RemoteDebt)'
  BY CalmKinds, CalmInvStep, RemoteDebtStep
<1>3. CalmInv /\ RemoteDebt => RemoteTemperatureNotStalled
  BY RemoteDebtBounds
<1> QED BY <1>1, <1>2, <1>3, PTL DEF Spec

-----------------------------------------------------------------------------
(***************************************************************************)
(* The settings.  A change has settled when it was left alone for the      *)
(* debounce delay.  From then on it can wait for the throttle, for one     *)
(* cycle that starts first, and for the one write that outranks it: the    *)
(* remote temperature already queued when it settled, which is what the    *)
(* second throttle of Spare is kept for.  A temperature queued later is    *)
(* not due before the change is out, and the next cycle is not starved.    *)
(***************************************************************************)
ThrottleFitsGuards ==
    /\ 2 * (WriteGap + 1) <= cycle_starvation_threshold
    /\ cycle_timeout + 3 * WriteGap + 4 < remote_temp_stall_threshold

Throttle == WriteGap + 1

CycleLength == cycle_timeout + 1

SettledAt == wanted_settings.last_change + DebounceDelay

OutrankedBy == remote_pending /\ remote_pending_since < SettledAt

Spare == IF OutrankedBy THEN Throttle ELSE 2 * Throttle

\* Where a change that settled at `due` can be between two cycles, the last of which
\* ended at `end`; `send` is the last write and `acted` whether the loop already ran.
Waiting(end, send, t, acted, due, spare) ==
    /\ end < due =>
         /\ send + Throttle <= due + spare
         /\ t <= due + spare
         /\ acted /\ t > due => t < due + spare
    /\ end >= due =>
         /\ end <= due + spare + CycleLength
         /\ send + Throttle <= end + spare
         /\ send <= due + 2 * Throttle + CycleLength
         /\ t <= end + spare
         /\ t <= due + 3 * Throttle + CycleLength
         /\ acted /\ t > end => t < end + spare /\ t < due + 3 * Throttle + CycleLength

SettingsDebt ==
    wanted_settings.has_changed =>
      /\ cycle_running => last_cycle_start <= SettledAt + Spare
      /\ ~cycle_running =>
           Waiting(last_cycle_end, last_send, now, looped, SettledAt, Spare)

LEMMA Lengths ==
    ASSUME TypeOK
    PROVE  /\ Throttle \in Nat /\ Throttle > 0 /\ CycleLength \in Nat
           /\ SettledAt \in Nat
           /\ Spare \in {Throttle, 2 * Throttle}
BY Times DEF Throttle, CycleLength, SettledAt, Spare

\* The facts about Waiting, one for each way the system moves on.
LEMMA WaitingForTime ==
    ASSUME TypeOK, NEW end \in Nat, NEW send \in Nat, NEW t \in Nat, NEW due \in Nat,
           NEW spare \in {Throttle, 2 * Throttle},
           end <= t, Waiting(end, send, t, TRUE, due, spare)
    PROVE  Waiting(end, send, t + 1, FALSE, due, spare)
BY Lengths DEF Waiting

LEMMA WaitingForThrottle ==
    ASSUME TypeOK, NEW end \in Nat, NEW send \in Nat, NEW t \in Nat, NEW due \in Nat,
           NEW spare \in {Throttle, 2 * Throttle}, NEW acted,
           t < due \/ t < send + Throttle,
           Waiting(end, send, t, acted, due, spare)
    PROVE  Waiting(end, send, t, TRUE, due, spare)
BY Lengths DEF Waiting

LEMMA WaitingAfterCycle ==
    ASSUME TypeOK, NEW send \in Nat, NEW t \in Nat, NEW due \in Nat,
           NEW spare \in {Throttle, 2 * Throttle}, NEW acted,
           send <= t, t <= due + spare + CycleLength
    PROVE  Waiting(t, send, t, acted, due, spare)
BY Lengths DEF Waiting

LEMMA WaitingAfterRemote ==
    ASSUME TypeOK, NEW end \in Nat, NEW send \in Nat, NEW t \in Nat, NEW due \in Nat, NEW acted,
           end <= t, Waiting(end, send, t, acted, due, Throttle)
    PROVE  Waiting(end, t, t, TRUE, due, 2 * Throttle)
BY Lengths DEF Waiting

LEMMA WaitingToSettle ==
    ASSUME TypeOK, NEW end \in Nat, NEW send \in Nat, NEW t \in Nat, NEW due \in Nat,
           NEW spare \in {Throttle, 2 * Throttle}, NEW acted,
           end <= t, send <= t, t <= due
    PROVE  Waiting(end, send, t, acted, due, spare)
BY Lengths DEF Waiting

LEMMA WaitingBounds ==
    ASSUME TypeOK, NEW end \in Nat, NEW send \in Nat, NEW t \in Nat, NEW due \in Nat,
           NEW spare \in {Throttle, 2 * Throttle}, NEW acted,
           Waiting(end, send, t, acted, due, spare)
    PROVE  /\ t <= due + 3 * Throttle + CycleLength
           /\ end < due => t <= due + spare
           /\ end >= due => t <= end + spare
BY Lengths DEF Waiting

\* The ages a change has when it is still waiting.
LEMMA SettingsDebtTime ==
    ASSUME CalmInv, SettingsDebt, wanted_settings.has_changed
    PROVE  /\ cycle_running => now <= SettledAt + Spare + CycleLength
           /\ now <= SettledAt + 3 * Throttle + CycleLength
<1>1. TypeOK /\ now \in Nat /\ last_cycle_end \in Nat /\ last_send \in Nat
      /\ last_cycle_start \in Nat /\ cycle_timeout \in Nat
  BY Times DEF CalmInv
<1>2. CASE cycle_running
  <2>1. last_cycle_start <= SettledAt + Spare
    BY <1>2 DEF SettingsDebt
  <2>2. now <= last_cycle_start + CycleLength
    BY <1>1, <1>2 DEF CalmInv, TimeoutInv, InCycle, RequestInv, CycleLength
  <2>3. now <= SettledAt + Spare + CycleLength
    BY <1>1, <2>1, <2>2, Lengths
  <2> QED BY <1>1, <2>3, Lengths
<1>3. CASE ~cycle_running
  <2>1. Waiting(last_cycle_end, last_send, now, looped, SettledAt, Spare)
    BY <1>3 DEF SettingsDebt
  <2> QED BY <1>1, <1>3, <2>1, Lengths, WaitingBounds
<1> QED BY <1>2, <1>3

\* A change that is still waiting has not waited too long.
LEMMA SettingsDebtStep ==
    ASSUME ThrottleFitsGuards, CalmInv, CalmInv', SettingsDebt, CalmStep
    PROVE  SettingsDebt'
<1> SUFFICES ASSUME wanted_settings'.has_changed PROVE SettingsDebt'
  BY DEF SettingsDebt
<1> USE DEF cycleVars, remoteVars
<1>w. /\ WriteGap \in Nat /\ cycle_starvation_threshold \in Nat /\ cycle_timeout \in Nat
      /\ remote_temp_stall_threshold \in Nat /\ DebounceDelay \in Nat
      /\ Throttle \in Nat /\ Throttle > 0 /\ CycleLength \in Nat
      /\ 2 * Throttle <= cycle_starvation_threshold
      /\ 3 * Throttle + CycleLength < remote_temp_stall_threshold
  <2>1. WriteGap \in Nat /\ cycle_timeout \in Nat /\ remote_temp_stall_threshold \in Nat
        /\ cycle_starvation_threshold \in Nat /\ DebounceDelay \in Nat
    BY Times DEF CalmInv
  <2> QED BY <2>1, Lengths DEF CalmInv, ThrottleFitsGuards, Throttle, CycleLength
<1>t. /\ now \in Nat /\ last_send \in Nat /\ last_cycle_end \in Nat
      /\ last_cycle_start \in Nat /\ remote_pending_since \in Nat
      /\ last_send <= now /\ last_cycle_end <= now /\ remote_pending_since <= now
      /\ SettledAt \in Nat /\ Spare \in {Throttle, 2 * Throttle}
      /\ TypeOK
  BY Times, Lengths DEF CalmInv, PastInv
<1>p. /\ last_send' \in Nat /\ TypeOK' /\ last_send' <= now'
      /\ SettledAt' \in Nat /\ Spare' \in {Throttle, 2 * Throttle}
  <2>1. last_send' \in Nat /\ last_send' <= now'
    BY CalmInv' DEF CalmInv, PastInv, TypeOK, Millis
  <2>2. TypeOK'
    BY CalmInv' DEF CalmInv
  <2>3. wanted_settings'.last_change \in Nat
    BY <2>2 DEF TypeOK, Settings, Millis
  <2> QED BY <1>w, <2>1, <2>2, <2>3 DEF SettledAt, Spare
<1>k. ASSUME UNCHANGED <<wanted_settings, remoteVars>>
      PROVE  SettledAt' = SettledAt /\ Spare' = Spare /\ wanted_settings.has_changed
  BY <1>k DEF SettledAt, Spare, OutrankedBy
<1>1. CASE Ages
  <2>1. SettledAt' = SettledAt /\ Spare' = Spare /\ wanted_settings.has_changed
    BY <1>1, <1>k DEF Ages
  <2>2. /\ looped /\ ~looped' /\ now' = now + 1
        /\ UNCHANGED <<last_send, last_cycle_end, last_cycle_start>>
    BY <1>1 DEF Ages
  <2>3. cycle_running' = cycle_running /\ looped = TRUE /\ looped' = FALSE
    BY <1>1, <1>t, <1>p DEF Ages, TypeOK
  <2>4. CASE cycle_running
    BY <2>1, <2>2, <2>3, <2>4 DEF SettingsDebt
  <2>5. CASE ~cycle_running
    <3>1. Waiting(last_cycle_end, last_send, now + 1, FALSE, SettledAt, Spare)
      BY <1>t, <2>1, <2>3, <2>5, WaitingForTime DEF SettingsDebt
    <3> QED BY <2>1, <2>2, <2>3, <2>5, <3>1 DEF SettingsDebt
  <2> QED BY <2>4, <2>5
<1>2. CASE Asks
  <2>1. UNCHANGED <<now, looped, cycleVars, last_send>>
    BY <1>2 DEF Asks
  <2>2. CASE UNCHANGED <<wanted_settings, remoteVars>>
    BY <1>k, <2>1, <2>2 DEF SettingsDebt
  <2>3. ASSUME now <= SettledAt' PROVE SettingsDebt'
    <3>1. last_cycle_start <= SettledAt' + Spare'
      <4>1. last_cycle_start <= now
        BY DEF CalmInv, TimeoutInv
      <4>2. \A due, spare \in Nat : now <= due => last_cycle_start <= due + spare
        BY <1>t, <4>1
      <4>3. Spare' \in Nat
        BY <1>w, <1>p
      <4> QED BY <1>p, <2>3, <4>2, <4>3
    <3>2. Waiting(last_cycle_end, last_send, now, looped, SettledAt', Spare')
      BY <1>t, <1>p, <2>3, WaitingToSettle
    <3> QED BY <2>1, <3>1, <3>2 DEF SettingsDebt
  <2>4. CASE wanted_settings'.last_change = now
    BY <1>w, <1>t, <2>3, <2>4 DEF SettledAt
  <2>5. CASE /\ UNCHANGED wanted_settings
             /\ ~remote_pending /\ remote_pending'
             /\ remote_pending_since' = now
    <3>1. SettledAt' = SettledAt /\ wanted_settings.has_changed
      BY <2>5 DEF SettledAt
    <3>2. CASE now < SettledAt
      BY <1>t, <2>3, <3>1, <3>2
    <3>3. CASE ~(now < SettledAt)
      <4>1. ~OutrankedBy /\ ~OutrankedBy'
        BY <1>t, <2>5, <3>1, <3>3 DEF OutrankedBy
      <4>2. Spare' = Spare
        BY <4>1 DEF Spare
      <4> QED BY <2>1, <3>1, <4>2 DEF SettingsDebt
    <3> QED BY <3>2, <3>3
  <2> QED BY <1>2, <2>2, <2>4, <2>5 DEF Asks
<1>3. CASE GoesOn
  <2>1. SettledAt' = SettledAt /\ Spare' = Spare /\ wanted_settings.has_changed
    BY <1>3, <1>k DEF GoesOn
  <2>2. cycle_running /\ cycle_running' /\ last_cycle_start' = last_cycle_start
    BY <1>3 DEF GoesOn
  <2> QED BY <2>1, <2>2 DEF SettingsDebt
<1>4. CASE Ends
  <2>1. cycle_running /\ ~cycle_running'
    BY <1>4 DEF Ends, cycle_ended
  <2>2. /\ last_cycle_end' = now /\ now' = now /\ SettledAt' = SettledAt
        /\ wanted_settings.has_changed
    BY <1>4 DEF Ends, cycle_ended, SettledAt
  <2>3. Spare' = Spare \/ Spare' = 2 * Throttle
    <3>1. CASE ~remote_pending'
      BY <3>1 DEF Spare, OutrankedBy
    <3>2. CASE UNCHANGED remoteVars
      BY <1>4, <1>k, <3>2 DEF Ends
    <3> QED BY <1>4, <3>1, <3>2 DEF Ends
  <2>4. now <= SettledAt + Spare + CycleLength
    BY <2>1, <2>2, SettingsDebtTime
  <2>5. now <= SettledAt + Spare' + CycleLength
    <3>1. CASE Spare' = Spare
      BY <2>4, <3>1
    <3>2. CASE Spare' = 2 * Throttle
      <4>1. now <= SettledAt + 2 * Throttle + CycleLength
        BY <1>w, <1>t, <2>4
      <4> QED BY <3>2, <4>1
    <3> QED BY <2>3, <3>1, <3>2
  <2>6. last_send' <= now
    BY <1>p, <2>2
  <2>7. Waiting(now, last_send', now, looped', SettledAt, Spare')
    BY <1>t, <1>p, <2>5, <2>6, WaitingAfterCycle
  <2> QED BY <2>1, <2>2, <2>7 DEF SettingsDebt
<1>5. CASE Forces
  <2>1. ~cycle_running /\ ~cycle_running' /\ remote_pending /\ ~remote_pending'
    BY <1>5 DEF Forces, Between, StalledDue
  <2>2. /\ last_cycle_end' = last_cycle_end /\ now' = now /\ last_send' = now
        /\ SettledAt' = SettledAt /\ wanted_settings.has_changed
    BY <1>5 DEF Forces, Between, SettledAt
  <2>3. looped' = TRUE
    BY <1>5, <1>p DEF Forces, Between, TypeOK
  <2>4. Age(remote_pending_since) >= remote_temp_stall_threshold
    BY <1>5 DEF Forces, StalledDue
  <2>5. now <= SettledAt + 3 * Throttle + CycleLength
    BY <2>2, SettingsDebtTime
  <2>6. remote_pending_since < SettledAt
    BY <1>w, <1>t, <2>4, <2>5 DEF Age
  <2>7. Spare = Throttle /\ Spare' = 2 * Throttle
    BY <2>1, <2>6 DEF Spare, OutrankedBy
  <2>8. Waiting(last_cycle_end, last_send, now, looped, SettledAt, Throttle)
    BY <2>1, <2>2, <2>7 DEF SettingsDebt
  <2>9. Waiting(last_cycle_end, now, now, TRUE, SettledAt, 2 * Throttle)
    BY <1>t, <2>8, WaitingAfterRemote
  <2> QED BY <2>1, <2>2, <2>3, <2>7, <2>9 DEF SettingsDebt
<1>6. CASE Writes
  BY <1>6 DEF Writes
<1>7. CASE Holds
  <2>1. SettledAt' = SettledAt /\ Spare' = Spare /\ wanted_settings.has_changed
    BY <1>7, <1>k DEF Holds
  <2>2. UNCHANGED <<last_cycle_end, last_send, now>>
    BY <1>7 DEF Holds, Between
  <2>3. cycle_running' = cycle_running
    BY <1>7 DEF Holds
  <2>4. ~cycle_running /\ looped' = TRUE
    BY <1>7, <1>p DEF Holds, Between, TypeOK
  <2>5. now < SettledAt \/ now < last_send + Throttle
    <3>1. Age(wanted_settings.last_change) < DebounceDelay \/ Age(last_send) <= WriteGap
      BY <1>7 DEF Holds
    <3>2. wanted_settings.last_change \in Nat
      BY <1>t DEF TypeOK, Settings, Millis
    <3>3. CASE Age(wanted_settings.last_change) < DebounceDelay
      BY <1>w, <1>t, <3>2, <3>3 DEF Age, SettledAt
    <3>4. CASE Age(last_send) <= WriteGap
      BY <1>w, <1>t, <3>4 DEF Age, Throttle
    <3> QED BY <3>1, <3>3, <3>4
  <2>6. Waiting(last_cycle_end, last_send, now, looped, SettledAt, Spare)
    BY <2>1, <2>4 DEF SettingsDebt
  <2>7. Waiting(last_cycle_end, last_send, now, TRUE, SettledAt, Spare)
    BY <1>t, <2>5, <2>6, WaitingForThrottle
  <2> QED BY <2>1, <2>2, <2>3, <2>4, <2>7 DEF SettingsDebt
<1>8. CASE Rests
  BY <1>8 DEF Rests
<1>9. CASE Starts
  <2>1. SettledAt' = SettledAt /\ Spare' = Spare /\ wanted_settings.has_changed
    BY <1>9, <1>k DEF Starts
  <2>2. cycle_running' /\ ~cycle_running /\ last_cycle_start' = now
    BY <1>9 DEF Starts, Between, cycle_started
  <2>3. Age(last_cycle_end) > cycle_starvation_threshold
    BY <1>9, <2>1 DEF Starts
  <2>4. Waiting(last_cycle_end, last_send, now, looped, SettledAt, Spare)
    BY <2>1, <2>2 DEF SettingsDebt
  <2>5. now <= SettledAt + Spare
    <3>1. CASE last_cycle_end < SettledAt
      BY <1>t, <2>4, <3>1, WaitingBounds
    <3>2. CASE last_cycle_end >= SettledAt
      <4>1. now <= last_cycle_end + Spare
        BY <1>t, <2>4, <3>2, WaitingBounds
      <4> QED BY <1>w, <1>t, <2>3, <4>1 DEF Age
    <3> QED BY <1>t, <3>1, <3>2
  <2> QED BY <2>1, <2>2, <2>5 DEF SettingsDebt
<1> QED BY <1>1, <1>2, <1>3, <1>4, <1>5, <1>6, <1>7, <1>8, <1>9 DEF CalmStep

\* A change that has settled is on its way within one cycle and three throttles, on a
\* calm link that stays active: reads that outrank the writes do not starve them.
THEOREM SettingsAreSent ==
    ASSUME Calm, ThrottleFitsGuards
    PROVE  Spec /\ []is_heatpump_connection_active => []SettingsNotStalled
<1>1. Init => CalmInv /\ SettingsDebt
  <2> SUFFICES ASSUME Init PROVE ~wanted_settings.has_changed
    BY CalmInvInit DEF SettingsDebt
  <2> QED BY DEF Init, NoSettings
<1>2. /\ CalmInv /\ SettingsDebt
      /\ is_heatpump_connection_active
      /\ [Next]_vars
      => (CalmInv /\ SettingsDebt)'
  BY CalmKinds, CalmInvStep, SettingsDebtStep
<1>3. CalmInv /\ SettingsDebt => SettingsNotStalled
  <2> SUFFICES ASSUME CalmInv, SettingsDebt, wanted_settings.has_changed
               PROVE  Elapsed(wanted_settings.last_change)
                        <= DebounceDelay + cycle_timeout + 3 * WriteGap + 4
    BY DEF SettingsNotStalled
  <2>1. Elapsed(wanted_settings.last_change) = Age(wanted_settings.last_change)
    BY Times, AgeOfThePast DEF CalmInv, PastInv
  <2>2. now <= SettledAt + 3 * Throttle + CycleLength
    BY SettingsDebtTime
  <2> QED BY <2>1, <2>2, Times DEF CalmInv, Age, SettledAt, Throttle, CycleLength
<1> QED BY <1>1, <1>2, <1>3, PTL DEF Spec

=============================================================================
