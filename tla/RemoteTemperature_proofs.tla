---------------------- MODULE RemoteTemperature_proofs ----------------------
(***************************************************************************)
(* Proofs about RemoteTemperature, for any samples, delays and timeouts:   *)
(* what is on its way, how often the unit is fed, and that RemoteFeed is   *)
(* implemented.                                                            *)
(***************************************************************************)
EXTENDS RemoteTemperature, TLAPS

\* Some sample is not the marker for "none", and what the packet says of it is a number.
LEMMA WireIsANumber ==
    /\ \A t \in Samples : t # Internal /\ Wire(t) \in Int /\ Wire(t) # Internal
    /\ Wire(Internal) = Internal
    /\ \A t \in Held : Wire(t) \in Told
<1>1. ASSUME NEW t \in Samples
      PROVE  t # Internal /\ encode_remote_temperature(t) \in Int
  <2>1. t \in Int /\ t # Internal
    BY RemoteAssumption
  <2>2. PICK c \in Int : c = Larger(80, Smaller(t, 375))
    BY <2>1 DEF Larger, Smaller
  <2>3. HalfDegrees(c) \in Int
    BY <2>2 DEF HalfDegrees
  <2> QED
    BY <2>1, <2>2, <2>3 DEF encode_remote_temperature
<1>2. Internal \notin Int
  BY RemoteAssumption
<1> QED
  BY <1>1, <1>2 DEF Wire, Told, Held

\* The interval in use is a positive number of ticks.
LEMMA IntervalIsPositive ==
    keepalive_interval \in Nat \ {0} /\ feeding_period \in Nat /\ SendBound \in Nat
BY RemoteAssumption DEF keepalive_interval, feeding_period, Larger

\* Both queueing and the start of a connection's wait leave an age of the queue.
LEMMA QueueAge ==
    ASSUME NEW q \in 0 .. SendBound \union {NotQueued}
    PROVE  /\ Larger(q, 0) \in 0 .. SendBound
           /\ Smaller(q, 0) \in {0, NotQueued}
           /\ Smaller(q, 0) = NotQueued <=> q = NotQueued
BY RemoteAssumption DEF Larger, Smaller, NotQueued

\* Within the range of the byte, samples with the same byte have the same packet.
LEMMA SameByteSamePacket ==
    ASSUME SamplesFitTheByte,
           NEW s \in Samples, NEW t \in Samples,
           encode_temperature_b(s) = encode_temperature_b(t)
    PROVE  Wire(s) = Wire(t)
<1> DEFINE a == HalfDegrees(s)
           b == HalfDegrees(t)
<1>1. s \in Int /\ t \in Int
  BY RemoteAssumption
<1>2. a \in Int /\ b \in Int
  BY <1>1 DEF HalfDegrees
<1>3. a + 128 \in 0 .. 255 /\ b + 128 \in 0 .. 255
  BY DEF SamplesFitTheByte
<1>4. (a + 128) % 256 = (b + 128) % 256
  BY DEF encode_temperature_b
<1>5. a = b
  <2> HIDE DEF a, b
  <2> QED
    BY <1>2, <1>3, <1>4
<1>6. ASSUME s <= t PROVE Wire(s) = Wire(t)
  BY <1>1, <1>5, <1>6, WireIsANumber DEF Wire, encode_remote_temperature, HalfDegrees, Larger, Smaller
<1>7. ASSUME t <= s PROVE Wire(s) = Wire(t)
  BY <1>1, <1>5, <1>7, WireIsANumber DEF Wire, encode_remote_temperature, HalfDegrees, Larger, Smaller
<1> QED
  BY <1>1, <1>6, <1>7

(***************************************************************************)
(* Type correctness.                                                       *)
(***************************************************************************)
LEMMA InitTypeOK == Init => TypeOK
<1> SUFFICES ASSUME Init PROVE TypeOK
  OBVIOUS
<1>1. remote_temp_timeout \in Timeouts /\ remote_temp_timeout \in Nat
  BY RemoteAssumption DEF Init
<1>2. watchdog \in 0 .. remote_temp_timeout \union {Off}
  BY <1>1 DEF Init
<1>3. sample_age \in 0 .. remote_temp_timeout + 1 /\ unfed_for \in 0 .. feeding_period + 1
  BY <1>1, IntervalIsPositive DEF Init
<1> QED
  BY <1>1, <1>2, <1>3 DEF Init, TypeOK, Held, Told

\* Queueing, the keep-alive and the watchdog leave their variables well typed.
LEMMA HelpersTypeOK ==
    ASSUME TypeOK
    PROVE  /\ queue_remote_temperature_send => queued_for' \in 0 .. SendBound
           /\ ping_external_temperature => watchdog' \in 0 .. remote_temp_timeout \union {Off}
           /\ start_remote_temp_keep_alive => keepalive' \in 0 .. keepalive_interval
<1>1. queue_remote_temperature_send => queued_for' \in 0 .. SendBound
  BY QueueAge DEF queue_remote_temperature_send, TypeOK
<1>2. ping_external_temperature => watchdog' \in 0 .. remote_temp_timeout \union {Off}
  BY RemoteAssumption DEF ping_external_temperature, TypeOK
<1>3. start_remote_temp_keep_alive => keepalive' \in 0 .. keepalive_interval
  BY DEF start_remote_temp_keep_alive, TypeOK
<1> QED
  BY <1>1, <1>2, <1>3

LEMMA SampleTypeOK ==
    ASSUME TypeOK, NEW t \in Samples, set_remote_temperature(t)
    PROVE  TypeOK'
<1>1. remote_temperature' \in Held
  BY DEF set_remote_temperature, Held
<1>2. deferred' \in 0 .. MinSendInterval \union {Off}
  BY RemoteAssumption DEF set_remote_temperature, may_send_now, TypeOK, Never, Off
<1>3. queued_for' \in 0 .. SendBound \union {NotQueued}
  BY HelpersTypeOK DEF set_remote_temperature, TypeOK
<1>4. watchdog' \in 0 .. remote_temp_timeout \union {Off} /\ keepalive' \in 0 .. keepalive_interval
  BY HelpersTypeOK DEF set_remote_temperature
<1>5. sample_age' \in 0 .. remote_temp_timeout + 1
  BY RemoteAssumption DEF set_remote_temperature, TypeOK
<1> QED
  BY <1>1, <1>2, <1>3, <1>4, <1>5 DEF set_remote_temperature, sentVars, TypeOK

LEMMA ClearTypeOK ==
    ASSUME TypeOK, clear_remote_temperature
    PROVE  TypeOK'
<1>1. sample_age' \in 0 .. remote_temp_timeout + 1 /\ unfed_for' \in 0 .. feeding_period + 1
  BY RemoteAssumption, IntervalIsPositive DEF clear_remote_temperature, TypeOK
<1> QED
  BY <1>1, HelpersTypeOK DEF clear_remote_temperature, sentVars, TypeOK, Held, Off

LEMMA SendTypeOK ==
    ASSUME TypeOK, SendDelivered \/ SendLost
    PROVE  TypeOK'
<1>1. unit' \in Told
  BY WireIsANumber DEF SendDelivered, SendLost, send_remote_temperature, TypeOK
<1> QED
  BY <1>1, RemoteAssumption, IntervalIsPositive
  DEF SendDelivered, SendLost, send_remote_temperature, TypeOK, NotQueued, Off

LEMMA TickTypeOK ==
    ASSUME TypeOK, Tick
    PROVE  TypeOK'
<1>1. deferred' \in 0 .. MinSendInterval \union {Off}
  BY RemoteAssumption DEF Tick, TypeOK, Left, Off
<1>2. watchdog' \in 0 .. remote_temp_timeout \union {Off}
  BY RemoteAssumption DEF Tick, TypeOK, Left, Off
<1>3. keepalive' \in 0 .. keepalive_interval \union {Off}
  BY IntervalIsPositive DEF Tick, TypeOK, Left, Off
<1>4. since_send' \in 0 .. MinSendInterval \union {Never}
  BY RemoteAssumption DEF Tick, TypeOK, Smaller, Never
<1>5. queued_for' \in 0 .. SendBound \union {NotQueued}
  BY RemoteAssumption DEF Tick, TypeOK, NotQueued
<1>6. sample_age' \in 0 .. remote_temp_timeout + 1
  BY RemoteAssumption DEF Tick, TypeOK, Smaller
<1>7. unfed_for' \in 0 .. feeding_period + 1
  BY IntervalIsPositive DEF Tick, TypeOK, Smaller
<1> QED
  BY <1>1, <1>2, <1>3, <1>4, <1>5, <1>6, <1>7 DEF Tick, TypeOK

LEMMA NextTypeOK == TypeOK /\ [Next]_vars => TypeOK'
<1> SUFFICES ASSUME TypeOK, [Next]_vars PROVE TypeOK'
  OBVIOUS
<1>1. CASE HomeAssistant
  BY <1>1, SampleTypeOK, ClearTypeOK DEF HomeAssistant
<1>2. CASE Watchdog
  BY <1>2, ClearTypeOK DEF Watchdog
<1>3. CASE DeferredTimer
  BY <1>3, HelpersTypeOK DEF DeferredTimer, sentVars, TypeOK, Off
<1>4. CASE KeepAliveTimer
  BY <1>4, HelpersTypeOK, IntervalIsPositive DEF KeepAliveTimer, sentVars, TypeOK
<1>5. CASE SendDelivered \/ SendLost
  BY <1>5, SendTypeOK
<1>6. CASE LinkDown
  <2>1. queued_for' \in 0 .. SendBound \union {NotQueued}
    BY <1>6, QueueAge, IntervalIsPositive DEF LinkDown, TypeOK
  <2>2. unfed_for' \in 0 .. feeding_period + 1
    BY <1>6, IntervalIsPositive DEF LinkDown
  <2> QED
    BY <1>6, <2>1, <2>2 DEF LinkDown, sentVars, timerVars, TypeOK
<1>7. CASE LinkUp
  BY <1>7 DEF LinkUp, sentVars, timerVars, TypeOK
<1>8. CASE UnitFallsBack
  BY <1>8 DEF UnitFallsBack, sentVars, timerVars, TypeOK, Told
<1>9. CASE Tick
  BY <1>9, TickTypeOK
<1>10. CASE UNCHANGED vars
  BY <1>10 DEF vars, TypeOK
<1> QED
  BY <1>1, <1>2, <1>3, <1>4, <1>5, <1>6, <1>7, <1>8, <1>9, <1>10 DEF Next, Timers, Link

\* Every reachable state of the remote temperature is well typed: no timer, age or
\* queue leaves its range, for any configuration.
THEOREM RemoteTypeCorrect == Spec => []TypeOK
<1> QED
  BY InitTypeOK, NextTypeOK, PTL DEF Spec

(***************************************************************************)
(* ChangeNotForgotten.                                                     *)
(***************************************************************************)
LEMMA NextChangeNotForgotten ==
    ASSUME SamplesFitTheByte, TypeOK, ChangeNotForgotten, [Next]_vars
    PROVE  ChangeNotForgotten'
<1> USE DEF ChangeNotForgotten
<1>0. ASSUME queue_remote_temperature_send PROVE queued_for' # NotQueued
  BY <1>0, QueueAge DEF queue_remote_temperature_send, TypeOK, NotQueued
<1>1. ASSUME NEW t \in Samples, set_remote_temperature(t) PROVE ChangeNotForgotten'
  <2>1. CASE byte_unchanged(t)
    <3>1. last_sent \in Samples /\ encode_temperature_b(last_sent) = encode_temperature_b(t)
      BY <2>1 DEF byte_unchanged, TypeOK, Held
    <3>2. Wire(last_sent) = Wire(t)
      BY <3>1, SameByteSamePacket
    <3> QED
      BY <1>1, <3>2 DEF set_remote_temperature, sentVars
  <2>2. CASE ~byte_unchanged(t) /\ may_send_now
    BY <1>0, <1>1, <2>2 DEF set_remote_temperature
  <2>3. CASE ~byte_unchanged(t) /\ ~may_send_now
    <3>1. deferred' = MinSendInterval - since_send /\ since_send \in 0 .. MinSendInterval
      BY <1>1, <2>3 DEF set_remote_temperature, TypeOK, may_send_now
    <3> QED
      BY <3>1, RemoteAssumption DEF Off
  <2> QED
    BY <2>1, <2>2, <2>3
<1>2. ASSUME clear_remote_temperature PROVE ChangeNotForgotten'
  BY <1>0, <1>2 DEF clear_remote_temperature
<1>3. CASE DeferredTimer
  BY <1>0, <1>3 DEF DeferredTimer
<1>4. CASE KeepAliveTimer
  BY <1>0, <1>4 DEF KeepAliveTimer, sentVars
<1>5. CASE SendDelivered \/ SendLost
  BY <1>5 DEF SendDelivered, SendLost, send_remote_temperature
<1>6. CASE LinkDown
  BY <1>6, QueueAge DEF LinkDown, sentVars, timerVars, TypeOK
<1>7. CASE LinkUp \/ UnitFallsBack
  BY <1>7 DEF LinkUp, UnitFallsBack, sentVars, timerVars
<1>8. CASE Tick
  <2>1. queued_for # NotQueued => queued_for' # NotQueued
    BY <1>8, RemoteAssumption DEF Tick, TypeOK, NotQueued
  <2>2. deferred # Off => deferred' # Off
    BY <1>8, RemoteAssumption DEF Tick, TypeOK, Left, Off
  <2> QED
    BY <1>8, <2>1, <2>2 DEF Tick
<1>9. CASE UNCHANGED vars
  BY <1>9 DEF vars
<1> QED
  BY <1>1, <1>2, <1>3, <1>4, <1>5, <1>6, <1>7, <1>8, <1>9
  DEF Next, HomeAssistant, Timers, Link, Watchdog

\* No order of samples, timers, sends and losses of the link makes the driver forget that
\* what is held differs from what it sent last, as long as the samples fit their byte.
THEOREM ChangesAreNotForgotten ==
    ASSUME SamplesFitTheByte
    PROVE  Spec => []ChangeNotForgotten
<1>1. Init => ChangeNotForgotten
  BY DEF Init, ChangeNotForgotten
<1>2. TypeOK /\ ChangeNotForgotten /\ [Next]_vars => ChangeNotForgotten'
  BY NextChangeNotForgotten
<1> QED
  BY <1>1, <1>2, RemoteTypeCorrect, PTL DEF Spec

(***************************************************************************)
(* FedInTime: the time since the unit was last fed is bounded by what the  *)
(* keep-alive timer has left and by the age of the queue.                  *)
(***************************************************************************)
FeedingInv ==
    /\ remote_temperature # Internal => keepalive # Off
    /\ remote_temperature = Internal \/ ~connected => unfed_for = 0
    /\ queued_for = NotQueued /\ keepalive # Off => unfed_for + keepalive <= keepalive_interval
    /\ queued_for # NotQueued => unfed_for <= keepalive_interval + queued_for

LEMMA FeedingIsFedInTime == TypeOK /\ FeedingInv => FedInTime
<1> SUFFICES ASSUME TypeOK, FeedingInv PROVE unfed_for <= feeding_period
  BY DEF FedInTime
<1>1. unfed_for \in Nat /\ (keepalive # Off => keepalive \in Nat)
  BY IntervalIsPositive DEF TypeOK
<1>2. CASE queued_for # NotQueued
  BY <1>2, IntervalIsPositive DEF FeedingInv, TypeOK, feeding_period
<1>3. CASE queued_for = NotQueued /\ keepalive # Off
  BY <1>1, <1>3, IntervalIsPositive DEF FeedingInv, feeding_period
<1>4. CASE keepalive = Off
  BY <1>4, IntervalIsPositive DEF FeedingInv
<1> QED
  BY <1>2, <1>3, <1>4

LEMMA NextFeedingInv ==
    ASSUME TypeOK, FeedingInv, [Next]_vars
    PROVE  FeedingInv'
<1>0. /\ keepalive_interval \in Nat \ {0} /\ feeding_period = keepalive_interval + SendBound /\ SendBound \in Nat
      /\ unfed_for \in Nat
      /\ keepalive = Off \/ keepalive \in 0 .. keepalive_interval
      /\ queued_for = NotQueued \/ queued_for \in 0 .. SendBound
  BY IntervalIsPositive DEF TypeOK, feeding_period
<1>a. ASSUME queue_remote_temperature_send
      PROVE  queued_for' = IF queued_for = NotQueued THEN 0 ELSE queued_for
  BY <1>a, <1>0 DEF queue_remote_temperature_send, Larger, NotQueued
<1>b. unfed_for <= keepalive_interval \/ queued_for # NotQueued
  BY <1>0 DEF FeedingInv, Off
<1>1. ASSUME NEW t \in Samples, set_remote_temperature(t) PROVE FeedingInv'
  <2>1. PICK k \in 0 .. keepalive_interval :
          keepalive' = k /\ (keepalive # Off => keepalive' = keepalive)
    BY <1>1, <1>0 DEF set_remote_temperature, start_remote_temp_keep_alive, Off
  <2>2. remote_temperature # Internal \/ unfed_for = 0
    BY DEF FeedingInv
  <2>3. /\ queued_for # NotQueued => queued_for' = queued_for
        /\ queued_for = NotQueued => queued_for' \in {NotQueued, 0}
    BY <1>1, <1>a DEF set_remote_temperature
  <2>4. unfed_for' = unfed_for /\ connected' = connected /\ remote_temperature' # Internal
    BY <1>1, WireIsANumber DEF set_remote_temperature
  <2>5. CASE remote_temperature = Internal
    <3>0. unfed_for' = 0
      BY <2>2, <2>4, <2>5
    <3>1. keepalive' # Off /\ unfed_for' + keepalive' <= keepalive_interval
      BY <1>0, <2>1, <3>0 DEF Off
    <3>2. queued_for' # NotQueued => queued_for' \in 0 .. SendBound
      BY <1>0, <2>3
    <3>3. queued_for' # NotQueued => unfed_for' <= keepalive_interval + queued_for'
      BY <1>0, <3>0, <3>2
    <3> QED
      BY <2>4, <3>0, <3>1, <3>3 DEF FeedingInv
  <2>6. CASE remote_temperature # Internal
    <3>1. keepalive # Off /\ keepalive' = keepalive
      BY <2>1, <2>6 DEF FeedingInv
    <3> QED
      BY <1>0, <1>b, <2>3, <2>4, <2>6, <3>1 DEF FeedingInv, NotQueued
  <2> QED
    BY <2>5, <2>6
<1>2. ASSUME clear_remote_temperature PROVE FeedingInv'
  BY <1>2, <1>0, <1>a DEF clear_remote_temperature, FeedingInv, Off, NotQueued
<1>3. CASE DeferredTimer
  BY <1>3, <1>0, <1>a, <1>b DEF DeferredTimer, FeedingInv, NotQueued
<1>4. CASE KeepAliveTimer
  <2>1. CASE KeepAliveQueues
    BY <1>4, <1>0, <1>a, <1>b, <2>1
    DEF KeepAliveTimer, KeepAliveQueues, FeedingInv, NotQueued, Off
  <2>2. CASE ~KeepAliveQueues
    BY <1>4, <1>0, <2>2 DEF KeepAliveTimer, KeepAliveQueues, FeedingInv, NotQueued, Off
  <2> QED
    BY <2>1, <2>2
<1>5. CASE SendDelivered \/ SendLost
  BY <1>5, <1>0 DEF SendDelivered, SendLost, send_remote_temperature, FeedingInv, NotQueued, Off
<1>6. CASE LinkDown
  <2>1. queued_for' = IF queued_for = NotQueued THEN NotQueued ELSE 0
    BY <1>6, <1>0 DEF LinkDown, Smaller, NotQueued
  <2> QED
    BY <1>6, <1>0, <2>1 DEF LinkDown, timerVars, FeedingInv, NotQueued, Off
<1>7. CASE LinkUp
  BY <1>7, <1>0 DEF LinkUp, timerVars, FeedingInv
<1>8. CASE UnitFallsBack
  BY <1>8 DEF UnitFallsBack, timerVars, FeedingInv
<1>9. CASE Tick
  <2>1. keepalive # 0 /\ keepalive' = IF keepalive = Off THEN Off ELSE keepalive - 1
    BY <1>9 DEF Tick, Left
  <2>2. connected => queued_for # SendBound
    BY <1>9 DEF Tick
  <2>3. queued_for' = IF queued_for = NotQueued \/ ~connected THEN queued_for ELSE queued_for + 1
    BY <1>9 DEF Tick
  <2>4. CASE remote_temperature = Internal \/ ~connected
    <3>1. unfed_for' = 0
      BY <1>9, <2>4 DEF Tick
    <3> QED
      BY <1>9, <1>0, <2>1, <2>2, <2>3, <3>1 DEF Tick, FeedingInv, NotQueued, Off
  <2>5. CASE remote_temperature # Internal /\ connected
    <3>1. unfed_for' <= unfed_for + 1
      BY <1>9, <1>0, <2>5 DEF Tick, Smaller
    <3>2. unfed_for' \in Nat
      BY <1>9, <1>0, <2>5 DEF Tick, Smaller
    <3> QED
      BY <1>9, <1>0, <2>1, <2>2, <2>3, <2>5, <3>1, <3>2 DEF Tick, FeedingInv, NotQueued, Off
  <2> QED
    BY <2>4, <2>5
<1>10. CASE UNCHANGED vars
  BY <1>10 DEF vars, FeedingInv
<1> QED
  BY <1>1, <1>2, <1>3, <1>4, <1>5, <1>6, <1>7, <1>8, <1>9, <1>10
  DEF Next, HomeAssistant, Timers, Link, Watchdog

\* A connected unit is fed the value held at least once per keep-alive interval and
\* cycle, for any configured interval and however often equal samples arrive.
THEOREM UnitIsFedInTime == Spec => []FedInTime
<1>1. Init => FeedingInv
  BY IntervalIsPositive DEF Init, FeedingInv
<1>2. TypeOK /\ FeedingInv /\ [Next]_vars => FeedingInv'
  BY NextFeedingInv
<1> QED
  BY <1>1, <1>2, FeedingIsFedInTime, RemoteTypeCorrect, PTL DEF Spec

\* The half degree that the unit reports is at most 0.3 degrees from the value held.
LEMMA HalfDegreeIsClose ==
    ASSUME Margin >= 3, NEW t \in Samples, InRange(t)
    PROVE  decode_temperature_b(Wire(t)) - t \in -Margin .. Margin
<1>1. t \in 80 .. 375 /\ t # Internal
  BY WireIsANumber DEF InRange
<1>2. Larger(80, Smaller(t, 375)) = t
  BY <1>1 DEF Larger, Smaller
<1>3. decode_temperature_b(Wire(t)) = ((2 * t + 5) \div 10) * 5
  BY <1>1, <1>2 DEF Wire, encode_remote_temperature, decode_temperature_b, HalfDegrees
<1>4. PICK q \in Int : q = (2 * t + 5) \div 10 /\ 10 * q <= 2 * t + 5 /\ 2 * t + 5 < 10 * q + 10
  BY <1>1
<1>5. q * 5 - t <= 3 /\ t - q * 5 <= 3
  BY <1>1, <1>4
<1> QED
  BY <1>1, <1>3, <1>4, <1>5, RemoteAssumption

\* A unit that regulates on the value held is recognized, whatever the samples are, if
\* the margin is at least 0.3 degrees.
THEOREM AdoptionIsRecognized ==
    ASSUME Margin >= 3
    PROVE  Spec => []AdoptionIsSeen
<1>1. Init => FeedingInv
  BY IntervalIsPositive DEF Init, FeedingInv
<1>2. TypeOK /\ FeedingInv /\ [Next]_vars => FeedingInv'
  BY NextFeedingInv
<1>3. TypeOK /\ FeedingInv => AdoptionIsSeen
  BY HalfDegreeIsClose
  DEF TypeOK, FeedingInv, AdoptionIsSeen, unit_adopted_remote_temperature, Held
<1> QED
  BY <1>1, <1>2, <1>3, RemoteTypeCorrect, PTL DEF Spec

(***************************************************************************)
(* The refinement of RemoteFeed.  The lease is what the watchdog has left  *)
(* and the age of the last sample, together.                               *)
(***************************************************************************)
LeaseInv ==
    /\ remote_temperature = Internal \/ remote_temp_timeout = 0 => sample_age = 0
    /\ remote_temp_timeout = 0 => watchdog = Off
    /\ remote_temperature # Internal /\ remote_temp_timeout # 0
         => watchdog # Off /\ watchdog + sample_age = remote_temp_timeout

LEMMA NextLeaseInv ==
    ASSUME TypeOK, LeaseInv, [Next]_vars
    PROVE  LeaseInv'
<1>0. remote_temp_timeout \in Nat /\ sample_age \in Nat
  BY RemoteAssumption DEF TypeOK
<1>1. ASSUME NEW t \in Samples, set_remote_temperature(t) PROVE LeaseInv'
  BY <1>1, <1>0 DEF set_remote_temperature, ping_external_temperature, LeaseInv, Off
<1>2. ASSUME clear_remote_temperature PROVE LeaseInv'
  BY <1>2 DEF clear_remote_temperature, LeaseInv
<1>3. CASE DeferredTimer \/ KeepAliveTimer \/ SendDelivered \/ SendLost
  BY <1>3
  DEF DeferredTimer, KeepAliveTimer, SendDelivered, SendLost, send_remote_temperature, LeaseInv
<1>4. CASE LinkDown \/ LinkUp \/ UnitFallsBack
  BY <1>4 DEF LinkDown, LinkUp, UnitFallsBack, timerVars, LeaseInv
<1>5. CASE Tick
  <2>1. CASE remote_temperature = Internal \/ remote_temp_timeout = 0
    BY <1>5, <2>1 DEF Tick, Left, LeaseInv
  <2>2. CASE remote_temperature # Internal /\ remote_temp_timeout # 0
    <3>1. watchdog # Off /\ watchdog # 0 /\ watchdog \in 0 .. remote_temp_timeout
          /\ watchdog + sample_age = remote_temp_timeout
      BY <1>5, <2>2 DEF Tick, LeaseInv, TypeOK
    <3>2. watchdog' = watchdog - 1 /\ sample_age' = sample_age + 1
      BY <1>0, <1>5, <2>2, <3>1 DEF Tick, Left, Smaller
    <3> QED
      BY <1>0, <1>5, <2>2, <3>1, <3>2 DEF Tick, LeaseInv, Off
  <2> QED
    BY <2>1, <2>2
<1>6. CASE UNCHANGED vars
  BY <1>6 DEF vars, LeaseInv
<1> QED
  BY <1>1, <1>2, <1>3, <1>4, <1>5, <1>6 DEF Next, HomeAssistant, Timers, Link, Watchdog

LEMMA InitFeed == Init => Feed!Init
BY WireIsANumber, RemoteAssumption DEF Init, Feed!Init

LEMMA StepFeed ==
    ASSUME TypeOK, LeaseInv, LeaseInv', [Next]_vars
    PROVE  [Feed!Next]_(Feed!feedVars)
<1> USE DEF Feed!feedVars
<1>1. ASSUME NEW t \in Samples, set_remote_temperature(t) PROVE Feed!Renew
  BY <1>1, WireIsANumber DEF set_remote_temperature, Feed!Renew, Held
<1>2. ASSUME clear_remote_temperature PROVE Feed!GiveUp
  BY <1>2, WireIsANumber DEF clear_remote_temperature, Feed!GiveUp
<1>3. CASE DeferredTimer \/ KeepAliveTimer \/ SendLost
  BY <1>3 DEF DeferredTimer, KeepAliveTimer, SendLost, send_remote_temperature
<1>4. CASE SendDelivered
  BY <1>4 DEF SendDelivered, send_remote_temperature, Feed!Next, Feed!Tell
<1>5. CASE LinkDown \/ LinkUp
  BY <1>5 DEF LinkDown, LinkUp
<1>6. CASE UnitFallsBack
  BY <1>6 DEF UnitFallsBack, Feed!Next, Feed!FallBack
<1>7. CASE Tick
  <2>1. CASE remote_temperature = Internal \/ remote_temp_timeout = 0
    BY <1>7, <2>1 DEF Tick, LeaseInv
  <2>2. CASE remote_temperature # Internal /\ remote_temp_timeout # 0
    <3>1. /\ remote_temp_timeout \in Nat /\ sample_age \in Nat /\ sample_age' \in Nat
          /\ watchdog \in 0 .. remote_temp_timeout
          /\ watchdog # 0
          /\ watchdog + sample_age = remote_temp_timeout
      BY <1>7, <2>2, RemoteAssumption DEF Tick, Smaller, LeaseInv, TypeOK
    <3>2. sample_age < remote_temp_timeout /\ sample_age' = sample_age + 1
      BY <1>7, <2>2, <3>1 DEF Tick, Smaller
    <3>3. Wire(remote_temperature) # Internal
      BY <2>2, WireIsANumber DEF TypeOK, Held
    <3> QED
      BY <1>7, <2>2, <3>2, <3>3 DEF Tick, Feed!Next, Feed!Pass
  <2> QED
    BY <2>1, <2>2
<1>8. CASE UNCHANGED vars
  BY <1>8 DEF vars
<1> QED
  BY <1>1, <1>2, <1>3, <1>4, <1>5, <1>6, <1>7, <1>8
  DEF Next, HomeAssistant, Timers, Link, Watchdog, Feed!Next

\* The driver implements RemoteFeed: rate limit, deferral, keep-alive and queue never
\* make the unit regulate on a value that is not the one held when it is told, and no
\* value outlives its timeout.
THEOREM DriverImplementsFeed == Spec => FeedIsImplemented
<1>1. Init => LeaseInv
  BY WireIsANumber, RemoteAssumption DEF Init, LeaseInv
<1>2. TypeOK /\ LeaseInv /\ [Next]_vars => LeaseInv'
  BY NextLeaseInv
<1>3. TypeOK /\ LeaseInv /\ LeaseInv' /\ [Next]_vars => [Feed!Next]_(Feed!feedVars)
  BY StepFeed
<1> QED
  BY <1>1, <1>2, <1>3, InitFeed, RemoteTypeCorrect, PTL DEF Spec, FeedIsImplemented, Feed!Spec
=============================================================================
