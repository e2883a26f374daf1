---------------------- MODULE InstallerFunctions_proofs ----------------------
(***************************************************************************)
(* A write of the installer functions never clears what the unit has, a    *)
(* read is made in order and on demand, a cycle waits for an answer, and a *)
(* change that was asked for is never dropped: for every set of codes,     *)
(* every unit, and any number of calls and losses.                         *)
(***************************************************************************)
EXTENDS InstallerFunctions, TLAPS, SequenceTheorems, FiniteSetTheorems

-----------------------------------------------------------------------------
(***************************************************************************)
(* The invariant.  What is on the wire is complete because the copy it was *)
(* made from is, in the parts that were read; and the codes that the unit  *)
(* has never change.                                                       *)
(***************************************************************************)
Complete(frame, has) == \A c \in Carries[frame.part] : frame.data[c] = NoByte => has[c] = NoByte

CompleteWrite(frame, has) == frame.op = "set" => frame.part \in Parts /\ Complete(frame, has)

CompleteQueue(queue, has) == \A i \in 1 .. Len(queue) : CompleteWrite(queue[i], has)

CopyIsComplete == \A p \in valid : \A c \in Carries[p] : raw[c] = NoByte => unit[c] = NoByte

FunctionsInv ==
    /\ TypeOK
    /\ CopyIsComplete
    /\ CompleteQueue(owed, unit)
    /\ \A frame \in part2 : frame.op = "set" /\ CompleteWrite(frame, unit)

\* `now` has bytes for the codes that `before` has bytes for.
SameCodes(before, now) == \A c \in Codes : (now[c] = NoByte) <=> (before[c] = NoByte)

-----------------------------------------------------------------------------
(***************************************************************************)
(* Frames and queues.                                                      *)
(***************************************************************************)
\* The codes of a part are codes.
LEMMA CarriesCodes == \A p \in Parts : Carries[p] \subseteq Codes
BY DEF Carries, Parts, Codes

\* Nothing but complete writes are left when one is answered, or follow when one is added.
LEMMA QueueSteps ==
    ASSUME NEW queue \in Seq(FrameOf), NEW has, CompleteQueue(queue, has)
    PROVE  /\ queue # << >> => /\ Tail(queue) \in Seq(FrameOf)
                               /\ CompleteQueue(Tail(queue), has)
           /\ \A frame \in FrameOf : CompleteWrite(frame, has) =>
                /\ Append(queue, frame) \in Seq(FrameOf)
                /\ CompleteQueue(Append(queue, frame), has)
<1>1. ASSUME queue # << >>
      PROVE  Tail(queue) \in Seq(FrameOf) /\ CompleteQueue(Tail(queue), has)
  <2>1. /\ Tail(queue) \in Seq(FrameOf)
        /\ Len(Tail(queue)) = Len(queue) - 1
        /\ \A i \in 1 .. Len(Tail(queue)) : Tail(queue)[i] = queue[i + 1]
    BY <1>1, HeadTailProperties
  <2>2. Len(queue) \in Nat
    BY LenProperties
  <2> QED BY <2>1, <2>2 DEF CompleteQueue
<1>2. ASSUME NEW frame \in FrameOf, CompleteWrite(frame, has)
      PROVE  Append(queue, frame) \in Seq(FrameOf) /\ CompleteQueue(Append(queue, frame), has)
  <2>1. /\ Append(queue, frame) \in Seq(FrameOf)
        /\ Len(Append(queue, frame)) = Len(queue) + 1
        /\ \A i \in 1 .. Len(queue) : Append(queue, frame)[i] = queue[i]
        /\ Append(queue, frame)[Len(queue) + 1] = frame
    BY AppendProperties
  <2>2. Len(queue) \in Nat
    BY LenProperties
  <2> QED BY <1>2, <2>1, <2>2 DEF CompleteQueue
<1> QED BY <1>1, <1>2

\* Changes of values at the unit leave complete writes complete.
LEMMA SameCodesKeep ==
    ASSUME NEW has \in [Codes -> Bytes], NEW had \in [Codes -> Bytes], SameCodes(had, has)
    PROVE  /\ \A frame \in FrameOf : CompleteWrite(frame, had) => CompleteWrite(frame, has)
           /\ \A queue \in Seq(FrameOf) : CompleteQueue(queue, had) => CompleteQueue(queue, has)
<1>1. ASSUME NEW frame \in FrameOf, CompleteWrite(frame, had)
      PROVE  CompleteWrite(frame, has)
  BY <1>1, CarriesCodes DEF CompleteWrite, Complete, SameCodes
<1>2. ASSUME NEW queue \in Seq(FrameOf), CompleteQueue(queue, had)
      PROVE  CompleteQueue(queue, has)
  <2> SUFFICES ASSUME NEW i \in 1 .. Len(queue)
               PROVE  CompleteWrite(queue[i], has)
    BY DEF CompleteQueue
  <2>1. queue[i] \in FrameOf
    BY ElementOfSeq
  <2> QED BY <1>1, <1>2, <2>1 DEF CompleteQueue
<1> QED BY <1>1, <1>2

\* Requests are frames, and complete as they write nothing.
LEMMA GetIsAFrame ==
    ASSUME NEW request \in Parts \union {"core"}, NEW has
    PROVE  Get(request) \in FrameOf /\ CompleteWrite(Get(request), has)
BY DEF Get, FrameOf, Nothing, NoByte, Bytes, CompleteWrite

\* So is a part of a copy that is complete.
LEMMA SetFrameIsComplete ==
    ASSUME NEW p \in Parts, NEW bytes \in [Codes -> Bytes], NEW has,
           \A c \in Carries[p] : bytes[c] = NoByte => has[c] = NoByte
    PROVE  /\ SetFrame(p, bytes) \in FrameOf
           /\ SetFrame(p, bytes).op = "set"
           /\ CompleteWrite(SetFrame(p, bytes), has)
BY CarriesCodes DEF SetFrame, FrameOf, NoByte, Bytes, CompleteWrite, Complete

\* The request scheduler adds requests only.
LEMMA SendNextAfter ==
    ASSUME NEW start \in Nat, NEW queue \in Seq(FrameOf), NEW dis, NEW dueNow \in SUBSET Parts,
           NEW has, CompleteQueue(queue, has), cycle_running \in BOOLEAN,
           send_next_after(start, queue, dis, dueNow)
    PROVE  /\ owed' \in Seq(FrameOf)
           /\ CompleteQueue(owed', has)
           /\ due' \subseteq Parts
           /\ cycle_running' \in BOOLEAN
<1>1. CASE owed' = queue /\ due' = dueNow /\ cycle_running' = FALSE
  BY <1>1
<1>2. CASE \E i \in start + 1 .. 3 :
             /\ owed' = Append(queue, Get(Requests[i]))
             /\ due' = dueNow \ {Requests[i]}
             /\ cycle_running' = (start = 0 \/ cycle_running)
  <2> PICK i \in start + 1 .. 3 :
             /\ owed' = Append(queue, Get(Requests[i]))
             /\ due' = dueNow \ {Requests[i]}
             /\ cycle_running' = (start = 0 \/ cycle_running)
    BY <1>2
  <2>1. i \in 1 .. 3
    OBVIOUS
  <2>2. Requests[i] \in Parts \union {"core"}
    BY <2>1 DEF Requests, Parts
  <2>3. cycle_running' \in BOOLEAN
    BY Zenon
  <2> QED BY <2>2, <2>3, GetIsAFrame, QueueSteps
<1> QED BY <1>1, <1>2 DEF send_next_after

\* The second frame of a write leaves the driver complete.
LEMMA SendPart2Keeps ==
    ASSUME NEW queue \in Seq(FrameOf), NEW has, CompleteQueue(queue, has),
           part2 \subseteq FrameOf, \A frame \in part2 : CompleteWrite(frame, has),
           SendPart2(queue)
    PROVE  owed' \in Seq(FrameOf) /\ CompleteQueue(owed', has) /\ part2' = {}
<1>1. CASE part2 = {}
  BY <1>1 DEF SendPart2
<1>2. CASE part2 # {}
  <2>1. (CHOOSE packet \in part2 : TRUE) \in part2
    BY <1>2
  <2> QED BY <1>2, <2>1, QueueSteps DEF SendPart2
<1> QED BY <1>1, <1>2

\* What a write does to the unit.
LEMMA WrittenKeepsCodes ==
    ASSUME NEW frame \in FrameOf, unit \in [Codes -> Bytes]
    PROVE  Written(frame) \in [Codes -> Bytes] /\ SameCodes(unit, Written(frame))
BY DEF Written, SameCodes, Bytes, NoByte, FrameOf

-----------------------------------------------------------------------------
(***************************************************************************)
(* The local copy.                                                         *)
(***************************************************************************)
\* The changes of a user stay inside the codes that were read.
LEMMA SetValueKeepsCodes ==
    ASSUME NEW bytes \in [Codes -> Bytes], NEW c \in Codes, NEW value \in Nat
    PROVE  set_value(bytes, c, value) \in [Codes -> Bytes]
           /\ SameCodes(bytes, set_value(bytes, c, value))
BY DEF set_value, SameCodes, Bytes, NoByte

\* An accepted change of the copy preserves what is known of it.
LEMMA ChangeKeeps ==
    ASSUME TypeOK, CopyIsComplete, NEW c \in Codes, NEW value \in Nat, Change(c, value),
           UNCHANGED <<valid, unit>>
    PROVE  /\ raw' \in [Codes -> Bytes] /\ asked' \in [Codes -> Bytes]
           /\ is_set_functions' \in BOOLEAN
           /\ CopyIsComplete'
<1>1. raw' \in [Codes -> Bytes] /\ SameCodes(raw, raw')
  BY SetValueKeepsCodes DEF TypeOK, Change
<1>2. asked' \in [Codes -> Bytes]
  BY DEF TypeOK, Change, Bytes
<1>3. CopyIsComplete'
  BY <1>1, CarriesCodes DEF CopyIsComplete, TypeOK, SameCodes
<1> QED BY <1>1, <1>2, <1>3 DEF Change

\* So does the answer to one of the two requests.
LEMMA OnResponseKeeps ==
    ASSUME TypeOK, CopyIsComplete, NEW p \in Parts, on_response(p), UNCHANGED unit
    PROVE  /\ disabled' \subseteq Parts /\ enabled' \in BOOLEAN
           /\ raw' \in [Codes -> Bytes] /\ valid' \subseteq Parts
           /\ option' \in [Codes -> Bytes] /\ asked' \in [Codes -> Bytes]
           /\ unread' \subseteq Parts
           /\ CopyIsComplete'
<1>1. disabled' \subseteq Parts
  BY DEF TypeOK, on_response, check_and_disable
<1>2. enabled' \in BOOLEAN
  BY Zenon DEF on_response
<1>3. unread' \subseteq Parts
  BY DEF TypeOK, on_response
<1>4. asked' \in [Codes -> Bytes]
  BY DEF TypeOK, on_response, Bytes, NoByte
<1>5. CASE AllZeros(p) \/ short
  <2>1. UNCHANGED <<raw, valid, option>>
    BY <1>5 DEF on_response
  <2> QED BY <1>1, <1>2, <1>3, <1>4, <2>1 DEF TypeOK, CopyIsComplete
<1>6. CASE ~(AllZeros(p) \/ short)
  <2>1. /\ raw' = set_data(raw, p, unit)
        /\ valid' = valid \union {p}
        /\ option' = IF p = "0x22" THEN functions_arrived(raw') ELSE option
    BY <1>6 DEF on_response
  <2>2. raw' \in [Codes -> Bytes]
    BY <2>1 DEF TypeOK, set_data
  <2>3. option' \in [Codes -> Bytes]
    BY <2>1, <2>2 DEF TypeOK, functions_arrived
  <2>4. \A q \in valid' : \A c \in Carries[q] : raw'[c] = NoByte => unit[c] = NoByte
    <3> SUFFICES ASSUME NEW q \in valid', NEW c \in Carries[q], raw'[c] = NoByte
                 PROVE  unit[c] = NoByte
      OBVIOUS
    <3>1. c \in Codes
      BY <2>1, CarriesCodes DEF TypeOK
    <3>2. CASE c \in Carries[p]
      BY <2>1, <3>1, <3>2 DEF set_data
    <3>3. CASE c \notin Carries[p]
      BY <2>1, <3>1, <3>3 DEF set_data, CopyIsComplete
    <3> QED BY <3>2, <3>3
  <2>5. CopyIsComplete'
    BY <2>4 DEF CopyIsComplete
  <2> QED BY <1>1, <1>2, <1>3, <1>4, <2>1, <2>2, <2>3, <2>5 DEF TypeOK
<1> QED BY <1>5, <1>6

\* A copy stays complete when only values change at the unit.
LEMMA CopyFollowsTheUnit ==
    ASSUME TypeOK, CopyIsComplete, SameCodes(unit, unit'), UNCHANGED <<raw, valid>>
    PROVE  CopyIsComplete'
BY CarriesCodes DEF TypeOK, CopyIsComplete, SameCodes

-----------------------------------------------------------------------------
(***************************************************************************)
(* The invariant is inductive.                                             *)
(***************************************************************************)
\* It holds at first.
LEMMA FunctionsInvInit == Init => FunctionsInv
<1> SUFFICES ASSUME Init PROVE FunctionsInv
  OBVIOUS
<1>1. TypeOK
  <2>1. PICK u \in Units : unit = u.has /\ short = u.short
    BY DEF Init
  <2>2. u \in [has : [Codes -> Bytes], short : BOOLEAN]
    BY InstallerFunctionsAssumption
  <2>3. unit \in [Codes -> Bytes]
    BY <2>1, <2>2
  <2>4. short \in BOOLEAN
    BY <2>1, <2>2
  <2>5. Nothing \in [Codes -> Bytes]
    BY DEF Nothing, Bytes, NoByte
  <2>6. owed \in Seq(FrameOf)
    BY DEF Init
  <2>7. losses \in 0 .. MaxLosses /\ calls \in 0 .. MaxCalls
    BY InstallerFunctionsAssumption DEF Init
  <2> QED BY <2>3, <2>4, <2>5, <2>6, <2>7 DEF Init, TypeOK
<1>2. CompleteQueue(owed, unit)
  BY DEF Init, CompleteQueue
<1> QED BY <1>1, <1>2 DEF Init, FunctionsInv, CopyIsComplete

\* The counters stay within their bounds.
LEMMA CountersGrow ==
    ASSUME TypeOK
    PROVE  /\ Happens => calls' \in 0 .. MaxCalls
           /\ losses < MaxLosses => losses + 1 \in 0 .. MaxLosses
BY InstallerFunctionsAssumption DEF TypeOK, Happens

\* Every step preserves it, one step of the proof per action.
LEMMA FunctionsInvNext == FunctionsInv /\ [Next]_vars => FunctionsInv'
<1> SUFFICES ASSUME FunctionsInv, [Next]_vars PROVE FunctionsInv'
  OBVIOUS
<1> USE DEF FunctionsInv
<1>1. CASE ControlSelect
  <2> PICK c \in selects, value \in Options : Change(c, value)
    BY <1>1 DEF ControlSelect
  <2>1. c \in Codes /\ value \in Nat
    BY InstallerFunctionsAssumption DEF TypeOK
  <2>2. /\ raw' \in [Codes -> Bytes] /\ asked' \in [Codes -> Bytes]
        /\ is_set_functions' \in BOOLEAN
        /\ CopyIsComplete'
    BY <1>1, <2>1, ChangeKeeps DEF ControlSelect
  <2> QED BY <1>1, <2>2, CountersGrow DEF ControlSelect, TypeOK, scheduler, config
<1>2. CASE PressGet
  BY <1>2, CountersGrow
     DEF PressGet, TypeOK, copy, scheduler, config, CopyIsComplete
<1>3. CASE PressSet
  <2> PICK c \in Codes, value \in Options \union {0} : Change(c, value)
    BY <1>3 DEF PressSet
  <2>1. value \in Nat
    BY InstallerFunctionsAssumption
  <2>2. /\ raw' \in [Codes -> Bytes] /\ asked' \in [Codes -> Bytes]
        /\ is_set_functions' \in BOOLEAN
        /\ CopyIsComplete'
    BY <1>3, <2>1, ChangeKeeps DEF PressSet
  <2> QED BY <1>3, <2>2, CountersGrow DEF PressSet, TypeOK, scheduler, config
<1>4. CASE ChangeAtTheUnit
  <2>1. PICK c \in Codes, value \in Options :
          /\ unit[c] \notin {NoByte, value}
          /\ unit' = [unit EXCEPT ![c] = value]
          /\ asked' = [asked EXCEPT ![c] = NoByte]
    BY <1>4 DEF ChangeAtTheUnit
  <2>2. value \in 1 .. 3
    BY InstallerFunctionsAssumption
  <2>3. unit' \in [Codes -> Bytes] /\ asked' \in [Codes -> Bytes] /\ SameCodes(unit, unit')
    BY <2>1, <2>2 DEF TypeOK, Bytes, NoByte, SameCodes
  <2>4. TypeOK'
    BY <1>4, <2>3, CountersGrow
       DEF ChangeAtTheUnit, TypeOK, copy, scheduler, flags, config
  <2>5. CopyIsComplete'
    BY <1>4, <2>3, CopyFollowsTheUnit DEF ChangeAtTheUnit, copy
  <2>6. CompleteQueue(owed', unit') /\ \A frame \in part2' : CompleteWrite(frame, unit')
    BY <1>4, <2>3, SameCodesKeep DEF ChangeAtTheUnit, TypeOK
  <2> QED BY <1>4, <2>4, <2>5, <2>6 DEF ChangeAtTheUnit
<1>5. CASE SetFunctions
  <2>1. CASE is_valid
    <3>1. \A p \in Parts : \A c \in Carries[p] : raw[c] = NoByte => unit[c] = NoByte
      BY <2>1 DEF is_valid, CopyIsComplete
    <3>2. \A p \in Parts : /\ SetFrame(p, raw) \in FrameOf
                          /\ SetFrame(p, raw).op = "set"
                          /\ CompleteWrite(SetFrame(p, raw), unit)
      BY <3>1, SetFrameIsComplete DEF TypeOK
    <3>3. owed' = Append(owed, SetFrame("0x20", raw)) /\ part2' = {SetFrame("0x22", raw)}
      BY <1>5, <2>1 DEF SetFunctions, set_functions
    <3>4. "0x20" \in Parts /\ "0x22" \in Parts
      BY DEF Parts
    <3>5. owed' \in Seq(FrameOf) /\ CompleteQueue(owed', unit)
      BY <3>2, <3>3, <3>4, QueueSteps DEF TypeOK
    <3>6. /\ part2' \subseteq FrameOf
          /\ \A frame \in part2' : frame.op = "set" /\ CompleteWrite(frame, unit)
      BY <3>2, <3>3, <3>4
    <3> QED BY <1>5, <3>5, <3>6
            DEF SetFunctions, TypeOK, copy, scheduler, config, CopyIsComplete
  <2>2. CASE ~is_valid
    BY <1>5, <2>2
       DEF SetFunctions, set_functions, TypeOK, copy, scheduler, config, CopyIsComplete
  <2> QED BY <2>1, <2>2
<1>6. CASE StartCycle
  <2> DEFINE dueNow == IF is_get_functions THEN Parts ELSE due
  <2>1. send_next_after(0, owed, disabled', dueNow) /\ dueNow \in SUBSET Parts
    BY <1>6 DEF StartCycle, TypeOK
  <2>2. disabled' \subseteq Parts /\ unread' \subseteq Parts
    BY <1>6 DEF StartCycle, TypeOK
  <2> HIDE DEF dueNow
  <2>3. /\ owed' \in Seq(FrameOf) /\ CompleteQueue(owed', unit)
        /\ due' \subseteq Parts /\ cycle_running' \in BOOLEAN
    BY <2>1, SendNextAfter DEF TypeOK
  <2> QED BY <1>6, <2>2, <2>3 DEF StartCycle, TypeOK, copy, config, CopyIsComplete
<1>7. CASE CycleTimeout
  BY <1>7 DEF CycleTimeout, TypeOK, copy, flags, config, CopyIsComplete
<1>8. ASSUME NEW p \in Parts, IntervalElapses(p) PROVE FunctionsInv'
  BY <1>8 DEF IntervalElapses, TypeOK, copy, flags, config, CopyIsComplete
<1>9. CASE Part2Timer
  <2>1. owed' \in Seq(FrameOf) /\ CompleteQueue(owed', unit) /\ part2' = {}
    BY <1>9, SendPart2Keeps DEF Part2Timer, TypeOK
  <2> QED BY <1>9, <2>1
          DEF Part2Timer, TypeOK, copy, scheduler, flags, config, CopyIsComplete
<1>10. CASE Answer
  <2> DEFINE request == Head(owed).part
  <2>1. /\ IF request = "core"
             THEN UNCHANGED <<copy, disabled, asked, unread>>
             ELSE on_response(request)
        /\ send_next_after(position(request), Tail(owed), disabled', due)
        /\ UNCHANGED <<flags, config, part2, unit, lost, losses, calls>>
        /\ owed # << >>
    BY <1>10 DEF Answer
  <2>2. Head(owed) \in FrameOf
    BY <2>1, HeadTailProperties DEF TypeOK
  <2>3. request \in Parts \union {"core"}
    BY <2>2 DEF FrameOf
  <2> HIDE DEF request
  <2>4. position(request) \in Nat
    <3>1. \E i \in 1 .. 3 : Requests[i] = request
      BY <2>3 DEF Requests, Parts
    <3> QED BY <3>1 DEF position
  <2>5. /\ Tail(owed) \in Seq(FrameOf)
        /\ CompleteQueue(Tail(owed), unit)
    BY <2>1, QueueSteps DEF TypeOK
  <2>6. /\ owed' \in Seq(FrameOf) /\ CompleteQueue(owed', unit)
        /\ due' \subseteq Parts /\ cycle_running' \in BOOLEAN
    BY <2>1, <2>4, <2>5, SendNextAfter DEF TypeOK
  <2>7. /\ disabled' \subseteq Parts /\ enabled' \in BOOLEAN
        /\ raw' \in [Codes -> Bytes] /\ valid' \subseteq Parts
        /\ option' \in [Codes -> Bytes] /\ asked' \in [Codes -> Bytes]
        /\ unread' \subseteq Parts
        /\ CopyIsComplete'
    <3>1. CASE request = "core"
      BY <2>1, <3>1 DEF TypeOK, copy, CopyIsComplete
    <3>2. CASE request # "core"
      BY <2>1, <2>3, <3>2, OnResponseKeeps
    <3> QED BY <3>1, <3>2
  <2> QED BY <2>1, <2>6, <2>7 DEF TypeOK, flags, config
<1>11. CASE Acknowledge
  <2>1. /\ unit' = Written(Head(owed))
        /\ SendPart2(Tail(owed))
        /\ UNCHANGED <<copy, scheduler, flags, config, asked, unread, lost, losses, calls>>
        /\ owed # << >>
    BY <1>11 DEF Acknowledge
  <2>2. Head(owed) \in FrameOf
    BY <2>1, HeadTailProperties DEF TypeOK
  <2>3. unit' \in [Codes -> Bytes] /\ SameCodes(unit, unit')
    BY <2>1, <2>2, WrittenKeepsCodes DEF TypeOK
  <2>4. /\ Tail(owed) \in Seq(FrameOf)
        /\ CompleteQueue(Tail(owed), unit)
    BY <2>1, QueueSteps DEF TypeOK
  <2>5. /\ owed' \in Seq(FrameOf) /\ CompleteQueue(owed', unit) /\ part2' = {}
    BY <2>1, <2>4, SendPart2Keeps DEF TypeOK
  <2>6. CompleteQueue(owed', unit')
    BY <2>3, <2>5, SameCodesKeep DEF TypeOK
  <2>7. CopyIsComplete'
    BY <2>1, <2>3, CopyFollowsTheUnit DEF copy
  <2> QED BY <2>1, <2>3, <2>5, <2>6, <2>7
          DEF TypeOK, copy, scheduler, flags, config
<1>12. CASE Lose
  <2>1. /\ owed # << >>
        /\ losses < MaxLosses /\ losses' = losses + 1
        /\ owed' = Tail(owed)
        /\ unit' = unit \/ unit' = Written(Head(owed))
        /\ UNCHANGED <<copy, scheduler, flags, config, part2, asked, unread, calls>>
    BY <1>12 DEF Lose
  <2>2. lost' \in BOOLEAN
    BY <1>12, Zenon DEF Lose
  <2>3. Head(owed) \in FrameOf
    BY <2>1, HeadTailProperties DEF TypeOK
  <2>4. unit' \in [Codes -> Bytes] /\ SameCodes(unit, unit')
    BY <2>1, <2>3, WrittenKeepsCodes DEF TypeOK, SameCodes
  <2>5. owed' \in Seq(FrameOf) /\ CompleteQueue(owed', unit)
    BY <2>1, QueueSteps DEF TypeOK
  <2>6. CompleteQueue(owed', unit') /\ \A frame \in part2' : CompleteWrite(frame, unit')
    BY <2>1, <2>4, <2>5, SameCodesKeep DEF TypeOK
  <2>7. CopyIsComplete'
    BY <2>1, <2>4, CopyFollowsTheUnit DEF copy
  <2> QED BY <2>1, <2>2, <2>4, <2>5, <2>6, <2>7, CountersGrow
          DEF TypeOK, copy, scheduler, flags, config
<1>13. CASE UNCHANGED vars
  BY <1>13 DEF vars, TypeOK, copy, scheduler, flags, config, CopyIsComplete
<1> QED
  BY <1>1, <1>2, <1>3, <1>4, <1>5, <1>6, <1>7, <1>8, <1>9, <1>10, <1>11, <1>12, <1>13 DEF Next

-----------------------------------------------------------------------------
(***************************************************************************)
(* The theorems.                                                           *)
(***************************************************************************)
\* The invariant says of the frames what WritesAreComplete says.
LEMMA InvIsComplete == FunctionsInv => WritesAreComplete
<1> SUFFICES ASSUME FunctionsInv, NEW frame \in SetFrames, NEW c \in Carries[frame.part],
                    frame.data[c] = NoByte
             PROVE  unit[c] = NoByte
  BY DEF WritesAreComplete
<1>1. frame.op = "set" /\ CompleteWrite(frame, unit)
  BY DEF FunctionsInv, SetFrames, CompleteQueue
<1> QED BY <1>1 DEF CompleteWrite, Complete

\* The state of the installer functions keeps its type, for all codes, units and bounds.
THEOREM FunctionsTypeCorrect == Spec => []TypeOK
<1>1. FunctionsInv => TypeOK
  BY DEF FunctionsInv
<1> QED BY <1>1, FunctionsInvInit, FunctionsInvNext, PTL DEF Spec

\* No write of the installer functions (set_functions, send_pending_functions_packet2)
\* clears a function that the unit has, whatever was lost or asked, on any unit.
THEOREM WritesStayComplete == Spec => []WritesAreComplete
<1> QED BY InvIsComplete, FunctionsInvInit, FunctionsInvNext, PTL DEF Spec

-----------------------------------------------------------------------------
(***************************************************************************)
(* A running cycle waits for an answer.  NoCycleWaitsForNothing is         *)
(* inductive as it stands: the scheduler that finds no further request     *)
(* ends the cycle in the same step, and only Lose takes a request away     *)
(* without calling it.                                                     *)
(***************************************************************************)
AwaitsData(queue) == \E i \in 1 .. Len(queue) : queue[i].op = "get"

LEMMA AwaitingSteps ==
    ASSUME NEW queue \in Seq(FrameOf)
    PROVE  /\ queue # << >> /\ Head(queue).op # "get" /\ AwaitsData(queue)
                => AwaitsData(Tail(queue))
           /\ \A frame \in FrameOf :
                AwaitsData(queue) \/ frame.op = "get" => AwaitsData(Append(queue, frame))
<1>0. Len(queue) \in Nat
  BY LenProperties
<1>1. ASSUME queue # << >>, Head(queue).op # "get", AwaitsData(queue)
      PROVE  AwaitsData(Tail(queue))
  <2>1. /\ Head(queue) = queue[1]
        /\ Len(Tail(queue)) = Len(queue) - 1
        /\ \A i \in 1 .. Len(Tail(queue)) : Tail(queue)[i] = queue[i + 1]
    BY <1>1, HeadTailProperties
  <2>2. PICK i \in 1 .. Len(queue) : queue[i].op = "get"
    BY <1>1 DEF AwaitsData
  <2>3. i # 1
    BY <1>1, <2>1, <2>2
  <2>4. i - 1 \in 1 .. Len(Tail(queue)) /\ (i - 1) + 1 = i
    BY <1>0, <2>1, <2>3
  <2>5. Tail(queue)[i - 1].op = "get"
    BY <2>1, <2>2, <2>4
  <2> QED BY <2>4, <2>5 DEF AwaitsData
<1>2. ASSUME NEW frame \in FrameOf, AwaitsData(queue) \/ frame.op = "get"
      PROVE  AwaitsData(Append(queue, frame))
  <2>1. /\ Len(Append(queue, frame)) = Len(queue) + 1
        /\ \A i \in 1 .. Len(queue) : Append(queue, frame)[i] = queue[i]
        /\ Append(queue, frame)[Len(queue) + 1] = frame
    BY AppendProperties
  <2>2. /\ 1 .. Len(queue) \subseteq 1 .. Len(queue) + 1
        /\ Len(queue) + 1 \in 1 .. Len(queue) + 1
    BY <1>0
  <2>3. CASE AwaitsData(queue)
    BY <2>1, <2>2, <2>3 DEF AwaitsData
  <2>4. CASE frame.op = "get"
    BY <2>1, <2>2, <2>4 DEF AwaitsData
  <2> QED BY <1>2, <2>3, <2>4
<1> QED BY <1>1, <1>2

\* The request scheduler sends a request or ends the cycle.
LEMMA SendNextAwaits ==
    ASSUME NEW start \in Nat, NEW queue \in Seq(FrameOf), NEW dis, NEW dueNow,
           send_next_after(start, queue, dis, dueNow)
    PROVE  ~cycle_running' \/ AwaitsData(owed')
<1>1. ASSUME NEW i \in start + 1 .. 3, owed' = Append(queue, Get(Requests[i]))
      PROVE  AwaitsData(owed')
  <2>1. i \in 1 .. 3
    OBVIOUS
  <2>2. Requests[i] \in Parts \union {"core"}
    BY <2>1 DEF Requests, Parts
  <2>3. Get(Requests[i]) \in FrameOf /\ Get(Requests[i]).op = "get"
    BY <2>2, GetIsAFrame DEF Get
  <2> QED BY <1>1, <2>3, AwaitingSteps
<1> QED BY <1>1 DEF send_next_after

LEMMA AwaitsStep ==
    ASSUME FunctionsInv, NoCycleWaitsForNothing, [Next]_vars
    PROVE  NoCycleWaitsForNothing'
<1> USE DEF FunctionsInv, TypeOK
<1>0. cycle_running /\ ~lost => AwaitsData(owed)
  BY DEF NoCycleWaitsForNothing, AwaitsData
<1>s. SUFFICES ASSUME cycle_running', ~lost' PROVE AwaitsData(owed')
  BY DEF NoCycleWaitsForNothing, AwaitsData
<1>1. CASE UNCHANGED <<cycle_running, lost, owed>>
  BY <1>s, <1>0, <1>1
<1>2. CASE SetFunctions
  <2>1. ~cycle_running /\ cycle_running' = cycle_running
    BY <1>2 DEF SetFunctions, scheduler
  <2> QED BY <1>s, <2>1
<1>3. CASE StartCycle
  <2>1. \E dueNow : send_next_after(0, owed, disabled', dueNow)
    BY <1>3 DEF StartCycle
  <2> QED BY <1>s, <2>1, SendNextAwaits
<1>4. CASE CycleTimeout
  BY <1>s, <1>4 DEF CycleTimeout
<1>5. CASE Part2Timer
  <2>1. cycle_running /\ ~lost /\ SendPart2(owed)
    BY <1>s, <1>5 DEF Part2Timer, scheduler
  <2> QED BY <1>0, <2>1, AwaitingSteps DEF SendPart2
<1>6. CASE Answer
  <2>1. owed # << >> /\ send_next_after(position(Head(owed).part), Tail(owed), disabled', due)
    BY <1>6 DEF Answer
  <2>2. Head(owed) \in FrameOf /\ Tail(owed) \in Seq(FrameOf)
    BY <2>1, HeadTailProperties
  <2>3. position(Head(owed).part) \in Nat
    <3>1. Head(owed).part \in Parts \union {"core"}
      BY <2>2 DEF FrameOf
    <3>2. \E i \in 1 .. 3 : Requests[i] = Head(owed).part
      BY <3>1 DEF Requests, Parts
    <3> QED BY <3>2 DEF position
  <2> QED BY <1>s, <2>1, <2>2, <2>3, SendNextAwaits
<1>7. CASE Acknowledge
  <2>1. /\ cycle_running /\ ~lost
        /\ owed # << >> /\ Head(owed).op = "set"
        /\ SendPart2(Tail(owed))
    BY <1>s, <1>7 DEF Acknowledge, scheduler
  <2>2. Tail(owed) \in Seq(FrameOf) /\ AwaitsData(Tail(owed))
    BY <1>0, <2>1, HeadTailProperties, AwaitingSteps
  <2> QED BY <2>1, <2>2, AwaitingSteps DEF SendPart2
<1>8. CASE Lose
  <2>1. /\ cycle_running /\ ~lost
        /\ owed # << >> /\ Head(owed).op # "get"
        /\ owed' = Tail(owed)
    BY <1>s, <1>8 DEF Lose, scheduler
  <2> QED BY <1>0, <2>1, AwaitingSteps
<1> QED
  BY <1>1, <1>2, <1>3, <1>4, <1>5, <1>6, <1>7, <1>8
  DEF Next, ControlSelect, PressGet, PressSet, ChangeAtTheUnit, IntervalElapses, scheduler, vars

\* No cycle is left to its timeout by the scheduler: unless a request or its answer was
\* lost, the unit owes an answer to every cycle that is running, whatever is disabled,
\* not due, asked again or written meanwhile.
THEOREM CyclesWaitForAnswers == Spec => []NoCycleWaitsForNothing
<1>1. Init => NoCycleWaitsForNothing
  BY DEF Init, NoCycleWaitsForNothing
<1>2. FunctionsInv /\ NoCycleWaitsForNothing /\ [Next]_vars => NoCycleWaitsForNothing'
  BY AwaitsStep
<1> QED BY <1>1, <1>2, FunctionsInvInit, FunctionsInvNext, PTL DEF Spec

-----------------------------------------------------------------------------
(***************************************************************************)
(* When a part is asked for.  Of everything that puts frames on the wire,  *)
(* only the answer to an earlier request adds a request for a part: then   *)
(* it is the last frame, and the first eligible one after the answered.    *)
(***************************************************************************)
Asked(queue, request) == {i \in 1 .. Len(queue) : queue[i] = Get(request)}

LEMMA AskedSteps ==
    ASSUME NEW queue \in Seq(FrameOf), NEW p
    PROVE  /\ IsFiniteSet(Asked(queue, p)) /\ Cardinality(Asked(queue, p)) \in Nat
           /\ queue # << >> =>
                Cardinality(Asked(Tail(queue), p)) <= Cardinality(Asked(queue, p))
           /\ \A frame \in FrameOf :
                frame # Get(p) => Asked(Append(queue, frame), p) = Asked(queue, p)
<1>0. Len(queue) \in Nat
  BY LenProperties
<1>1. IsFiniteSet(Asked(queue, p)) /\ Cardinality(Asked(queue, p)) \in Nat
  <2>1. IsFiniteSet(1 .. Len(queue))
    BY <1>0, FS_Interval
  <2> QED BY <2>1, FS_Subset, FS_CardinalityType DEF Asked
<1>2. ASSUME queue # << >>
      PROVE  Cardinality(Asked(Tail(queue), p)) <= Cardinality(Asked(queue, p))
  <2>1. /\ Len(Tail(queue)) = Len(queue) - 1
        /\ \A i \in 1 .. Len(Tail(queue)) : Tail(queue)[i] = queue[i + 1]
    BY <1>2, HeadTailProperties
  <2> DEFINE shift == [i \in Asked(Tail(queue), p) |-> i + 1]
  <2>2. \A i \in Asked(Tail(queue), p) : i \in Nat /\ i + 1 \in Asked(queue, p)
    BY <1>0, <2>1 DEF Asked
  <2>3. shift \in [Asked(Tail(queue), p) -> Asked(queue, p)]
    BY <2>2
  <2>4. \A i, j \in Asked(Tail(queue), p) : shift[i] = shift[j] => i = j
    BY <2>2
  <2>5. shift \in Injection(Asked(Tail(queue), p), Asked(queue, p))
    BY <2>3, <2>4 DEF Injection, IsInjective
  <2> HIDE DEF shift
  <2> QED BY <1>1, <2>5, FS_Injection
<1>3. ASSUME NEW frame \in FrameOf, frame # Get(p)
      PROVE  Asked(Append(queue, frame), p) = Asked(queue, p)
  <2>1. /\ Len(Append(queue, frame)) = Len(queue) + 1
        /\ \A i \in 1 .. Len(queue) : Append(queue, frame)[i] = queue[i]
        /\ Append(queue, frame)[Len(queue) + 1] = frame
    BY AppendProperties
  <2> QED BY <1>0, <1>3, <2>1 DEF Asked
<1> QED BY <1>1, <1>2, <1>3

\* A write is not a request.
LEMMA WritesAskNothing ==
    ASSUME NEW frame \in FrameOf, frame.op = "set", NEW p
    PROVE  frame # Get(p)
BY DEF Get

LEMMA RequestNames ==
    /\ Requests[1] = "core" /\ Requests[2] = "0x20" /\ Requests[3] = "0x22"
    /\ position("core") = 1 /\ position("0x20") = 2 /\ position("0x22") = 3
    /\ \A p, q \in Parts \union {"core"} : Get(p) = Get(q) => p = q
<1>1. Requests[1] = "core" /\ Requests[2] = "0x20" /\ Requests[3] = "0x22"
  BY DEF Requests
<1>2. position("core") = 1 /\ position("0x20") = 2 /\ position("0x22") = 3
  BY <1>1 DEF position
<1>3. \A p, q \in Parts \union {"core"} : Get(p) = Get(q) => p = q
  BY DEF Get
<1> QED BY <1>1, <1>2, <1>3

LEMMA SentByAnswer ==
    ASSUME FunctionsInv, [Next]_vars, NEW p \in Parts, Sent(p)
    PROVE  /\ Answer
           /\ owed' = Append(Tail(owed), Get(p))
           /\ Eligible(p, disabled', due)
           /\ p = "0x22" /\ Eligible("0x20", disabled', due) => Head(owed).part = "0x20"
<1> USE DEF FunctionsInv, TypeOK
<1>0. Cardinality(Asked(owed', p)) > Cardinality(Asked(owed, p))
  BY DEF Sent, Asked
<1>n. ASSUME Cardinality(Asked(owed', p)) <= Cardinality(Asked(owed, p)) PROVE FALSE
  <2>1. FunctionsInv'
    BY FunctionsInvNext
  <2>2. Cardinality(Asked(owed', p)) \in Nat /\ Cardinality(Asked(owed, p)) \in Nat
    BY <2>1, AskedSteps
  <2> QED BY <1>0, <1>n, <2>2
<1>k. ASSUME Asked(owed', p) = Asked(owed, p) PROVE FALSE
  BY <1>0, <1>k, AskedSteps
<1>1. owed' # owed
  BY <1>k
<1>2. ~SetFunctions
  <2> SUFFICES ASSUME SetFunctions, is_valid PROVE FALSE
    BY <1>1 DEF SetFunctions, set_functions
  <2>1. owed' = Append(owed, SetFrame("0x20", raw))
    BY DEF SetFunctions, set_functions
  <2>2. SetFrame("0x20", raw) \in FrameOf /\ SetFrame("0x20", raw).op = "set"
    <3>1. "0x20" \in Parts /\ \A c \in Carries["0x20"] : raw[c] = NoByte => unit[c] = NoByte
      BY DEF is_valid, CopyIsComplete, Parts
    <3> QED BY <3>1, SetFrameIsComplete
  <2> QED BY <1>k, <2>1, <2>2, AskedSteps, WritesAskNothing
<1>3. ~StartCycle
  <2> SUFFICES ASSUME StartCycle PROVE FALSE
    OBVIOUS
  <2>1. PICK dueNow : send_next_after(0, owed, disabled', dueNow)
    BY DEF StartCycle
  <2>2. Eligible(Requests[1], disabled', dueNow)
    BY RequestNames DEF Eligible, Parts
  <2>3. owed' = Append(owed, Get("core"))
    BY <2>1, <2>2, RequestNames DEF send_next_after
  <2>4. Get("core") \in FrameOf /\ Get("core") # Get(p)
    BY GetIsAFrame, RequestNames DEF Parts
  <2> QED BY <1>k, <2>3, <2>4, AskedSteps
<1>4. ASSUME NEW queue \in Seq(FrameOf), SendPart2(queue),
             Cardinality(Asked(queue, p)) <= Cardinality(Asked(owed, p))
      PROVE  FALSE
  <2>1. CASE part2 = {}
    BY <1>n, <1>4, <2>1 DEF SendPart2
  <2>2. CASE part2 # {}
    <3> DEFINE packet == CHOOSE q \in part2 : TRUE
    <3>1. packet \in part2 /\ owed' = Append(queue, packet)
      BY <1>4, <2>2 DEF SendPart2
    <3> HIDE DEF packet
    <3>2. packet \in FrameOf /\ packet.op = "set"
      BY <3>1
    <3>3. Asked(owed', p) = Asked(queue, p)
      BY <3>1, <3>2, AskedSteps, WritesAskNothing
    <3> QED BY <1>n, <1>4, <3>3
  <2> QED BY <2>1, <2>2
<1>5. ~Part2Timer
  <2> SUFFICES ASSUME Part2Timer PROVE FALSE
    OBVIOUS
  <2>1. SendPart2(owed) /\ Cardinality(Asked(owed, p)) \in Nat
    BY AskedSteps DEF Part2Timer
  <2> QED BY <1>4, <2>1
<1>6. ~Acknowledge
  <2> SUFFICES ASSUME Acknowledge PROVE FALSE
    OBVIOUS
  <2>1. owed # << >> /\ SendPart2(Tail(owed)) /\ Tail(owed) \in Seq(FrameOf)
    BY HeadTailProperties DEF Acknowledge
  <2> QED BY <1>4, <2>1, AskedSteps
<1>7. ~Lose
  <2> SUFFICES ASSUME Lose PROVE FALSE
    OBVIOUS
  <2>1. owed # << >> /\ owed' = Tail(owed)
    BY DEF Lose
  <2> QED BY <1>n, <2>1, AskedSteps
<1>8. Answer
  BY <1>1, <1>2, <1>3, <1>5, <1>6, <1>7
  DEF Next, ControlSelect, PressGet, PressSet, ChangeAtTheUnit, IntervalElapses, CycleTimeout,
      vars
<1>9. /\ owed # << >> /\ Tail(owed) \in Seq(FrameOf) /\ Head(owed) \in FrameOf
      /\ send_next_after(position(Head(owed).part), Tail(owed), disabled', due)
  BY <1>8, HeadTailProperties DEF Answer
<1>10. position(Head(owed).part) \in 1 .. 3
  <2>1. Head(owed).part \in Parts \union {"core"}
    BY <1>9 DEF FrameOf
  <2> QED BY <2>1, RequestNames DEF Parts
<1>11. owed' # Tail(owed)
  BY <1>n, <1>9, AskedSteps
<1>12. PICK i \in position(Head(owed).part) + 1 .. 3 :
         /\ Eligible(Requests[i], disabled', due)
         /\ \A j \in position(Head(owed).part) + 1 .. 3 :
              Eligible(Requests[j], disabled', due) => i <= j
         /\ owed' = Append(Tail(owed), Get(Requests[i]))
  BY <1>9, <1>11 DEF send_next_after
<1>13. i \in {2, 3} /\ Requests[i] \in Parts
  BY <1>10, <1>12, RequestNames DEF Parts
<1>14. Requests[i] = p
  <2> SUFFICES ASSUME Requests[i] # p PROVE FALSE
    OBVIOUS
  <2>1. Get(Requests[i]) \in FrameOf /\ Get(Requests[i]) # Get(p)
    BY <1>13, GetIsAFrame, RequestNames
  <2>2. Asked(owed', p) = Asked(Tail(owed), p)
    BY <1>9, <1>12, <2>1, AskedSteps
  <2> QED BY <1>n, <1>9, <2>2, AskedSteps
<1>15. ASSUME p = "0x22", Eligible("0x20", disabled', due)
       PROVE  Head(owed).part = "0x20"
  <2>1. i = 3
    BY <1>13, <1>14, <1>15, RequestNames
  <2>2. ~(2 \in position(Head(owed).part) + 1 .. 3)
    BY <1>12, <1>15, <2>1, RequestNames
  <2>3. Head(owed).part \in Parts \union {"core"}
    BY <1>9 DEF FrameOf
  <2>4. Head(owed).part # "core" /\ Head(owed).part # "0x22"
    BY <1>10, <1>12, <2>1, <2>2, RequestNames
  <2> QED BY <2>3, <2>4 DEF Parts
<1> QED BY <1>8, <1>12, <1>14, <1>15

-----------------------------------------------------------------------------
(***************************************************************************)
(* In which order, and how often, the parts are read.  Part1Inv: as long   *)
(* as nothing was lost, part 1 of a read is enabled until it was answered, *)
(* and what keeps it from being sent again is that it is on the wire.      *)
(* DemandInv: what nobody wants read is disabled, and nobody wants more    *)
(* from a unit without functions, of which any answer tells the driver.    *)
(***************************************************************************)
OnTheWire(queue, p) == \E i \in 1 .. Len(queue) : queue[i] = Get(p)

Part1Inv ==
    "0x20" \in unread /\ losses = 0 /\ ~short =>
      /\ "0x20" \notin disabled
      /\ selects = {} \/ "0x20" \in due \/ OnTheWire(owed, "0x20")

DemandInv ==
    /\ selects = {} => Parts \ unread \subseteq disabled
    /\ ~enabled => \E p \in Parts : AllZeros(p)
    /\ unread # {} => \A p \in Parts : AllZeros(p) => p \in unread
    /\ ~enabled /\ unread = {} => disabled = Parts

OrderInv == Part1Inv /\ DemandInv

\* A frame leaves the wire only when it is answered, or lost.
LEMMA WireSteps ==
    ASSUME NEW queue \in Seq(FrameOf), NEW p
    PROVE  /\ queue # << >> /\ OnTheWire(queue, p) /\ Head(queue) # Get(p)
                => OnTheWire(Tail(queue), p)
           /\ \A frame \in FrameOf :
                OnTheWire(queue, p) \/ frame = Get(p) => OnTheWire(Append(queue, frame), p)
<1>0. Len(queue) \in Nat
  BY LenProperties
<1>1. ASSUME queue # << >>, OnTheWire(queue, p), Head(queue) # Get(p)
      PROVE  OnTheWire(Tail(queue), p)
  <2>1. /\ Head(queue) = queue[1]
        /\ Len(Tail(queue)) = Len(queue) - 1
        /\ \A i \in 1 .. Len(Tail(queue)) : Tail(queue)[i] = queue[i + 1]
    BY <1>1, HeadTailProperties
  <2>2. PICK i \in 1 .. Len(queue) : queue[i] = Get(p)
    BY <1>1 DEF OnTheWire
  <2>3. i # 1
    BY <1>1, <2>1, <2>2
  <2>4. i - 1 \in 1 .. Len(Tail(queue)) /\ (i - 1) + 1 = i
    BY <1>0, <2>1, <2>3
  <2>5. Tail(queue)[i - 1] = Get(p)
    BY <2>1, <2>2, <2>4
  <2> QED BY <2>4, <2>5 DEF OnTheWire
<1>2. ASSUME NEW frame \in FrameOf, OnTheWire(queue, p) \/ frame = Get(p)
      PROVE  OnTheWire(Append(queue, frame), p)
  <2>1. /\ Len(Append(queue, frame)) = Len(queue) + 1
        /\ \A i \in 1 .. Len(queue) : Append(queue, frame)[i] = queue[i]
        /\ Append(queue, frame)[Len(queue) + 1] = frame
    BY AppendProperties
  <2>2. /\ 1 .. Len(queue) \subseteq 1 .. Len(queue) + 1
        /\ Len(queue) + 1 \in 1 .. Len(queue) + 1
    BY <1>0
  <2>3. CASE OnTheWire(queue, p)
    BY <2>1, <2>2, <2>3 DEF OnTheWire
  <2>4. CASE frame = Get(p)
    BY <2>1, <2>2, <2>4 DEF OnTheWire
  <2> QED BY <1>2, <2>3, <2>4
<1> QED BY <1>1, <1>2

\* The unit keeps the codes that it has.
LEMMA UnitKeepsCodes ==
    ASSUME FunctionsInv, [Next]_vars
    PROVE  SameCodes(unit, unit')
<1> USE DEF FunctionsInv, TypeOK
<1>1. CASE UNCHANGED unit
  BY <1>1 DEF SameCodes
<1>2. CASE ChangeAtTheUnit
  <2>1. PICK c \in Codes, value \in Options :
          unit[c] \notin {NoByte, value} /\ unit' = [unit EXCEPT ![c] = value]
    BY <1>2 DEF ChangeAtTheUnit
  <2>2. value \in 1 .. 3
    BY InstallerFunctionsAssumption
  <2> QED BY <2>1, <2>2 DEF SameCodes, NoByte
<1>3. CASE Acknowledge \/ Lose
  <2>1. owed # << >> /\ unit' \in {unit, Written(Head(owed))}
    BY <1>3 DEF Acknowledge, Lose
  <2>2. Head(owed) \in FrameOf
    BY <2>1, HeadTailProperties
  <2>3. SameCodes(unit, Written(Head(owed))) /\ SameCodes(unit, unit)
    BY <2>2, WrittenKeepsCodes DEF SameCodes
  <2> QED BY <2>1, <2>3
<1> QED
  BY <1>1, <1>2, <1>3
  DEF Next, ControlSelect, PressGet, PressSet, SetFunctions, StartCycle, CycleTimeout,
      IntervalElapses, Part2Timer, Answer, vars

\* Whether the unit has a part never changes.
LEMMA ZerosStay ==
    ASSUME FunctionsInv, [Next]_vars, NEW p \in Parts
    PROVE  AllZeros(p)' <=> AllZeros(p)
BY UnitKeepsCodes, CarriesCodes DEF AllZeros, SameCodes

\* What the answer to a part leaves of the orders.
LEMMA DemandAfterAnswer ==
    ASSUME FunctionsInv, DemandInv, NEW p \in Parts, on_response(p), UNCHANGED <<selects, unit>>
    PROVE  DemandInv'
<1> USE DEF FunctionsInv, TypeOK
<1>0. UNCHANGED selects /\ \A q \in Parts : AllZeros(q)' <=> AllZeros(q)
  BY DEF AllZeros
<1>1. CASE AllZeros(p)
  <2>1. disabled' = Parts /\ unread' = {}
    BY <1>1 DEF on_response, check_and_disable
  <2> QED BY <1>0, <1>1, <2>1 DEF DemandInv
<1>2. CASE ~AllZeros(p)
  <2>1. unread' = unread \ {p}
    BY <1>2 DEF on_response
  <2>2. disabled' = IF selects = {} THEN disabled \union {p} ELSE disabled
    BY <1>2 DEF on_response, check_and_disable
  <2>3. ~enabled' => ~enabled
    BY <1>2 DEF on_response
  <2>4. selects' = {} => Parts \ unread' \subseteq disabled'
    BY <1>0, <2>1, <2>2 DEF DemandInv
  <2>5. ~enabled' => \E q \in Parts : AllZeros(q)'
    BY <1>0, <2>3 DEF DemandInv
  <2>6. unread' # {} => \A q \in Parts : AllZeros(q)' => q \in unread'
    <3> SUFFICES ASSUME unread' # {}, NEW q \in Parts, AllZeros(q) PROVE q \in unread'
      BY <1>0
    <3>1. unread # {} /\ q # p
      BY <1>2, <2>1
    <3> QED BY <2>1, <3>1 DEF DemandInv
  <2>7. ~enabled' /\ unread' = {} => disabled' = Parts
    <3> SUFFICES ASSUME ~enabled', unread' = {} PROVE disabled' = Parts
      OBVIOUS
    <3>1. unread = {}
      <4> SUFFICES ASSUME unread # {} PROVE FALSE
        OBVIOUS
      <4>1. PICK q \in Parts : AllZeros(q)
        BY <2>3 DEF DemandInv
      <4>2. q \in unread /\ q # p
        BY <1>2, <4>1 DEF DemandInv
      <4> QED BY <2>1, <4>2
    <3>2. disabled = Parts
      BY <2>3, <3>1 DEF DemandInv
    <3> QED BY <2>2, <3>2
  <2> QED BY <2>4, <2>5, <2>6, <2>7 DEF DemandInv
<1> QED BY <1>1, <1>2

\* Every step keeps the orders.
LEMMA DemandStep ==
    ASSUME FunctionsInv, DemandInv, [Next]_vars
    PROVE  DemandInv'
<1> USE DEF FunctionsInv, TypeOK
<1>0. UNCHANGED selects /\ \A p \in Parts : AllZeros(p)' <=> AllZeros(p)
  <2>1. UNCHANGED selects
    BY DEF Next, ControlSelect, PressGet, PressSet, ChangeAtTheUnit, SetFunctions, StartCycle,
           CycleTimeout, IntervalElapses, Part2Timer, Answer, Acknowledge, Lose, vars, config
  <2> QED BY <2>1, ZerosStay
<1>1. CASE UNCHANGED <<disabled, unread, enabled>>
  BY <1>0, <1>1 DEF DemandInv
<1>2. CASE StartCycle
  <2>1. /\ disabled' = IF is_get_functions THEN {} ELSE disabled
        /\ unread' = IF is_get_functions THEN Parts ELSE unread
        /\ enabled' = enabled
    BY <1>2 DEF StartCycle, copy
  <2>2. CASE is_get_functions
    <3>1. disabled' = {} /\ unread' = Parts /\ Parts # {}
      BY <2>1, <2>2 DEF Parts
    <3> QED BY <1>0, <2>1, <3>1 DEF DemandInv
  <2>3. CASE ~is_get_functions
    BY <1>1, <2>1, <2>3
  <2> QED BY <2>2, <2>3
<1>3. CASE Answer
  <2>1. /\ owed # << >>
        /\ IF Head(owed).part = "core"
             THEN UNCHANGED <<copy, disabled, asked, unread>>
             ELSE on_response(Head(owed).part)
        /\ UNCHANGED <<config, unit>>
    BY <1>3 DEF Answer
  <2>2. Head(owed).part \in Parts \union {"core"}
    <3>1. Head(owed) \in FrameOf
      BY <2>1, HeadTailProperties
    <3> QED BY <3>1 DEF FrameOf
  <2>3. CASE Head(owed).part = "core"
    BY <1>1, <2>1, <2>3 DEF copy
  <2>4. CASE Head(owed).part # "core"
    BY <2>1, <2>2, <2>4, DemandAfterAnswer DEF config
  <2> QED BY <2>3, <2>4
<1> QED
  BY <1>1, <1>2, <1>3
  DEF Next, ControlSelect, PressGet, PressSet, ChangeAtTheUnit, SetFunctions, CycleTimeout,
      IntervalElapses, Part2Timer, Acknowledge, Lose, copy, scheduler, vars

\* What is due and on the wire when the scheduler has run.
LEMMA SchedulerKeepsWire ==
    ASSUME NEW start \in Nat, NEW queue \in Seq(FrameOf), NEW dis, NEW dueNow,
           send_next_after(start, queue, dis, dueNow)
    PROVE  /\ due' \subseteq dueNow
           /\ OnTheWire(queue, "0x20") => OnTheWire(owed', "0x20")
           /\ "0x20" \in dueNow => "0x20" \in due' \/ OnTheWire(owed', "0x20")
<1>1. CASE owed' = queue /\ due' = dueNow
  BY <1>1
<1>2. CASE \E i \in start + 1 .. 3 :
             owed' = Append(queue, Get(Requests[i])) /\ due' = dueNow \ {Requests[i]}
  <2>1. PICK i \in start + 1 .. 3 :
             owed' = Append(queue, Get(Requests[i])) /\ due' = dueNow \ {Requests[i]}
    BY <1>2
  <2>2. i \in 1 .. 3
    OBVIOUS
  <2>3. Get(Requests[i]) \in FrameOf
    <3>1. Requests[i] \in Parts \union {"core"}
      BY <2>2, RequestNames DEF Parts
    <3> QED BY <3>1, GetIsAFrame
  <2>4. OnTheWire(queue, "0x20") \/ Requests[i] = "0x20" => OnTheWire(owed', "0x20")
    BY <2>1, <2>3, WireSteps
  <2> QED BY <2>1, <2>4
<1> QED BY <1>1, <1>2 DEF send_next_after

\* A write that goes out leaves the requests where they are.
LEMMA Part2KeepsWire ==
    ASSUME FunctionsInv, NEW queue \in Seq(FrameOf), SendPart2(queue), OnTheWire(queue, "0x20")
    PROVE  OnTheWire(owed', "0x20")
BY WireSteps DEF SendPart2, FunctionsInv, TypeOK

LEMMA Part1Step ==
    ASSUME FunctionsInv, Part1Inv, [Next]_vars
    PROVE  Part1Inv'
<1> USE DEF FunctionsInv, TypeOK
<1>s. SUFFICES ASSUME "0x20" \in unread', losses' = 0, ~short'
               PROVE  /\ "0x20" \notin disabled'
                      /\ selects' = {} \/ "0x20" \in due' \/ OnTheWire(owed', "0x20")
  BY DEF Part1Inv, OnTheWire
<1>c. UNCHANGED <<selects, short>>
  BY DEF Next, ControlSelect, PressGet, PressSet, ChangeAtTheUnit, SetFunctions, StartCycle,
         CycleTimeout, IntervalElapses, Part2Timer, Answer, Acknowledge, Lose, vars, config
<1>i. ASSUME "0x20" \in unread, losses = 0
      PROVE  /\ "0x20" \notin disabled
             /\ selects' = {} \/ "0x20" \in due \/ OnTheWire(owed, "0x20")
  BY <1>s, <1>c, <1>i DEF Part1Inv
<1>w. ASSUME UNCHANGED <<disabled, unread, losses>>, due \subseteq due',
             OnTheWire(owed, "0x20") => OnTheWire(owed', "0x20")
      PROVE  /\ "0x20" \notin disabled'
             /\ selects' = {} \/ "0x20" \in due' \/ OnTheWire(owed', "0x20")
  BY <1>s, <1>i, <1>w
<1>1. CASE UNCHANGED <<disabled, unread, losses, owed>> /\ due \subseteq due'
  BY <1>1, <1>w DEF OnTheWire
<1>2. CASE SetFunctions
  <2>1. UNCHANGED <<disabled, unread, losses, due>>
    BY <1>2 DEF SetFunctions, scheduler
  <2>2. OnTheWire(owed, "0x20") => OnTheWire(owed', "0x20")
    <3>1. CASE is_valid
      <4>1. owed' = Append(owed, SetFrame("0x20", raw))
        BY <1>2, <3>1 DEF SetFunctions, set_functions
      <4>2. SetFrame("0x20", raw) \in FrameOf
        <5>1. "0x20" \in Parts /\ \A c \in Carries["0x20"] : raw[c] = NoByte => unit[c] = NoByte
          BY <3>1 DEF is_valid, CopyIsComplete, Parts
        <5> QED BY <5>1, SetFrameIsComplete
      <4> QED BY <4>1, <4>2, WireSteps
    <3>2. CASE ~is_valid
      BY <1>2, <3>2 DEF SetFunctions, set_functions
    <3> QED BY <3>1, <3>2
  <2> QED BY <1>w, <2>1, <2>2
<1>3. CASE StartCycle
  <2> DEFINE dueNow == IF is_get_functions THEN Parts ELSE due
  <2>1. /\ disabled' = IF is_get_functions THEN {} ELSE disabled
        /\ unread' = IF is_get_functions THEN Parts ELSE unread
        /\ send_next_after(0, owed, disabled', dueNow)
        /\ UNCHANGED losses
    BY <1>3 DEF StartCycle
  <2>2. /\ OnTheWire(owed, "0x20") => OnTheWire(owed', "0x20")
        /\ "0x20" \in dueNow => "0x20" \in due' \/ OnTheWire(owed', "0x20")
    <3> HIDE DEF dueNow
    <3> QED BY <2>1, SchedulerKeepsWire
  <2>3. CASE is_get_functions
    BY <2>1, <2>2, <2>3 DEF Parts
  <2>4. CASE ~is_get_functions
    BY <1>s, <1>i, <2>1, <2>2, <2>4
  <2> QED BY <2>3, <2>4
<1>4. CASE Part2Timer
  <2>1. UNCHANGED <<disabled, unread, losses, due>> /\ SendPart2(owed)
    BY <1>4 DEF Part2Timer, scheduler
  <2> QED BY <1>w, <2>1, Part2KeepsWire
<1>5. CASE Acknowledge
  <2>1. /\ UNCHANGED <<disabled, unread, losses, due>>
        /\ owed # << >> /\ Head(owed).op = "set"
        /\ SendPart2(Tail(owed))
    BY <1>5 DEF Acknowledge, scheduler
  <2>2. Tail(owed) \in Seq(FrameOf) /\ Head(owed) \in FrameOf
    BY <2>1, HeadTailProperties
  <2>3. OnTheWire(owed, "0x20") => OnTheWire(Tail(owed), "0x20")
    BY <2>1, <2>2, WireSteps, WritesAskNothing
  <2> QED BY <1>w, <2>1, <2>2, <2>3, Part2KeepsWire
<1>6. CASE Lose
  <2>1. losses' = losses + 1 /\ losses \in Nat
    BY <1>6, InstallerFunctionsAssumption DEF Lose
  <2> QED BY <1>s, <2>1
<1>7. CASE Answer
  <2>1. /\ owed # << >>
        /\ IF Head(owed).part = "core"
             THEN UNCHANGED <<copy, disabled, asked, unread>>
             ELSE on_response(Head(owed).part)
        /\ send_next_after(position(Head(owed).part), Tail(owed), disabled', due)
        /\ UNCHANGED losses
    BY <1>7 DEF Answer
  <2>2. Tail(owed) \in Seq(FrameOf) /\ Head(owed) \in FrameOf
    BY <2>1, HeadTailProperties
  <2>3. Head(owed).part \in {"core", "0x20", "0x22"}
    BY <2>2 DEF FrameOf, Parts
  <2>4. position(Head(owed).part) \in Nat
    BY <2>3, RequestNames
  <2>5. /\ OnTheWire(Tail(owed), "0x20") => OnTheWire(owed', "0x20")
        /\ "0x20" \in due => "0x20" \in due' \/ OnTheWire(owed', "0x20")
    BY <2>1, <2>2, <2>4, SchedulerKeepsWire
  <2>6. Head(owed).part # "0x20"
    BY <1>s, <2>1 DEF on_response
  <2>7. OnTheWire(owed, "0x20") => OnTheWire(owed', "0x20")
    <3>1. Head(owed) # Get("0x20")
      BY <2>6 DEF Get
    <3> QED BY <2>1, <2>5, <3>1, WireSteps
  <2>8. "0x20" \in unread /\ ("0x20" \in disabled' => "0x20" \in disabled)
    <3>1. CASE Head(owed).part = "core"
      BY <1>s, <2>1, <3>1
    <3>2. CASE Head(owed).part = "0x22"
      <4>1. ~AllZeros("0x22")
        BY <1>s, <2>1, <3>2 DEF on_response
      <4> QED BY <1>s, <2>1, <3>2, <4>1 DEF on_response, check_and_disable
    <3> QED BY <2>3, <2>6, <3>1, <3>2
  <2> QED BY <1>s, <1>i, <2>1, <2>5, <2>7, <2>8
<1> QED
  BY <1>1, <1>2, <1>3, <1>4, <1>5, <1>6, <1>7
  DEF Next, ControlSelect, PressGet, PressSet, ChangeAtTheUnit, CycleTimeout, IntervalElapses,
      scheduler, vars

LEMMA OrderInvInit == Init => OrderInv
BY DEF Init, OrderInv, Part1Inv, DemandInv, Parts

\* A read of the functions starts with part 1 (0x20), whose answer must be in the copy
\* before that of part 2 (0x22) updates the selects, for any unit and installation.
THEOREM Part1IsReadFirst == Spec => Part1ComesFirst
<1>1. FunctionsInv /\ OrderInv /\ [Next]_vars => FunctionsInv' /\ OrderInv'
  BY FunctionsInvNext, Part1Step, DemandStep DEF OrderInv
<1>2. ASSUME FunctionsInv, OrderInv, [Next]_vars, Sent("0x22"), "0x20" \in unread'
      PROVE  \/ losses > 0 \/ short
             \/ \E i \in 1 .. Len(owed') : owed'[i] = Get("0x20")
  <2>1. /\ Answer
        /\ Eligible("0x20", disabled', due) => Head(owed).part = "0x20"
    BY <1>2, SentByAnswer DEF Parts
  <2>2. /\ owed # << >>
        /\ IF Head(owed).part = "core"
             THEN UNCHANGED <<copy, disabled, asked, unread>>
             ELSE on_response(Head(owed).part)
        /\ send_next_after(position(Head(owed).part), Tail(owed), disabled', due)
        /\ UNCHANGED <<losses, selects, short>>
    BY <2>1 DEF Answer, config
  <2>3. ~Eligible("0x20", disabled', due)
    BY <1>2, <2>1, <2>2 DEF on_response
  <2>4. due' \subseteq due
    BY <2>2 DEF send_next_after
  <2>5. SUFFICES ASSUME losses = 0, ~short
                 PROVE  OnTheWire(owed', "0x20")
    BY <1>2, InstallerFunctionsAssumption DEF OnTheWire, FunctionsInv, TypeOK
  <2>6. /\ "0x20" \notin disabled'
        /\ selects = {} \/ "0x20" \in due' \/ OnTheWire(owed', "0x20")
    BY <1>1, <1>2, <2>2, <2>5 DEF OrderInv, Part1Inv, OnTheWire
  <2> QED BY <2>3, <2>4, <2>6 DEF Eligible
<1>3. FunctionsInv /\ OrderInv /\ [Next]_vars
        => (Sent("0x22") /\ "0x20" \in unread'
              => \/ losses > 0 \/ short
                 \/ \E i \in 1 .. Len(owed') : owed'[i] = Get("0x20"))
  BY <1>2
<1> QED BY <1>1, <1>3, FunctionsInvInit, OrderInvInit, PTL DEF Spec, Part1ComesFirst

\* The functions are asked for only while someone wants them read: a read, once it is
\* complete, is over, and no unit without functions is asked again, for any number of
\* calls and losses.
THEOREM ReadsAreOnDemand == Spec => ReadOnDemand
<1>1. FunctionsInv /\ OrderInv /\ [Next]_vars => FunctionsInv' /\ OrderInv'
  BY FunctionsInvNext, Part1Step, DemandStep DEF OrderInv
<1>2. ASSUME FunctionsInv, OrderInv, [Next]_vars, NEW p \in Parts, Sent(p),
             unread' = {}, ~(selects # {} /\ enabled')
      PROVE  FALSE
  <2>1. Answer /\ Eligible(p, disabled', due)
    BY <1>2, SentByAnswer
  <2>2. UNCHANGED selects
    BY <2>1 DEF Answer, config
  <2>3. DemandInv' /\ disabled' \subseteq Parts
    BY <1>1, <1>2 DEF OrderInv, FunctionsInv, TypeOK
  <2>4. disabled' = Parts
    BY <1>2, <2>2, <2>3 DEF DemandInv
  <2> QED BY <2>1, <2>4 DEF Eligible
<1>3. FunctionsInv /\ OrderInv /\ [Next]_vars
        => ((\E p \in Parts : Sent(p)) => \/ unread' # {}
                                          \/ selects # {} /\ enabled')
  BY <1>2
<1> QED BY <1>1, <1>3, FunctionsInvInit, OrderInvInit, PTL DEF Spec, ReadOnDemand


-----------------------------------------------------------------------------
(***************************************************************************)
(* Changes are pursued: the safety half of ChangesSettle.  Until a reading *)
(* contradicts it, a change that was asked for is in the copy, and, unless *)
(* a frame was lost, something is still to bring it to the unit, or the    *)
(* unit has it.  What counts is the last frame on the wire that writes the *)
(* code: an earlier one may carry an older value.                          *)
(***************************************************************************)
Writes(frame, c) == frame.op = "set" /\ c \in Carries[frame.part]

\* The positions in a queue of the frames that write the code.
WritesOf(queue, c) == {i \in 1 .. Len(queue) : Writes(queue[i], c)}

\* A unit that has the value `now` of the code, and obeys the queue, comes to have `value`.
Leaves(queue, now, c, value) ==
    /\ \A i \in WritesOf(queue, c) :
         (\A j \in WritesOf(queue, c) : j <= i) => queue[i].data[c] = value
    /\ WritesOf(queue, c) = {} => now = value

\* The write is to be made, or part 2 is to carry the change, or the wire does, or the unit
\* has it.
OnItsWay(c) ==
    \/ is_set_functions
    \/ \E packet \in part2 : c \in Carries[packet.part] /\ packet.data[c] = asked[c]
    \/ /\ \A packet \in part2 : c \notin Carries[packet.part]
       /\ Leaves(owed, unit[c], c, asked[c])

Recorded(c) == is_valid /\ raw[c] = asked[c] /\ asked[c] \in 1 .. 3

ChangesArePursued == losses = 0 => \A c \in Codes : asked[c] # NoByte => OnItsWay(c)

\* The copy has nothing that the unit has not; one frame waits for an acknowledgement.
PursuitInv ==
    /\ \A c \in Codes : raw[c] # NoByte => unit[c] # NoByte
    /\ \A packet, other \in part2 : packet = other
    /\ \A c \in Codes : asked[c] # NoByte => Recorded(c) /\ (losses = 0 => OnItsWay(c))

\* A frame that is added replaces what was to come, if it writes the code.
LEMMA AppendLeaves ==
    ASSUME NEW queue \in Seq(FrameOf), NEW frame \in FrameOf, NEW c, NEW now, NEW value
    PROVE  /\ ~Writes(frame, c) /\ Leaves(queue, now, c, value)
                => Leaves(Append(queue, frame), now, c, value)
           /\ Writes(frame, c) /\ frame.data[c] = value
                => Leaves(Append(queue, frame), now, c, value)
<1>0. Len(queue) \in Nat
  BY LenProperties
<1> DEFINE longer == Append(queue, frame)
<1>1. /\ Len(longer) = Len(queue) + 1
      /\ \A i \in 1 .. Len(queue) : longer[i] = queue[i]
      /\ longer[Len(queue) + 1] = frame
  BY AppendProperties
<1> HIDE DEF longer
<1>2. ASSUME ~Writes(frame, c), Leaves(queue, now, c, value)
      PROVE  Leaves(longer, now, c, value)
  <2>1. WritesOf(longer, c) = WritesOf(queue, c)
    BY <1>0, <1>1, <1>2 DEF WritesOf
  <2>2. \A i \in WritesOf(queue, c) : longer[i] = queue[i]
    BY <1>1 DEF WritesOf
  <2> QED BY <1>2, <2>1, <2>2 DEF Leaves
<1>3. ASSUME Writes(frame, c), frame.data[c] = value
      PROVE  Leaves(longer, now, c, value)
  <2>1. Len(queue) + 1 \in WritesOf(longer, c)
    BY <1>0, <1>1, <1>3 DEF WritesOf
  <2>2. \A i \in WritesOf(longer, c) : i <= Len(queue) + 1 /\ i \in Nat
    BY <1>0, <1>1 DEF WritesOf
  <2>3. ASSUME NEW i \in WritesOf(longer, c), \A j \in WritesOf(longer, c) : j <= i
        PROVE  longer[i].data[c] = value
    <3>1. i = Len(queue) + 1
      BY <1>0, <2>1, <2>2, <2>3
    <3> QED BY <1>1, <1>3, <3>1
  <2> QED BY <2>1, <2>3 DEF Leaves
<1> QED BY <1>2, <1>3 DEF longer

\* A frame that is obeyed leaves what the others will do.
LEMMA TailLeaves ==
    ASSUME NEW queue \in Seq(FrameOf), queue # << >>,
           NEW c, NEW now, NEW value, Leaves(queue, now, c, value), NEW after,
           Writes(Head(queue), c) => (Head(queue).data[c] = value => after = value),
           ~Writes(Head(queue), c) => after = now
    PROVE  Leaves(Tail(queue), after, c, value)
<1>0. Len(queue) \in Nat /\ Len(queue) >= 1
  BY LenProperties, EmptySeq
<1> DEFINE rest == Tail(queue)
<1>1. /\ Head(queue) = queue[1]
      /\ Len(rest) = Len(queue) - 1
      /\ \A i \in 1 .. Len(rest) : rest[i] = queue[i + 1]
  BY HeadTailProperties
<1> HIDE DEF rest
<1>2. \A i \in WritesOf(rest, c) : i \in Nat /\ i + 1 \in WritesOf(queue, c)
                                   /\ rest[i] = queue[i + 1]
  BY <1>0, <1>1 DEF WritesOf
<1>3. \A j \in WritesOf(queue, c) : j \in Nat /\ j >= 1
                                    /\ (j # 1 => j - 1 \in WritesOf(rest, c))
  <2> SUFFICES ASSUME NEW j \in WritesOf(queue, c), j # 1
               PROVE  j - 1 \in WritesOf(rest, c)
    BY <1>0 DEF WritesOf
  <2>1. j - 1 \in 1 .. Len(rest) /\ (j - 1) + 1 = j /\ Writes(queue[j], c)
    BY <1>0, <1>1 DEF WritesOf
  <2> QED BY <1>1, <2>1 DEF WritesOf
<1>4. ASSUME NEW i \in WritesOf(rest, c), \A j \in WritesOf(rest, c) : j <= i
      PROVE  rest[i].data[c] = value
  <2>1. \A j \in WritesOf(queue, c) : j <= i + 1
    BY <1>2, <1>3, <1>4
  <2> QED BY <1>2, <2>1 DEF Leaves
<1>5. ASSUME WritesOf(rest, c) = {} PROVE after = value
  <2>1. \A j \in WritesOf(queue, c) : j = 1
    BY <1>3, <1>5
  <2>2. CASE Writes(Head(queue), c)
    <3>1. 1 \in WritesOf(queue, c)
      BY <1>0, <1>1, <2>2 DEF WritesOf
    <3>2. queue[1].data[c] = value
      BY <2>1, <3>1 DEF Leaves
    <3> QED BY <1>1, <2>2, <3>2
  <2>3. CASE ~Writes(Head(queue), c)
    <3>1. 1 \notin WritesOf(queue, c)
      BY <1>1, <2>3 DEF WritesOf
    <3>2. WritesOf(queue, c) = {}
      BY <2>1, <3>1
    <3> QED BY <2>3, <3>2 DEF Leaves
  <2> QED BY <2>2, <2>3
<1> QED BY <1>4, <1>5 DEF Leaves, rest

\* The scheduler adds requests, which write nothing.
LEMMA RequestsLeave ==
    ASSUME NEW start \in Nat, NEW queue \in Seq(FrameOf), NEW dis, NEW dueNow,
           send_next_after(start, queue, dis, dueNow),
           NEW c, NEW now, NEW value, Leaves(queue, now, c, value)
    PROVE  Leaves(owed', now, c, value)
<1>1. ASSUME NEW i \in start + 1 .. 3, owed' = Append(queue, Get(Requests[i]))
      PROVE  Leaves(owed', now, c, value)
  <2>1. i \in 1 .. 3
    OBVIOUS
  <2>2. Requests[i] \in Parts \union {"core"}
    BY <2>1 DEF Requests, Parts
  <2>3. Get(Requests[i]) \in FrameOf /\ ~Writes(Get(Requests[i]), c)
    BY <2>2, GetIsAFrame DEF Get, Writes
  <2> QED BY <1>1, <2>3, AppendLeaves
<1> QED BY <1>1 DEF send_next_after

\* Part 2 goes behind what is on the wire.
LEMMA Part2Leaves ==
    ASSUME NEW queue \in Seq(FrameOf), SendPart2(queue),
           part2 \subseteq FrameOf, \A packet \in part2 : packet.op = "set",
           \A packet, other \in part2 : packet = other,
           NEW c, NEW now, NEW value,
           \/ \E packet \in part2 : c \in Carries[packet.part] /\ packet.data[c] = value
           \/ /\ \A packet \in part2 : c \notin Carries[packet.part]
              /\ Leaves(queue, now, c, value)
    PROVE  part2' = {} /\ Leaves(owed', now, c, value)
<1>1. CASE part2 = {}
  BY <1>1 DEF SendPart2
<1>2. CASE part2 # {}
  <2>1. PICK packet \in part2 : owed' = Append(queue, packet)
    BY <1>2 DEF SendPart2
  <2>2. packet \in FrameOf /\ packet.op = "set" /\ \A other \in part2 : other = packet
    BY <2>1
  <2>3. CASE c \in Carries[packet.part] /\ packet.data[c] = value
    BY <2>1, <2>2, <2>3, AppendLeaves DEF Writes, SendPart2
  <2>4. CASE c \notin Carries[packet.part] /\ Leaves(queue, now, c, value)
    BY <2>1, <2>2, <2>4, AppendLeaves DEF Writes, SendPart2
  <2> QED BY <2>1, <2>2, <2>3, <2>4
<1> QED BY <1>1, <1>2

\* The copy never has what the unit has not.
LEMMA CopyStaysReal ==
    ASSUME FunctionsInv, PursuitInv, [Next]_vars
    PROVE  \A c \in Codes : raw'[c] # NoByte => unit'[c] # NoByte
<1> USE DEF FunctionsInv, TypeOK
<1>1. \A c \in Codes : raw[c] # NoByte => unit[c] # NoByte
  BY DEF PursuitInv
<1>2. SameCodes(unit, unit')
  BY UnitKeepsCodes
<1>3. CASE UNCHANGED raw
  BY <1>1, <1>2, <1>3 DEF SameCodes
<1>4. CASE ControlSelect \/ PressSet
  <2>1. PICK c \in Codes, value \in Nat : Change(c, value)
    BY <1>4, InstallerFunctionsAssumption DEF ControlSelect, PressSet
  <2>2. SameCodes(raw, raw')
    BY <2>1, SetValueKeepsCodes DEF Change
  <2> QED BY <1>1, <1>2, <2>2 DEF SameCodes
<1>5. CASE Answer
  <2> DEFINE request == Head(owed).part
  <2>1. raw' = set_data(raw, request, unit) \/ raw' = raw
    BY <1>5 DEF Answer, on_response, copy
  <2>2. \A c \in Codes : set_data(raw, request, unit)[c] \in {raw[c], unit[c]}
    BY DEF set_data
  <2> QED BY <1>1, <1>2, <2>1, <2>2 DEF SameCodes
<1> QED
  BY <1>2, <1>3, <1>4, <1>5
  DEF Next, PressGet, ChangeAtTheUnit, SetFunctions, StartCycle, CycleTimeout, IntervalElapses,
      Part2Timer, Acknowledge, Lose, copy, vars

\* One frame waits for an acknowledgement.
LEMMA OnePacketWaits ==
    ASSUME PursuitInv, [Next]_vars
    PROVE  \A packet, other \in part2' : packet = other
BY DEF PursuitInv, Next, ControlSelect, PressGet, PressSet, ChangeAtTheUnit, SetFunctions,
       set_functions, StartCycle, CycleTimeout, IntervalElapses, Part2Timer, SendPart2, Answer,
       Acknowledge, Lose, vars

\* A change stays in the copy until a reading contradicts it, and nothing but a call, which
\* starts a write, makes another of it.
LEMMA ChangesStayRecorded ==
    ASSUME FunctionsInv, PursuitInv, [Next]_vars, NEW c \in Codes, asked'[c] # NoByte
    PROVE  /\ Recorded(c)'
           /\ asked'[c] = asked[c] \/ is_set_functions'
<1> USE DEF FunctionsInv, TypeOK
<1>0. asked[c] # NoByte => Recorded(c)
  BY DEF PursuitInv
<1>1. CASE UNCHANGED <<raw, valid, asked>>
  BY <1>0, <1>1 DEF Recorded, is_valid
<1>2. CASE ControlSelect \/ PressSet
  <2>1. UNCHANGED valid
    BY <1>2 DEF ControlSelect, PressSet
  <2>2. PICK d \in Codes, value \in Nat : Change(d, value)
    BY <1>2, InstallerFunctionsAssumption DEF ControlSelect, PressSet
  <2>3. CASE is_valid /\ raw[d] # NoByte /\ value \in 1 .. 3
    <3>1. raw' = [raw EXCEPT ![d] = value] /\ asked' = [asked EXCEPT ![d] = value]
      BY <2>2, <2>3 DEF Change, set_value
    <3> QED BY <1>0, <2>1, <2>2, <2>3, <3>1 DEF Recorded, is_valid, Change
  <2>4. CASE ~(is_valid /\ raw[d] # NoByte /\ value \in 1 .. 3)
    <3>1. asked' = asked /\ is_valid
      BY <1>0, <2>2, <2>4 DEF Change, Recorded
    <3>2. raw' = raw
      BY <2>2, <2>4, <3>1 DEF Change, set_value
    <3> QED BY <1>1, <2>1, <3>1, <3>2, <1>0 DEF Recorded, is_valid
  <2> QED BY <2>3, <2>4
<1>3. CASE ChangeAtTheUnit
  <2>1. PICK d \in Codes : asked' = [asked EXCEPT ![d] = NoByte]
    BY <1>3 DEF ChangeAtTheUnit
  <2>2. asked'[c] = asked[c]
    BY <2>1
  <2> QED BY <1>0, <1>3, <2>2 DEF ChangeAtTheUnit, Recorded, is_valid, copy
<1>4. CASE Answer
  <2> DEFINE request == Head(owed).part
  <2>1. \/ UNCHANGED <<raw, valid, asked>>
        \/ on_response(request) /\ request \in Parts
    <3>1. Head(owed) \in FrameOf
      BY <1>4, HeadTailProperties DEF Answer
    <3> QED BY <1>4, <3>1 DEF Answer, copy, FrameOf
  <2> HIDE DEF request
  <2>2. SUFFICES ASSUME on_response(request), request \in Parts
                 PROVE  /\ Recorded(c)'
                        /\ asked'[c] = asked[c] \/ is_set_functions'
    BY <1>1, <2>1
  <2>3. asked'[c] = asked[c] /\ (c \in Carries[request] => unit[c] = asked[c])
    BY <2>2 DEF on_response
  <2>4. raw' = raw \/ raw' = set_data(raw, request, unit)
    BY <2>2 DEF on_response
  <2>5. raw'[c] = asked'[c]
    BY <1>0, <2>3, <2>4 DEF set_data, Recorded
  <2>6. valid' = Parts
    BY <1>0, <2>2, <2>3 DEF on_response, Recorded, is_valid
  <2> QED BY <1>0, <2>3, <2>5, <2>6 DEF Recorded, is_valid
<1> QED
  BY <1>1, <1>2, <1>3, <1>4
  DEF Next, PressGet, SetFunctions, StartCycle, CycleTimeout, IntervalElapses, Part2Timer,
      Acknowledge, Lose, copy, vars

\* A change goes from the copy to the wire, and from the wire to the unit.
LEMMA ChangesStayOnTheirWay ==
    ASSUME FunctionsInv, PursuitInv, [Next]_vars, NEW c \in Codes, asked'[c] # NoByte,
           losses' = 0
    PROVE  OnItsWay(c)'
<1> USE DEF FunctionsInv, TypeOK
<1>s. SUFFICES ASSUME ~is_set_functions' PROVE OnItsWay(c)'
  BY DEF OnItsWay
<1>a. asked'[c] = asked[c] /\ Recorded(c)'
  BY <1>s, ChangesStayRecorded
<1>0. losses = 0 => OnItsWay(c)
  BY <1>a DEF PursuitInv
<1>r. Recorded(c) /\ unit[c] # NoByte
  BY <1>a DEF PursuitInv, Recorded, NoByte
<1>p. /\ part2 \subseteq FrameOf /\ \A packet \in part2 : packet.op = "set"
      /\ \A packet, other \in part2 : packet = other
  BY DEF PursuitInv
<1>1. CASE UNCHANGED <<is_set_functions, part2, owed, unit, losses>>
  BY <1>s, <1>0, <1>1, <1>a DEF OnItsWay
<1>2. CASE SetFunctions
  <2> DEFINE first == SetFrame("0x20", raw)
             second == SetFrame("0x22", raw)
  <2>1. owed' = Append(owed, first) /\ part2' = {second} /\ UNCHANGED unit
    BY <1>2, <1>r DEF SetFunctions, set_functions, Recorded
  <2>2. /\ first.op = "set" /\ first.part = "0x20" /\ second.part = "0x22"
        /\ c \in Carries["0x20"] => first.data[c] = raw[c]
        /\ c \in Carries["0x22"] => second.data[c] = raw[c]
    BY DEF SetFrame
  <2>3. first \in FrameOf
    <3>1. "0x20" \in Parts /\ \A d \in Carries["0x20"] : raw[d] = NoByte => unit[d] = NoByte
      BY <1>r DEF Recorded, is_valid, CopyIsComplete, Parts
    <3> QED BY <3>1, SetFrameIsComplete
  <2>4. c \in Carries["0x20"] \/ c \in Carries["0x22"]
    BY DEF Carries, Codes, Parts
  <2> HIDE DEF first, second
  <2>5. CASE c \in Carries["0x22"]
    BY <1>a, <1>r, <2>1, <2>2, <2>5 DEF OnItsWay, Recorded
  <2>6. CASE c \notin Carries["0x22"]
    <3>1. Leaves(owed', unit'[c], c, asked'[c])
      BY <1>a, <1>r, <2>1, <2>2, <2>3, <2>4, <2>6, AppendLeaves DEF Writes, Recorded
    <3> QED BY <2>1, <2>2, <2>6, <3>1 DEF OnItsWay
  <2> QED BY <2>5, <2>6
<1>3. CASE ChangeAtTheUnit
  <2>1. /\ unit'[c] = unit[c]
        /\ UNCHANGED <<is_set_functions, part2, owed, losses>>
    <3>1. PICK d \in Codes, value \in Options :
            unit' = [unit EXCEPT ![d] = value] /\ asked' = [asked EXCEPT ![d] = NoByte]
      BY <1>3 DEF ChangeAtTheUnit
    <3> QED BY <1>3, <3>1 DEF ChangeAtTheUnit, flags
  <2> QED BY <1>s, <1>0, <1>a, <2>1 DEF OnItsWay
<1>4. CASE StartCycle
  <2>1. /\ UNCHANGED <<is_set_functions, part2, unit, losses>>
        /\ \E dueNow : send_next_after(0, owed, disabled', dueNow)
    BY <1>4 DEF StartCycle
  <2>2. Leaves(owed, unit[c], c, asked[c]) => Leaves(owed', unit[c], c, asked[c])
    BY <2>1, RequestsLeave
  <2> QED BY <1>s, <1>0, <1>a, <2>1, <2>2 DEF OnItsWay
<1>5. CASE Part2Timer
  <2>1. SendPart2(owed) /\ UNCHANGED <<is_set_functions, unit, losses>>
    BY <1>5 DEF Part2Timer, flags
  <2>2. \/ \E packet \in part2 : c \in Carries[packet.part] /\ packet.data[c] = asked[c]
        \/ /\ \A packet \in part2 : c \notin Carries[packet.part]
           /\ Leaves(owed, unit[c], c, asked[c])
    BY <1>s, <1>0, <2>1 DEF OnItsWay
  <2>3. part2' = {} /\ Leaves(owed', unit[c], c, asked[c])
    BY <1>p, <2>1, <2>2, Part2Leaves
  <2> QED BY <1>a, <2>1, <2>3 DEF OnItsWay
<1>6. CASE Answer
  <2>1. /\ owed # << >> /\ Head(owed).op = "get"
        /\ send_next_after(position(Head(owed).part), Tail(owed), disabled', due)
        /\ UNCHANGED <<is_set_functions, part2, unit, losses>>
    BY <1>6 DEF Answer, flags
  <2>2. Head(owed) \in FrameOf /\ Tail(owed) \in Seq(FrameOf)
    BY <2>1, HeadTailProperties
  <2>3. position(Head(owed).part) \in Nat
    <3>1. Head(owed).part \in {"core", "0x20", "0x22"}
      BY <2>2 DEF FrameOf, Parts
    <3> QED BY <3>1, RequestNames
  <2>4. Leaves(owed, unit[c], c, asked[c]) => Leaves(Tail(owed), unit[c], c, asked[c])
    BY <2>1, TailLeaves DEF Writes
  <2>5. Leaves(owed, unit[c], c, asked[c]) => Leaves(owed', unit[c], c, asked[c])
    BY <2>1, <2>2, <2>3, <2>4, RequestsLeave
  <2> QED BY <1>s, <1>0, <1>a, <2>1, <2>5 DEF OnItsWay
<1>7. CASE Acknowledge
  <2>1. /\ owed # << >> /\ Head(owed).op = "set"
        /\ unit' = Written(Head(owed))
        /\ SendPart2(Tail(owed))
        /\ UNCHANGED <<is_set_functions, losses>>
    BY <1>7 DEF Acknowledge, flags
  <2>2. Tail(owed) \in Seq(FrameOf)
    BY <2>1, HeadTailProperties
  <2>3. \/ \E packet \in part2 : c \in Carries[packet.part] /\ packet.data[c] = asked[c]
        \/ /\ \A packet \in part2 : c \notin Carries[packet.part]
           /\ Leaves(owed, unit[c], c, asked[c])
    BY <1>s, <1>0, <2>1 DEF OnItsWay
  <2>4. Leaves(owed, unit[c], c, asked[c]) => Leaves(Tail(owed), unit'[c], c, asked[c])
    <3>1. Writes(Head(owed), c) => (Head(owed).data[c] = asked[c] => unit'[c] = asked[c])
      BY <1>r, <2>1 DEF Written, Writes, Recorded
    <3>2. ~Writes(Head(owed), c) => unit'[c] = unit[c]
      BY <2>1 DEF Written, Writes
    <3> QED BY <2>1, <3>1, <3>2, TailLeaves
  <2>5. part2' = {} /\ Leaves(owed', unit'[c], c, asked[c])
    BY <1>p, <2>1, <2>2, <2>3, <2>4, Part2Leaves
  <2> QED BY <1>a, <2>5 DEF OnItsWay
<1>8. CASE Lose
  <2>1. losses' = losses + 1 /\ losses \in Nat
    BY <1>8, InstallerFunctionsAssumption DEF Lose
  <2> QED BY <2>1
<1> QED
  BY <1>s, <1>1, <1>2, <1>3, <1>4, <1>5, <1>6, <1>7, <1>8
  DEF Next, ControlSelect, PressGet, PressSet, Change, CycleTimeout, IntervalElapses, flags, vars

\* A change of an installer function is never dropped by the driver: as long as no frame
\* was lost and no reading contradicted it, the unit has it or will have it when it obeyed
\* what is on the wire, whatever was asked, read, written or timed out meanwhile.
THEOREM ChangesStayPursued == Spec => []ChangesArePursued
<1>1. Init => PursuitInv
  BY DEF Init, PursuitInv, Nothing
<1>2. FunctionsInv /\ PursuitInv /\ [Next]_vars => PursuitInv'
  BY CopyStaysReal, OnePacketWaits, ChangesStayRecorded, ChangesStayOnTheirWay DEF PursuitInv
<1>3. PursuitInv => ChangesArePursued
  BY DEF PursuitInv, ChangesArePursued
<1> QED BY <1>1, <1>2, <1>3, FunctionsInvInit, FunctionsInvNext, PTL DEF Spec
=============================================================================
