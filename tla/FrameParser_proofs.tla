------------------------- MODULE FrameParser_proofs -------------------------
(***************************************************************************)
(* Proofs about FrameParser, for any buffer, gap, frames and noise, and    *)
(* any number of faults: nothing is written past the end of the buffer,    *)
(* and what is processed has the length that it declares.                  *)
(*                                                                         *)
(* That holds because of what the parser knows between two bytes: the      *)
(* length, as soon as its byte was read, and that it is not reached yet.   *)
(***************************************************************************)
EXTENDS FrameParser, SequenceTheorems, TLAPS

Unfinished(p) ==
    /\ p \in Parser
    /\ ~p.frame_complete
    /\ p.found_start \/ p.buffer = <<>>
    /\ Len(p.buffer) <= 4 => p.data_length = -1
    /\ Len(p.buffer) > 4 => /\ p.data_length = p.buffer[5]
                            /\ p.data_length + 6 <= MAX_FRAME_BYTES
                            /\ Len(p.buffer) <= p.data_length + 5

Finished(p) ==
    /\ p \in Parser
    /\ Len(p.buffer) <= MAX_FRAME_BYTES
    /\ Len(p.buffer) >= 6
    /\ Len(p.buffer) = p.buffer[5] + 6

LEMMA ResetIsUnfinished == Unfinished(Reset)
BY DEF Unfinished, Reset, Parser

\* What Append does to the length and to the byte that says the length of the frame.
LEMMA AppendByte ==
    ASSUME NEW buffer \in Seq(Byte), NEW byte \in Byte
    PROVE  /\ Append(buffer, byte) \in Seq(Byte)
           /\ Len(Append(buffer, byte)) = Len(buffer) + 1
           /\ Len(buffer) \in Nat
           /\ Len(buffer) = 4 => Append(buffer, byte)[5] = byte
           /\ Len(buffer) > 4 => Append(buffer, byte)[5] = buffer[5]
<1>1. Len(buffer) \in Nat
  OBVIOUS
<1>2. /\ Append(buffer, byte) \in Seq(Byte)
      /\ Len(Append(buffer, byte)) = Len(buffer) + 1
      /\ \A i \in 1 .. Len(buffer) : Append(buffer, byte)[i] = buffer[i]
      /\ Append(buffer, byte)[Len(buffer) + 1] = byte
  BY AppendProperties
<1>3. ASSUME Len(buffer) = 4
      PROVE  Append(buffer, byte)[5] = byte
  <2>1. Len(buffer) + 1 = 5
    BY <1>3
  <2> QED
    BY <1>2, <2>1, Zenon
<1>4. ASSUME Len(buffer) > 4
      PROVE  Append(buffer, byte)[5] = buffer[5]
  <2>1. 5 \in 1 .. Len(buffer)
    BY <1>1, <1>4
  <2> QED
    BY <1>2, <2>1, Zenon
<1> QED
  BY <1>1, <1>2, <1>3, <1>4

LengthAfter(p, byte) == IF Len(p.buffer) = 4 THEN byte ELSE p.data_length

Takes(p, byte, fed) ==
    fed = [p EXCEPT !.buffer = Append(@, byte), !.data_length = LengthAfter(p, byte),
                    !.frame_complete = /\ LengthAfter(p, byte) >= 0
                                       /\ Len(p.buffer) = LengthAfter(p, byte) + 5]

HasRoom(p, byte) == Len(p.buffer) < MAX_FRAME_BYTES /\ LengthAfter(p, byte) + 6 <= MAX_FRAME_BYTES

\* What one byte more makes of a parser that has its start byte.
LEMMA TakenFields ==
    ASSUME NEW p, p \in Parser, p.found_start, NEW byte \in Byte, LengthAfter(p, byte) \in -1 .. 255,
           NEW fed, Takes(p, byte, fed)
    PROVE  /\ fed \in Parser /\ fed.found_start
           /\ fed.buffer = Append(p.buffer, byte)
           /\ fed.data_length = LengthAfter(p, byte)
           /\ fed.frame_complete <=> /\ LengthAfter(p, byte) >= 0
                                     /\ Len(p.buffer) = LengthAfter(p, byte) + 5
<1> DEFINE appended == Append(p.buffer, byte)
           length == LengthAfter(p, byte)
           complete == length >= 0 /\ Len(p.buffer) = length + 5
<1>1. fed = [p EXCEPT !.buffer = appended, !.data_length = length, !.frame_complete = complete]
  BY Zenon DEF Takes
<1>2. appended \in Seq(Byte)
  BY AppendByte DEF Parser
<1>3. length \in -1 .. 255 /\ complete \in BOOLEAN
  OBVIOUS
<1> HIDE DEF appended, length, complete
<1>4. /\ fed \in Parser /\ fed.found_start /\ fed.buffer = appended /\ fed.data_length = length
      /\ fed.frame_complete = complete
  BY <1>1, <1>2, <1>3 DEF Parser
<1> QED
  BY <1>4, Zenon DEF appended, length, complete

\* The parser has its start byte and takes one byte more.
LEMMA AppendKeeps ==
    ASSUME NEW p, Unfinished(p), p.found_start, NEW byte \in Byte, HasRoom(p, byte),
           NEW fed, Takes(p, byte, fed)
    PROVE  /\ fed.frame_complete => Finished(fed)
           /\ ~fed.frame_complete => Unfinished(fed)
<1> DEFINE read == Len(p.buffer)
           length == LengthAfter(p, byte)
           declared == Append(p.buffer, byte)[5]
           had == p.buffer[5]
           size == Len(Append(p.buffer, byte))
           data_length == p.data_length
<1>1. p \in Parser /\ p.buffer \in Seq(Byte)
  BY DEF Unfinished, Parser
<1>2. /\ data_length \in -1 .. 255
      /\ read <= 4 => data_length = -1
      /\ read > 4 => data_length = had /\ read <= data_length + 5
  BY DEF Unfinished, Parser
<1>3. MAX_FRAME_BYTES \in Nat /\ length + 6 <= MAX_FRAME_BYTES
  BY FrameParserAssumption DEF HasRoom
<1>4. /\ size = read + 1 /\ read \in Nat
      /\ read = 4 => declared = byte
      /\ read > 4 => declared = had
  BY <1>1, AppendByte
<1>5. length = IF read = 4 THEN byte ELSE data_length
  BY DEF LengthAfter
<1> HIDE DEF read, length, declared, had, size, data_length
<1>6. /\ length \in -1 .. 255
      /\ read < 4 => length = -1
      /\ read >= 4 => length = declared /\ length >= 0
      /\ read > 4 => read <= length + 5
  <2>1. byte \in 0 .. 255
    BY DEF Byte
  <2>2. CASE read < 4
    BY <1>2, <1>4, <1>5, <2>2
  <2>3. CASE read = 4
    <3>1. length = byte /\ declared = byte
      BY <1>4, <1>5, <2>3
    <3> QED
      BY <2>1, <2>3, <3>1
  <2>4. CASE read > 4
    <3>1. length = data_length /\ declared = had /\ data_length = had /\ read <= data_length + 5
      BY <1>2, <1>4, <1>5, <2>4
    <3> QED
      BY <1>2, <1>4, <2>4, <3>1
  <2> QED
    BY <1>4, <2>2, <2>3, <2>4
<1>7. /\ length >= 0 /\ read = length + 5
           => size <= MAX_FRAME_BYTES /\ size >= 6 /\ size = declared + 6
      /\ ~(length >= 0 /\ read = length + 5)
           => /\ size <= 4 => length = -1
              /\ size > 4 => length = declared /\ size <= length + 5
  BY <1>3, <1>4, <1>6
<1>8. /\ fed \in Parser /\ fed.found_start
      /\ fed.buffer = Append(p.buffer, byte)
      /\ fed.data_length = length
      /\ fed.frame_complete <=> length >= 0 /\ read = length + 5
  BY <1>1, <1>6, TakenFields, Zenon DEF length, read
<1>9. size = Len(fed.buffer) /\ declared = fed.buffer[5]
  BY <1>8 DEF size, declared
<1>10. fed.frame_complete => Finished(fed)
  BY <1>7, <1>8, <1>9 DEF Finished
<1>11. ~fed.frame_complete => Unfinished(fed)
  BY <1>3, <1>7, <1>8, <1>9 DEF Unfinished
<1> QED
  BY <1>10, <1>11

LEMMA LengthAfterIsInt ==
    ASSUME NEW p, p \in Parser, NEW byte \in Byte
    PROVE  LengthAfter(p, byte) \in Int
<1>1. p.data_length \in -1 .. 255
  BY DEF Parser
<1>2. p.data_length \in Int
  BY <1>1
<1>3. byte \in Int
  BY DEF Byte
<1> QED
  BY <1>2, <1>3, Zenon DEF LengthAfter

LEMMA RoomIsLeft ==
    ASSUME NEW p, p \in Parser, NEW byte \in Byte,
           ~(Len(p.buffer) >= MAX_FRAME_BYTES \/ LengthAfter(p, byte) + 6 > MAX_FRAME_BYTES)
    PROVE  HasRoom(p, byte)
<1>1. LengthAfter(p, byte) \in Int
  BY LengthAfterIsInt
<1>2. Len(p.buffer) \in Nat /\ MAX_FRAME_BYTES \in Nat
  BY FrameParserAssumption DEF Parser
<1> QED
  BY <1>1, <1>2 DEF HasRoom

\* One byte.  A parser that is not finished either stays so or has a frame.
LEMMA FeedKeeps ==
    ASSUME NEW p, Unfinished(p), NEW byte \in Byte
    PROVE  /\ feed(p, byte).frame_complete => Finished(feed(p, byte))
           /\ ~feed(p, byte).frame_complete => Unfinished(feed(p, byte))
<1> DEFINE fed == feed(p, byte)
           full == \/ Len(p.buffer) >= MAX_FRAME_BYTES
                   \/ LengthAfter(p, byte) + 6 > MAX_FRAME_BYTES
<1>1. p \in Parser /\ ~p.frame_complete /\ (p.found_start \/ p.buffer = <<>>)
  BY DEF Unfinished
<1>2. CASE ~p.found_start /\ byte # StartByte
  <2>1. fed = p
    BY <1>1, <1>2 DEF feed
  <2> QED
    BY <1>1, <2>1
<1>3. CASE ~p.found_start /\ byte = StartByte
  <2>1. fed = [p EXCEPT !.found_start = TRUE, !.buffer = <<byte>>]
    BY <1>1, <1>3 DEF feed
  <2> HIDE DEF fed
  <2>2. <<byte>> \in Seq(Byte) /\ Len(<<byte>>) = 1 /\ Len(p.buffer) = 0
    BY <1>1, <1>3
  <2>3. p.data_length = -1
    BY <2>2 DEF Unfinished
  <2>4. /\ fed \in Parser /\ ~fed.frame_complete /\ fed.found_start /\ Len(fed.buffer) = 1
        /\ fed.data_length = -1
    BY <1>1, <2>1, <2>2, <2>3 DEF Parser
  <2>5. Unfinished(fed)
    BY <2>4 DEF Unfinished
  <2> QED
    BY <2>4, <2>5 DEF fed
<1>4. CASE p.found_start /\ full
  <2>1. fed = Reset
    BY <1>1, <1>4 DEF feed, LengthAfter
  <2> QED
    BY <2>1, ResetIsUnfinished DEF Reset
<1>5. CASE p.found_start /\ ~full
  <2>1. Takes(p, byte, fed)
    BY <1>1, <1>5, Zenon DEF feed, LengthAfter, Takes
  <2>2. HasRoom(p, byte)
    BY <1>1, <1>5, RoomIsLeft
  <2> QED
    BY <1>5, <2>1, <2>2, AppendKeeps, Zenon
<1> QED
  BY <1>2, <1>3, <1>4, <1>5

\* What is left of a frame without its checksum.
LEMMA FrontOfAFrame ==
    ASSUME NEW p, Finished(p)
    PROVE  /\ Front(p.buffer) \in Seq(Byte)
           /\ Len(Front(p.buffer)) < MAX_FRAME_BYTES
           /\ Len(Front(p.buffer)) = Front(p.buffer)[5] + 5
<1> DEFINE buffer == p.buffer
           size == Len(buffer)
           front == SubSeq(buffer, 1, size - 1)
           declared == buffer[5]
<1>1. /\ buffer \in Seq(Byte) /\ size >= 6 /\ size <= MAX_FRAME_BYTES /\ size = declared + 6
      /\ MAX_FRAME_BYTES \in Nat
  BY FrameParserAssumption DEF Finished, Parser
<1>2. Front(p.buffer) = front
  BY DEF Front
<1> HIDE DEF buffer
<1>3. front \in Seq(Byte) /\ Len(front) = size - 1 /\ front[5] = declared /\ size \in Nat
  BY <1>1
<1>4. declared \in Byte
  BY <1>1
<1> HIDE DEF front, size, declared
<1>5. size - 1 < MAX_FRAME_BYTES /\ size - 1 = declared + 5
  BY <1>1, <1>3, <1>4 DEF Byte
<1> QED
  BY <1>2, <1>3, <1>5, Zenon

LEMMA UnfinishedFits ==
    ASSUME NEW p, Unfinished(p)
    PROVE  Len(p.buffer) <= MAX_FRAME_BYTES
<1> DEFINE size == Len(p.buffer)
           length == p.data_length
<1>1. size \in Nat /\ length \in -1 .. 255
  BY DEF Unfinished, Parser
<1>2. size > 4 => length + 6 <= MAX_FRAME_BYTES /\ size <= length + 5
  BY DEF Unfinished
<1>3. MAX_FRAME_BYTES \in Nat /\ MAX_FRAME_BYTES > 6
  BY FrameParserAssumption
<1> HIDE DEF size, length
<1>4. size <= MAX_FRAME_BYTES
  BY <1>1, <1>2, <1>3
<1> QED
  BY <1>4 DEF size

-----------------------------------------------------------------------------
(***************************************************************************)
(* The invariant.                                                          *)
(***************************************************************************)
ProcessedFits ==
    processed # <<>> => Len(processed) < MAX_FRAME_BYTES /\ Len(processed) = processed[5] + 5

\* The parser is between two bytes, and what it made a frame of had its length.
ParserInv ==
    /\ TypeOK
    /\ Unfinished(parser)
    /\ ProcessedFits

LEMMA InvImpliesFits == ParserInv => BufferHoldsTheFrame
BY UnfinishedFits DEF ParserInv, ProcessedFits, BufferHoldsTheFrame

LEMMA InitInv == Init => ParserInv
<1> SUFFICES ASSUME Init PROVE ParserInv
  OBVIOUS
<1>1. FRAME_RESYNC_GAP \in Nat /\ MaxFaults \in Nat
  BY FrameParserAssumption
<1>2. parser \in Parser /\ Unfinished(parser)
  BY ResetIsUnfinished DEF Init, Unfinished
<1>3. TypeOK
  BY <1>1, <1>2 DEF Init, TypeOK
<1> QED
  BY <1>2, <1>3 DEF Init, ParserInv, ProcessedFits

\* The frames with their checksum are bytes.
LEMMA SentFrames ==
    ASSUME NEW frame \in Frames
    PROVE  Append(frame, checksum(frame)) \in Seq(Byte)
BY FrameParserAssumption, ChecksumAssumption

LEMMA ProcessStep ==
    ASSUME ParserInv, process_input
    PROVE  ParserInv'
<1> DEFINE fed == feed(Resynced(parser), Head(uart))
<1>1. TypeOK /\ Unfinished(parser) /\ ProcessedFits
  BY DEF ParserInv
<1>2. Head(uart) \in Byte /\ Tail(uart) \in Seq(Byte)
  BY <1>1 DEF TypeOK, process_input
<1>3. Unfinished(Resynced(parser))
  BY <1>1, ResetIsUnfinished DEF Resynced
<1>4. /\ fed.frame_complete => Finished(fed)
      /\ ~fed.frame_complete => Unfinished(fed)
  BY <1>2, <1>3, FeedKeeps
<1>5. /\ uart' = Tail(uart) /\ since_rx' = 0
      /\ IF fed.frame_complete THEN process_data_packet(fed) /\ parser' = Reset
         ELSE parser' = fed /\ UNCHANGED <<processed, answered, due>>
      /\ UNCHANGED <<line, in_step, faults>>
  BY Zenon DEF process_input
<1> HIDE DEF fed
<1>6. Unfinished(parser')
  BY <1>4, <1>5, ResetIsUnfinished
<1>7. processed' \in Seq(Byte) /\ ProcessedFits'
  <2>1. CASE fed.frame_complete /\ checksum_valid(fed)
    <3>1. processed' = Front(fed.buffer)
      BY <1>5, <2>1 DEF process_data_packet
    <3> QED
      BY <1>4, <2>1, <3>1, FrontOfAFrame DEF ProcessedFits
  <2>2. CASE ~(fed.frame_complete /\ checksum_valid(fed))
    <3>1. processed' = processed
      BY <1>5, <2>2 DEF process_data_packet
    <3> QED
      BY <1>1, <3>1 DEF ProcessedFits, TypeOK
  <2> QED
    BY <2>1, <2>2
<1>8. answered' \in BOOLEAN /\ due' \in Seq(Frames)
  <2>1. due # <<>> => Tail(due) \in Seq(Frames)
    BY <1>1 DEF TypeOK
  <2>2. CASE UNCHANGED <<answered, due>>
    BY <1>1, <2>2 DEF TypeOK
  <2>3. CASE answered' = TRUE /\ ((due # <<>> /\ due' = Tail(due)) \/ due' = due)
    BY <1>1, <2>1, <2>3 DEF TypeOK
  <2>4. \/ UNCHANGED <<answered, due>>
        \/ answered' = TRUE /\ ((due # <<>> /\ due' = Tail(due)) \/ due' = due)
    BY <1>5, Zenon DEF process_data_packet
  <2> QED
    BY <2>2, <2>3, <2>4
<1>9. TypeOK'
  <2>1. parser' \in Parser
    BY <1>6 DEF Unfinished
  <2>2. since_rx' \in 0 .. FRAME_RESYNC_GAP + 1
    BY <1>5, FrameParserAssumption
  <2>3. uart' \in Seq(Byte)
    BY <1>2, <1>5
  <2>4. line' \in Seq(Byte) /\ in_step' \in BOOLEAN /\ faults' \in 0 .. MaxFaults
    BY <1>1, <1>5 DEF TypeOK
  <2> QED
    BY <1>7, <1>8, <2>1, <2>2, <2>3, <2>4 DEF TypeOK
<1> QED
  BY <1>6, <1>7, <1>9 DEF ParserInv

\* No other step touches the parser or what it processed.
LEMMA OtherSteps ==
    ASSUME ParserInv, UNCHANGED <<parser, processed>>, TypeOK'
    PROVE  ParserInv'
BY DEF ParserInv, ProcessedFits

LEMMA SendTypes ==
    ASSUME TypeOK, NEW frame \in Frames, Send(frame)
    PROVE  line' \in Seq(Byte) /\ in_step' \in BOOLEAN /\ due' \in Seq(Frames)
<1>1. line' \in Seq(Byte)
  BY SentFrames DEF Send
<1>2. in_step' \in BOOLEAN
  BY DEF Send, TypeOK, AfterSilence
<1>3. <<frame>> \in Seq(Frames) /\ Append(due, frame) \in Seq(Frames) /\ due \in Seq(Frames)
  BY DEF TypeOK
<1>4. due' \in {<<frame>>, Append(due, frame), due}
  BY Zenon DEF Send
<1> QED
  BY <1>1, <1>2, <1>3, <1>4

LEMMA FaultCounts ==
    ASSUME TypeOK, Fault
    PROVE  faults' \in 0 .. MaxFaults
BY FrameParserAssumption DEF TypeOK, Fault

LEMMA NothingIsDue ==
    ASSUME OutOfStep
    PROVE  in_step' \in BOOLEAN /\ due' \in Seq(Frames)
<1>1. in_step' = FALSE /\ due' = <<>>
  BY Zenon DEF OutOfStep
<1>2. <<>> \in Seq(Frames)
  OBVIOUS
<1> QED
  BY <1>1, <1>2, Zenon

LEMMA NoiseIsBytes ==
    ASSUME NEW byte \in Noise
    PROVE  byte \in Byte
<1>1. Noise \subseteq Byte
  BY FrameParserAssumption
<1> QED
  BY <1>1

LEMMA NextTypes ==
    ASSUME TypeOK, Next, ~process_input
    PROVE  TypeOK' /\ UNCHANGED <<parser, processed>>
<1>1. ASSUME NEW frame \in Frames, Answer(frame)
      PROVE  TypeOK' /\ UNCHANGED <<parser, processed>>
  BY <1>1, SendTypes DEF Answer, Send, TypeOK
<1>2. CASE SendByte
  BY <1>2 DEF SendByte, TypeOK
<1>3. CASE Tick
  BY <1>3, FrameParserAssumption DEF Tick, TypeOK
<1>4. ASSUME NEW frame \in Frames, LateAnswer(frame)
      PROVE  TypeOK' /\ UNCHANGED <<parser, processed>>
  BY <1>4, SendTypes, FaultCounts DEF LateAnswer, Send, TypeOK
<1>5. ASSUME NEW byte \in Noise, ChangeByte(byte)
      PROVE  TypeOK' /\ UNCHANGED <<parser, processed>>
  <2>1. faults' \in 0 .. MaxFaults /\ uart' \in Seq(Byte) /\ line' \in Seq(Byte)
    BY <1>5, FaultCounts, NoiseIsBytes DEF ChangeByte, TypeOK
  <2> QED
    BY <1>5, <2>1, NothingIsDue DEF ChangeByte, TypeOK
<1>6. ASSUME NEW byte \in Noise, AddByte(byte)
      PROVE  TypeOK' /\ UNCHANGED <<parser, processed>>
  <2>1. faults' \in 0 .. MaxFaults /\ uart' \in Seq(Byte)
    BY <1>6, FaultCounts, NoiseIsBytes DEF AddByte, TypeOK
  <2>2. in_step' \in BOOLEAN /\ due' \in Seq(Frames)
    BY <1>6, NothingIsDue DEF AddByte, TypeOK
  <2> QED
    BY <1>6, <2>1, <2>2 DEF AddByte, TypeOK
<1>7. CASE Truncate
  <2>1. faults' \in 0 .. MaxFaults /\ line' \in Seq(Byte)
    BY <1>7, FaultCounts DEF Truncate
  <2> QED
    BY <1>7, <2>1, NothingIsDue DEF Truncate, TypeOK
<1>8. CASE LoseByte
  <2>1. faults' \in 0 .. MaxFaults /\ line' \in Seq(Byte)
    BY <1>8, FaultCounts DEF LoseByte, TypeOK
  <2> QED
    BY <1>8, <2>1, NothingIsDue DEF LoseByte, TypeOK
<1>9. CASE Stall
  <2>1. faults' \in 0 .. MaxFaults /\ since_rx' \in 0 .. FRAME_RESYNC_GAP + 1
    BY <1>9, FaultCounts, FrameParserAssumption DEF Stall, TypeOK
  <2> QED
    BY <1>9, <2>1, NothingIsDue DEF Stall, TypeOK
<1> QED
  BY <1>1, <1>2, <1>3, <1>4, <1>5, <1>6, <1>7, <1>8, <1>9 DEF Next, Faults

LEMMA NextInv == ParserInv /\ [Next]_vars => ParserInv'
<1> SUFFICES ASSUME ParserInv, [Next]_vars PROVE ParserInv'
  OBVIOUS
<1>1. CASE process_input
  BY <1>1, ProcessStep
<1>2. CASE Next /\ ~process_input
  BY <1>2, NextTypes, OtherSteps DEF ParserInv
<1>3. CASE UNCHANGED vars
  BY <1>3 DEF vars, ParserInv, TypeOK, ProcessedFits
<1> QED
  BY <1>1, <1>2, <1>3

LEMMA ParserInvariant == Spec => []ParserInv
BY InitInv, NextInv, PTL DEF Spec

\* The parser never holds more than its buffer, whatever bytes it is fed, and what is handed
\* to process_command ends where its declared length says.
THEOREM BufferIsNeverOverrun == Spec => []BufferHoldsTheFrame
BY ParserInvariant, InvImpliesFits, PTL

\* Every reachable state of the parser and of the line is well typed.
THEOREM ParserTypeCorrect == Spec => []TypeOK
<1>1. ParserInv => TypeOK
  BY DEF ParserInv
<1> QED
  BY <1>1, ParserInvariant, PTL

-----------------------------------------------------------------------------
(***************************************************************************)
(* No frame is swallowed.  What is in the parser, in the UART and on the   *)
(* line is one stream of bytes.  As long as the two ends are in step, the  *)
(* frames that are due lie in it one after the other, and no start byte    *)
(* lies between them: the first start byte that is read begins a frame.    *)
(***************************************************************************)
Wire(frame) == Append(frame, checksum(frame))

Placed(stream, frames, at) ==
    /\ at \in [1 .. Len(frames) -> 1 .. Len(stream)]
    /\ \A i \in 1 .. Len(frames) :
         /\ at[i] + Len(frames[i]) <= Len(stream)
         /\ \A k \in 0 .. Len(frames[i]) : stream[at[i] + k] = Wire(frames[i])[k + 1]
    /\ \A i, j \in 1 .. Len(frames) : i < j => at[i] + Len(frames[i]) < at[j]
    /\ \A p \in 1 .. Len(stream) : stream[p] = StartByte =>
         \E i \in 1 .. Len(frames) : at[i] <= p /\ p <= at[i] + Len(frames[i])

Carries(stream, frames) ==
    \E at \in [1 .. Len(frames) -> 1 .. Len(stream)] : Placed(stream, frames, at)

LEMMA WireOfAFrame ==
    ASSUME NEW frame \in Frames
    PROVE  /\ frame \in Seq(Byte) /\ Len(frame) \in Nat /\ Len(frame) >= 5
           /\ Wire(frame) \in Seq(Byte)
           /\ Len(Wire(frame)) = Len(frame) + 1
           /\ Wire(frame)[1] = StartByte
           /\ Wire(frame)[5] = Len(frame) - 5
           /\ Len(frame) < MAX_FRAME_BYTES
           /\ Wire(frame)[Len(frame) + 1] = checksum(frame)
           /\ \A i \in 1 .. Len(frame) : Wire(frame)[i] = frame[i]
<1>1. /\ frame \in Seq(Byte) /\ Len(frame) >= 5 /\ frame[1] = StartByte
      /\ frame[5] = Len(frame) - 5 /\ frame[5] + 6 <= MAX_FRAME_BYTES
  BY FrameParserAssumption
<1>2. checksum(frame) \in Byte
  BY ChecksumAssumption
<1>3. /\ Wire(frame) \in Seq(Byte) /\ Len(Wire(frame)) = Len(frame) + 1
      /\ \A i \in 1 .. Len(frame) : Wire(frame)[i] = frame[i]
      /\ Wire(frame)[Len(frame) + 1] = checksum(frame)
  BY <1>1, <1>2, AppendProperties DEF Wire
<1>4. Len(frame) \in Nat
  BY <1>1
<1>5. 1 \in 1 .. Len(frame) /\ 5 \in 1 .. Len(frame)
  BY <1>1, <1>4
<1>6. Wire(frame)[1] = frame[1] /\ Wire(frame)[5] = frame[5]
  BY <1>3, <1>5, Zenon
<1>7. Len(frame) < MAX_FRAME_BYTES
  <2>1. frame[5] = Len(frame) - 5 /\ frame[5] + 6 <= MAX_FRAME_BYTES /\ MAX_FRAME_BYTES \in Nat
    BY <1>1, FrameParserAssumption
  <2> HIDE DEF Wire
  <2>2. (Len(frame) - 5) + 6 <= MAX_FRAME_BYTES
    BY <2>1, Zenon
  <2> QED
    BY <1>4, <2>1, <2>2
<1> QED
  BY <1>1, <1>3, <1>4, <1>6, <1>7, Zenon

LEMMA FramesOfASequence ==
    ASSUME NEW frames \in Seq(Frames)
    PROVE  /\ Len(frames) \in Nat
           /\ \A i \in 1 .. Len(frames) : frames[i] \in Frames /\ Len(frames[i]) \in Nat
<1>1. Len(frames) \in Nat /\ \A i \in 1 .. Len(frames) : frames[i] \in Frames
  OBVIOUS
<1> QED
  BY <1>1, WireOfAFrame

LEMMA EmptyCarriesNothing ==
    ASSUME NEW frames \in Seq(Frames)
    PROVE  Carries(<<>>, frames) <=> frames = <<>>
<1>1. Len(<<>>) = 0 /\ Len(frames) \in Nat
  OBVIOUS
<1>2. ASSUME Carries(<<>>, frames)
      PROVE  frames = <<>>
  <2>1. PICK at \in [1 .. Len(frames) -> 1 .. 0] : TRUE
    BY <1>1, <1>2, Zenon DEF Carries
  <2>2. ~(1 \in 1 .. Len(frames))
    BY <2>1
  <2> QED
    BY <1>1, <2>2
<1>3. ASSUME frames = <<>>
      PROVE  Carries(<<>>, frames)
  <2>1. Placed(<<>>, frames, [i \in 1 .. Len(frames) |-> 1])
    BY <1>1, <1>3 DEF Placed
  <2> QED
    BY <2>1 DEF Carries, Placed
<1> QED
  BY <1>2, <1>3

\* One more frame at the end.
LEMMA CarriesOneMore ==
    ASSUME NEW stream \in Seq(Byte), NEW frames \in Seq(Frames), Carries(stream, frames),
           NEW frame \in Frames
    PROVE  Carries(stream \o Wire(frame), Append(frames, frame))
<1> DEFINE n == Len(frames)
           size == Len(stream)
           longer == stream \o Wire(frame)
           more == Append(frames, frame)
<1>1. PICK at : Placed(stream, frames, at)
  BY Zenon DEF Carries
<1> DEFINE then == [i \in 1 .. n + 1 |-> IF i = n + 1 THEN size + 1 ELSE at[i]]
<1>2. /\ n \in Nat /\ size \in Nat
      /\ Len(frame) \in Nat /\ Wire(frame) \in Seq(Byte) /\ Len(Wire(frame)) = Len(frame) + 1
      /\ \A i \in 1 .. n : Len(frames[i]) \in Nat
  BY FramesOfASequence, WireOfAFrame
<1>3. /\ longer \in Seq(Byte) /\ Len(longer) = size + Len(frame) + 1
      /\ \A p \in 1 .. size : longer[p] = stream[p]
      /\ \A k \in 1 .. Len(frame) + 1 : longer[size + k] = Wire(frame)[k]
  <2>1. /\ longer \in Seq(Byte) /\ Len(longer) = size + Len(Wire(frame))
        /\ \A i \in 1 .. size + Len(Wire(frame)) : longer[i] =
             IF i <= size THEN stream[i] ELSE Wire(frame)[i - size]
    BY <1>2, ConcatProperties
  <2> HIDE DEF longer, size
  <2>2. Len(longer) = size + Len(frame) + 1
    BY <1>2, <2>1
  <2>3. ASSUME NEW p \in 1 .. size
        PROVE  longer[p] = stream[p]
    <3>1. p \in 1 .. size + Len(Wire(frame)) /\ p <= size
      BY <1>2
    <3> QED
      BY <2>1, <3>1, Zenon
  <2>4. ASSUME NEW k \in 1 .. Len(frame) + 1
        PROVE  longer[size + k] = Wire(frame)[k]
    <3>1. size + k \in 1 .. size + Len(Wire(frame)) /\ ~(size + k <= size) /\ (size + k) - size = k
      BY <1>2
    <3> QED
      BY <2>1, <3>1, Zenon
  <2> QED
    BY <2>1, <2>2, <2>3, <2>4, Zenon
<1>4. /\ Len(more) = n + 1 /\ more[n + 1] = frame
      /\ \A i \in 1 .. n : more[i] = frames[i]
  BY AppendProperties
<1>5. /\ \A i \in 1 .. n : at[i] \in 1 .. size /\ at[i] + Len(frames[i]) <= size
      /\ \A i \in 1 .. n : \A k \in 0 .. Len(frames[i]) :
           stream[at[i] + k] = Wire(frames[i])[k + 1]
      /\ \A i, j \in 1 .. n : i < j => at[i] + Len(frames[i]) < at[j]
      /\ \A p \in 1 .. size : stream[p] = StartByte =>
           \E i \in 1 .. n : at[i] <= p /\ p <= at[i] + Len(frames[i])
  BY <1>1 DEF Placed
<1> HIDE DEF longer, more, n, size
<1>6. then \in [1 .. n + 1 -> 1 .. size + Len(frame) + 1]
  BY <1>2, <1>5
<1>7. /\ then[n + 1] = size + 1
      /\ \A i \in 1 .. n : then[i] = at[i]
  BY <1>2
<1> HIDE DEF then
<1>8. ASSUME NEW i \in 1 .. n + 1
      PROVE  then[i] + Len(more[i]) <= size + Len(frame) + 1
  <2>1. CASE i = n + 1
    <3>1. then[i] = size + 1 /\ Len(more[i]) = Len(frame)
      BY <1>4, <1>7, <2>1
    <3> QED
      BY <1>2, <3>1
  <2>2. CASE i \in 1 .. n
    <3>1. then[i] = at[i] /\ more[i] = frames[i]
      BY <1>4, <1>7, <2>2
    <3>2. at[i] \in 1 .. size /\ at[i] + Len(frames[i]) <= size /\ Len(frames[i]) \in Nat
      BY <1>2, <1>5, <2>2
    <3> HIDE DEF size
    <3>3. at[i] + Len(frames[i]) <= size + Len(frame) + 1
      BY <1>2, <3>2
    <3> QED
      BY <3>1, <3>3
  <2> QED
    BY <1>2, <2>1, <2>2
<1>9. ASSUME NEW i \in 1 .. n + 1, NEW k \in 0 .. Len(more[i])
      PROVE  longer[then[i] + k] = Wire(more[i])[k + 1]
  <2>1. CASE i = n + 1
    <3>1. then[i] = size + 1 /\ more[i] = frame /\ k \in 0 .. Len(frame)
      BY <1>4, <1>7, <1>9, <2>1
    <3>2. k + 1 \in 1 .. Len(frame) + 1 /\ then[i] + k = size + (k + 1)
      BY <1>2, <3>1
    <3> QED
      BY <1>3, <3>1, <3>2, Zenon
  <2>2. CASE i \in 1 .. n
    <3>1. then[i] = at[i] /\ more[i] = frames[i] /\ k \in 0 .. Len(frames[i])
      BY <1>4, <1>7, <1>9, <2>2
    <3>2. at[i] + k \in 1 .. size
      <4>1. at[i] \in 1 .. size /\ at[i] + Len(frames[i]) <= size /\ Len(frames[i]) \in Nat
        BY <1>2, <1>5, <2>2
      <4> QED
        BY <1>2, <3>1, <4>1
    <3> QED
      BY <1>3, <1>5, <2>2, <3>1, <3>2, Zenon
  <2> QED
    BY <1>2, <2>1, <2>2
<1>10. \A i, j \in 1 .. n + 1 : i < j => then[i] + Len(more[i]) < then[j]
  <2> SUFFICES ASSUME NEW i \in 1 .. n + 1, NEW j \in 1 .. n + 1, i < j
               PROVE  then[i] + Len(more[i]) < then[j]
    OBVIOUS
  <2>1. i \in 1 .. n /\ then[i] = at[i] /\ more[i] = frames[i]
    BY <1>2, <1>4, <1>7
  <2>2. CASE j = n + 1
    BY <1>2, <1>5, <1>7, <2>1, <2>2
  <2>3. CASE j \in 1 .. n
    BY <1>5, <1>7, <2>1, <2>3
  <2> QED
    BY <1>2, <2>2, <2>3
<1>11. ASSUME NEW p \in 1 .. size + Len(frame) + 1, longer[p] = StartByte
       PROVE  \E i \in 1 .. n + 1 : then[i] <= p /\ p <= then[i] + Len(more[i])
  <2>1. CASE p \in 1 .. size
    <3>1. PICK i \in 1 .. n : at[i] <= p /\ p <= at[i] + Len(frames[i])
      BY <1>3, <1>5, <1>11, <2>1
    <3>2. i \in 1 .. n + 1 /\ then[i] = at[i] /\ more[i] = frames[i]
      BY <1>2, <1>4, <1>7
    <3> QED
      BY <3>1, <3>2
  <2>2. CASE ~(p \in 1 .. size)
    <3>1. n + 1 \in 1 .. n + 1 /\ size + 1 <= p /\ p <= (size + 1) + Len(frame)
      BY <1>2, <2>2
    <3> QED
      BY <1>4, <1>7, <3>1
  <2> QED
    BY <2>1, <2>2
<1>12. Placed(longer, more, then)
  BY <1>3, <1>4, <1>6, <1>8, <1>9, <1>10, <1>11 DEF Placed
<1> QED
  BY <1>12, Zenon DEF Carries, Placed, longer, more

\* A byte between two frames does no harm.
LEMMA CarriesNoise ==
    ASSUME NEW stream \in Seq(Byte), NEW frames \in Seq(Frames), Carries(stream, frames),
           NEW byte \in Byte, byte # StartByte
    PROVE  Carries(Append(stream, byte), frames)
<1> DEFINE n == Len(frames)
           size == Len(stream)
           longer == Append(stream, byte)
<1>1. PICK at : Placed(stream, frames, at)
  BY Zenon DEF Carries
<1>2. n \in Nat /\ size \in Nat /\ \A i \in 1 .. n : Len(frames[i]) \in Nat
  BY FramesOfASequence
<1>3. /\ Len(longer) = size + 1 /\ longer[size + 1] = byte
      /\ \A p \in 1 .. size : longer[p] = stream[p]
  BY AppendProperties
<1>4. /\ at \in [1 .. n -> 1 .. size]
      /\ \A i \in 1 .. n : at[i] \in 1 .. size /\ at[i] + Len(frames[i]) <= size
      /\ \A i \in 1 .. n : \A k \in 0 .. Len(frames[i]) :
           stream[at[i] + k] = Wire(frames[i])[k + 1]
      /\ \A i, j \in 1 .. n : i < j => at[i] + Len(frames[i]) < at[j]
      /\ \A p \in 1 .. size : stream[p] = StartByte =>
           \E i \in 1 .. n : at[i] <= p /\ p <= at[i] + Len(frames[i])
  BY <1>1 DEF Placed
<1> HIDE DEF longer, n, size
<1>5. at \in [1 .. n -> 1 .. size + 1] /\ \A i \in 1 .. n : at[i] + Len(frames[i]) <= size + 1
  BY <1>2, <1>4
<1>6. ASSUME NEW i \in 1 .. n, NEW k \in 0 .. Len(frames[i])
      PROVE  longer[at[i] + k] = Wire(frames[i])[k + 1]
  <2>1. at[i] + k \in 1 .. size
    BY <1>2, <1>4
  <2> QED
    BY <1>3, <1>4, <2>1, Zenon
<1>7. ASSUME NEW p \in 1 .. size + 1, longer[p] = StartByte
      PROVE  \E i \in 1 .. n : at[i] <= p /\ p <= at[i] + Len(frames[i])
  <2>1. p \in 1 .. size
    BY <1>2, <1>3, <1>7
  <2> QED
    BY <1>3, <1>4, <1>7, <2>1
<1>8. Placed(longer, frames, at)
  BY <1>3, <1>4, <1>5, <1>6, <1>7, Zenon DEF Placed, n
<1> QED
  BY <1>8, Zenon DEF Carries, Placed, longer

\* The first start byte of a stream begins the first frame that it carries.
LEMMA StartBeginsAFrame ==
    ASSUME NEW stream \in Seq(Byte), NEW frames \in Seq(Frames), NEW at,
           Placed(stream, frames, at), stream # <<>>, stream[1] = StartByte
    PROVE  /\ Len(frames) >= 1 /\ at[1] = 1
           /\ Len(frames[1]) + 1 <= Len(stream)
           /\ \A k \in 1 .. Len(frames[1]) + 1 : stream[k] = Wire(frames[1])[k]
<1> DEFINE n == Len(frames)
           size == Len(stream)
<1>1. /\ n \in Nat /\ size \in Nat /\ size >= 1
      /\ \A i \in 1 .. n : Len(frames[i]) \in Nat
  BY FramesOfASequence
<1>2. /\ \A i \in 1 .. n : at[i] \in 1 .. size /\ at[i] + Len(frames[i]) <= size
      /\ \A i \in 1 .. n : \A k \in 0 .. Len(frames[i]) :
           stream[at[i] + k] = Wire(frames[i])[k + 1]
      /\ \A i, j \in 1 .. n : i < j => at[i] + Len(frames[i]) < at[j]
      /\ \A p \in 1 .. size : stream[p] = StartByte =>
           \E i \in 1 .. n : at[i] <= p /\ p <= at[i] + Len(frames[i])
  BY DEF Placed
<1> HIDE DEF n, size
<1>3. PICK i \in 1 .. n : at[i] <= 1
  <2>1. 1 \in 1 .. size
    BY <1>1
  <2> QED
    BY <1>2, <2>1
<1>4. 1 \in 1 .. n /\ n >= 1
  BY <1>1
<1>5. /\ at[1] \in 1 .. size /\ at[1] + Len(frames[1]) <= size /\ Len(frames[1]) \in Nat
      /\ at[i] \in 1 .. size
  BY <1>1, <1>2, <1>4
<1>6. at[1] = 1
  <2>1. CASE i = 1
    BY <1>3, <1>5, <2>1
  <2>2. CASE 1 < i
    <3>1. at[1] + Len(frames[1]) < at[i]
      BY <1>2, <1>4, <2>2
    <3> QED
      BY <1>3, <1>5, <3>1
  <2> QED
    BY <1>1, <2>1, <2>2
<1>7. ASSUME NEW k \in 1 .. Len(frames[1]) + 1
      PROVE  stream[k] = Wire(frames[1])[k]
  <2>1. k - 1 \in 0 .. Len(frames[1]) /\ 1 + (k - 1) = k /\ (k - 1) + 1 = k
    BY <1>5
  <2>2. stream[at[1] + (k - 1)] = Wire(frames[1])[(k - 1) + 1]
    BY <1>2, <1>4, <2>1
  <2> QED
    BY <1>6, <2>1, <2>2
<1>8. Len(frames[1]) + 1 <= size
  <2>1. 1 + Len(frames[1]) <= size
    BY <1>5, <1>6
  <2> QED
    BY <1>1, <1>5, <2>1
<1> QED
  BY <1>4, <1>6, <1>7, <1>8 DEF n, size

\* What is left of a stream after `gone` bytes, none of which belongs to a frame in `left`.
Dropped(stream, rest, gone) ==
    /\ Len(stream) = Len(rest) + gone
    /\ \A p \in 1 .. Len(rest) : rest[p] = stream[p + gone]

LEMMA PlacesMove ==
    ASSUME NEW a \in Int, NEW length \in Nat, NEW size \in Nat, NEW left \in Nat, NEW gone \in Nat,
           size = left + gone, gone < a, a + length <= size
    PROVE  /\ a - gone \in 1 .. left /\ (a - gone) + length <= left
           /\ \A k \in 0 .. length : /\ (a - gone) + k \in 1 .. left
                                    /\ ((a - gone) + k) + gone = a + k
OBVIOUS

LEMMA DropAByte ==
    ASSUME NEW stream \in Seq(Byte), NEW frames \in Seq(Frames), Carries(stream, frames),
           stream # <<>>, stream[1] # StartByte, NEW rest \in Seq(Byte), Dropped(stream, rest, 1)
    PROVE  Carries(rest, frames)
<1> DEFINE n == Len(frames)
           size == Len(stream)
           left == Len(rest)
<1>1. PICK at : Placed(stream, frames, at)
  BY Zenon DEF Carries
<1> DEFINE then == [i \in 1 .. n |-> at[i] - 1]
<1>2. /\ n \in Nat /\ size \in Nat /\ left \in Nat
      /\ \A i \in 1 .. n : frames[i] \in Frames /\ Len(frames[i]) \in Nat
      /\ size = left + 1
      /\ \A p \in 1 .. left : rest[p] = stream[p + 1]
  BY FramesOfASequence DEF Dropped
<1>3. /\ \A i \in 1 .. n : at[i] \in 1 .. size /\ at[i] + Len(frames[i]) <= size
      /\ \A i \in 1 .. n : \A k \in 0 .. Len(frames[i]) :
           stream[at[i] + k] = Wire(frames[i])[k + 1]
      /\ \A i, j \in 1 .. n : i < j => at[i] + Len(frames[i]) < at[j]
      /\ \A p \in 1 .. size : stream[p] = StartByte =>
           \E i \in 1 .. n : at[i] <= p /\ p <= at[i] + Len(frames[i])
  BY <1>1 DEF Placed
<1> HIDE DEF n, size, left
<1>4. ASSUME NEW i \in 1 .. n
      PROVE  /\ at[i] - 1 \in 1 .. left /\ (at[i] - 1) + Len(frames[i]) <= left
             /\ \A k \in 0 .. Len(frames[i]) : /\ (at[i] - 1) + k \in 1 .. left
                                              /\ ((at[i] - 1) + k) + 1 = at[i] + k
  <2>1. at[i] \in 1 .. size /\ at[i] + Len(frames[i]) <= size /\ Len(frames[i]) \in Nat
    BY <1>2, <1>3
  <2>2. at[i] # 1
    <3>1. 0 \in 0 .. Len(frames[i])
      BY <2>1
    <3>2. stream[at[i] + 0] = Wire(frames[i])[0 + 1]
      BY <1>3, <3>1
    <3>3. Wire(frames[i])[1] = StartByte
      BY <1>2, WireOfAFrame
    <3>4. at[i] + 0 = at[i] /\ 0 + 1 = 1
      BY <2>1
    <3> QED
      BY <3>2, <3>3, <3>4
  <2>3. at[i] \in Int /\ 1 < at[i]
    BY <1>2, <2>1, <2>2
  <2>4. 1 \in Nat
    OBVIOUS
  <2>5. \A a \in Int, length \in Nat : 1 < a /\ a + length <= size =>
          /\ a - 1 \in 1 .. left /\ (a - 1) + length <= left
          /\ \A k \in 0 .. length : (a - 1) + k \in 1 .. left /\ ((a - 1) + k) + 1 = a + k
    BY <1>2, <2>4, PlacesMove
  <2> QED
    BY <2>1, <2>3, <2>5, Zenon
<1>5. then \in [1 .. n -> 1 .. left] /\ \A i \in 1 .. n : then[i] = at[i] - 1
  BY <1>4
<1> HIDE DEF then
<1>6. ASSUME NEW i \in 1 .. n, NEW k \in 0 .. Len(frames[i])
      PROVE  rest[then[i] + k] = Wire(frames[i])[k + 1]
  <2>1. at[i] - 1 \in 1 .. left /\ (at[i] - 1) + Len(frames[i]) <= left /\ Len(frames[i]) \in Nat
        /\ at[i] \in 1 .. size
    BY <1>2, <1>3, <1>4
  <2>2. (at[i] - 1) + k \in 1 .. left /\ ((at[i] - 1) + k) + 1 = at[i] + k
    BY <1>4, Zenon
  <2>3. rest[(at[i] - 1) + k] = stream[at[i] + k]
    BY <1>2, <2>2
  <2> QED
    BY <1>3, <1>5, <2>3
<1>7. ASSUME NEW i \in 1 .. n, NEW j \in 1 .. n, i < j
      PROVE  then[i] + Len(frames[i]) < then[j]
  <2>1. at[i] \in 1 .. size /\ at[j] \in 1 .. size /\ Len(frames[i]) \in Nat
        /\ at[i] + Len(frames[i]) < at[j]
    BY <1>2, <1>3, <1>7
  <2>2. (at[i] - 1) + Len(frames[i]) < at[j] - 1
    BY <1>2, <2>1
  <2> QED
    BY <1>5, <2>2
<1>8. ASSUME NEW p \in 1 .. left, rest[p] = StartByte
      PROVE  \E i \in 1 .. n : then[i] <= p /\ p <= then[i] + Len(frames[i])
  <2>1. p + 1 \in 1 .. size /\ stream[p + 1] = StartByte
    BY <1>2, <1>8
  <2>2. PICK i \in 1 .. n : at[i] <= p + 1 /\ p + 1 <= at[i] + Len(frames[i])
    BY <1>3, <2>1
  <2>3. at[i] \in 1 .. size /\ Len(frames[i]) \in Nat
    BY <1>2, <1>3
  <2>4. at[i] - 1 <= p /\ p <= (at[i] - 1) + Len(frames[i])
    BY <1>2, <2>2, <2>3
  <2> QED
    BY <1>5, <2>4
<1>9. Placed(rest, frames, then)
  <2>1. \A i \in 1 .. n : then[i] + Len(frames[i]) <= left
    BY <1>4, <1>5
  <2> QED
    BY <1>5, <1>6, <1>7, <1>8, <2>1, Zenon DEF Placed, n, left
<1> QED
  BY <1>9, Zenon DEF Carries, Placed

LEMMA DropAFrame ==
    ASSUME NEW stream \in Seq(Byte), NEW frames \in Seq(Frames), Carries(stream, frames),
           stream # <<>>, stream[1] = StartByte, NEW rest \in Seq(Byte),
           Dropped(stream, rest, Len(frames[1]) + 1)
    PROVE  Carries(rest, Tail(frames))
<1> DEFINE n == Len(frames)
           size == Len(stream)
           left == Len(rest)
           gone == Len(frames[1]) + 1
           later == Tail(frames)
<1>1. PICK at : Placed(stream, frames, at)
  BY Zenon DEF Carries
<1> DEFINE then == [i \in 1 .. n - 1 |-> at[i + 1] - gone]
<1>2. n >= 1 /\ at[1] = 1
  BY <1>1, StartBeginsAFrame
<1>3. /\ n \in Nat /\ size \in Nat /\ left \in Nat /\ gone \in Nat /\ gone >= 1
      /\ \A i \in 1 .. n : Len(frames[i]) \in Nat
  BY <1>2, FramesOfASequence
<1>4. size = left + gone /\ \A p \in 1 .. left : rest[p] = stream[p + gone]
  BY Zenon DEF Dropped
<1>5. /\ later \in Seq(Frames) /\ Len(later) = n - 1
      /\ \A i \in 1 .. n - 1 : later[i] = frames[i + 1]
  <2>1. frames # <<>>
    BY <1>2
  <2> QED
    BY <2>1, HeadTailProperties
<1>6. /\ \A i \in 1 .. n : at[i] \in 1 .. size /\ at[i] + Len(frames[i]) <= size
      /\ \A i \in 1 .. n : \A k \in 0 .. Len(frames[i]) :
           stream[at[i] + k] = Wire(frames[i])[k + 1]
      /\ \A i, j \in 1 .. n : i < j => at[i] + Len(frames[i]) < at[j]
      /\ \A p \in 1 .. size : stream[p] = StartByte =>
           \E i \in 1 .. n : at[i] <= p /\ p <= at[i] + Len(frames[i])
  BY <1>1 DEF Placed
<1>7. 1 + Len(frames[1]) = gone
  <2>1. Len(frames[1]) \in Nat
    BY <1>2, <1>3
  <2> QED
    BY <2>1
<1> HIDE DEF n, size, left, gone, later
<1>8. ASSUME NEW i \in 1 .. n - 1
      PROVE  /\ i + 1 \in 1 .. n /\ at[i + 1] \in 1 .. size
             /\ Len(frames[i + 1]) \in Nat
             /\ at[i + 1] - gone \in 1 .. left
             /\ (at[i + 1] - gone) + Len(frames[i + 1]) <= left
             /\ \A k \in 0 .. Len(frames[i + 1]) :
                  /\ (at[i + 1] - gone) + k \in 1 .. left
                  /\ ((at[i + 1] - gone) + k) + gone = at[i + 1] + k
  <2>1. i + 1 \in 1 .. n /\ 1 \in 1 .. n /\ 1 < i + 1
    BY <1>2, <1>3
  <2>2. at[i + 1] \in 1 .. size /\ at[i + 1] + Len(frames[i + 1]) <= size
        /\ Len(frames[i + 1]) \in Nat
    BY <1>3, <1>6, <2>1
  <2>3. gone < at[i + 1]
    <3>1. at[1] + Len(frames[1]) < at[i + 1]
      BY <1>6, <2>1
    <3> QED
      BY <1>2, <1>7, <3>1
  <2>4. at[i + 1] \in Int
    BY <1>3, <2>2
  <2> QED
    <3>1. \A a \in Int, length \in Nat : gone < a /\ a + length <= size =>
            /\ a - gone \in 1 .. left /\ (a - gone) + length <= left
            /\ \A k \in 0 .. length : /\ (a - gone) + k \in 1 .. left
                                     /\ ((a - gone) + k) + gone = a + k
      BY <1>3, <1>4, PlacesMove
    <3> QED
      BY <2>1, <2>2, <2>3, <2>4, <3>1, Zenon
<1>9. then \in [1 .. n - 1 -> 1 .. left] /\ \A i \in 1 .. n - 1 : then[i] = at[i + 1] - gone
  BY <1>8
<1> HIDE DEF then
<1>10. \A i \in 1 .. n - 1 : then[i] + Len(later[i]) <= left
  BY <1>5, <1>8, <1>9
<1>11. ASSUME NEW i \in 1 .. n - 1, NEW k \in 0 .. Len(later[i])
       PROVE  rest[then[i] + k] = Wire(later[i])[k + 1]
  <2>1. later[i] = frames[i + 1] /\ k \in 0 .. Len(frames[i + 1])
    BY <1>5
  <2>2. (at[i + 1] - gone) + k \in 1 .. left /\ ((at[i + 1] - gone) + k) + gone = at[i + 1] + k
    BY <1>8, <2>1, Zenon
  <2>3. rest[(at[i + 1] - gone) + k] = stream[at[i + 1] + k]
    BY <1>4, <2>2
  <2>4. stream[at[i + 1] + k] = Wire(frames[i + 1])[k + 1]
    BY <1>6, <1>8, <2>1
  <2> QED
    BY <1>9, <2>1, <2>3, <2>4
<1>12. ASSUME NEW i \in 1 .. n - 1, NEW j \in 1 .. n - 1, i < j
       PROVE  then[i] + Len(later[i]) < then[j]
  <2>1. i + 1 < j + 1
    BY <1>3, <1>12
  <2>2. at[i + 1] + Len(frames[i + 1]) < at[j + 1]
    BY <1>6, <1>8, <2>1
  <2>3. at[i + 1] \in 1 .. size /\ at[j + 1] \in 1 .. size /\ Len(frames[i + 1]) \in Nat
    BY <1>8
  <2>4. (at[i + 1] - gone) + Len(frames[i + 1]) < at[j + 1] - gone
    BY <1>3, <2>2, <2>3
  <2> QED
    BY <1>5, <1>9, <2>4
<1>13. ASSUME NEW p \in 1 .. left, rest[p] = StartByte
       PROVE  \E i \in 1 .. n - 1 : then[i] <= p /\ p <= then[i] + Len(later[i])
  <2>1. p + gone \in 1 .. size /\ stream[p + gone] = StartByte /\ gone < p + gone
    BY <1>3, <1>4, <1>13
  <2>2. PICK i \in 1 .. n : at[i] <= p + gone /\ p + gone <= at[i] + Len(frames[i])
    BY <1>6, <2>1
  <2>3. at[i] \in 1 .. size /\ Len(frames[i]) \in Nat
    BY <1>3, <1>6
  <2>4. i # 1
    BY <1>2, <1>3, <1>7, <2>1, <2>2
  <2>5. i - 1 \in 1 .. n - 1 /\ (i - 1) + 1 = i
    BY <1>3, <2>4
  <2>6. at[i] - gone <= p /\ p <= (at[i] - gone) + Len(frames[i])
    BY <1>3, <2>2, <2>3
  <2>7. then[i - 1] = at[i] - gone /\ later[i - 1] = frames[i]
    BY <1>5, <1>9, <2>5
  <2> QED
    BY <2>5, <2>6, <2>7
<1>14. Placed(rest, later, then)
  BY <1>5, <1>9, <1>10, <1>11, <1>12, <1>13, Zenon DEF Placed, left
<1> QED
  BY <1>14, Zenon DEF Carries, Placed, later

-----------------------------------------------------------------------------
Stream == Resynced(parser).buffer \o (uart \o line)

\* In step, the stream carries what is due; out of step, nothing is.
StreamInv ==
    /\ parser.found_start => parser.buffer # <<>> /\ parser.buffer[1] = StartByte
    /\ in_step => Carries(Stream, due)
    /\ ~in_step => due = <<>>

LEMMA StreamType ==
    ASSUME TypeOK
    PROVE  /\ Resynced(parser) \in Parser /\ Resynced(parser).buffer \in Seq(Byte)
           /\ uart \o line \in Seq(Byte) /\ Stream \in Seq(Byte)
<1>1. Resynced(parser) \in Parser
  BY DEF TypeOK, Resynced, Reset, Parser
<1>2. Resynced(parser).buffer \in Seq(Byte)
  BY <1>1 DEF Parser
<1>3. uart \o line \in Seq(Byte)
  BY ConcatProperties DEF TypeOK
<1> QED
  BY <1>1, <1>2, <1>3, ConcatProperties DEF Stream

LEMMA InitStream == Init => StreamInv
<1> SUFFICES ASSUME Init PROVE StreamInv
  OBVIOUS
<1>1. parser = Reset /\ uart = <<>> /\ line = <<>> /\ in_step = TRUE /\ due = <<>>
  BY DEF Init
<1>2. Resynced(parser).buffer = <<>>
  BY <1>1 DEF Resynced, Reset
<1>3. Stream = <<>>
  <2>1. <<>> \in Seq(Byte)
    OBVIOUS
  <2>2. <<>> \o <<>> = <<>>
    BY <2>1, ConcatEmptySeq
  <2> QED
    BY <1>1, <1>2, <2>2 DEF Stream
<1>4. Carries(<<>>, <<>>)
  <2>1. <<>> \in Seq(Frames)
    OBVIOUS
  <2> QED
    BY <2>1, EmptyCarriesNothing, Zenon
<1> QED
  BY <1>1, <1>3, <1>4 DEF StreamInv, Reset

\* The next byte of the stream is the one that process_input reads.
LEMMA NextByte ==
    ASSUME NEW buffer \in Seq(Byte), NEW first \in Seq(Byte), NEW last \in Seq(Byte), first # <<>>
    PROVE  /\ Head(first) \in Byte
           /\ buffer \o (first \o last) = Append(buffer, Head(first)) \o (Tail(first) \o last)
<1>1. Head(first) \in Byte /\ Tail(first) \in Seq(Byte)
  BY HeadTailProperties
<1>2. first = <<Head(first)>> \o Tail(first)
  <2>1. 1 \in 1 .. Len(first) /\ Len(first) \in 1 .. Len(first) /\ 1 + 1 = 2
    OBVIOUS
  <2>2. SubSeq(first, 1, Len(first)) = <<first[1]>> \o SubSeq(first, 1 + 1, Len(first))
    BY <2>1, SubSeqRecursiveFirst
  <2>3. SubSeq(first, 1, Len(first)) = first /\ Tail(first) = SubSeq(first, 2, Len(first))
    BY SubSeqFull, TailIsSubSeq
  <2>4. Head(first) = first[1]
    OBVIOUS
  <2> QED
    BY <2>1, <2>2, <2>3, <2>4
<1> DEFINE byte == Head(first)
           later == Tail(first)
<1> HIDE DEF byte, later
<1>3. byte \in Byte /\ later \in Seq(Byte) /\ first = <<byte>> \o later
  BY <1>1, <1>2 DEF byte, later
<1>4. <<byte>> \in Seq(Byte) /\ later \o last \in Seq(Byte)
  BY <1>3, ConcatProperties
<1>5. first \o last = <<byte>> \o (later \o last)
  BY <1>3, <1>4, ConcatAssociative
<1>6. buffer \o (<<byte>> \o (later \o last)) = (buffer \o <<byte>>) \o (later \o last)
  <2>1. \A s, t, u \in Seq(Byte) : (s \o t) \o u = s \o (t \o u)
    BY ConcatAssociative
  <2> QED
    BY <1>4, <2>1, Zenon
<1>7. Append(buffer, byte) = buffer \o <<byte>>
  BY <1>3, AppendIsConcat
<1> QED
  BY <1>1, <1>5, <1>6, <1>7, Zenon DEF byte, later

BeginsWithStart(p) == p.found_start => p.buffer # <<>> /\ p.buffer[1] = StartByte

LEMMA AppendKeepsTheStart ==
    ASSUME NEW buffer \in Seq(Byte), NEW byte \in Byte, buffer # <<>>, buffer[1] = StartByte
    PROVE  Append(buffer, byte) # <<>> /\ Append(buffer, byte)[1] = StartByte
<1>1. 1 \in 1 .. Len(buffer)
  OBVIOUS
<1> QED
  BY <1>1, AppendProperties

LEMMA FeedBeginsWithStart ==
    ASSUME NEW p, Unfinished(p), BeginsWithStart(p), NEW byte \in Byte
    PROVE  BeginsWithStart(feed(p, byte))
<1> DEFINE fed == feed(p, byte)
           full == \/ Len(p.buffer) >= MAX_FRAME_BYTES
                   \/ LengthAfter(p, byte) + 6 > MAX_FRAME_BYTES
<1>1. p \in Parser /\ ~p.frame_complete /\ p.buffer \in Seq(Byte)
  BY DEF Unfinished, Parser
<1>2. CASE ~p.found_start
  <2>1. fed = p \/ fed = [p EXCEPT !.found_start = TRUE, !.buffer = <<StartByte>>]
    BY <1>1, <1>2 DEF feed
  <2>2. [p EXCEPT !.found_start = TRUE, !.buffer = <<StartByte>>].buffer = <<StartByte>>
    BY <1>1 DEF Parser
  <2>3. <<StartByte>> # <<>> /\ <<StartByte>>[1] = StartByte
    OBVIOUS
  <2>4. CASE fed = p
    BY <1>2, <2>4 DEF BeginsWithStart
  <2>5. CASE fed.buffer = <<StartByte>>
    <3> HIDE DEF fed
    <3>1. fed.buffer # <<>> /\ fed.buffer[1] = StartByte
      BY <2>3, <2>5
    <3> QED
      BY <3>1 DEF fed, BeginsWithStart
  <2> QED
    BY <2>1, <2>2, <2>4, <2>5, Zenon
<1>3. CASE p.found_start /\ full
  <2>1. fed = Reset
    BY <1>1, <1>3 DEF feed, LengthAfter
  <2> QED
    BY <2>1 DEF BeginsWithStart, Reset
<1>4. CASE p.found_start /\ ~full
  <2>1. Takes(p, byte, fed)
    BY <1>1, <1>4, Zenon DEF feed, LengthAfter, Takes
  <2>2. fed.buffer = Append(p.buffer, byte)
    BY <1>1, <2>1 DEF Takes, Parser
  <2> QED
    BY <1>1, <1>4, <2>2, AppendKeepsTheStart DEF BeginsWithStart
<1> QED
  BY <1>2, <1>3, <1>4

\* How the parser reads a frame: `sent` is the frame, `p` has its first bytes.
LEMMA FrameIsTaken ==
    ASSUME NEW p, Unfinished(p), p.found_start, p.buffer # <<>>, NEW byte \in Byte,
           NEW sent \in Frames,
           \A i \in 1 .. Len(p.buffer) : i <= Len(sent) + 1 => p.buffer[i] = Wire(sent)[i],
           Len(p.buffer) <= Len(sent) => byte = Wire(sent)[Len(p.buffer) + 1]
    PROVE  /\ Len(p.buffer) <= Len(sent)
           /\ feed(p, byte).found_start
           /\ feed(p, byte).buffer = Append(p.buffer, byte)
           /\ feed(p, byte).frame_complete <=> Len(p.buffer) = Len(sent)
<1> DEFINE read == Len(p.buffer)
           size == Len(sent)
           length == LengthAfter(p, byte)
           data_length == p.data_length
           had == p.buffer[5]
           fed == feed(p, byte)
<1>1. p \in Parser /\ ~p.frame_complete /\ read \in Nat /\ byte \in Int
  BY DEF Unfinished, Parser, Byte
<1>2. /\ data_length \in -1 .. 255
      /\ read <= 4 => data_length = -1
      /\ read > 4 => data_length = had /\ read <= data_length + 5
  BY DEF Unfinished, Parser
<1>3. size \in Nat /\ size >= 5 /\ Wire(sent)[5] = size - 5 /\ size < MAX_FRAME_BYTES
      /\ MAX_FRAME_BYTES \in Nat /\ MAX_FRAME_BYTES > 6
  BY WireOfAFrame, FrameParserAssumption
<1>4. length = IF read = 4 THEN byte ELSE data_length
  BY DEF LengthAfter
<1>5. read > 4 => had = size - 5
  <2> SUFFICES ASSUME read > 4
               PROVE  had = size - 5
    OBVIOUS
  <2>1. 5 \in 1 .. Len(p.buffer) /\ 5 <= Len(sent) + 1
    BY <1>1, <1>3
  <2>2. p.buffer[5] = Wire(sent)[5]
    BY <2>1
  <2> QED
    BY <1>3, <2>2
<1>6. read = 4 => byte = size - 5
  <2> SUFFICES ASSUME read = 4
               PROVE  byte = size - 5
    OBVIOUS
  <2>1. read <= size /\ read + 1 = 5
    BY <1>3
  <2>2. byte = Wire(sent)[5]
    BY <2>1
  <2> QED
    BY <1>3, <2>2
<1> HIDE DEF read, size, length, data_length, had
<1>7. /\ read <= size
      /\ length \in -1 .. 255
      /\ length >= 0 /\ read = length + 5 <=> read = size
      /\ ~(read >= MAX_FRAME_BYTES \/ length + 6 > MAX_FRAME_BYTES)
  <2>1. CASE read < 4
    <3>1. length = -1
      BY <1>1, <1>2, <1>4, <2>1
    <3> QED
      BY <1>1, <1>3, <2>1, <3>1
  <2>2. CASE read = 4
    <3>1. length = size - 5 /\ length \in 0 .. 255
      <4>1. byte \in 0 .. 255
        BY DEF Byte
      <4> QED
        BY <1>4, <1>6, <2>2, <4>1
    <3> QED
      BY <1>1, <1>3, <2>2, <3>1
  <2>3. CASE read > 4
    <3>1. length = size - 5 /\ read <= length + 5 /\ length \in -1 .. 255
      BY <1>1, <1>2, <1>4, <1>5, <2>3
    <3> QED
      BY <1>1, <1>3, <2>3, <3>1
  <2> QED
    BY <1>1, <2>1, <2>2, <2>3
<1>8. Takes(p, byte, fed)
  <2>1. ~(Len(p.buffer) >= MAX_FRAME_BYTES \/ LengthAfter(p, byte) + 6 > MAX_FRAME_BYTES)
    BY <1>7 DEF read, length
  <2> QED
    BY <1>1, <2>1, Zenon DEF feed, LengthAfter, Takes
<1> HIDE DEF fed
<1>9. /\ fed.found_start /\ fed.buffer = Append(p.buffer, byte)
      /\ fed.frame_complete <=> length >= 0 /\ read = length + 5
  BY <1>1, <1>7, <1>8, TakenFields, Zenon DEF length, read
<1> QED
  BY <1>7, <1>9, Zenon DEF read, size, fed

\* A frame that was read to its end is the one that was sent, and is valid.
LEMMA WholeFrame ==
    ASSUME NEW fed, NEW sent \in Frames, fed.buffer = Wire(sent)
    PROVE  checksum_valid(fed) /\ Front(fed.buffer) = sent
<1>1. /\ sent \in Seq(Byte) /\ Len(sent) \in Nat /\ Wire(sent) \in Seq(Byte)
      /\ Len(Wire(sent)) = Len(sent) + 1
      /\ Wire(sent)[Len(sent) + 1] = checksum(sent)
      /\ \A i \in 1 .. Len(sent) : Wire(sent)[i] = sent[i]
  BY WireOfAFrame
<1>2. Front(Wire(sent)) = SubSeq(Wire(sent), 1, Len(sent))
  BY <1>1 DEF Front
<1>3. /\ SubSeq(Wire(sent), 1, Len(sent)) \in Seq(Byte)
      /\ Len(SubSeq(Wire(sent), 1, Len(sent))) = Len(sent)
      /\ \A i \in 1 .. Len(sent) : SubSeq(Wire(sent), 1, Len(sent))[i] = Wire(sent)[i]
  BY <1>1
<1>4. Front(Wire(sent)) = sent
  BY <1>1, <1>2, <1>3, SeqEqual
<1>5. Last(Wire(sent)) = checksum(sent)
  BY <1>1 DEF Last
<1> QED
  BY <1>4, <1>5, Zenon DEF checksum_valid

LEMMA ProcessInStep ==
    ASSUME ParserInv, StreamInv, process_input, in_step
    PROVE  Carries(Stream', due') /\ BeginsWithStart(parser')
<1> DEFINE p == Resynced(parser)
           byte == Head(uart)
           rest == Tail(uart) \o line
           fed == feed(p, byte)
           size == Len(p.buffer)
<1>1. /\ TypeOK /\ Unfinished(parser) /\ uart # <<>>
      /\ uart \in Seq(Byte) /\ line \in Seq(Byte) /\ due \in Seq(Frames)
  BY DEF ParserInv, TypeOK, process_input
<1>2. /\ Unfinished(p) /\ BeginsWithStart(p) /\ p \in Parser /\ p.buffer \in Seq(Byte)
      /\ p.found_start \/ p.buffer = <<>>
  <2>1. Unfinished(p)
    BY <1>1, ResetIsUnfinished DEF Resynced
  <2>2. BeginsWithStart(p)
    BY DEF StreamInv, BeginsWithStart, Resynced, Reset
  <2> QED
    BY <2>1, <2>2 DEF Unfinished, Parser
<1>3. /\ byte \in Byte /\ Tail(uart) \in Seq(Byte) /\ rest \in Seq(Byte)
      /\ Stream = Append(p.buffer, byte) \o rest
  <2>1. byte \in Byte /\ Tail(uart) \in Seq(Byte)
    BY <1>1, HeadTailProperties
  <2>2. Stream = Append(p.buffer, byte) \o rest
    BY <1>1, <1>2, NextByte DEF Stream
  <2> QED
    BY <1>1, <2>1, <2>2, ConcatProperties
<1>4. /\ Append(p.buffer, byte) \in Seq(Byte) /\ Len(Append(p.buffer, byte)) = size + 1
      /\ Append(p.buffer, byte)[size + 1] = byte
      /\ \A i \in 1 .. size : Append(p.buffer, byte)[i] = p.buffer[i]
      /\ size \in Nat
  BY <1>2, <1>3, AppendProperties
<1>5. /\ Stream \in Seq(Byte) /\ Len(Stream) = (size + 1) + Len(rest) /\ Stream # <<>>
      /\ \A i \in 1 .. size + 1 : Stream[i] = Append(p.buffer, byte)[i]
      /\ \A i \in 1 .. Len(rest) : Stream[i + (size + 1)] = rest[i]
      /\ Len(rest) \in Nat
  <2> DEFINE appended == Append(p.buffer, byte)
  <2>1. /\ appended \o rest \in Seq(Byte) /\ Len(appended \o rest) = Len(appended) + Len(rest)
        /\ \A i \in 1 .. Len(appended) + Len(rest) : (appended \o rest)[i] =
             IF i <= Len(appended) THEN appended[i] ELSE rest[i - Len(appended)]
    BY <1>3, <1>4, ConcatProperties
  <2>2. Len(rest) \in Nat
    BY <1>3, LenProperties
  <2> HIDE DEF rest, size
  <2>3. /\ appended \o rest \in Seq(Byte) /\ Len(appended \o rest) = (size + 1) + Len(rest)
        /\ \A i \in 1 .. (size + 1) + Len(rest) : (appended \o rest)[i] =
             IF i <= size + 1 THEN appended[i] ELSE rest[i - (size + 1)]
    BY <1>4, <2>1, Zenon
  <2>4. \A i \in 1 .. size + 1 : i \in 1 .. (size + 1) + Len(rest) /\ i <= size + 1
    BY <1>4, <2>2
  <2>5. \A i \in 1 .. Len(rest) : /\ i + (size + 1) \in 1 .. (size + 1) + Len(rest)
                                  /\ ~(i + (size + 1) <= size + 1)
                                  /\ (i + (size + 1)) - (size + 1) = i
    BY <1>4, <2>2
  <2> HIDE DEF appended
  <2>6. /\ \A i \in 1 .. size + 1 : (appended \o rest)[i] = appended[i]
        /\ \A i \in 1 .. Len(rest) : (appended \o rest)[i + (size + 1)] = rest[i]
    BY <2>3, <2>4, <2>5, Zenon
  <2>7. appended \o rest # <<>>
    BY <1>4, <2>2, <2>3
  <2> QED
    BY <1>3, <2>2, <2>3, <2>6, <2>7 DEF appended
<1>6. /\ uart' = Tail(uart) /\ since_rx' = 0 /\ line' = line
      /\ fed.frame_complete => process_data_packet(fed) /\ parser' = Reset
      /\ ~fed.frame_complete => parser' = fed /\ due' = due
  BY Zenon DEF process_input
<1>7. Stream' = parser'.buffer \o rest
  <2>1. ~(since_rx' > FRAME_RESYNC_GAP)
    BY <1>6, FrameParserAssumption
  <2>2. Resynced(parser)' = parser'
    BY <2>1 DEF Resynced
  <2> QED
    BY <1>6, <2>2 DEF Stream
<1>8. Carries(Stream, due)
  BY DEF StreamInv
<1>9. BeginsWithStart(parser')
  <2>1. BeginsWithStart(fed)
    BY <1>2, <1>3, FeedBeginsWithStart
  <2> QED
    BY <1>6, <2>1 DEF BeginsWithStart, Reset
<1> HIDE DEF rest, p, byte
<1>10. CASE ~p.found_start /\ byte # StartByte
  <2>1. fed = p
    BY <1>2, <1>10 DEF feed, Unfinished
  <2>2. parser' = p /\ due' = due /\ p.buffer = <<>>
    BY <1>2, <1>6, <1>10, <2>1 DEF Unfinished
  <2>3. Stream' = rest
    BY <1>3, <1>7, <2>2, ConcatEmptySeq
  <2>4. size = 0
    BY <2>2
  <2>5. Stream[1] = byte /\ Dropped(Stream, rest, 1)
    <3>1. 1 \in 1 .. size + 1 /\ size + 1 = 1
      BY <2>4
    <3>2. Stream[1] = byte
      BY <1>4, <1>5, <3>1
    <3>3. Len(Stream) = Len(rest) + 1
      BY <1>5, <3>1
    <3>4. \A i \in 1 .. Len(rest) : rest[i] = Stream[i + 1]
      BY <1>5, <3>1, Zenon
    <3> QED
      BY <3>2, <3>3, <3>4 DEF Dropped
  <2>6. Carries(rest, due)
    BY <1>1, <1>3, <1>5, <1>8, <1>10, <2>5, DropAByte
  <2> QED
    BY <1>9, <2>2, <2>3, <2>6
<1>11. CASE ~p.found_start /\ byte = StartByte
  <2>1. fed = [p EXCEPT !.found_start = TRUE, !.buffer = <<byte>>] /\ p.buffer = <<>>
    BY <1>2, <1>11 DEF feed, Unfinished
  <2> HIDE DEF fed
  <2>2. ~fed.frame_complete /\ fed.buffer = <<byte>>
    BY <1>2, <2>1 DEF Parser, Unfinished
  <2>3. parser' = fed /\ due' = due
    BY <1>6, <2>2
  <2>4. Append(p.buffer, byte) = <<byte>>
    BY <2>1
  <2>5. Stream' = Stream
    BY <1>3, <1>7, <2>2, <2>3, <2>4
  <2> QED
    BY <1>8, <1>9, <2>3, <2>5
<1>12. CASE p.found_start
  <2> DEFINE sent == due[1]
             n == Len(due[1])
  <2>1. p.buffer # <<>> /\ p.buffer[1] = StartByte /\ size >= 1
    BY <1>2, <1>12 DEF BeginsWithStart
  <2>2. Stream[1] = StartByte
    <3>1. 1 \in 1 .. size /\ 1 \in 1 .. size + 1
      BY <1>4, <2>1
    <3> QED
      BY <1>4, <1>5, <2>1, <3>1
  <2>3. /\ Len(due) >= 1 /\ n + 1 <= Len(Stream)
        /\ \A k \in 1 .. n + 1 : Stream[k] = Wire(sent)[k]
    <3>1. PICK at : Placed(Stream, due, at)
      BY <1>8, Zenon DEF Carries
    <3> QED
      BY <1>1, <1>5, <2>2, <3>1, StartBeginsAFrame
  <2>4. sent \in Frames /\ n \in Nat /\ due # <<>> /\ Head(due) = sent
    <3>1. 1 \in 1 .. Len(due)
      BY <1>1, <2>3, FramesOfASequence
    <3>2. sent \in Frames /\ n \in Nat
      BY <1>1, <3>1, FramesOfASequence, Zenon
    <3> QED
      BY <1>1, <2>3, <3>2
  <2> HIDE DEF size, sent, n
  <2>5. \A i \in 1 .. size : i <= n + 1 => p.buffer[i] = Wire(sent)[i]
    <3> SUFFICES ASSUME NEW i \in 1 .. size, i <= n + 1
                 PROVE  p.buffer[i] = Wire(sent)[i]
      OBVIOUS
    <3>1. i \in 1 .. n + 1 /\ i \in 1 .. size + 1
      BY <1>4, <2>4
    <3> QED
      BY <1>4, <1>5, <2>3, <3>1, Zenon
  <2>6. size <= n => byte = Wire(sent)[size + 1]
    <3> SUFFICES ASSUME size <= n
                 PROVE  byte = Wire(sent)[size + 1]
      OBVIOUS
    <3>1. size + 1 \in 1 .. n + 1 /\ size + 1 \in 1 .. size + 1
      BY <1>4, <2>4
    <3> QED
      BY <1>4, <1>5, <2>3, <3>1, Zenon
  <2>7. /\ size <= n
        /\ fed.buffer = Append(p.buffer, byte)
        /\ fed.frame_complete <=> size = n
    BY <1>2, <1>3, <1>12, <2>1, <2>4, <2>5, <2>6, FrameIsTaken DEF size, sent, n
  <2> HIDE DEF fed
  <2>8. CASE ~fed.frame_complete
    <3>1. Stream' = Stream /\ due' = due
      BY <1>3, <1>6, <1>7, <2>7, <2>8
    <3> QED
      BY <1>8, <1>9, <3>1
  <2>9. CASE fed.frame_complete
    <3>1. size = n
      BY <2>7, <2>9
    <3>2. fed.buffer = Wire(sent)
      <4>1. Wire(sent) \in Seq(Byte) /\ Len(Wire(sent)) = size + 1
        BY <2>4, <3>1, WireOfAFrame DEF n, sent
      <4>2. \A i \in 1 .. size + 1 : Append(p.buffer, byte)[i] = Wire(sent)[i]
        BY <1>5, <2>3, <3>1, Zenon
      <4> QED
        BY <1>4, <2>7, <4>1, <4>2, SeqEqual
    <3>3. checksum_valid(fed) /\ Front(fed.buffer) = sent
      BY <2>4, <3>2, WholeFrame
    <3>4. due' = Tail(due)
      BY <1>6, <2>4, <2>9, <3>3 DEF process_data_packet
    <3>5. Stream' = rest
      <4>1. parser'.buffer = <<>>
        BY <1>6, <2>9 DEF Reset
      <4> QED
        BY <1>3, <1>7, <4>1, ConcatEmptySeq
    <3>6. Dropped(Stream, rest, Len(due[1]) + 1)
      <4>1. size + 1 = Len(due[1]) + 1
        BY <3>1 DEF n
      <4>2. Len(Stream) = Len(rest) + (size + 1)
        BY <1>4, <1>5
      <4>3. Dropped(Stream, rest, size + 1)
        BY <1>5, <4>2, Zenon DEF Dropped
      <4> QED
        BY <4>1, <4>3
    <3>7. Carries(rest, Tail(due))
      BY <1>1, <1>3, <1>5, <1>8, <2>2, <3>6, DropAFrame
    <3> QED
      BY <1>9, <3>4, <3>5, <3>7
  <2> QED
    BY <2>8, <2>9
<1> QED
  BY <1>10, <1>11, <1>12

\* A stream that ends with what the parser has read carries no frame: that would be over.
LEMMA NothingHalfRead ==
    ASSUME NEW p, Unfinished(p), BeginsWithStart(p), NEW frames \in Seq(Frames),
           Carries(p.buffer, frames)
    PROVE  p.buffer = <<>> /\ frames = <<>>
<1>1. p.buffer \in Seq(Byte) /\ (p.found_start \/ p.buffer = <<>>) /\ Len(p.buffer) \in Nat
  BY DEF Unfinished, Parser
<1>2. CASE p.buffer = <<>>
  BY <1>2, EmptyCarriesNothing
<1>3. CASE p.buffer # <<>>
  <2> DEFINE sent == frames[1]
             size == Len(p.buffer)
             n == Len(frames[1])
  <2>1. p.found_start /\ p.buffer[1] = StartByte
    BY <1>1, <1>3 DEF BeginsWithStart
  <2>2. /\ Len(frames) >= 1 /\ n + 1 <= size
        /\ \A k \in 1 .. n + 1 : p.buffer[k] = Wire(sent)[k]
    <3>1. PICK at : Placed(p.buffer, frames, at)
      BY Zenon DEF Carries
    <3> QED
      BY <1>1, <1>3, <2>1, <3>1, StartBeginsAFrame
  <2>3. sent \in Frames /\ n \in Nat
    <3>1. 1 \in 1 .. Len(frames)
      BY <2>2, FramesOfASequence
    <3> QED
      BY <3>1, FramesOfASequence, Zenon
  <2> HIDE DEF sent, size, n
  <2>4. ~(size <= n)
    BY <1>1, <2>2, <2>3 DEF size
  <2>5. \A i \in 1 .. size : i <= n + 1 => p.buffer[i] = Wire(sent)[i]
    BY <1>1, <2>2, <2>3 DEF size
  <2>6. 0 \in Byte
    BY DEF Byte
  <2>7. size <= n
    BY <1>3, <2>1, <2>3, <2>4, <2>5, <2>6, FrameIsTaken DEF size, n, sent
  <2> QED
    BY <2>4, <2>7
<1> QED
  BY <1>2, <1>3

LEMMA ResyncedIsUnfinished ==
    ASSUME ParserInv, StreamInv
    PROVE  /\ Unfinished(Resynced(parser)) /\ BeginsWithStart(Resynced(parser))
           /\ AfterSilence => Resynced(parser).buffer = <<>>
<1>1. Unfinished(parser)
  BY DEF ParserInv
<1>2. Unfinished(Resynced(parser))
  BY <1>1, ResetIsUnfinished DEF Resynced
<1>3. BeginsWithStart(Resynced(parser))
  BY DEF StreamInv, BeginsWithStart, Resynced, Reset
<1>4. ASSUME AfterSilence
      PROVE  Resynced(parser).buffer = <<>>
  BY <1>1, <1>4 DEF AfterSilence, Resynced, Reset, in_progress, Unfinished
<1> QED
  BY <1>2, <1>3, <1>4

LEMMA StreamImpliesRead == ParserInv /\ StreamInv => GoodFramesAreRead
<1> SUFFICES ASSUME ParserInv, StreamInv, uart = <<>>, line = <<>>
             PROVE  due = <<>>
  BY DEF GoodFramesAreRead
<1>1. CASE ~in_step
  BY <1>1 DEF StreamInv
<1>2. CASE in_step
  <2>1. TypeOK /\ due \in Seq(Frames)
    BY DEF ParserInv, TypeOK
  <2>2. Resynced(parser).buffer \in Seq(Byte)
    BY <2>1, StreamType
  <2>3. <<>> \o <<>> = <<>>
    <3>1. <<>> \in Seq(Byte)
      OBVIOUS
    <3> QED
      BY <3>1, ConcatEmptySeq
  <2>4. Stream = Resynced(parser).buffer
    BY <2>2, <2>3, ConcatEmptySeq DEF Stream
  <2>5. Carries(Resynced(parser).buffer, due)
    BY <1>2, <2>4 DEF StreamInv
  <2> QED
    BY <2>1, <2>5, ResyncedIsUnfinished, NothingHalfRead
<1> QED
  BY <1>1, <1>2

LEMMA SendKeepsTheStream ==
    ASSUME ParserInv, StreamInv, NEW frame \in Frames, Send(frame)
    PROVE  StreamInv'
<1> DEFINE buffer == Resynced(parser).buffer
<1>1. TypeOK /\ uart \in Seq(Byte) /\ due \in Seq(Frames)
  BY DEF ParserInv, TypeOK
<1>2. buffer \in Seq(Byte) /\ Stream \in Seq(Byte) /\ Wire(frame) \in Seq(Byte)
  BY <1>1, StreamType, WireOfAFrame
<1>3. /\ line = <<>> /\ line' = Wire(frame) /\ parser' = parser /\ uart' = uart
      /\ Resynced(parser)' = Resynced(parser)
  BY DEF Send, Wire, Resynced
<1>4. Stream' = buffer \o (uart \o Wire(frame))
  BY <1>3 DEF Stream
<1> HIDE DEF buffer
<1>5. Stream' = Stream \o Wire(frame)
  <2>1. Stream = buffer \o uart
    BY <1>1, <1>3, ConcatEmptySeq DEF Stream, buffer
  <2>2. \A s, t, u \in Seq(Byte) : (s \o t) \o u = s \o (t \o u)
    BY ConcatAssociative
  <2> QED
    BY <1>1, <1>2, <1>4, <2>1, <2>2, Zenon
<1>6. CASE AfterSilence
  <2>1. buffer = <<>> /\ uart = <<>>
    BY <1>6, ResyncedIsUnfinished DEF AfterSilence, buffer
  <2>2. Stream = <<>>
    <3>1. <<>> \in Seq(Byte) /\ <<>> \o <<>> = <<>>
      <4>1. <<>> \in Seq(Byte)
        OBVIOUS
      <4> QED
        BY <4>1, ConcatEmptySeq
    <3> QED
      BY <1>3, <2>1, <3>1 DEF Stream, buffer
  <2>3. <<>> \in Seq(Byte) /\ <<>> \in Seq(Frames) /\ Append(<<>>, frame) = <<frame>>
    OBVIOUS
  <2>4. Carries(<<>>, <<>>)
    BY <2>3, EmptyCarriesNothing, Zenon
  <2>5. Carries(<<>> \o Wire(frame), <<frame>>)
    BY <2>3, <2>4, CarriesOneMore, Zenon
  <2>6. in_step' = TRUE /\ due' = <<frame>>
    BY <1>6 DEF Send
  <2> QED
    BY <1>3, <1>5, <2>2, <2>5, <2>6 DEF StreamInv
<1>7. CASE ~AfterSilence /\ in_step
  <2>1. Carries(Stream \o Wire(frame), Append(due, frame))
    BY <1>1, <1>2, <1>7, CarriesOneMore DEF StreamInv
  <2>2. in_step' = TRUE /\ due' = Append(due, frame)
    BY <1>7 DEF Send
  <2> QED
    BY <1>3, <1>5, <2>1, <2>2 DEF StreamInv
<1>8. CASE ~AfterSilence /\ ~in_step
  BY <1>3, <1>8 DEF Send, StreamInv
<1> QED
  BY <1>6, <1>7, <1>8

LEMMA OutOfStepKeeps ==
    ASSUME StreamInv, OutOfStep, UNCHANGED parser
    PROVE  StreamInv'
BY DEF StreamInv, OutOfStep

LEMMA SendByteKeepsTheStream ==
    ASSUME ParserInv, StreamInv, SendByte
    PROVE  StreamInv'
<1>1. TypeOK /\ uart \in Seq(Byte) /\ line \in Seq(Byte)
  BY DEF ParserInv, TypeOK
<1>2. /\ line # <<>> /\ uart' = Append(uart, Head(line)) /\ line' = Tail(line)
      /\ Resynced(parser)' = Resynced(parser)
      /\ UNCHANGED <<parser, in_step, due>>
  BY DEF SendByte, Resynced
<1>3. Tail(line) \in Seq(Byte) /\ <<>> \in Seq(Byte)
  BY <1>1, <1>2, HeadTailProperties
<1>4. line \o <<>> = line /\ Tail(line) \o <<>> = Tail(line)
  BY <1>1, <1>3, ConcatEmptySeq
<1>5. uart \o (line \o <<>>) = Append(uart, Head(line)) \o (Tail(line) \o <<>>)
  BY <1>1, <1>2, <1>3, NextByte
<1>6. Stream' = Stream
  BY <1>2, <1>4, <1>5 DEF Stream
<1> QED
  BY <1>2, <1>6 DEF StreamInv

LEMMA TickKeepsTheStream ==
    ASSUME ParserInv, StreamInv, Tick
    PROVE  StreamInv'
<1>1. TypeOK /\ Unfinished(parser) /\ due \in Seq(Frames)
  BY DEF ParserInv, TypeOK
<1>2. UNCHANGED <<parser, uart, line, in_step, due>>
  BY DEF Tick
<1>3. CASE ~in_step
  BY <1>2, <1>3 DEF StreamInv
<1>4. CASE in_step
  <2>1. Resynced(parser) = parser
    <3>1. ~(since_rx > FRAME_RESYNC_GAP)
      BY <1>1, FrameParserAssumption DEF Tick, TypeOK
    <3> QED
      BY <3>1 DEF Resynced
  <2>2. CASE in_progress(parser) /\ since_rx' > FRAME_RESYNC_GAP
    <3>1. line = <<>> /\ uart = <<>>
      BY <1>1, <2>2, FrameParserAssumption DEF Tick, TypeOK
    <3>2. parser.buffer \in Seq(Byte) /\ <<>> \in Seq(Byte)
      BY <1>1 DEF Unfinished, Parser
    <3>3. <<>> \o <<>> = <<>> /\ parser.buffer \o <<>> = parser.buffer
      BY <3>2, ConcatEmptySeq
    <3>4. Carries(parser.buffer, due)
      BY <1>4, <2>1, <3>1, <3>3 DEF StreamInv, Stream
    <3>5. BeginsWithStart(parser)
      BY DEF StreamInv, BeginsWithStart
    <3>6. parser.buffer = <<>>
      BY <1>1, <3>4, <3>5, NothingHalfRead
    <3> QED
      BY <2>2, <3>5, <3>6 DEF BeginsWithStart, in_progress
  <2>3. CASE ~(in_progress(parser) /\ since_rx' > FRAME_RESYNC_GAP)
    <3>1. Resynced(parser)' = parser
      BY <1>2, <2>3 DEF Resynced, in_progress
    <3>2. Stream' = Stream
      BY <1>2, <2>1, <3>1 DEF Stream
    <3> QED
      BY <1>2, <3>2 DEF StreamInv
  <2> QED
    BY <2>2, <2>3
<1> QED
  BY <1>3, <1>4

LEMMA AddByteKeepsTheStream ==
    ASSUME ParserInv, StreamInv, NEW byte \in Noise, AddByte(byte)
    PROVE  StreamInv'
<1>1. TypeOK /\ uart \in Seq(Byte) /\ due \in Seq(Frames) /\ byte \in Byte
  BY NoiseIsBytes DEF ParserInv, TypeOK
<1>2. /\ uart' = Append(uart, byte)
      /\ Resynced(parser)' = Resynced(parser)
      /\ UNCHANGED <<parser, line>>
      /\ IF line = <<>> /\ byte # StartByte THEN UNCHANGED <<in_step, due>> ELSE OutOfStep
  BY DEF AddByte, Resynced
<1>3. CASE OutOfStep
  BY <1>2, <1>3, OutOfStepKeeps
<1>4. CASE line = <<>> /\ byte # StartByte /\ UNCHANGED <<in_step, due>>
  <2> DEFINE buffer == Resynced(parser).buffer
  <2>1. buffer \in Seq(Byte) /\ Stream \in Seq(Byte)
    BY <1>1, StreamType
  <2>2. /\ Append(uart, byte) = uart \o <<byte>> /\ <<byte>> \in Seq(Byte)
        /\ Append(uart, byte) \in Seq(Byte)
        /\ Append(Stream, byte) = Stream \o <<byte>>
    BY <1>1, <2>1, AppendIsConcat, AppendProperties
  <2>3. Append(uart, byte) \o <<>> = Append(uart, byte) /\ uart \o <<>> = uart
    BY <1>1, <2>2, ConcatEmptySeq
  <2> HIDE DEF buffer
  <2>4. Stream' = buffer \o (uart \o <<byte>>) /\ Stream = buffer \o uart
    BY <1>2, <1>4, <2>2, <2>3 DEF Stream, buffer
  <2>5. \A s, t, u \in Seq(Byte) : (s \o t) \o u = s \o (t \o u)
    BY ConcatAssociative
  <2>6. Stream' = Append(Stream, byte)
    BY <1>1, <2>1, <2>2, <2>4, <2>5, Zenon
  <2>7. in_step => Carries(Append(Stream, byte), due)
    BY <1>1, <1>4, <2>1, CarriesNoise DEF StreamInv
  <2> QED
    BY <1>2, <1>4, <2>6, <2>7 DEF StreamInv
<1> QED
  BY <1>2, <1>3, <1>4

LEMMA ProcessKeepsTheStream ==
    ASSUME ParserInv, StreamInv, process_input
    PROVE  StreamInv'
<1>1. CASE in_step
  <2>1. in_step' = in_step
    BY DEF process_input
  <2> QED
    BY <1>1, <2>1, ProcessInStep DEF StreamInv, BeginsWithStart
<1>2. CASE ~in_step
  <2> DEFINE fed == feed(Resynced(parser), Head(uart))
  <2>1. due = <<>>
    BY <1>2 DEF StreamInv
  <2>2. /\ in_step' = in_step
        /\ fed.frame_complete => process_data_packet(fed) /\ parser' = Reset
        /\ ~fed.frame_complete => parser' = fed /\ due' = due
    BY Zenon DEF process_input
  <2>3. due' = due
    BY <2>1, <2>2 DEF process_data_packet
  <2>4. Head(uart) \in Byte
    BY HeadTailProperties DEF ParserInv, TypeOK, process_input
  <2>5. BeginsWithStart(fed)
    BY <2>4, ResyncedIsUnfinished, FeedBeginsWithStart
  <2>6. BeginsWithStart(parser')
    BY <2>2, <2>5 DEF BeginsWithStart, Reset
  <2> QED
    BY <1>2, <2>1, <2>2, <2>3, <2>6 DEF StreamInv, BeginsWithStart
<1> QED
  BY <1>1, <1>2

LEMMA NextStream == ParserInv /\ StreamInv /\ [Next]_vars => StreamInv'
<1> SUFFICES ASSUME ParserInv, StreamInv, [Next]_vars PROVE StreamInv'
  OBVIOUS
<1>1. CASE process_input
  BY <1>1, ProcessKeepsTheStream
<1>2. ASSUME NEW frame \in Frames, Answer(frame)
      PROVE  StreamInv'
  BY <1>2, SendKeepsTheStream DEF Answer
<1>3. CASE SendByte
  BY <1>3, SendByteKeepsTheStream
<1>4. CASE Tick
  BY <1>4, TickKeepsTheStream
<1>5. ASSUME NEW frame \in Frames, LateAnswer(frame)
      PROVE  StreamInv'
  BY <1>5, SendKeepsTheStream DEF LateAnswer
<1>6. ASSUME NEW byte \in Noise, ChangeByte(byte)
      PROVE  StreamInv'
  BY <1>6, OutOfStepKeeps DEF ChangeByte
<1>7. ASSUME NEW byte \in Noise, AddByte(byte)
      PROVE  StreamInv'
  BY <1>7, AddByteKeepsTheStream
<1>8. CASE Truncate \/ LoseByte \/ Stall
  BY <1>8, OutOfStepKeeps DEF Truncate, LoseByte, Stall
<1>9. CASE UNCHANGED vars
  BY <1>9 DEF vars, StreamInv, Stream, Resynced
<1> QED
  BY <1>1, <1>2, <1>3, <1>4, <1>5, <1>6, <1>7, <1>8, <1>9 DEF Next, Faults

(***************************************************************************)
(* Whatever the frames, the gap and the buffer, and however much went      *)
(* wrong before: a frame that the unit sends whole, after a silence or     *)
(* after others that were whole, has been handed to process_command when   *)
(* the last byte on the way is read.                                       *)
(***************************************************************************)
THEOREM WholeFramesAreRead == Spec => []GoodFramesAreRead
<1>1. Spec => []StreamInv
  BY ParserInvariant, InitStream, NextStream, PTL DEF Spec
<1> QED
  BY <1>1, ParserInvariant, StreamImpliesRead, PTL
=============================================================================
