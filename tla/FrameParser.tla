----------------------------- MODULE FrameParser -----------------------------
(***************************************************************************)
(* The bytes of the unit: the UART, process_input, which reads them with   *)
(* the time of reading, and the parser that makes frames of them.          *)
(*                                                                         *)
(* A byte takes 4.6 ms on the line and a whole frame less than a tick, so  *)
(* that time is told apart only by how long nothing was read; what is late *)
(* is the loop, whose iterations other components hold up.  The unit       *)
(* speaks when it is asked: after an answer that was processed, or after a *)
(* cycle timeout, which is longer than the resync gap.  The line truncates *)
(* a frame, loses, changes and adds bytes; an answer that was given up may *)
(* still come, and after a stall the driver may ask again at once.         *)
(***************************************************************************)
EXTENDS Integers, Sequences, SequencesExt

CONSTANTS
    MAX_FRAME_BYTES,
    FRAME_RESYNC_GAP,   \* FRAME_RESYNC_GAP_MS, in ticks
    Frames,             \* what the unit sends, without the checksum
    Noise,              \* the bytes that the line makes up
    UartSize,           \* bound on the bytes that wait to be read
    MaxFaults           \* bound on what the line and the loop do wrong

StartByte == 252

Byte == 0 .. 255

ASSUME FrameParserAssumption ==
    /\ MAX_FRAME_BYTES \in Nat /\ MAX_FRAME_BYTES > 6
    /\ FRAME_RESYNC_GAP \in Nat
    /\ Frames # {}
    /\ \A frame \in Frames :
         /\ frame \in Seq(Byte)
         /\ Len(frame) >= 5
         /\ frame[1] = StartByte
         /\ frame[5] = Len(frame) - 5
         /\ frame[5] + 6 <= MAX_FRAME_BYTES
    /\ Noise \subseteq Byte
    /\ UartSize \in Nat \ {0}
    /\ MaxFaults \in Nat

VARIABLES
    parser,     \* parser_
    since_rx,   \* the age of last_rx_byte_ms_, in ticks
    uart,       \* the bytes that were received and not read
    line,       \* the rest of the frame that the unit is sending
    answered,   \* a frame was processed since the unit was last asked
    processed,  \* the last frame that process_command was called for
    in_step,    \* history: what is sent now is to be read, byte by byte
    due,        \* history: the frames that were sent whole and are to be processed
    faults

vars == <<parser, since_rx, uart, line, answered, processed, in_step, due, faults>>

\* found_start_, frame_complete_, buffer_ up to bytes_read_ (the last byte of a complete
\* frame included) and data_length_, -1 before it is read.
Parser == [found_start : BOOLEAN, frame_complete : BOOLEAN, buffer : Seq(Byte),
           data_length : -1 .. 255]

TypeOK ==
    /\ parser \in Parser
    /\ since_rx \in 0 .. FRAME_RESYNC_GAP + 1
    /\ uart \in Seq(Byte)
    /\ line \in Seq(Byte)
    /\ answered \in BOOLEAN
    /\ processed \in Seq(Byte)
    /\ in_step \in BOOLEAN
    /\ due \in Seq(Frames)
    /\ faults \in 0 .. MaxFaults

-----------------------------------------------------------------------------
(***************************************************************************)
(* FrameParser.                                                            *)
(***************************************************************************)
checksum(bytes) == (252 - FoldSeq(+, 0, bytes)) % 256

ASSUME ChecksumAssumption == \A frame \in Frames : checksum(frame) \in Byte

Reset == [found_start |-> FALSE, frame_complete |-> FALSE, buffer |-> <<>>, data_length |-> -1]

\* Mutant: no length is too long.
MutNoOverflowProtection(p, byte) ==
    LET length == IF Len(p.buffer) = 4 THEN byte ELSE p.data_length
    IN  IF ~p.found_start
          THEN IF byte = StartByte THEN [p EXCEPT !.found_start = TRUE, !.buffer = <<byte>>] ELSE p
          ELSE [p EXCEPT !.buffer = Append(@, byte), !.data_length = length,
                         !.frame_complete = length >= 0 /\ Len(p.buffer) = length + 5]

\* Bytes before a start byte are ignored, and so are those after a frame that was not taken.
feed(p, byte) ==
    LET read == Len(p.buffer)
        length == IF read = 4 THEN byte ELSE p.data_length
    IN  CASE p.frame_complete -> p
          [] ~p.frame_complete /\ ~p.found_start ->
               IF byte = StartByte THEN [p EXCEPT !.found_start = TRUE, !.buffer = <<byte>>] ELSE p
          [] ~p.frame_complete /\ p.found_start ->
               IF read >= MAX_FRAME_BYTES \/ length + 6 > MAX_FRAME_BYTES THEN Reset
               ELSE [p EXCEPT !.buffer = Append(@, byte), !.data_length = length,
                              !.frame_complete = length >= 0 /\ read = length + 5]

in_progress(p) == p.found_start /\ ~p.frame_complete

\* Mutant: the checksum is not looked at.
MutAnyChecksum(p) == TRUE

checksum_valid(p) == checksum(Front(p.buffer)) = Last(p.buffer)

-----------------------------------------------------------------------------
(***************************************************************************)
(* CN105Climate: one byte of process_input.                                *)
(***************************************************************************)
\* Mutant: the parser resyncs at every byte it is given late.
MutResyncAtOnce(p) == IF since_rx > 0 THEN Reset ELSE p

Resynced(p) == IF in_progress(p) /\ since_rx > FRAME_RESYNC_GAP THEN Reset ELSE p

process_data_packet(p) ==
    IF checksum_valid(p)
      THEN /\ processed' = Front(p.buffer)
           /\ answered' = TRUE
           /\ due' = IF due # <<>> /\ Head(due) = Front(p.buffer) THEN Tail(due) ELSE due
      ELSE UNCHANGED <<processed, answered, due>>

\* Mutant: a frame that is refused stays in the parser.
MutResetOnlyIfValid ==
    /\ uart # <<>>
    /\ uart' = Tail(uart)
    /\ since_rx' = 0
    /\ \E fed \in {feed(Resynced(parser), Head(uart))} :
         IF fed.frame_complete
           THEN process_data_packet(fed) /\ parser' = IF checksum_valid(fed) THEN Reset ELSE fed
           ELSE parser' = fed /\ UNCHANGED <<processed, answered, due>>
    /\ UNCHANGED <<line, in_step, faults>>

process_input ==
    /\ uart # <<>>
    /\ uart' = Tail(uart)
    /\ since_rx' = 0
    /\ \E fed \in {feed(Resynced(parser), Head(uart))} :
         IF fed.frame_complete
           THEN process_data_packet(fed) /\ parser' = Reset
           ELSE parser' = fed /\ UNCHANGED <<processed, answered, due>>
    /\ UNCHANGED <<line, in_step, faults>>

-----------------------------------------------------------------------------
(***************************************************************************)
(* The unit and the line.                                                  *)
(***************************************************************************)
\* A silence of more than the gap puts the two ends in step again.
AfterSilence == uart = <<>> /\ since_rx > FRAME_RESYNC_GAP

Send(frame) ==
    /\ line = <<>>
    /\ line' = Append(frame, checksum(frame))
    /\ in_step' = (in_step \/ AfterSilence)
    /\ due' = IF AfterSilence THEN <<frame>> ELSE IF in_step THEN Append(due, frame) ELSE due
    /\ UNCHANGED <<parser, since_rx, uart, processed>>

Answer(frame) ==
    /\ answered \/ AfterSilence
    /\ answered' = FALSE
    /\ Send(frame)
    /\ UNCHANGED faults

SendByte ==
    /\ line # <<>>
    /\ Len(uart) < UartSize
    /\ uart' = Append(uart, Head(line))
    /\ line' = Tail(line)
    /\ UNCHANGED <<parser, since_rx, answered, processed, in_step, due, faults>>

Tick ==
    /\ since_rx <= FRAME_RESYNC_GAP
    /\ \/ line = <<>> /\ uart = <<>>
       \/ since_rx < FRAME_RESYNC_GAP
       \/ ~in_progress(parser)
    /\ since_rx' = since_rx + 1
    /\ UNCHANGED <<parser, uart, line, answered, processed, in_step, due, faults>>

-----------------------------------------------------------------------------
(***************************************************************************)
(* What goes wrong.                                                        *)
(***************************************************************************)
Fault == faults < MaxFaults /\ faults' = faults + 1

OutOfStep == in_step' = FALSE /\ due' = <<>>

LateAnswer(frame) ==
    /\ Fault
    /\ Send(frame)
    /\ UNCHANGED answered

Truncate ==
    /\ Fault
    /\ line # <<>>
    /\ line' = <<>>
    /\ OutOfStep
    /\ UNCHANGED <<parser, since_rx, uart, answered, processed>>

LoseByte ==
    /\ Fault
    /\ line # <<>>
    /\ line' = Tail(line)
    /\ OutOfStep
    /\ UNCHANGED <<parser, since_rx, uart, answered, processed>>

ChangeByte(byte) ==
    /\ Fault
    /\ line # <<>>
    /\ Len(uart) < UartSize
    /\ byte # Head(line)
    /\ uart' = Append(uart, byte)
    /\ line' = Tail(line)
    /\ OutOfStep
    /\ UNCHANGED <<parser, since_rx, answered, processed>>

\* Between two frames, only a start byte does harm.
AddByte(byte) ==
    /\ Fault
    /\ Len(uart) < UartSize
    /\ uart' = Append(uart, byte)
    /\ IF line = <<>> /\ byte # StartByte THEN UNCHANGED <<in_step, due>> ELSE OutOfStep
    /\ UNCHANGED <<parser, since_rx, line, answered, processed>>

\* The loop does not read for so long that half a frame is taken for a truncated one.
Stall ==
    /\ Fault
    /\ since_rx = FRAME_RESYNC_GAP
    /\ in_progress(parser)
    /\ line # <<>> \/ uart # <<>>
    /\ since_rx' = since_rx + 1
    /\ OutOfStep
    /\ UNCHANGED <<parser, uart, line, answered, processed>>

-----------------------------------------------------------------------------
Init ==
    /\ parser = Reset
    /\ since_rx = 0
    /\ uart = <<>>
    /\ line = <<>>
    /\ answered = TRUE
    /\ processed = <<>>
    /\ in_step = TRUE
    /\ due = <<>>
    /\ faults = 0

Faults ==
    \/ \E frame \in Frames : LateAnswer(frame)
    \/ \E byte \in Noise : ChangeByte(byte)
    \/ \E byte \in Noise : AddByte(byte)
    \/ Truncate \/ LoseByte \/ Stall

Next == process_input \/ (\E frame \in Frames : Answer(frame)) \/ SendByte \/ Tick \/ Faults

Spec == Init /\ [][Next]_vars

\* loop() reads what there is, the unit answers and time goes on.
Fairness ==
    /\ WF_vars(process_input)
    /\ WF_vars(\E frame \in Frames : Answer(frame))
    /\ WF_vars(SendByte)
    /\ WF_vars(Tick)

FairSpec == Spec /\ Fairness

-----------------------------------------------------------------------------
(***************************************************************************)
(* Properties.                                                             *)
(***************************************************************************)
\* Nothing is written past the end of the buffer, whatever bytes come, and a frame that is
\* processed has the length that it declares: data() and data_length() stay inside it.
BufferHoldsTheFrame ==
    /\ Len(parser.buffer) <= MAX_FRAME_BYTES
    /\ processed # <<>> => /\ Len(processed) < MAX_FRAME_BYTES
                           /\ Len(processed) = processed[5] + 5

\* A frame that is sent whole, after a silence that is longer than the gap or after frames
\* that were sent whole, has been processed when its last byte is read: what was left of
\* a truncated frame, of noise or of a declared length does not swallow it.
GoodFramesAreRead == uart = <<>> /\ line = <<>> => due = <<>>

\* After one thing that went wrong, no frame is processed that the unit did not send, be
\* it made of two frames or of a damaged one: start byte, length and checksum tell.  Two
\* make up for each other in a sum, as a byte that is lost and then found again.
NothingInvented == faults <= 1 => processed \in Frames \union {<<>>}

\* Whatever the line did, the driver comes to process frames again.
FramesGetThrough == []<>answered
=============================================================================
