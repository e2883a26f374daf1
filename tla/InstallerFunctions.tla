------------------------- MODULE InstallerFunctions -------------------------
(***************************************************************************)
(* The installer functions of the unit: some thirty numbered settings,     *)
(* read by two requests of the info cycle (0x20 and 0x22), kept by the     *)
(* driver as a local copy, changed in the copy by a select or a button of  *)
(* Home Assistant, and written back whole, in two frames.  With it goes    *)
(* the request scheduler, which decides when these two requests are asked. *)
(*                                                                         *)
(* The link is up throughout: a write on a link that is down belongs to    *)
(* Connection.  A frame on the wire is lost or answered, in order; `owed`  *)
(* is what the unit has not answered yet.  The requests that every cycle   *)
(* asks (0x02, 0x03, 0x06, 0x09, 0x04) are one, "core".  `awaiting` is     *)
(* left out: nothing reads it.                                             *)
(***************************************************************************)
EXTENDS Naturals, Sequences, FiniteSets

CONSTANTS
    Codes1, Codes2,       \* the function codes in the data of 0x20 and of 0x22
    Options,              \* the values of a function that a select offers
    Units,                \* the units: what one has at first, whether its data are short
    SelectSets,           \* the codes with a select (hardware_settings_), by installation
    MaxCalls,             \* bound on what is asked for in Home Assistant or changed at the unit
    MaxLosses,            \* bound on the frames lost
    MaxOwed,              \* bound on the unanswered frames when a cycle starts
    Starvation,           \* whether a starved cycle may go before a write
    LateAnswers           \* whether an answer may come after its cycle timed out

Parts == {"0x20", "0x22"}
Codes == Codes1 \union Codes2
Carries == [p \in Parts |-> IF p = "0x20" THEN Codes1 ELSE Codes2]
NoByte == 4               \* no byte has this code; the value of one that has is two bits
Bytes == 0 .. 4

ASSUME InstallerFunctionsAssumption ==
    /\ Codes1 \intersect Codes2 = {}
    /\ Options \subseteq 1 .. 3
    /\ Units \subseteq [has : [Codes -> Bytes], short : BOOLEAN]
    /\ SelectSets \subseteq SUBSET Codes
    /\ MaxCalls \in Nat
    /\ MaxLosses \in Nat
    /\ MaxOwed \in Nat \ {0}
    /\ Starvation \in BOOLEAN
    /\ LateAnswers \in BOOLEAN

\* Mutant: part 2 is registered first.
MutPart2First == <<"core", "0x22", "0x20">>

\* The requests in the order they were registered in.
Requests == <<"core", "0x20", "0x22">>
FrameOf == [op : {"get", "set"}, part : Parts \union {"core"}, data : [Codes -> Bytes]]

VARIABLES
    raw,                  \* functions.raw, by code
    valid,                \* the parts with their isValid flag set
    disabled,             \* the requests that are disabled
    due,                  \* those never sent, bypassed, or sent an interval ago
    cycle_running,
    is_get_functions,     \* a read was asked for
    is_set_functions,     \* a write was asked for
    part2,                \* pending_functions_packet2_, while functions_part2_pending_
    option,               \* the option each select shows, NoByte for none
    enabled,              \* enabled_ of the selects
    selects,              \* the codes with a select
    unit,                 \* what the unit has
    short,                \* the unit's data are shorter than 16 bytes
    owed,                 \* the frames it has not answered
    asked,                \* history: the value asked for, until a reading contradicts it
    unread,               \* history: the parts still to be read since a read was started
    lost,                 \* history: a request or its answer was lost since the cycle started
    losses, calls         \* how much happened, up to MaxLosses and MaxCalls

copy == <<raw, valid, option, enabled>>
scheduler == <<disabled, due, cycle_running>>
flags == <<is_get_functions, is_set_functions>>
config == <<selects, short>>
vars == <<copy, scheduler, flags, config, part2, unit, owed, asked, unread, lost, losses, calls>>

TypeOK ==
    /\ raw \in [Codes -> Bytes]
    /\ valid \subseteq Parts
    /\ disabled \subseteq Parts /\ due \subseteq Parts
    /\ cycle_running \in BOOLEAN
    /\ is_get_functions \in BOOLEAN /\ is_set_functions \in BOOLEAN
    /\ part2 \subseteq FrameOf
    /\ option \in [Codes -> Bytes]
    /\ enabled \in BOOLEAN
    /\ selects \in SelectSets
    /\ unit \in [Codes -> Bytes]
    /\ short \in BOOLEAN
    /\ owed \in Seq(FrameOf)
    /\ asked \in [Codes -> Bytes]
    /\ unread \subseteq Parts
    /\ lost \in BOOLEAN
    /\ losses \in 0 .. MaxLosses /\ calls \in 0 .. MaxCalls

Nothing == [c \in Codes |-> NoByte]

Get(request) == [op |-> "get", part |-> request, data |-> Nothing]

\* The frame that writes a part of the local copy.
SetFrame(p, bytes) ==
    [op |-> "set", part |-> p,
     data |-> [c \in Codes |-> IF c \in Carries[p] THEN bytes[c] ELSE NoByte]]

\* Without selects the two requests are registered disabled.
Init ==
    /\ raw = Nothing /\ valid = {}
    /\ selects \in SelectSets
    /\ disabled = (IF selects = {} THEN Parts ELSE {}) /\ due = Parts
    /\ cycle_running = FALSE
    /\ is_get_functions = FALSE /\ is_set_functions = FALSE
    /\ part2 = {}
    /\ option = Nothing /\ enabled = TRUE
    /\ \E u \in Units : unit = u.has /\ short = u.short
    /\ owed = << >>
    /\ asked = Nothing /\ unread = {} /\ lost = FALSE
    /\ losses = 0 /\ calls = 0

-----------------------------------------------------------------------------
(***************************************************************************)
(* HeatpumpFunctions, the local copy.                                      *)
(***************************************************************************)
\* Mutant: one part read is enough.
MutEitherPartIsValid == valid # {}

is_valid == valid = Parts

get_value(bytes, c) == IF bytes[c] = NoByte THEN 0 ELSE bytes[c]

\* Only a code that was read can be changed, and only to 1, 2 or 3.
set_value(bytes, c, value) ==
    IF value \in 1 .. 3 /\ bytes[c] # NoByte THEN [bytes EXCEPT ![c] = value] ELSE bytes

\* set_data1 and set_data2: the data of an answer replace a part of the copy.
set_data(bytes, p, data) == [c \in Codes |-> IF c \in Carries[p] THEN data[c] ELSE bytes[c]]

\* functions_arrived: the selects show the values in their mapping.
functions_arrived(bytes) ==
    [c \in Codes |-> IF c \in selects /\ get_value(bytes, c) \in Options
                       THEN bytes[c] ELSE option[c]]

-----------------------------------------------------------------------------
(***************************************************************************)
(* The request scheduler.  `dis` and `dueNow` are the requests disabled    *)
(* and due when it runs; `queue` is what is on the wire then.              *)
(***************************************************************************)
\* An interval of zero, without selects, is always over.
Eligible(request, dis, dueNow) ==
    request \in Parts => request \notin dis /\ (selects = {} \/ request \in dueNow)

\* Mutant: a request that may not be sent is taken for the last one, but the cycle goes on.
MutStopAtTheFirstRefusal(start, queue, dis, dueNow) ==
    IF start < 3 /\ Eligible(Requests[start + 1], dis, dueNow)
      THEN /\ owed' = Append(queue, Get(Requests[start + 1]))
           /\ due' = dueNow \ {Requests[start + 1]}
           /\ cycle_running' = (start = 0 \/ cycle_running)
      ELSE owed' = queue /\ due' = dueNow /\ cycle_running' = (start < 3 /\ cycle_running)

\* Sends the first eligible request after the one at position `start`, and ends the
\* cycle when there is none.
send_next_after(start, queue, dis, dueNow) ==
    LET eligible == {i \in start + 1 .. 3 : Eligible(Requests[i], dis, dueNow)}
    IN  \/ /\ eligible = {}
           /\ owed' = queue /\ due' = dueNow /\ cycle_running' = FALSE
        \/ \E i \in eligible :
             /\ \A j \in eligible : i <= j
             /\ owed' = Append(queue, Get(Requests[i]))
             /\ due' = dueNow \ {Requests[i]}
             /\ cycle_running' = (start = 0 \/ cycle_running)

position(request) == CHOOSE i \in 1 .. 3 : Requests[i] = request

AllZeros(p) == \A c \in Carries[p] : unit[c] = NoByte

\* Mutant: a read without selects stays enabled.
MutKeepReading(p) == disabled' = IF AllZeros(p) THEN Parts ELSE disabled

\* check_and_disable: data of zeros mean that the unit has no functions; without
\* selects a read is made once.
check_and_disable(p) ==
    disabled' = IF AllZeros(p) THEN Parts
                ELSE IF selects = {} THEN disabled \union {p} ELSE disabled

\* The answer to 0x20 or 0x22: on_response of the request.
on_response(p) ==
    /\ check_and_disable(p)
    /\ enabled' = (enabled /\ ~AllZeros(p))
    /\ IF AllZeros(p) \/ short
         THEN UNCHANGED <<raw, valid, option>>
         ELSE /\ raw' = set_data(raw, p, unit)
              /\ valid' = valid \union {p}
              /\ option' = IF p = "0x22" THEN functions_arrived(raw') ELSE option
    /\ unread' = IF AllZeros(p) THEN {} ELSE unread \ {p}
    /\ asked' = [c \in Codes |-> IF c \in Carries[p] /\ unit[c] # asked[c]
                                   THEN NoByte ELSE asked[c]]

-----------------------------------------------------------------------------
(***************************************************************************)
(* Home Assistant and the installer.                                       *)
(***************************************************************************)
Happens == calls < MaxCalls /\ calls' = calls + 1

\* What an accepted change leaves: the copy, and the wish it records.
Change(c, value) ==
    /\ raw' = set_value(raw, c, value)
    /\ is_set_functions' = TRUE
    /\ asked' = IF is_valid /\ raw[c] # NoByte /\ value \in 1 .. 3
                  THEN [asked EXCEPT ![c] = value] ELSE asked

\* A select is set; failed ones ignore it.
ControlSelect ==
    /\ Happens
    /\ enabled
    /\ \E c \in selects, value \in Options : Change(c, value)
    /\ UNCHANGED <<valid, option, enabled, scheduler, is_get_functions, config, part2, unit, owed,
                   unread, lost, losses>>

\* The button that reads.
PressGet ==
    /\ Happens
    /\ is_get_functions' = TRUE
    /\ UNCHANGED <<copy, scheduler, is_set_functions, config, part2, unit, owed, asked, unread,
                   lost, losses>>

\* The button that writes a code and a value entered before, which may be none of the unit's.
PressSet ==
    /\ Happens
    /\ is_valid
    /\ \E c \in Codes, value \in Options \union {0} : Change(c, value)
    /\ UNCHANGED <<valid, option, enabled, scheduler, is_get_functions, config, part2, unit, owed,
                   unread, lost, losses>>

\* A function is changed at the unit, by a wired remote.
ChangeAtTheUnit ==
    /\ Happens
    /\ \E c \in Codes, value \in Options :
         /\ unit[c] \notin {NoByte, value}
         /\ unit' = [unit EXCEPT ![c] = value]
         /\ asked' = [asked EXCEPT ![c] = NoByte]
    /\ UNCHANGED <<copy, scheduler, flags, config, part2, owed, unread, lost, losses>>

-----------------------------------------------------------------------------
(***************************************************************************)
(* The loop.                                                               *)
(***************************************************************************)
\* set_functions: part 1 goes out, part 2 waits for an acknowledgement.
set_functions ==
    IF is_valid
      THEN /\ owed' = Append(owed, SetFrame("0x20", raw))
           /\ part2' = {SetFrame("0x22", raw)}
      ELSE UNCHANGED <<owed, part2>>

\* Mutant: nothing is read back.
MutNoReadBack ==
    /\ ~cycle_running
    /\ is_set_functions
    /\ is_set_functions' = FALSE
    /\ set_functions
    /\ UNCHANGED <<copy, scheduler, is_get_functions, config, unit, asked, unread, lost, losses,
                   calls>>

\* LoopAction::SET_FUNCTIONS: a write, and a read to follow.
SetFunctions ==
    /\ ~cycle_running
    /\ is_set_functions
    /\ is_set_functions' = FALSE
    /\ set_functions
    /\ is_get_functions' = TRUE
    /\ UNCHANGED <<copy, scheduler, config, unit, asked, unread, lost, losses, calls>>

\* Mutant: only part 1 is enabled again.
MutEnablePart1Only ==
    /\ ~cycle_running
    /\ is_set_functions => Starvation
    /\ Len(owed) < MaxOwed
    /\ disabled' = IF is_get_functions THEN disabled \ {"0x20"} ELSE disabled
    /\ unread' = IF is_get_functions THEN Parts ELSE unread
    /\ is_get_functions' = FALSE
    /\ send_next_after(0, owed, disabled', IF is_get_functions THEN Parts ELSE due)
    /\ lost' = FALSE
    /\ UNCHANGED <<copy, is_set_functions, config, part2, unit, asked, losses, calls>>

\* LoopAction::START_CYCLE: a read that was asked for enables its requests first.
StartCycle ==
    /\ ~cycle_running
    /\ is_set_functions => Starvation
    /\ Len(owed) < MaxOwed
    /\ disabled' = IF is_get_functions THEN {} ELSE disabled
    /\ unread' = IF is_get_functions THEN Parts ELSE unread
    /\ is_get_functions' = FALSE
    /\ send_next_after(0, owed, disabled', IF is_get_functions THEN Parts ELSE due)
    /\ lost' = FALSE
    /\ UNCHANGED <<copy, is_set_functions, config, part2, unit, asked, losses, calls>>

\* check_timeout: the cycle lasts too long.
CycleTimeout ==
    /\ cycle_running
    /\ LateAnswers \/ \A i \in 1 .. Len(owed) : owed[i].op = "set"
    /\ cycle_running' = FALSE
    /\ UNCHANGED <<copy, disabled, due, flags, config, part2, unit, owed, asked, unread, lost,
                   losses, calls>>

\* interval_ms went by since a request was sent.
IntervalElapses(p) ==
    /\ selects # {}
    /\ p \notin due
    /\ due' = due \union {p}
    /\ UNCHANGED <<copy, disabled, cycle_running, flags, config, part2, unit, owed, asked, unread,
                   lost, losses, calls>>

\* send_pending_functions_packet2
SendPart2(queue) ==
    /\ owed' = IF part2 = {} THEN queue ELSE Append(queue, CHOOSE packet \in part2 : TRUE)
    /\ part2' = {}

\* The timer fn_set_part2.
Part2Timer ==
    /\ part2 # {}
    /\ SendPart2(owed)
    /\ UNCHANGED <<copy, scheduler, flags, config, unit, asked, unread, lost, losses, calls>>

-----------------------------------------------------------------------------
(***************************************************************************)
(* The unit and the wire.                                                  *)
(***************************************************************************)
\* What the unit has after a write: it takes the values of the codes it knows.
Written(frame) ==
    [c \in Codes |-> IF c \in Carries[frame.part] /\ unit[c] # NoByte /\ frame.data[c] \in 1 .. 3
                       THEN frame.data[c] ELSE unit[c]]

\* A request is answered: its handler runs, then the next request is sent, whether or
\* not a cycle is running.
Answer ==
    /\ owed # << >> /\ Head(owed).op = "get"
    /\ LET request == Head(owed).part
       IN  /\ IF request = "core"
                THEN UNCHANGED <<copy, disabled, asked, unread>>
                ELSE on_response(request)
           /\ send_next_after(position(request), Tail(owed), disabled', due)
    /\ UNCHANGED <<flags, config, part2, unit, lost, losses, calls>>

\* A write is acknowledged, which lets part 2 go.
Acknowledge ==
    /\ owed # << >> /\ Head(owed).op = "set"
    /\ unit' = Written(Head(owed))
    /\ SendPart2(Tail(owed))
    /\ UNCHANGED <<copy, scheduler, flags, config, asked, unread, lost, losses, calls>>

\* A request, a write, or what answers it is lost.
Lose ==
    /\ losses < MaxLosses
    /\ owed # << >>
    /\ losses' = losses + 1
    /\ owed' = Tail(owed)
    /\ lost' = (lost \/ Head(owed).op = "get")
    /\ unit' \in {unit} \union (IF Head(owed).op = "set" THEN {Written(Head(owed))} ELSE {})
    /\ UNCHANGED <<copy, scheduler, flags, config, part2, asked, unread, calls>>

Next ==
    \/ ControlSelect \/ PressGet \/ PressSet \/ ChangeAtTheUnit
    \/ SetFunctions \/ StartCycle \/ CycleTimeout
    \/ \E p \in Parts : IntervalElapses(p)
    \/ Part2Timer
    \/ Answer \/ Acknowledge \/ Lose

\* loop() and the timers run; frames are answered or lost; intervals end.  A write
\* waits for a moment between two cycles, which the starvation guard of
\* decide_loop_action leaves it: strong fairness.
Fairness ==
    /\ SF_vars(SetFunctions)
    /\ WF_vars(StartCycle)
    /\ WF_vars(CycleTimeout)
    /\ \A p \in Parts : WF_vars(IntervalElapses(p))
    /\ WF_vars(Part2Timer)
    /\ WF_vars(Answer \/ Acknowledge)

Spec == Init /\ [][Next]_vars /\ Fairness

-----------------------------------------------------------------------------
(***************************************************************************)
(* Properties.                                                             *)
(***************************************************************************)
SetFrames == part2 \union {owed[i] : i \in {j \in 1 .. Len(owed) : owed[j].op = "set"}}

\* A write never clears what it knows nothing of: a byte it leaves empty is one for a
\* code that the unit does not have.  Both parts must have been read before, and
\* entirely, whatever was lost, asked again, or given up in between.
WritesAreComplete ==
    \A frame \in SetFrames : \A c \in Carries[frame.part] :
        frame.data[c] = NoByte => unit[c] = NoByte

\* A running cycle waits for an answer: unless one was lost, the unit owes it one, so
\* that a request which is skipped, disabled or refused never leaves the cycle to its
\* timeout.
NoCycleWaitsForNothing ==
    cycle_running /\ ~lost => \E i \in 1 .. Len(owed) : owed[i].op = "get"

Sent(request) ==
    Cardinality({i \in 1 .. Len(owed') : owed'[i] = Get(request)})
      > Cardinality({i \in 1 .. Len(owed) : owed[i] = Get(request)})

\* Once a read is complete, or the unit answered that it has no functions, they are not
\* asked again until someone wants them read; only selects keep reading them, and these
\* not either on a unit without.
ReadOnDemand ==
    [][(\E p \in Parts : Sent(p)) => \/ unread' # {}
                                     \/ selects # {} /\ enabled' ]_vars

\* A read that was asked for starts with part 1: part 2, whose answer updates the
\* selects, is not asked before part 1 was, unless a frame was lost.
Part1ComesFirst ==
    [][Sent("0x22") /\ "0x20" \in unread'
         => \/ losses > 0 \/ short
            \/ \E i \in 1 .. Len(owed') : owed'[i] = Get("0x20")]_vars

Supported == ~short /\ \A p \in Parts : ~AllZeros(p)

\* In the end every change reaches the unit, or a later reading tells the driver that it
\* did not; and the selects show what the unit has.
ChangesSettle ==
    <>[](/\ \A c \in Codes : asked[c] \in {NoByte, unit[c]}
         /\ Supported => \A c \in selects : unit[c] \in Options => option[c] = unit[c])

\* Every read that was asked for is made, of both parts, on a unit that has functions.
ReadsAreServed == <>[](~is_get_functions /\ (Supported => unread = {}))

\* A change is written before it is given up: no reading replaces it in the local copy
\* while the write is still to be done.
ChangesAreWritten ==
    [][\A c \in Codes : asked[c] # NoByte /\ asked'[c] = NoByte /\ unit' = unit
                          => ~is_set_functions]_vars
=============================================================================
