---------------------------- MODULE SettingsSync ----------------------------
(***************************************************************************)
(* Who decides what the unit does: Home Assistant, someone with the IR     *)
(* remote, the two protections.  The driver keeps what the user desires,   *)
(* what it last read from the unit (current), what it is about to send     *)
(* (wanted) and what it last commanded; it learns of the unit by           *)
(* readbacks, and must tell a change made with the remote from a command   *)
(* of its own that has not arrived yet.                                    *)
(*                                                                         *)
(* The driver is one record, `drv`, and each function of the code is an    *)
(* operator from that record to the next, since these functions call each  *)
(* other: check_power_and_mode_settings evaluates, on the wanted settings  *)
(* that are being sent.  Times are ages, up to the longest window they are *)
(* compared with.  CLIMATE_MODE_FAN_ONLY is "FAN", as in HPMode.           *)
(***************************************************************************)
EXTENDS Reconciliation

CONSTANTS
    PollInterval,         \* update_interval_ : no cycle sooner after the last or a write
    PollWindow,           \* no later than this: the interval, the deferral and an iteration
    EvaluationPeriod,     \* the 5 s between evaluations
    LockoutWindow,        \* the 5 s after a command without external changes
    TimeoutWindow,        \* how long a cycle waits for an answer that was lost
    GraceWindow,          \* update interval + 750 ms after a write
    HaModes,              \* climate modes asked for in Home Assistant
    RemoteModes,          \* and with the IR remote
    HaSetpoints,          \* setpoints asked for in Home Assistant
    RemoteSetpoints,      \* setpoints of the IR remote, half degrees
    Rooms,                \* room temperatures
    Conditions,           \* the sets of circumstances an installation may have
    MaxEvents             \* bound on what happens to the driver in a behaviour

Circumstances ==
    {"fan_off",           \* the fan mode OFF is offered
     "fan_stop",          \* a fan stop switch is configured
     "ltp",               \* a low temperature protection switch is configured
     "lost_answer",       \* the answer to a request of a cycle may not arrive
     "lost_set",          \* a SET frame may not reach the unit
     "other_fields",      \* fan, vanes and i-see change too
     "reconnections"}     \* the link goes down and comes back

ASSUME SettingsSyncAssumption ==
    /\ PollInterval \in Nat \ {0}
    /\ PollWindow \in Nat
    /\ PollInterval <= PollWindow
    /\ TimeoutWindow \in Nat
    /\ EvaluationPeriod \in Nat \ {0}
    /\ LockoutWindow \in Nat \ {0}
    /\ GraceWindow \in Nat
    /\ LockoutWindow <= SettleWindow
    /\ HaModes \subseteq HPMode \union {"OFF"}
    /\ RemoteModes \subseteq HPMode \union {"OFF"}
    /\ HaSetpoints \subseteq Nat
    /\ RemoteSetpoints \subseteq {t \in SETPOINT_MIN .. SETPOINT_MAX : t % 5 = 0}
    /\ Rooms \subseteq Int
    /\ Conditions \subseteq SUBSET Circumstances
    /\ MaxEvents \in Nat

VARIABLES
    drv,                  \* the driver, see Driver
    connected,            \* is_heatpump_connected()
    cycle,                \* the info cycle: "idle", "asked" for 0x02, "answered", or "lost"
    idle_age,             \* how long the driver has neither polled nor written settings
    unit,                 \* what the unit does: power, mode, temp
    was,                  \* what it did before the last SET, which it may still report
    wish,                 \* history: the modes and temps asked for since Home Assistant last did
    unseen,               \* history: a change made with the remote, neither noticed nor overwritten
    by_remote,            \* history: power and mode of the unit are as the remote left them
    heed,                 \* history: one made at rest, which the next readback should adopt
    has,                  \* the circumstances of this installation
    events                \* how much happened, up to MaxEvents

vars == <<drv, connected, cycle, idle_age, unit, was, wish, unseen, by_remote, heed, has, events>>

\* Time passes between two cycles and in one that waits for a lost answer.
IdleMemory == IF PollWindow > TimeoutWindow THEN PollWindow ELSE TimeoutWindow

\* The age of a write matters to the grace window and, for the unit's report, to the lock-out.
WriteMemory == IF GraceWindow > LockoutWindow THEN GraceWindow ELSE LockoutWindow

Temps == Nat \union {NoTemp}
Desires == [mode : HPMode \union {"OFF"}, temp : Temps]
Targets == [power_on : BOOLEAN, mode : HPMode \union {NoMode}, temp : Temps]
UnitStates == [power : {"ON", "OFF"}, mode : HPMode, temp : Nat]
Known == [power : {"ON", "OFF", "UNKNOWN"}, mode : HPMode \union {"UNKNOWN"}, temp : Temps]
Wanted == [power : {"ON", "OFF", "UNKNOWN"}, mode : HPMode \union {"UNKNOWN"}, temp : Temps,
           other : BOOLEAN, has_changed : BOOLEAN]

Driver ==
    [desired : Desires,             \* desired_mode_, desired_temp_
     commanded : Desires,           \* last_commanded_real_mode_ and _temp_
     current : Known,               \* current_settings_
     wanted : Wanted,               \* wanted_settings_; other: a fan or vane field is set
     ltp_active : BOOLEAN,
     first_real_state_received : BOOLEAN,
     has_issued : BOOLEAN,          \* has_issued_command_
     last_issued : Targets,         \* last_issued_command_target_
     command_age : 0 .. SettleWindow,  \* of last_issued_command_ms_ = last_mode_command_time_ms_
     send_age : 0 .. WriteMemory,      \* of last_wanted_settings_send_ms_
     evaluation_age : 0 .. EvaluationPeriod,  \* of last_evaluation_time_
     room : Int,                    \* current_temperature
     last_room : Int,               \* last_room_temp_
     fan_stop : BOOLEAN,            \* the state of the fan stop switch
     ltp_enabled : BOOLEAN]         \* the state of the low temperature protection switch

TypeOK ==
    /\ drv \in Driver
    /\ connected \in BOOLEAN
    /\ cycle \in {"idle", "asked", "answered", "lost"}
    /\ idle_age \in 0 .. IdleMemory
    /\ unit \in UnitStates /\ was \in UnitStates
    /\ wish \in [modes : SUBSET (HPMode \union {"OFF"}), temps : SUBSET Nat]
    /\ unseen \in BOOLEAN
    /\ by_remote \in BOOLEAN
    /\ heed \in BOOLEAN
    /\ has \in Conditions
    /\ events \in 0 .. MaxEvents

NothingKnown == [power |-> "UNKNOWN", mode |-> "UNKNOWN", temp |-> NoTemp]
NothingWanted == [power |-> "UNKNOWN", mode |-> "UNKNOWN", temp |-> NoTemp,
                  other |-> FALSE, has_changed |-> FALSE]

has_payload(wanted) == [wanted EXCEPT !.has_changed = FALSE] # NothingWanted

\* The power and mode of the unit as a climate mode.
physical_mode(settings) ==
    IF settings.power = "ON" /\ settings.mode \in HPMode THEN settings.mode ELSE "OFF"

-----------------------------------------------------------------------------
(***************************************************************************)
(* The functions of the driver.                                            *)
(***************************************************************************)
ReconcileInputs(d) ==
    [desired |-> d.desired, current |-> d.current, room |-> d.room,
     ltp_enabled |-> d.ltp_enabled, ltp_active |-> d.ltp_active, fan_stop |-> d.fan_stop,
     has_issued |-> d.has_issued, last_issued |-> d.last_issued, issued_age |-> d.command_age]

\* What a command for `target` leaves in the wanted settings.
WriteTarget(wanted, target) ==
    IF target.power_on
      THEN [wanted EXCEPT !.power = "ON", !.mode = target.mode,
                          !.temp = normalize_setpoint(target.temp), !.has_changed = TRUE]
      ELSE [wanted EXCEPT !.power = "OFF", !.has_changed = TRUE]

evaluate_fan_stop_and_ltp(d) ==
    LET decision == decide_reconciliation(ReconcileInputs(d))
        target   == decision.target
        latched  == [d EXCEPT !.ltp_active = decision.ltp_active]
    IN  IF decision.should_command
          THEN [latched EXCEPT
                  !.has_issued = TRUE,
                  !.last_issued = target,
                  !.command_age = 0,
                  !.commanded = [mode |-> IF target.power_on THEN target.mode ELSE "OFF",
                                 temp |-> target.temp],
                  !.wanted = WriteTarget(d.wanted, target)]
          ELSE latched

\* Mutant: what was commanded follows the unit, what is desired does not.
MutAdoptCommandedOnly(d, settings) ==
    [d EXCEPT !.commanded = [mode |-> physical_mode(settings), temp |-> settings.temp]]

\* The unit's own state becomes what the user desires and what was commanded.
Adopt(d, settings) ==
    [d EXCEPT !.desired = [mode |-> physical_mode(settings),
                           temp |-> IF settings.temp # NoTemp THEN settings.temp ELSE @.temp],
              !.commanded = [mode |-> physical_mode(settings), temp |-> settings.temp]]

FirstState(d, settings) ==
    LET received == [d EXCEPT !.first_real_state_received = TRUE]
        preserve_restored_mode == /\ d.fan_stop
                                  /\ d.desired.mode \in {"HEAT", "COOL"}
                                  /\ physical_mode(settings) = "OFF"
    IN  evaluate_fan_stop_and_ltp(
          IF preserve_restored_mode
            THEN [received EXCEPT !.commanded = [mode |-> "OFF", temp |-> d.desired.temp]]
            ELSE Adopt(received, settings))

TempChanged(d, settings) ==
    /\ physical_mode(settings) # "OFF"
    /\ settings.temp # NoTemp /\ d.commanded.temp # NoTemp
    /\ ~SameSetpoint(settings.temp, d.commanded.temp)

\* Mutant: no lock-out after a command.
MutCheckPowerAndModeAtOnce(d, settings) ==
    IF ~d.first_real_state_received
      THEN FirstState(d, settings)
    ELSE IF physical_mode(settings) # d.commanded.mode
      THEN Adopt([d EXCEPT !.fan_stop = FALSE], settings)
    ELSE d

\* With update_current_settings = false.
CheckPowerAndMode(d, settings) ==
    IF ~d.first_real_state_received
      THEN FirstState(d, settings)
    ELSE IF d.command_age < LockoutWindow
      THEN d
    ELSE IF physical_mode(settings) # d.commanded.mode
      THEN Adopt([d EXCEPT !.fan_stop = FALSE], settings)
    ELSE IF TempChanged(d, settings)
      THEN evaluate_fan_stop_and_ltp([d EXCEPT !.desired.temp = settings.temp,
                                               !.commanded.temp = settings.temp])
    ELSE d

check_power_and_mode_settings(d, settings) ==
    CheckPowerAndMode([d EXCEPT !.current.power = settings.power,
                                !.current.mode = settings.mode], settings)

\* The setpoint of a readback is believed only when no command of ours is under way.
BelieveSetpoint(d, settings) ==
    IF d.wanted.temp = NoTemp /\ d.send_age >= GraceWindow
      THEN [d EXCEPT !.current.temp = settings.temp]
      ELSE d

publish_state_to_ha(d, settings) ==
    BelieveSetpoint(IF d.wanted.mode = "UNKNOWN" /\ d.wanted.power = "UNKNOWN"
                      THEN check_power_and_mode_settings(d, settings)
                      ELSE d, settings)

heatpump_update(d, settings, other_changed) ==
    IF settings # d.current \/ other_changed THEN publish_state_to_ha(d, settings) ELSE d

send_wanted_settings_delegate(d) ==
    LET sending == [d EXCEPT !.send_age = 0]
        told    == IF d.wanted.mode # "UNKNOWN" \/ d.wanted.power # "UNKNOWN"
                     THEN CheckPowerAndMode(sending, d.wanted)
                     ELSE sending
    IN  [told EXCEPT !.wanted = NothingWanted]

\* finalize_control_if_updated: a pending write, even one without a payload.
Finalize(d) == [d EXCEPT !.wanted.has_changed = TRUE]

EvaluationDue == \/ drv.room # NoTemp /\ drv.room # drv.last_room
                 \/ drv.evaluation_age = EvaluationPeriod

\* loop() evaluates first, and neither writes nor starts a cycle while one runs.
MayAct == connected /\ ~EvaluationDue /\ cycle = "idle"

-----------------------------------------------------------------------------
(***************************************************************************)
(* Actions of the driver.                                                  *)
(***************************************************************************)
Happen == events < MaxEvents /\ events' = events + 1

\* A command of ours makes the press of the remote one of two concurrent wishes.
NoteCommand == heed' = (heed /\ drv'.command_age = drv.command_age)

\* In loop(): every five seconds and when the room temperature moved.
Evaluate ==
    /\ connected
    /\ EvaluationDue
    /\ drv' = evaluate_fan_stop_and_ltp([drv EXCEPT !.evaluation_age = 0,
                                                    !.last_room = drv.room])
    /\ NoteCommand
    /\ UNCHANGED <<connected, cycle, idle_age, unit, was, wish, unseen, by_remote, has, events>>

\* What a SET frame with these settings does to the unit.
Apply(settings) ==
    [power |-> IF settings.power = "UNKNOWN" THEN unit.power ELSE settings.power,
     mode  |-> IF settings.mode = "UNKNOWN" THEN unit.mode ELSE settings.mode,
     temp  |-> IF settings.temp = NoTemp THEN unit.temp ELSE settings.temp]

SendWantedSettings ==
    /\ MayAct
    /\ drv.wanted.has_changed
    /\ has_payload(drv.wanted)
    /\ drv' = send_wanted_settings_delegate(drv)
    /\ \/ /\ unit' = Apply(drv.wanted)
          /\ was' = unit
          /\ unseen' = (unseen /\ drv.wanted.power = "UNKNOWN")
          /\ by_remote' = (by_remote /\ drv.wanted.power = "UNKNOWN")
          /\ UNCHANGED events
       \/ "lost_set" \in has /\ Happen /\ UNCHANGED <<unit, was, unseen, by_remote>>
    /\ idle_age' = 0
    /\ NoteCommand
    /\ UNCHANGED <<connected, cycle, wish, has>>

\* check_pending_wanted_settings drops a change that carries nothing.
DropEmptySettings ==
    /\ MayAct
    /\ drv.wanted.has_changed
    /\ ~has_payload(drv.wanted)
    /\ drv' = [drv EXCEPT !.wanted = NothingWanted]
    /\ UNCHANGED <<connected, cycle, idle_age, unit, was, wish, unseen, by_remote, heed, has, events>>

(***************************************************************************)
(* The info cycle: DriverLoop has its timing.  While a write is pending    *)
(* none starts, and while one runs nothing is written.                     *)
(***************************************************************************)
StartCycle ==
    /\ MayAct
    /\ ~drv.wanted.has_changed
    /\ idle_age >= PollInterval
    /\ cycle' = "asked"
    /\ idle_age' = 0
    /\ UNCHANGED <<drv, connected, unit, was, wish, unseen, by_remote, heed, has, events>>

\* What the unit does is what the driver takes to be desired, or to be commanded.
Adopted(desired) ==
    /\ desired.mode = physical_mode(unit)
    /\ desired.mode # "OFF" => SameSetpoint(desired.temp, unit.temp)

(***************************************************************************)
(* The answer to request 0x02.  Within the lock-out the unit may report    *)
(* what it did before the SET; its other fields may differ from the        *)
(* current ones.                                                           *)
(***************************************************************************)
Reported == {unit} \union IF drv.send_age < LockoutWindow THEN {was} ELSE {}

Readback ==
    /\ connected
    /\ cycle = "asked"
    /\ cycle' = "answered"
    /\ \E settings \in Reported, other_changed \in BOOLEAN :
         /\ other_changed => "other_fields" \in has
         /\ drv' = heatpump_update(drv, settings, other_changed)
    /\ unseen' = (unseen /\ ~(Adopted(drv'.desired) /\ Adopted(drv'.commanded)))
    /\ heed' = FALSE
    /\ UNCHANGED <<connected, idle_age, unit, was, wish, by_remote, has, events>>

EndCycle ==
    /\ connected
    /\ cycle = "answered"
    /\ cycle' = "idle"
    /\ UNCHANGED <<drv, connected, idle_age, unit, was, wish, unseen, by_remote, heed, has, events>>

\* The answer to 0x02, or to a request after it, does not arrive.
LoseAnswer ==
    /\ "lost_answer" \in has
    /\ connected
    /\ cycle \in {"asked", "answered"}
    /\ Happen
    /\ cycle' = "lost"
    /\ UNCHANGED <<drv, connected, idle_age, unit, was, wish, unseen, by_remote, heed, has>>

\* check_timeout ends the cycle; until then the loop writes nothing.
CycleTimeout ==
    /\ connected
    /\ cycle = "lost"
    /\ idle_age = TimeoutWindow
    /\ cycle' = "idle"
    /\ idle_age' = 0
    /\ UNCHANGED <<drv, connected, unit, was, wish, unseen, by_remote, heed, has, events>>

(***************************************************************************)
(* Actions of Home Assistant.                                              *)
(***************************************************************************)
\* A new wish replaces the older ones, but for one the driver has yet to read.
Unseen(asked) == IF unseen THEN {asked} ELSE {}

\* climate.set_hvac_mode and climate.set_temperature.
ControlMode(mode) ==
    /\ Happen
    /\ drv' = Finalize(evaluate_fan_stop_and_ltp([drv EXCEPT !.desired.mode = mode]))
    /\ wish' = [wish EXCEPT !.modes = {mode} \union Unseen(physical_mode(unit))]
    /\ heed' = FALSE
    /\ UNCHANGED <<connected, cycle, idle_age, unit, was, unseen, by_remote, has>>

\* Until the first state was received the driver may come back to an older setpoint: the
\* first write, taken for that state, still has the one of a command taken back since.
NotSettledYet == IF drv.first_real_state_received THEN {} ELSE wish.temps

ControlTemperature(temp) ==
    /\ Happen
    /\ drv' = Finalize(evaluate_fan_stop_and_ltp([drv EXCEPT !.desired.temp = temp]))
    /\ wish' = [wish EXCEPT !.temps = {temp} \union Unseen(unit.temp) \union NotSettledYet]
    /\ heed' = FALSE
    /\ UNCHANGED <<connected, cycle, idle_age, unit, was, unseen, by_remote, has>>

\* climate.set_fan_mode and climate.set_swing_mode: no evaluation.
ControlOther ==
    /\ "other_fields" \in has
    /\ Happen
    /\ drv' = Finalize([drv EXCEPT !.wanted.other = TRUE])
    /\ UNCHANGED <<connected, cycle, idle_age, unit, was, wish, unseen, by_remote, heed, has>>

(***************************************************************************)
(* climate.set_fan_mode with OFF switches the unit off beside the          *)
(* evaluation: neither commanded nor last_issued know of it.               *)
(***************************************************************************)
ControlFanOff ==
    /\ "fan_off" \in has
    /\ Happen
    /\ drv' = Finalize([drv EXCEPT !.desired.mode = "OFF", !.wanted.power = "OFF"])
    /\ wish' = [wish EXCEPT !.modes = {"OFF"} \union Unseen(physical_mode(unit))]
    /\ heed' = FALSE
    /\ UNCHANGED <<connected, cycle, idle_age, unit, was, unseen, by_remote, has>>

\* The switches are read by the next evaluation.
FanStopSwitch ==
    /\ "fan_stop" \in has
    /\ Happen
    /\ drv' = [drv EXCEPT !.fan_stop = ~@]
    /\ UNCHANGED <<connected, cycle, idle_age, unit, was, wish, unseen, by_remote, heed, has>>

LowTempProtectionSwitch ==
    /\ "ltp" \in has
    /\ Happen
    /\ drv' = [drv EXCEPT !.ltp_enabled = ~@]
    /\ UNCHANGED <<connected, cycle, idle_age, unit, was, wish, unseen, by_remote, heed, has>>

(***************************************************************************)
(* Actions of the link, the room, the remote and time.                     *)
(***************************************************************************)
Disconnect ==
    /\ "reconnections" \in has
    /\ connected
    /\ Happen
    /\ connected' = FALSE
    /\ cycle' = "idle"
    /\ idle_age' = 0
    /\ drv' = [drv EXCEPT !.first_real_state_received = FALSE]
    /\ heed' = FALSE
    /\ UNCHANGED <<unit, was, wish, unseen, by_remote, has>>

Connect ==
    /\ ~connected
    /\ connected' = TRUE
    /\ drv' = [drv EXCEPT !.has_issued = FALSE, !.current = NothingKnown]
    /\ UNCHANGED <<cycle, idle_age, unit, was, wish, unseen, by_remote, heed, has, events>>

ReadRoom(room) ==
    /\ connected
    /\ cycle = "answered"
    /\ drv.room # room
    /\ Happen
    /\ drv' = [drv EXCEPT !.room = room]
    /\ UNCHANGED <<connected, cycle, idle_age, unit, was, wish, unseen, by_remote, heed, has>>

\* The unit did what it was told and the driver knows, so a press stands out; but for
\* one that switches off a unit the driver had switched off.
AtRest ==
    /\ connected
    /\ drv.first_real_state_received
    /\ drv.command_age >= LockoutWindow
    /\ ~drv.wanted.has_changed
    /\ drv.current = unit
    /\ physical_mode(unit) = drv.commanded.mode

PressRemote(mode, temp) ==
    LET pressed == IF mode = "OFF" THEN [unit EXCEPT !.power = "OFF"]
                   ELSE [power |-> "ON", mode |-> mode, temp |-> temp]
    IN  /\ Happen
        /\ pressed # unit
        /\ unit' = pressed
        /\ was' = pressed
        /\ wish' = [modes |-> wish.modes \union {mode}, temps |-> wish.temps \union {pressed.temp}]
        /\ unseen' = TRUE
        /\ by_remote' = TRUE
        /\ heed' = ((AtRest \/ heed) /\ ~(mode = "OFF" /\ drv.commanded.mode = "OFF"))
        /\ UNCHANGED <<drv, connected, cycle, idle_age, has>>

Older(age, limit) == IF age < limit THEN age + 1 ELSE limit

(***************************************************************************)
(* Time passes while the driver has nothing to do at once: the debounce    *)
(* before a write and the few answers of a cycle take less than a grid     *)
(* point.  A cycle whose answer was lost lasts longer, and a command of    *)
(* that time is written after it.                                          *)
(***************************************************************************)
Tick ==
    /\ connected => ~EvaluationDue
    /\ \/ ~connected
       \/ cycle = "idle" /\ ~drv.wanted.has_changed /\ idle_age < PollWindow
       \/ cycle = "lost" /\ idle_age < TimeoutWindow
    /\ drv' = [drv EXCEPT !.command_age = Older(@, SettleWindow),
                          !.send_age = Older(@, WriteMemory),
                          !.evaluation_age = Older(@, EvaluationPeriod)]
    /\ idle_age' = IF connected THEN idle_age + 1 ELSE idle_age
    /\ UNCHANGED <<connected, cycle, unit, was, wish, unseen, by_remote, heed, has, events>>

\* setup() restored the desired state; the unit does something of its own.
Init ==
    /\ has \in Conditions
    /\ \E desired \in [mode : HaModes, temp : HaSetpoints],
          physical \in [power : {"ON", "OFF"}, mode : RemoteModes \ {"OFF"}, temp : RemoteSetpoints] :
         /\ unit = physical
         /\ was = physical
         /\ wish = [modes |-> {desired.mode, physical_mode(physical)},
                    temps |-> {desired.temp, physical.temp}]
         /\ drv = [desired |-> desired,
                   commanded |-> [mode |-> "OFF", temp |-> 220],
                   current |-> NothingKnown,
                   wanted |-> NothingWanted,
                   ltp_active |-> FALSE,
                   first_real_state_received |-> FALSE,
                   has_issued |-> FALSE,
                   last_issued |-> [power_on |-> FALSE, mode |-> NoMode, temp |-> NoTemp],
                   command_age |-> SettleWindow,
                   send_age |-> WriteMemory,
                   evaluation_age |-> EvaluationPeriod,
                   room |-> NoTemp,
                   last_room |-> NoTemp,
                   fan_stop |-> "fan_stop" \in has,
                   ltp_enabled |-> "ltp" \in has]
    /\ connected = FALSE
    /\ cycle = "idle"
    /\ idle_age = 0
    /\ unseen = TRUE
    /\ by_remote = TRUE
    /\ heed = FALSE
    /\ events = 0

Next ==
    \/ Evaluate
    \/ SendWantedSettings
    \/ DropEmptySettings
    \/ StartCycle
    \/ Readback
    \/ EndCycle
    \/ LoseAnswer
    \/ CycleTimeout
    \/ \E mode \in HaModes : ControlMode(mode)
    \/ \E temp \in HaSetpoints : ControlTemperature(temp)
    \/ ControlOther
    \/ ControlFanOff
    \/ FanStopSwitch
    \/ LowTempProtectionSwitch
    \/ Disconnect
    \/ Connect
    \/ \E room \in Rooms : ReadRoom(room)
    \/ \E mode \in RemoteModes, temp \in RemoteSetpoints : PressRemote(mode, temp)
    \/ Tick

Fairness ==
    /\ WF_vars(Evaluate)
    /\ WF_vars(SendWantedSettings)
    /\ WF_vars(DropEmptySettings)
    /\ WF_vars(StartCycle)
    /\ WF_vars(Readback)
    /\ WF_vars(EndCycle)
    /\ WF_vars(CycleTimeout)
    /\ WF_vars(Connect)
    /\ WF_vars(Tick)

Spec == Init /\ [][Next]_vars /\ Fairness

-----------------------------------------------------------------------------
(***************************************************************************)
(* Properties.                                                             *)
(***************************************************************************)
\* A wish for a setpoint survives being rounded to what the unit can do.
TempIsAWish == \E temp \in wish.temps : drv.desired.temp \in {temp, normalize_setpoint(temp)}

(***************************************************************************)
(* What the driver takes for the user's mode is one that was asked for: by *)
(* Home Assistant last, or with the remote since then or not yet read.     *)
(* Neither a protection that forces the unit to heat or stops it, nor a    *)
(* command on its way, may become the user's mode.                         *)
(***************************************************************************)
DesireIsAWish == drv.desired.mode \in wish.modes

\* The link stays up, SET frames arrive, and the fan mode OFF is not offered.
CommandsArrive == has \intersect {"lost_set", "reconnections", "fan_off"} = {}

\* And at once: no cycle waits for a lost answer while the lock-out of a command runs out.
Undisturbed == CommandsArrive /\ "lost_answer" \notin has

\* There, mode and setpoint are as asked for.
DesireIsKept == Undisturbed => DesireIsAWish /\ TempIsAWish

(***************************************************************************)
(* In every state evaluate_fan_stop_and_ltp can be called in: were its     *)
(* command obeyed, the next evaluation would not command the unit again.   *)
(* The latch, the deadband and the rounding of the setpoint must agree.    *)
(***************************************************************************)
EvaluationSettles == SettlesWhenObeyed(ReconcileInputs(drv))

(***************************************************************************)
(* Undisturbed, fan stop is given up only for a change made with the       *)
(* remote, or by its switch: no command of the driver's own is taken for   *)
(* an override.                                                            *)
(***************************************************************************)
FanStopIsKept ==
    [][Undisturbed /\ drv.fan_stop /\ ~drv'.fan_stop => by_remote \/ FanStopSwitch]_vars

\* The unit runs with a setpoint that was neither read nor commanded.
NewSetpoint ==
    /\ physical_mode(unit) # "OFF"
    /\ ~SameSetpoint(unit.temp, drv.current.temp)
    /\ ~SameSetpoint(unit.temp, drv.commanded.temp)

(***************************************************************************)
(* A change made with the remote while the unit was at rest, and no        *)
(* command of the driver crossed it, is what the user desires after the    *)
(* next readback: the mode with its setpoint, where the unit no longer     *)
(* does what was commanded, or the setpoint alone, where only that is new. *)
(***************************************************************************)
RemoteIsHeeded ==
    [][heed /\ Readback =>
         /\ physical_mode(unit) # drv.commanded.mode => Adopted(drv'.desired)
         /\ NewSetpoint => SameSetpoint(drv'.desired.temp, unit.temp)]_vars

\* The unit is driven where the desired state and the protections want it.
UnitObeys ==
    LET in     == [ReconcileInputs(drv) EXCEPT !.current = unit]
        target == resolve_physical_target(in, drv.ltp_active)
    IN  ~has_mismatch(target, unit)

(***************************************************************************)
(* Settled for good: the unit is known, does what was commanded and what   *)
(* is wanted of it, and no report of an older state can come.              *)
(***************************************************************************)
Settled ==
    /\ connected /\ drv.first_real_state_received
    /\ drv.wanted = NothingWanted
    /\ drv.current = unit
    /\ was = unit \/ drv.send_age >= LockoutWindow
    /\ physical_mode(unit) = drv.commanded.mode /\ ~TempChanged(drv, unit)
    /\ drv.ltp_active = next_ltp_active(ReconcileInputs(drv))
    /\ UnitObeys

(***************************************************************************)
(* Once nobody changes anything, driver and unit come to agree and stay    *)
(* so: connected, nothing left to write, the unit read correctly and doing *)
(* what is wanted of it.  Neither an endless fight with the remote's last  *)
(* word nor a command repeated for ever, whatever was lost on the way.     *)
(* Where commands arrive, late or not, they are settled for good.          *)
(***************************************************************************)
EventuallySettled ==
    <>[](/\ connected /\ ~drv.wanted.has_changed /\ drv.current = unit /\ UnitObeys
         /\ CommandsArrive => Settled)
=============================================================================
