------------------------- MODULE SettingsSync_proofs -------------------------
(***************************************************************************)
(* The settings synchronisation is well typed for every configuration,     *)
(* what reconciliation_policy.h decides settles in every state it is asked *)
(* in, a press of the IR remote is heeded, what the driver takes for the   *)
(* user's wish is what was asked for, as long as no frame is lost, and     *)
(* what is settled stays so.                                               *)
(***************************************************************************)
EXTENDS SettingsSync, Reconciliation_proofs

LEMMA DriverGivesInputs ==
    ASSUME NEW d \in Driver
    PROVE  ReconcileInputs(d) \in Inputs
  BY SettingsSyncAssumption, ReconciliationAssumption
  DEF ReconcileInputs, Inputs, Driver, Desires, Known, Targets, Temps, Temperatures

LEMMA DecisionType ==
    ASSUME NEW in \in Inputs
    PROVE  /\ decide_reconciliation(in).ltp_active \in BOOLEAN
           /\ decide_reconciliation(in).should_command \in BOOLEAN
           /\ decide_reconciliation(in).target \in Targets
           /\ decide_reconciliation(in).target.power_on =>
                decide_reconciliation(in).target.mode \in HPMode
  <1>1. next_ltp_active(in) \in BOOLEAN
    BY DEF next_ltp_active, Inputs
  <1>. QED
    BY <1>1, TargetType DEF decide_reconciliation, AllTargets, Targets, Temps, Temperatures

LEMMA PhysicalModeType ==
    ASSUME NEW settings
    PROVE  physical_mode(settings) \in HPMode \union {"OFF"}
  BY DEF physical_mode

LEMMA WriteTargetType ==
    ASSUME NEW wanted \in Wanted, NEW target \in Targets,
           target.power_on => target.mode \in HPMode
    PROVE  WriteTarget(wanted, target) \in Wanted
  <1>1. normalize_setpoint(target.temp) \in Nat
    BY NormalizedIsAccepted DEF Targets, Temps, NoTemp, SETPOINT_MIN, SETPOINT_MAX
  <1>. QED
    BY <1>1 DEF WriteTarget, Wanted, Temps

LEMMA EvaluateType ==
    ASSUME NEW d \in Driver
    PROVE  evaluate_fan_stop_and_ltp(d) \in Driver
  <1>. DEFINE decision == decide_reconciliation(ReconcileInputs(d))
              target   == decision.target
              latched  == [d EXCEPT !.ltp_active = decision.ltp_active]
              written  == WriteTarget(d.wanted, target)
              commanded == [mode |-> IF target.power_on THEN target.mode ELSE "OFF",
                            temp |-> target.temp]
  <1>1. /\ decision.ltp_active \in BOOLEAN
        /\ target \in Targets
        /\ target.power_on => target.mode \in HPMode
    BY DriverGivesInputs, DecisionType
  <1>2. written \in Wanted
    BY <1>1, WriteTargetType DEF Driver
  <1>3. commanded \in Desires
    BY <1>1 DEF Desires, Targets
  <1>4. latched \in Driver
    BY <1>1 DEF Driver
  <1>5. 0 \in 0 .. SettleWindow
    BY ReconciliationAssumption
  <1>. HIDE DEF target, written, commanded, latched
  <1>6. [latched EXCEPT !.has_issued = TRUE, !.last_issued = target, !.command_age = 0,
                        !.commanded = commanded, !.wanted = written] \in Driver
    BY <1>1, <1>2, <1>3, <1>4, <1>5 DEF Driver
  <1>. QED
    BY <1>4, <1>6 DEF evaluate_fan_stop_and_ltp, target, latched, written, commanded

LEMMA AdoptType ==
    ASSUME NEW d \in Driver, NEW settings, settings.temp \in Temps
    PROVE  Adopt(d, settings) \in Driver
  <1>. DEFINE desired   == [mode |-> physical_mode(settings),
                            temp |-> IF settings.temp # NoTemp THEN settings.temp
                                     ELSE d.desired.temp]
              commanded == [mode |-> physical_mode(settings), temp |-> settings.temp]
  <1>1. desired \in Desires /\ commanded \in Desires
    BY PhysicalModeType DEF Desires, Driver
  <1>. HIDE DEF desired, commanded
  <1>2. [d EXCEPT !.desired = desired, !.commanded = commanded] \in Driver
    BY <1>1 DEF Driver
  <1>. QED
    BY <1>2 DEF Adopt, desired, commanded

LEMMA FirstStateType ==
    ASSUME NEW d \in Driver, NEW settings, settings.temp \in Temps
    PROVE  FirstState(d, settings) \in Driver
  <1>. DEFINE received == [d EXCEPT !.first_real_state_received = TRUE]
              preserved == [received EXCEPT !.commanded = [mode |-> "OFF",
                                                           temp |-> d.desired.temp]]
  <1>1. received \in Driver
    BY DEF Driver
  <1>2. [mode |-> "OFF", temp |-> d.desired.temp] \in Desires
    BY DEF Driver, Desires
  <1>3. preserved \in Driver
    BY <1>1, <1>2 DEF Driver
  <1>4. Adopt(received, settings) \in Driver
    BY <1>1, AdoptType
  <1>. HIDE DEF received, preserved
  <1>5. /\ evaluate_fan_stop_and_ltp(preserved) \in Driver
        /\ evaluate_fan_stop_and_ltp(Adopt(received, settings)) \in Driver
    BY <1>3, <1>4, EvaluateType
  <1>. QED
    BY <1>5 DEF FirstState, received, preserved

LEMMA CheckPowerAndModeType ==
    ASSUME NEW d \in Driver, NEW settings, settings.temp \in Temps
    PROVE  CheckPowerAndMode(d, settings) \in Driver
  <1>1. FirstState(d, settings) \in Driver
    BY FirstStateType
  <1>2. Adopt([d EXCEPT !.fan_stop = FALSE], settings) \in Driver
    <2>1. [d EXCEPT !.fan_stop = FALSE] \in Driver
      BY DEF Driver
    <2>. QED
      BY <2>1, AdoptType
  <1>3. evaluate_fan_stop_and_ltp([d EXCEPT !.desired.temp = settings.temp,
                                            !.commanded.temp = settings.temp]) \in Driver
    <2>1. /\ [d.desired EXCEPT !.temp = settings.temp] \in Desires
          /\ [d.commanded EXCEPT !.temp = settings.temp] \in Desires
      BY DEF Driver, Desires
    <2>2. [d EXCEPT !.desired.temp = settings.temp, !.commanded.temp = settings.temp] \in Driver
      BY <2>1 DEF Driver
    <2>. QED
      BY <2>2, EvaluateType
  <1>. QED
    BY <1>1, <1>2, <1>3 DEF CheckPowerAndMode

LEMMA HeatpumpUpdateType ==
    ASSUME NEW d \in Driver, NEW settings \in UnitStates, NEW other_changed \in BOOLEAN
    PROVE  heatpump_update(d, settings, other_changed) \in Driver
  <1>. DEFINE told == [d EXCEPT !.current.power = settings.power, !.current.mode = settings.mode]
              checked == IF d.wanted.mode = "UNKNOWN" /\ d.wanted.power = "UNKNOWN"
                           THEN check_power_and_mode_settings(d, settings) ELSE d
  <1>1. settings.temp \in Temps
    BY DEF UnitStates, Temps
  <1>2. told \in Driver
    <2>1. [d.current EXCEPT !.power = settings.power, !.mode = settings.mode] \in Known
      BY DEF Driver, Known, UnitStates
    <2>. QED
      BY <2>1 DEF Driver
  <1>3. checked \in Driver
    BY <1>1, <1>2, CheckPowerAndModeType DEF check_power_and_mode_settings
  <1>. HIDE DEF checked
  <1>4. BelieveSetpoint(checked, settings) \in Driver
    <2>1. [checked.current EXCEPT !.temp = settings.temp] \in Known
      BY <1>1, <1>3 DEF Driver, Known
    <2>2. [checked EXCEPT !.current.temp = settings.temp] \in Driver
      BY <1>3, <2>1 DEF Driver
    <2>. QED
      BY <1>3, <2>2 DEF BelieveSetpoint
  <1>. QED
    BY <1>4 DEF heatpump_update, publish_state_to_ha, checked

LEMMA WriteMemoryType == WriteMemory \in Nat /\ WriteMemory >= LockoutWindow
  BY SettingsSyncAssumption DEF WriteMemory

LEMMA IdleMemoryType ==
    IdleMemory \in Nat /\ IdleMemory >= PollWindow /\ IdleMemory >= TimeoutWindow
  BY SettingsSyncAssumption DEF IdleMemory

LEMMA NothingType == NothingWanted \in Wanted /\ NothingKnown \in Known
  BY DEF NothingWanted, Wanted, NothingKnown, Known, Temps

LEMMA SendType ==
    ASSUME NEW d \in Driver
    PROVE  send_wanted_settings_delegate(d) \in Driver
  <1>. DEFINE sending == [d EXCEPT !.send_age = 0]
              told == IF d.wanted.mode # "UNKNOWN" \/ d.wanted.power # "UNKNOWN"
                        THEN CheckPowerAndMode(sending, d.wanted) ELSE sending
  <1>1. sending \in Driver
    <2>1. 0 \in 0 .. WriteMemory
      BY WriteMemoryType
    <2>. QED
      BY <2>1 DEF Driver
  <1>2. told \in Driver
    BY <1>1, CheckPowerAndModeType DEF Driver, Wanted
  <1>. HIDE DEF told
  <1>3. [told EXCEPT !.wanted = NothingWanted] \in Driver
    BY <1>2, NothingType DEF Driver
  <1>. QED
    BY <1>3 DEF send_wanted_settings_delegate, told

LEMMA FinalizeType ==
    ASSUME NEW d \in Driver
    PROVE  Finalize(d) \in Driver
  <1>1. [d.wanted EXCEPT !.has_changed = TRUE] \in Wanted
    BY DEF Driver, Wanted
  <1>. QED
    BY <1>1 DEF Finalize, Driver

LEMMA OlderType ==
    ASSUME NEW limit \in Nat, NEW age \in 0 .. limit
    PROVE  Older(age, limit) \in 0 .. limit
  BY DEF Older

LEMMA RemoteSetpointType == RemoteSetpoints \subseteq Nat
  BY SettingsSyncAssumption DEF SETPOINT_MIN, SETPOINT_MAX

LEMMA HappenType ==
    ASSUME TypeOK, Happen
    PROVE  events' \in 0 .. MaxEvents
  BY SettingsSyncAssumption DEF TypeOK, Happen

LEMMA InitType == Init => TypeOK
  <1>. SUFFICES ASSUME Init
                PROVE  TypeOK
    OBVIOUS
  <1>1. PICK desired \in [mode : HaModes, temp : HaSetpoints],
             physical \in [power : {"ON", "OFF"}, mode : RemoteModes \ {"OFF"},
                           temp : RemoteSetpoints] :
          /\ unit = physical
          /\ was = physical
          /\ wish = [modes |-> {desired.mode, physical_mode(physical)},
                     temps |-> {desired.temp, physical.temp}]
          /\ drv = [desired |-> desired,
                    commanded |-> [mode |-> "OFF", temp |-> 220],
                    current |-> NothingKnown,
                    wanted |-> NothingWanted,
                    ltp_active |-> FALSE,
                    first_real_state_received |-> FALSE,
                    has_issued |-> FALSE,
                    last_issued |-> [power_on |-> FALSE, mode |-> NoMode, temp |-> NoTemp],
                    command_age |-> SettleWindow,
                    send_age |-> WriteMemory,
                    evaluation_age |-> EvaluationPeriod,
                    room |-> NoTemp,
                    last_room |-> NoTemp,
                    fan_stop |-> "fan_stop" \in has,
                    ltp_enabled |-> "ltp" \in has]
    BY DEF Init
  <1>2. physical \in UnitStates
    <2>1. RemoteModes \ {"OFF"} \subseteq HPMode
      BY SettingsSyncAssumption
    <2>2. RemoteSetpoints \subseteq Nat
      BY RemoteSetpointType
    <2>. QED
      BY <2>1, <2>2 DEF UnitStates
  <1>3. wish \in [modes : SUBSET (HPMode \union {"OFF"}), temps : SUBSET Nat]
    BY <1>1, <1>2, PhysicalModeType, SettingsSyncAssumption DEF UnitStates
  <1>4. /\ desired \in Desires
        /\ [mode |-> "OFF", temp |-> 220] \in Desires
        /\ [power_on |-> FALSE, mode |-> NoMode, temp |-> NoTemp] \in Targets
    <2>1. desired \in Desires
      BY SettingsSyncAssumption DEF Desires, Temps
    <2>2. [mode |-> "OFF", temp |-> 220] \in Desires
      BY DEF Desires, Temps
    <2>3. [power_on |-> FALSE, mode |-> NoMode, temp |-> NoTemp] \in Targets
      BY DEF Targets, Temps
    <2>. QED
      BY <2>1, <2>2, <2>3
  <1>5. /\ SettleWindow \in 0 .. SettleWindow
        /\ WriteMemory \in 0 .. WriteMemory
        /\ EvaluationPeriod \in 0 .. EvaluationPeriod
        /\ 0 \in 0 .. IdleMemory
        /\ 0 \in 0 .. MaxEvents
    BY ReconciliationAssumption, SettingsSyncAssumption, WriteMemoryType, IdleMemoryType
  <1>6. drv \in Driver
    BY <1>1, <1>4, <1>5, NothingType DEF Driver, NoTemp
  <1>. QED
    BY <1>1, <1>2, <1>3, <1>5, <1>6 DEF Init, TypeOK

LEMMA NextType == TypeOK /\ [Next]_vars => TypeOK'
  <1>. SUFFICES ASSUME TypeOK, [Next]_vars
                PROVE  TypeOK'
    OBVIOUS
  <1>. USE DEF TypeOK
  <1>1. CASE Evaluate
    <2>1. [drv EXCEPT !.evaluation_age = 0, !.last_room = drv.room] \in Driver
      <3>1. 0 \in 0 .. EvaluationPeriod
        BY SettingsSyncAssumption
      <3>. QED
        BY <3>1 DEF Driver
    <2>2. drv' \in Driver
      BY <1>1, <2>1, EvaluateType DEF Evaluate
    <2>. QED
      BY <1>1, <2>2 DEF Evaluate, NoteCommand
  <1>2. CASE SendWantedSettings
    <2>1. drv' \in Driver
      BY <1>2, SendType DEF SendWantedSettings
    <2>2. Apply(drv.wanted) \in UnitStates
      BY DEF Apply, UnitStates, Driver, Wanted, Temps
    <2>3. unit' \in UnitStates /\ was' \in UnitStates
      BY <1>2, <2>2 DEF SendWantedSettings
    <2>4. events' \in 0 .. MaxEvents
      BY <1>2, SettingsSyncAssumption DEF SendWantedSettings, Happen
    <2>5. unseen' \in BOOLEAN /\ by_remote' \in BOOLEAN
      BY <1>2 DEF SendWantedSettings
    <2>6. 0 \in 0 .. IdleMemory
      BY IdleMemoryType
    <2>. QED
      BY <1>2, <2>1, <2>3, <2>4, <2>5, <2>6 DEF SendWantedSettings, NoteCommand
  <1>3. CASE DropEmptySettings
    BY <1>3, NothingType DEF DropEmptySettings, Driver
  <1>4. CASE StartCycle
    BY <1>4, IdleMemoryType DEF StartCycle
  <1>5. CASE Readback
    <2>1. Reported \subseteq UnitStates
      BY DEF Reported
    <2>2. drv' \in Driver
      BY <1>5, <2>1, HeatpumpUpdateType DEF Readback
    <2>. QED
      BY <1>5, <2>2 DEF Readback
  <1>6. CASE EndCycle
    BY <1>6 DEF EndCycle
  <1>7. ASSUME NEW mode \in HaModes, ControlMode(mode)
        PROVE  TypeOK'
    <2>1. mode \in HPMode \union {"OFF"}
      BY SettingsSyncAssumption
    <2>2. [drv EXCEPT !.desired.mode = mode] \in Driver
      <3>1. [drv.desired EXCEPT !.mode = mode] \in Desires
        BY <2>1 DEF Driver, Desires
      <3>. QED
        BY <3>1 DEF Driver
    <2>3. drv' \in Driver
      BY <1>7, <2>2, EvaluateType, FinalizeType DEF ControlMode
    <2>4. wish' \in [modes : SUBSET (HPMode \union {"OFF"}), temps : SUBSET Nat]
      BY <1>7, <2>1, PhysicalModeType DEF ControlMode, Unseen
    <2>. QED
      BY <1>7, <2>3, <2>4, HappenType DEF ControlMode
  <1>8. ASSUME NEW temp \in HaSetpoints, ControlTemperature(temp)
        PROVE  TypeOK'
    <2>1. temp \in Nat
      BY SettingsSyncAssumption
    <2>2. [drv EXCEPT !.desired.temp = temp] \in Driver
      <3>1. [drv.desired EXCEPT !.temp = temp] \in Desires
        BY <2>1 DEF Driver, Desires, Temps
      <3>. QED
        BY <3>1 DEF Driver
    <2>3. drv' \in Driver
      BY <1>8, <2>2, EvaluateType, FinalizeType DEF ControlTemperature
    <2>4. wish' \in [modes : SUBSET (HPMode \union {"OFF"}), temps : SUBSET Nat]
      BY <1>8, <2>1 DEF ControlTemperature, Unseen, NotSettledYet, UnitStates
    <2>. QED
      BY <1>8, <2>3, <2>4, HappenType DEF ControlTemperature
  <1>9. CASE ControlOther
    <2>1. [drv EXCEPT !.wanted.other = TRUE] \in Driver
      <3>1. [drv.wanted EXCEPT !.other = TRUE] \in Wanted
        BY DEF Driver, Wanted
      <3>. QED
        BY <3>1 DEF Driver
    <2>. QED
      BY <1>9, <2>1, FinalizeType, HappenType DEF ControlOther
  <1>10. CASE ControlFanOff
    <2>1. [drv EXCEPT !.desired.mode = "OFF", !.wanted.power = "OFF"] \in Driver
      <3>1. /\ [drv.desired EXCEPT !.mode = "OFF"] \in Desires
            /\ [drv.wanted EXCEPT !.power = "OFF"] \in Wanted
        BY DEF Driver, Desires, Wanted
      <3>. QED
        BY <3>1 DEF Driver
    <2>2. wish' \in [modes : SUBSET (HPMode \union {"OFF"}), temps : SUBSET Nat]
      BY <1>10, PhysicalModeType DEF ControlFanOff, Unseen
    <2>3. drv' \in Driver
      BY <1>10, <2>1, FinalizeType DEF ControlFanOff
    <2>. QED
      BY <1>10, <2>2, <2>3, HappenType DEF ControlFanOff
  <1>11. CASE FanStopSwitch
    <2>1. drv' \in Driver
      BY <1>11 DEF FanStopSwitch, Driver
    <2>. QED
      BY <1>11, <2>1, HappenType DEF FanStopSwitch
  <1>12. CASE LowTempProtectionSwitch
    <2>1. drv' \in Driver
      BY <1>12 DEF LowTempProtectionSwitch, Driver
    <2>. QED
      BY <1>12, <2>1, HappenType DEF LowTempProtectionSwitch
  <1>13. CASE Disconnect
    <2>1. drv' \in Driver
      BY <1>13 DEF Disconnect, Driver
    <2>2. 0 \in 0 .. IdleMemory
      BY IdleMemoryType
    <2>3. events' \in 0 .. MaxEvents
      BY <1>13, HappenType DEF Disconnect
    <2>. QED
      BY <1>13, <2>1, <2>2, <2>3 DEF Disconnect
  <1>14. CASE Connect
    BY <1>14, NothingType DEF Connect, Driver
  <1>15. ASSUME NEW room \in Rooms, ReadRoom(room)
         PROVE  TypeOK'
    BY <1>15, SettingsSyncAssumption DEF ReadRoom, Happen, Driver
  <1>16. ASSUME NEW mode \in RemoteModes, NEW temp \in RemoteSetpoints, PressRemote(mode, temp)
         PROVE  TypeOK'
    <2>1. /\ mode \in HPMode \union {"OFF"}
          /\ temp \in Nat
      BY SettingsSyncAssumption DEF SETPOINT_MIN, SETPOINT_MAX
    <2>2. unit' \in UnitStates /\ was' = unit'
      BY <1>16, <2>1 DEF PressRemote, UnitStates
    <2>3. wish' = [modes |-> wish.modes \union {mode}, temps |-> wish.temps \union {unit'.temp}]
      BY <1>16 DEF PressRemote
    <2>4. wish' \in [modes : SUBSET (HPMode \union {"OFF"}), temps : SUBSET Nat]
      BY <2>1, <2>2, <2>3 DEF UnitStates
    <2>5. heed' \in BOOLEAN
      BY <1>16 DEF PressRemote, AtRest
    <2>. QED
      BY <1>16, <2>2, <2>4, <2>5, SettingsSyncAssumption DEF PressRemote, Happen
  <1>17. CASE Tick
    <2>1. /\ Older(drv.command_age, SettleWindow) \in 0 .. SettleWindow
          /\ Older(drv.send_age, WriteMemory) \in 0 .. WriteMemory
          /\ Older(drv.evaluation_age, EvaluationPeriod) \in 0 .. EvaluationPeriod
      BY OlderType, ReconciliationAssumption, SettingsSyncAssumption, WriteMemoryType DEF Driver
    <2>2. drv' \in Driver
      BY <1>17, <2>1 DEF Tick, Driver
    <2>3. idle_age' \in 0 .. IdleMemory
      BY <1>17, IdleMemoryType, SettingsSyncAssumption DEF Tick
    <2>. QED
      BY <1>17, <2>2, <2>3 DEF Tick
  <1>18. CASE UNCHANGED vars
    BY <1>18 DEF vars
  <1>19. CASE LoseAnswer
    BY <1>19, SettingsSyncAssumption DEF LoseAnswer, Happen
  <1>20. CASE CycleTimeout
    BY <1>20, IdleMemoryType DEF CycleTimeout
  <1>. QED
    BY <1>1, <1>2, <1>3, <1>4, <1>5, <1>6, <1>7, <1>8, <1>9, <1>10, <1>11, <1>12, <1>13,
       <1>14, <1>15, <1>16, <1>17, <1>18, <1>19, <1>20 DEF Next

\* Every reachable state of the settings synchronisation is well typed.
THEOREM SyncTypeCorrect == Spec => []TypeOK
  BY InitType, NextType, PTL DEF Spec

(***************************************************************************)
(* In every reachable state, whatever the configuration: a command of      *)
(* evaluate_fan_stop_and_ltp that the unit obeys is not followed by        *)
(* another one for the same wish, room and switches.                       *)
(***************************************************************************)
THEOREM CommandsSettle == Spec => []EvaluationSettles
  <1>1. TypeOK => EvaluationSettles
    BY DriverGivesInputs, CommandSettles DEF TypeOK, EvaluationSettles
  <1>. QED
    BY <1>1, SyncTypeCorrect, PTL

-----------------------------------------------------------------------------
(***************************************************************************)
(* What the functions of the driver leave in the fields the invariants     *)
(* below speak of.                                                         *)
(***************************************************************************)

\* All that these invariants know of a driver, but for `current`.
Agree(d, e) ==
    /\ e.desired = d.desired /\ e.commanded = d.commanded /\ e.wanted = d.wanted
    /\ e.first_real_state_received = d.first_real_state_received
    /\ e.command_age = d.command_age /\ e.send_age = d.send_age
    /\ e.fan_stop = d.fan_stop

\* An evaluation leaves the wishes and the readings alone.
EvaluationFrame(d, e) ==
    /\ e.desired = d.desired /\ e.current = d.current
    /\ e.first_real_state_received = d.first_real_state_received
    /\ e.send_age = d.send_age /\ e.evaluation_age = d.evaluation_age
    /\ e.room = d.room /\ e.last_room = d.last_room
    /\ e.fan_stop = d.fan_stop /\ e.ltp_enabled = d.ltp_enabled

NoCommand(d, e) ==
    /\ e.commanded = d.commanded /\ e.wanted = d.wanted /\ e.command_age = d.command_age
    /\ e.has_issued = d.has_issued /\ e.last_issued = d.last_issued

\* The command for `target`: the new commanded state, wanted settings and age.
Command(d, e, target) ==
    /\ e.commanded = [mode |-> IF target.power_on THEN target.mode ELSE "OFF",
                      temp |-> target.temp]
    /\ e.wanted = WriteTarget(d.wanted, target)
    /\ e.command_age = 0
    /\ e.has_issued /\ e.last_issued = target

LEMMA EvaluationCommands ==
    ASSUME NEW d \in Driver
    PROVE  LET in     == ReconcileInputs(d)
               target == resolve_physical_target(in, next_ltp_active(in))
               e      == evaluate_fan_stop_and_ltp(d)
           IN  /\ EvaluationFrame(d, e)
               /\ e.ltp_active = next_ltp_active(in)
               /\ target \in Targets /\ (target.power_on => target.mode \in HPMode)
               /\ IF has_mismatch(target, d.current) /\ ~should_suppress_repeat_command(in, target)
                    THEN Command(d, e, target) ELSE NoCommand(d, e)
  <1>. DEFINE in       == ReconcileInputs(d)
              decision == decide_reconciliation(in)
              target   == decision.target
              latched  == [d EXCEPT !.ltp_active = decision.ltp_active]
              commands == decision.should_command
              written  == WriteTarget(d.wanted, target)
              commanded == [mode |-> IF target.power_on THEN target.mode ELSE "OFF",
                            temp |-> target.temp]
              sent     == [latched EXCEPT !.has_issued = TRUE, !.last_issued = target,
                                          !.command_age = 0, !.commanded = commanded,
                                          !.wanted = written]
              e        == evaluate_fan_stop_and_ltp(d)
  <1>1. /\ target = resolve_physical_target(in, next_ltp_active(in))
        /\ decision.ltp_active = next_ltp_active(in)
        /\ commands <=> /\ has_mismatch(target, in.current)
                        /\ ~should_suppress_repeat_command(in, target)
        /\ in.current = d.current
    BY DEF decide_reconciliation, ReconcileInputs
  <1>2. target \in Targets /\ (target.power_on => target.mode \in HPMode)
    BY DriverGivesInputs, DecisionType
  <1>3. e = IF commands THEN sent ELSE latched
    BY DEF evaluate_fan_stop_and_ltp
  <1>. HIDE DEF decision, target, commands, written, commanded, e
  <1>4. CASE commands
    <2>1. Command(d, e, target) /\ EvaluationFrame(d, e) /\ e.ltp_active = decision.ltp_active
      BY <1>3, <1>4 DEF Driver, Command, EvaluationFrame, written, commanded
    <2>. QED
      BY <1>1, <1>2, <1>4, <2>1 DEF in, e
  <1>5. CASE ~commands
    <2>1. NoCommand(d, e) /\ EvaluationFrame(d, e) /\ e.ltp_active = decision.ltp_active
      BY <1>3, <1>5 DEF Driver, NoCommand, EvaluationFrame
    <2>. QED
      BY <1>1, <1>2, <1>5, <2>1 DEF in, e
  <1>. QED
    BY <1>4, <1>5

\* The state adopted from `settings`, with or without giving up fan stop.
LEMMA AdoptGives ==
    ASSUME NEW d \in Driver, NEW settings
    PROVE  LET e == Adopt(d, settings)
           IN  /\ e.desired = [mode |-> physical_mode(settings),
                               temp |-> IF settings.temp # NoTemp THEN settings.temp
                                        ELSE d.desired.temp]
               /\ e.commanded = [mode |-> physical_mode(settings), temp |-> settings.temp]
               /\ e = [d EXCEPT !.desired = e.desired, !.commanded = e.commanded]
  BY DEF Adopt, Driver, Desires

\* The driver once it has noted the power and mode of a readback, and its setpoint.
Noted(d, settings) == [d EXCEPT !.current.power = settings.power, !.current.mode = settings.mode]

Moved(d, settings) ==
    [Noted(d, settings) EXCEPT !.desired.temp = settings.temp, !.commanded.temp = settings.temp]

\* No readback is compared with the commanded state in the lock-out, nor while a command waits.
Compares(d) == d.wanted.power = "UNKNOWN" /\ d.command_age >= LockoutWindow

(***************************************************************************)
(* A write is empty unless it is pending, and without a power it has       *)
(* neither mode nor setpoint: evaluate_fan_stop_and_ltp and FAN_OFF are    *)
(* all that fills these fields.                                            *)
(***************************************************************************)
WantedInv(d) ==
    /\ d.wanted.power = "UNKNOWN" => d.wanted.mode = "UNKNOWN" /\ d.wanted.temp = NoTemp
    /\ ~d.wanted.has_changed => d.wanted = NothingWanted

\* A readback of a driver that knows the unit is without effect, an override of the mode, or
\* a new setpoint.
LEMMA ReadbackGives ==
    ASSUME NEW d \in Driver, NEW settings \in UnitStates, NEW other_changed \in BOOLEAN,
           d.first_real_state_received, WantedInv(d)
    PROVE  LET n == heatpump_update(d, settings, other_changed)
           IN  \/ /\ Agree(d, n)
                  /\ \/ settings = d.current
                     \/ ~Compares(d)
                     \/ physical_mode(settings) = d.commanded.mode /\ ~TempChanged(d, settings)
               \/ /\ Compares(d)
                  /\ physical_mode(settings) # d.commanded.mode
                  /\ n.desired = [mode |-> physical_mode(settings), temp |-> settings.temp]
                  /\ Agree([d EXCEPT !.fan_stop = FALSE, !.desired = n.desired,
                                     !.commanded = n.desired], n)
               \/ /\ Compares(d)
                  /\ physical_mode(settings) = d.commanded.mode
                  /\ TempChanged(d, settings)
                  /\ Moved(d, settings) \in Driver
                  /\ Agree(evaluate_fan_stop_and_ltp(Moved(d, settings)), n)
  <1>. DEFINE n       == heatpump_update(d, settings, other_changed)
              noted   == Noted(d, settings)
              checked == CheckPowerAndMode(noted, settings)
              told    == IF d.wanted.mode = "UNKNOWN" /\ d.wanted.power = "UNKNOWN"
                           THEN checked ELSE d
  <1>1. settings.temp \in Temps /\ settings.temp \in Nat /\ settings.temp # NoTemp
    BY DEF UnitStates, Temps, NoTemp
  <1>2. noted \in Driver /\ Agree(d, noted)
    <2>1. [d.current EXCEPT !.power = settings.power, !.mode = settings.mode] \in Known
      BY DEF Driver, Known, UnitStates
    <2>. QED
      BY <2>1 DEF Noted, Driver, Agree
  <1>3. told \in Driver
    BY <1>1, <1>2, CheckPowerAndModeType
  <1>4. \A e \in Driver : Agree(e, BelieveSetpoint(e, settings))
    BY DEF BelieveSetpoint, Agree, Driver
  <1>5. n = IF settings # d.current \/ other_changed THEN BelieveSetpoint(told, settings) ELSE d
    BY DEF heatpump_update, publish_state_to_ha, check_power_and_mode_settings, Noted
  <1>6. Moved(d, settings) \in Driver
    <2>1. /\ [noted.desired EXCEPT !.temp = settings.temp] \in Desires
          /\ [noted.commanded EXCEPT !.temp = settings.temp] \in Desires
      BY <1>1, <1>2 DEF Driver, Desires
    <2>. QED
      BY <1>2, <2>1 DEF Moved, Driver
  <1>. HIDE DEF n, noted, checked, told
  <1>7. Agree(d, d)
    BY DEF Agree
  <1>8. CASE settings = d.current /\ ~other_changed
    BY <1>5, <1>7, <1>8 DEF n
  <1>9. CASE settings # d.current \/ other_changed
    <2>1. Agree(told, n)
      BY <1>3, <1>4, <1>5, <1>9
    <2>2. CASE d.wanted.power # "UNKNOWN"
      BY <2>1, <2>2 DEF told, Compares, n
    <2>3. CASE d.wanted.power = "UNKNOWN"
      <3>1. told = checked
        BY <2>3 DEF told, WantedInv
      <3>2. /\ noted.command_age = d.command_age /\ noted.command_age \in Int
            /\ noted.first_real_state_received /\ noted.commanded = d.commanded
        BY <1>2 DEF Agree, Driver
      <3>3. CASE d.command_age < LockoutWindow
        <4>1. checked = noted
          BY <3>2, <3>3 DEF checked, CheckPowerAndMode
        <4>2. Agree(d, n)
          BY <1>2, <2>1, <3>1, <4>1 DEF Agree
        <4>3. ~Compares(d)
          BY <3>2, <3>3, SettingsSyncAssumption DEF Compares
        <4>. QED
          BY <4>2, <4>3 DEF n
      <3>4. CASE /\ ~(d.command_age < LockoutWindow)
                 /\ physical_mode(settings) # d.commanded.mode
        <4>. DEFINE given == [noted EXCEPT !.fan_stop = FALSE]
        <4>1. checked = Adopt(given, settings)
          BY <3>2, <3>4 DEF checked, CheckPowerAndMode
        <4>2. given \in Driver
          BY <1>2 DEF Driver
        <4>. HIDE DEF given
        <4>. DEFINE e == Adopt(given, settings)
        <4>3. /\ e.desired = [mode |-> physical_mode(settings), temp |-> settings.temp]
              /\ e.commanded = [mode |-> physical_mode(settings), temp |-> settings.temp]
              /\ e = [given EXCEPT !.desired = e.desired, !.commanded = e.commanded]
          <5>1. /\ e.desired = [mode |-> physical_mode(settings),
                                temp |-> IF settings.temp # NoTemp THEN settings.temp
                                         ELSE given.desired.temp]
                /\ e.commanded = [mode |-> physical_mode(settings), temp |-> settings.temp]
                /\ e = [given EXCEPT !.desired = e.desired, !.commanded = e.commanded]
            BY <4>2, AdoptGives, Zenon
          <5>. QED
            BY <1>1, <5>1
        <4>. HIDE DEF e
        <4>4. Agree([d EXCEPT !.fan_stop = FALSE, !.desired = e.desired,
                              !.commanded = e.desired], e)
          BY <1>2, <4>2, <4>3 DEF Agree, Driver, given
        <4>5. checked = e
          BY <4>1 DEF e
        <4>6. e.desired = n.desired
          BY <2>1, <3>1, <4>5 DEF Agree
        <4>7. Agree([d EXCEPT !.fan_stop = FALSE, !.desired = n.desired,
                              !.commanded = n.desired], n)
          BY <2>1, <3>1, <4>4, <4>5, <4>6 DEF Agree
        <4>8. Compares(d)
          BY <2>3, <3>2, <3>4, SettingsSyncAssumption DEF Compares
        <4>. QED
          BY <3>4, <4>3, <4>6, <4>7, <4>8 DEF n
      <3>5. CASE /\ ~(d.command_age < LockoutWindow)
                 /\ physical_mode(settings) = d.commanded.mode
                 /\ TempChanged(d, settings)
        <4>1. TempChanged(noted, settings)
          BY <3>2, <3>5 DEF TempChanged
        <4>2. checked = evaluate_fan_stop_and_ltp(Moved(d, settings))
          BY <3>2, <3>5, <4>1 DEF checked, CheckPowerAndMode, Moved, noted
        <4>3. Compares(d)
          BY <2>3, <3>2, <3>5, SettingsSyncAssumption DEF Compares
        <4>. QED
          BY <1>6, <2>1, <3>1, <3>5, <4>2, <4>3 DEF n
      <3>6. CASE /\ ~(d.command_age < LockoutWindow)
                 /\ physical_mode(settings) = d.commanded.mode
                 /\ ~TempChanged(d, settings)
        <4>1. ~TempChanged(noted, settings)
          BY <3>2, <3>6 DEF TempChanged
        <4>2. checked = noted
          BY <3>2, <3>6, <4>1 DEF checked, CheckPowerAndMode
        <4>3. Agree(d, n)
          BY <1>2, <2>1, <3>1, <4>2 DEF Agree
        <4>. QED
          BY <3>6, <4>3 DEF n
      <3>. QED
        BY <3>3, <3>4, <3>5, <3>6
    <2>. QED
      BY <2>2, <2>3
  <1>. QED
    BY <1>8, <1>9

(***************************************************************************)
(* There is always a desired setpoint, and none is missing from a command  *)
(* or a commanded state that runs the unit.                                *)
(***************************************************************************)
SetpointInv(d) ==
    /\ d.desired.temp # NoTemp
    /\ d.commanded.temp = NoTemp => d.commanded.mode = "OFF"
    /\ d.wanted.power = "ON" => d.wanted.temp # NoTemp

DriverInv(d) == WantedInv(d) /\ SetpointInv(d)

\* The protection raises the setpoint to its floor; nothing else changes it.
LEMMA TargetSetpoint ==
    ASSUME NEW d \in Driver, NEW ltp_active \in BOOLEAN, d.desired.temp # NoTemp
    PROVE  LET target == resolve_physical_target(ReconcileInputs(d), ltp_active)
           IN  /\ target.temp \in Nat
               /\ target.temp = IF ltp_active /\ ~(d.desired.temp > floor_temp)
                                  THEN floor_temp ELSE d.desired.temp
  <1>1. d.desired.temp \in Nat
    BY DEF Driver, Desires, Temps
  <1>. QED
    BY <1>1, FloorIsNat DEF resolve_physical_target, ReconcileInputs

LEMMA LatchType ==
    ASSUME NEW d \in Driver
    PROVE  next_ltp_active(ReconcileInputs(d)) \in BOOLEAN
  BY DEF next_ltp_active, ReconcileInputs, Driver

\* What a command writes.
LEMMA WriteTargetGives ==
    ASSUME NEW wanted \in Wanted, NEW target, target.power_on \in BOOLEAN, target.temp \in Nat
    PROVE  LET written == WriteTarget(wanted, target)
           IN  /\ written.power = IF target.power_on THEN "ON" ELSE "OFF"
               /\ written.has_changed
               /\ written.mode = IF target.power_on THEN target.mode ELSE wanted.mode
               /\ written.temp = IF target.power_on THEN normalize_setpoint(target.temp)
                                 ELSE wanted.temp
               /\ normalize_setpoint(target.temp) \in SETPOINT_MIN .. SETPOINT_MAX
               /\ normalize_setpoint(target.temp) # NoTemp
  <1>1. /\ normalize_setpoint(target.temp) \in SETPOINT_MIN .. SETPOINT_MAX
        /\ normalize_setpoint(target.temp) # NoTemp
    BY NormalizedIsAccepted DEF SETPOINT_MIN, SETPOINT_MAX, NoTemp
  <1>. HIDE DEF WriteTarget
  <1>2. CASE target.power_on
    BY <1>1, <1>2 DEF WriteTarget, Wanted
  <1>3. CASE ~target.power_on
    BY <1>1, <1>3 DEF WriteTarget, Wanted
  <1>. QED
    BY <1>2, <1>3

LEMMA EvaluateKeeps ==
    ASSUME NEW d \in Driver, DriverInv(d)
    PROVE  DriverInv(evaluate_fan_stop_and_ltp(d))
  <1>. DEFINE in     == ReconcileInputs(d)
              target == resolve_physical_target(in, next_ltp_active(in))
              e      == evaluate_fan_stop_and_ltp(d)
  <1>1. /\ EvaluationFrame(d, e)
        /\ target \in Targets
        /\ Command(d, e, target) \/ NoCommand(d, e)
    BY EvaluationCommands
  <1>2. target.temp \in Nat
    BY LatchType, TargetSetpoint DEF DriverInv, SetpointInv
  <1>. HIDE DEF target, e
  <1>3. CASE Command(d, e, target)
    <2>1. /\ e.wanted.power # "UNKNOWN" /\ e.wanted.has_changed /\ e.wanted.temp \in Temps
          /\ e.wanted.power = "ON" => e.wanted.temp # NoTemp
      <3>. DEFINE written == WriteTarget(d.wanted, target)
      <3>1. /\ written.power = IF target.power_on THEN "ON" ELSE "OFF"
            /\ written.has_changed
            /\ written.temp = IF target.power_on THEN normalize_setpoint(target.temp)
                              ELSE d.wanted.temp
            /\ normalize_setpoint(target.temp) \in SETPOINT_MIN .. SETPOINT_MAX
            /\ normalize_setpoint(target.temp) # NoTemp
        BY <1>1, <1>2, WriteTargetGives DEF Driver, Targets
      <3>2. e.wanted = written /\ d.wanted.temp \in Temps
        BY <1>3 DEF Command, Driver, Wanted
      <3>. HIDE DEF written
      <3>. QED
        BY <3>1, <3>2 DEF Temps, SETPOINT_MIN, SETPOINT_MAX
    <2>2. e.commanded.temp = target.temp /\ e.desired = d.desired
      BY <1>1, <1>3 DEF Command, EvaluationFrame
    <2>. QED
      BY <1>2, <2>1, <2>2 DEF DriverInv, WantedInv, SetpointInv, NoTemp, e
  <1>4. CASE NoCommand(d, e)
    BY <1>1, <1>4 DEF NoCommand, EvaluationFrame, DriverInv, WantedInv, SetpointInv, e
  <1>. QED
    BY <1>1, <1>3, <1>4

LEMMA CheckKeeps ==
    ASSUME NEW d \in Driver, DriverInv(d), NEW settings, settings.temp \in Temps,
           physical_mode(settings) # "OFF" => settings.temp # NoTemp
    PROVE  DriverInv(CheckPowerAndMode(d, settings))
  <1>1. ASSUME NEW x \in Driver, DriverInv(x)
        PROVE  Adopt(x, settings) \in Driver /\ DriverInv(Adopt(x, settings))
    <2>. DEFINE e == Adopt(x, settings)
    <2>1. /\ e.desired = [mode |-> physical_mode(settings),
                          temp |-> IF settings.temp # NoTemp THEN settings.temp
                                   ELSE x.desired.temp]
          /\ e.commanded = [mode |-> physical_mode(settings), temp |-> settings.temp]
          /\ e = [x EXCEPT !.desired = e.desired, !.commanded = e.commanded]
      BY AdoptGives, Zenon
    <2>2. e \in Driver
      BY <1>1, AdoptType
    <2>. HIDE DEF e
    <2>3. e.wanted = x.wanted
      BY <2>1 DEF Driver
    <2>4. DriverInv(e)
      BY <1>1, <2>1, <2>3 DEF DriverInv, WantedInv, SetpointInv
    <2>. QED
      BY <2>2, <2>4 DEF e
  <1>2. DriverInv(FirstState(d, settings))
    <2>. DEFINE received == [d EXCEPT !.first_real_state_received = TRUE]
                kept     == [received EXCEPT !.commanded = [mode |-> "OFF",
                                                             temp |-> d.desired.temp]]
    <2>1. received \in Driver /\ DriverInv(received)
      BY DEF Driver, DriverInv, WantedInv, SetpointInv
    <2>2. kept \in Driver
      <3>1. [mode |-> "OFF", temp |-> d.desired.temp] \in Desires
        BY DEF Driver, Desires
      <3>. QED
        BY <2>1, <3>1 DEF Driver
    <2>3. DriverInv(kept)
      BY <2>1 DEF Driver, DriverInv, WantedInv, SetpointInv
    <2>4. FirstState(d, settings) \in {evaluate_fan_stop_and_ltp(kept),
                                       evaluate_fan_stop_and_ltp(Adopt(received, settings))}
      BY DEF FirstState
    <2>. HIDE DEF received, kept
    <2>. QED
      BY <1>1, <2>1, <2>2, <2>3, <2>4, EvaluateKeeps
  <1>3. DriverInv(Adopt([d EXCEPT !.fan_stop = FALSE], settings))
    <2>. DEFINE given == [d EXCEPT !.fan_stop = FALSE]
    <2>1. given \in Driver /\ DriverInv(given)
      BY DEF Driver, DriverInv, WantedInv, SetpointInv
    <2>. HIDE DEF given
    <2>2. DriverInv(Adopt(given, settings))
      BY <1>1, <2>1
    <2>. QED
      BY <2>2 DEF given
  <1>4. ASSUME TempChanged(d, settings)
        PROVE  DriverInv(evaluate_fan_stop_and_ltp([d EXCEPT !.desired.temp = settings.temp,
                                                             !.commanded.temp = settings.temp]))
    <2>. DEFINE moved == [d EXCEPT !.desired.temp = settings.temp,
                                   !.commanded.temp = settings.temp]
    <2>1. /\ [d.desired EXCEPT !.temp = settings.temp] \in Desires
          /\ [d.commanded EXCEPT !.temp = settings.temp] \in Desires
      BY DEF Driver, Desires
    <2>2. moved \in Driver
      BY <2>1 DEF Driver
    <2>3. moved.desired.temp = settings.temp /\ moved.commanded.temp = settings.temp
          /\ moved.wanted = d.wanted
      BY DEF Driver, Desires
    <2>. HIDE DEF moved
    <2>4. DriverInv(moved)
      BY <1>4, <2>3 DEF TempChanged, DriverInv, WantedInv, SetpointInv
    <2>5. DriverInv(evaluate_fan_stop_and_ltp(moved))
      BY <2>2, <2>4, EvaluateKeeps
    <2>. QED
      BY <2>5 DEF moved
  <1>. QED
    BY <1>2, <1>3, <1>4 DEF CheckPowerAndMode

LEMMA HeatpumpKeeps ==
    ASSUME NEW d \in Driver, DriverInv(d), NEW settings \in UnitStates,
           NEW other_changed \in BOOLEAN
    PROVE  DriverInv(heatpump_update(d, settings, other_changed))
  <1>. DEFINE noted == Noted(d, settings)
              told  == IF d.wanted.mode = "UNKNOWN" /\ d.wanted.power = "UNKNOWN"
                         THEN CheckPowerAndMode(noted, settings) ELSE d
  <1>1. settings.temp \in Temps /\ settings.temp # NoTemp
    BY DEF UnitStates, Temps, NoTemp
  <1>2. noted \in Driver /\ DriverInv(noted)
    <2>1. [d.current EXCEPT !.power = settings.power, !.mode = settings.mode] \in Known
      BY DEF Driver, Known, UnitStates
    <2>2. noted \in Driver
      BY <2>1 DEF Noted, Driver
    <2>3. noted.wanted = d.wanted /\ noted.desired = d.desired /\ noted.commanded = d.commanded
      BY DEF Noted, Driver
    <2>. QED
      BY <2>2, <2>3 DEF DriverInv, WantedInv, SetpointInv
  <1>. HIDE DEF noted
  <1>3. told \in Driver /\ DriverInv(told)
    BY <1>1, <1>2, CheckPowerAndModeType, CheckKeeps
  <1>. HIDE DEF told
  <1>4. DriverInv(BelieveSetpoint(told, settings))
    BY <1>3 DEF BelieveSetpoint, Driver, DriverInv, WantedInv, SetpointInv
  <1>5. heatpump_update(d, settings, other_changed) \in {d, BelieveSetpoint(told, settings)}
    BY DEF heatpump_update, publish_state_to_ha, check_power_and_mode_settings, told, noted, Noted
  <1>. QED
    BY <1>4, <1>5

LEMMA SendKeeps ==
    ASSUME NEW d \in Driver, DriverInv(d)
    PROVE  DriverInv(send_wanted_settings_delegate(d))
  <1>. DEFINE sending == [d EXCEPT !.send_age = 0]
              told == IF d.wanted.mode # "UNKNOWN" \/ d.wanted.power # "UNKNOWN"
                        THEN CheckPowerAndMode(sending, d.wanted) ELSE sending
  <1>1. sending \in Driver /\ DriverInv(sending)
    <2>1. 0 \in 0 .. WriteMemory
      BY WriteMemoryType
    <2>2. sending \in Driver
      BY <2>1 DEF Driver
    <2>3. /\ sending.wanted = d.wanted
          /\ sending.desired = d.desired /\ sending.commanded = d.commanded
      BY DEF Driver
    <2>. QED
      BY <2>2, <2>3 DEF DriverInv, WantedInv, SetpointInv
  <1>2. /\ d.wanted.temp \in Temps
        /\ physical_mode(d.wanted) # "OFF" => d.wanted.temp # NoTemp
    BY DEF Driver, Wanted, DriverInv, SetpointInv, physical_mode
  <1>. HIDE DEF sending
  <1>3. told \in Driver /\ DriverInv(told)
    BY <1>1, <1>2, CheckPowerAndModeType, CheckKeeps
  <1>. HIDE DEF told
  <1>4. DriverInv([told EXCEPT !.wanted = NothingWanted])
    BY <1>3 DEF Driver, DriverInv, WantedInv, SetpointInv, NothingWanted
  <1>. QED
    BY <1>4 DEF send_wanted_settings_delegate, told, sending

\* A call of Home Assistant: what it changes, an evaluation or none, and a pending write.
LEMMA FinalizeKeeps ==
    ASSUME NEW d \in Driver, DriverInv(d)
    PROVE  DriverInv(Finalize(d))
  BY DEF Finalize, Driver, Wanted, DriverInv, WantedInv, SetpointInv

LEMMA DriverInvNext == TypeOK /\ DriverInv(drv) /\ [Next]_vars => DriverInv(drv')
  <1>. SUFFICES ASSUME TypeOK, DriverInv(drv), [Next]_vars
                PROVE  DriverInv(drv')
    OBVIOUS
  <1>0. drv \in Driver
    BY DEF TypeOK
  <1>. DEFINE Same(d) == /\ d.wanted = drv.wanted
                         /\ d.desired = drv.desired /\ d.commanded = drv.commanded
  <1>a. ASSUME Same(drv') PROVE DriverInv(drv')
    BY <1>a DEF DriverInv, WantedInv, SetpointInv
  <1>1. CASE Evaluate
    <2>. DEFINE d == [drv EXCEPT !.evaluation_age = 0, !.last_room = drv.room]
    <2>1. d \in Driver /\ DriverInv(d)
      <3>1. 0 \in 0 .. EvaluationPeriod
        BY SettingsSyncAssumption
      <3>2. d \in Driver /\ Same(d)
        BY <1>0, <3>1 DEF Driver
      <3>. QED
        BY <3>2 DEF DriverInv, WantedInv, SetpointInv
    <2>2. drv' = evaluate_fan_stop_and_ltp(d)
      BY <1>1 DEF Evaluate
    <2>. HIDE DEF d
    <2>. QED
      BY <2>1, <2>2, EvaluateKeeps
  <1>2. CASE SendWantedSettings
    BY <1>0, <1>2, SendKeeps DEF SendWantedSettings
  <1>3. CASE DropEmptySettings
    BY <1>0, <1>3 DEF DropEmptySettings, Driver, DriverInv, WantedInv, SetpointInv, NothingWanted
  <1>4. CASE Readback
    <2>1. Reported \subseteq UnitStates
      BY DEF Reported, TypeOK
    <2>. QED
      BY <1>0, <1>4, <2>1, HeatpumpKeeps DEF Readback
  <1>5. ASSUME NEW mode \in HaModes, ControlMode(mode)
        PROVE  DriverInv(drv')
    <2>. DEFINE d == [drv EXCEPT !.desired.mode = mode]
    <2>1. d \in Driver
      <3>1. [drv.desired EXCEPT !.mode = mode] \in Desires
        BY <1>0, SettingsSyncAssumption DEF Driver, Desires
      <3>. QED
        BY <1>0, <3>1 DEF Driver
    <2>2. DriverInv(d)
      BY <1>0 DEF Driver, Desires, DriverInv, WantedInv, SetpointInv
    <2>3. drv' = Finalize(evaluate_fan_stop_and_ltp(d))
      BY <1>5 DEF ControlMode
    <2>. HIDE DEF d
    <2>. QED
      BY <2>1, <2>2, <2>3, EvaluateType, EvaluateKeeps, FinalizeKeeps
  <1>6. ASSUME NEW temp \in HaSetpoints, ControlTemperature(temp)
        PROVE  DriverInv(drv')
    <2>. DEFINE d == [drv EXCEPT !.desired.temp = temp]
    <2>1. temp \in Temps /\ temp # NoTemp
      BY SettingsSyncAssumption DEF Temps, NoTemp
    <2>2. d \in Driver
      <3>1. [drv.desired EXCEPT !.temp = temp] \in Desires
        BY <1>0, <2>1 DEF Driver, Desires
      <3>. QED
        BY <1>0, <3>1 DEF Driver
    <2>3. DriverInv(d)
      BY <1>0, <2>1 DEF Driver, Desires, DriverInv, WantedInv, SetpointInv
    <2>4. drv' = Finalize(evaluate_fan_stop_and_ltp(d))
      BY <1>6 DEF ControlTemperature
    <2>. HIDE DEF d
    <2>. QED
      BY <2>2, <2>3, <2>4, EvaluateType, EvaluateKeeps, FinalizeKeeps
  <1>7. CASE ControlOther
    BY <1>0, <1>7 DEF ControlOther, Finalize, Driver, Wanted, DriverInv, WantedInv, SetpointInv
  <1>8. CASE ControlFanOff
    BY <1>0, <1>8
    DEF ControlFanOff, Finalize, Driver, Desires, Wanted, DriverInv, WantedInv, SetpointInv
  <1>9. CASE FanStopSwitch \/ LowTempProtectionSwitch \/ Disconnect \/ Connect \/ Tick
             \/ \E room \in Rooms : ReadRoom(room)
    BY <1>0, <1>9, <1>a
    DEF FanStopSwitch, LowTempProtectionSwitch, Disconnect, Connect, Tick, ReadRoom, Driver
  <1>10. CASE UNCHANGED drv
    BY <1>10, <1>a
  <1>. QED
    BY <1>1, <1>2, <1>3, <1>4, <1>5, <1>6, <1>7, <1>8, <1>9, <1>10
    DEF Next, StartCycle, EndCycle, LoseAnswer, CycleTimeout, PressRemote, vars

(***************************************************************************)
(* Until the readback that should notice a change made at rest, the driver *)
(* has nothing of its own under way: no command waits, none is so recent   *)
(* that the readback would be ignored or could show an older state, and    *)
(* what was read last agrees with what was commanded.                      *)
(***************************************************************************)
HeedInv ==
    heed => /\ connected /\ drv.first_real_state_received
            /\ Compares(drv)
            /\ was = unit
            /\ physical_mode(drv.current) = drv.commanded.mode

\* The parts of the driver HeedInv speaks of.
Undistracted(d) ==
    /\ d.first_real_state_received
    /\ Compares(d)
    /\ physical_mode(d.current) = d.commanded.mode

LEMMA EvaluateUndistracted ==
    ASSUME NEW d \in Driver, Undistracted(d),
           evaluate_fan_stop_and_ltp(d).command_age = d.command_age
    PROVE  Undistracted(evaluate_fan_stop_and_ltp(d))
  <1>. DEFINE in     == ReconcileInputs(d)
              target == resolve_physical_target(in, next_ltp_active(in))
              e      == evaluate_fan_stop_and_ltp(d)
  <1>1. EvaluationFrame(d, e) /\ (Command(d, e, target) \/ NoCommand(d, e))
    BY EvaluationCommands
  <1>. HIDE DEF e, target
  <1>2. d.command_age \in Int /\ d.command_age # 0
    BY SettingsSyncAssumption DEF Driver, Undistracted, Compares
  <1>3. NoCommand(d, e)
    BY <1>1, <1>2 DEF Command, e
  <1>4. Undistracted(e)
    BY <1>1, <1>3 DEF EvaluationFrame, NoCommand, Undistracted, Compares
  <1>. QED
    BY <1>4 DEF e

LEMMA HeedInvNext == TypeOK /\ DriverInv(drv) /\ HeedInv /\ [Next]_vars => HeedInv'
  <1>. SUFFICES ASSUME TypeOK, DriverInv(drv), HeedInv, [Next]_vars, heed'
                PROVE  /\ connected' /\ was' = unit'
                       /\ Undistracted(drv')
    BY DEF HeedInv, Undistracted, Compares
  <1>0. drv \in Driver /\ unit \in UnitStates /\ heed \in BOOLEAN
    BY DEF TypeOK
  <1>. DEFINE AtEase == connected /\ was = unit /\ Undistracted(drv)
  <1>a. heed => AtEase
    BY DEF HeedInv, Undistracted
  <1>. HIDE DEF AtEase
  <1>1. CASE Evaluate
    <2>. DEFINE d == [drv EXCEPT !.evaluation_age = 0, !.last_room = drv.room]
    <2>1. AtEase /\ drv'.command_age = drv.command_age
      BY <1>1, <1>a DEF Evaluate, NoteCommand
    <2>2. d \in Driver
      <3>1. 0 \in 0 .. EvaluationPeriod
        BY SettingsSyncAssumption
      <3>. QED
        BY <1>0, <3>1 DEF Driver
    <2>3. Undistracted(d) /\ d.command_age = drv.command_age
      BY <1>0, <2>1 DEF AtEase, Undistracted, Compares, Driver
    <2>4. drv' = evaluate_fan_stop_and_ltp(d)
      BY <1>1 DEF Evaluate
    <2>. HIDE DEF d
    <2>5. Undistracted(drv')
      BY <2>1, <2>2, <2>3, <2>4, EvaluateUndistracted
    <2>. QED
      BY <1>1, <2>1, <2>5 DEF Evaluate, AtEase
  <1>2. CASE SendWantedSettings
    <2>1. AtEase
      BY <1>2, <1>a DEF SendWantedSettings, NoteCommand
    <2>2. drv.wanted.power = "UNKNOWN" /\ drv.wanted.mode = "UNKNOWN" /\ drv.wanted.temp = NoTemp
      BY <2>1 DEF AtEase, Undistracted, Compares, DriverInv, WantedInv
    <2>3. drv' = [drv EXCEPT !.send_age = 0, !.wanted = NothingWanted]
      BY <1>0, <1>2, <2>2 DEF SendWantedSettings, send_wanted_settings_delegate, Driver
    <2>4. Undistracted(drv')
      BY <1>0, <2>1, <2>3 DEF AtEase, Undistracted, Compares, Driver, NothingWanted
    <2>5. Apply(drv.wanted) = unit
      BY <1>0, <2>2 DEF Apply, UnitStates
    <2>6. was' = unit' /\ connected'
      BY <1>2, <2>1, <2>5 DEF SendWantedSettings, AtEase
    <2>. QED
      BY <2>4, <2>6
  <1>3. CASE DropEmptySettings
    BY <1>0, <1>3, <1>a
    DEF DropEmptySettings, AtEase, Undistracted, Compares, Driver, NothingWanted
  <1>4. CASE StartCycle \/ EndCycle \/ LoseAnswer \/ CycleTimeout \/ UNCHANGED vars
    <2>1. drv' = drv /\ connected' = connected /\ was' = was /\ unit' = unit /\ heed' = heed
      BY <1>4 DEF StartCycle, EndCycle, LoseAnswer, CycleTimeout, vars
    <2>. QED
      BY <1>a, <2>1, Zenon DEF AtEase
  <1>5. CASE ControlOther
    <2>1. AtEase
      BY <1>5, <1>a DEF ControlOther
    <2>2. drv' = [drv EXCEPT !.wanted = [@ EXCEPT !.other = TRUE, !.has_changed = TRUE]]
      BY <1>0, <1>5 DEF ControlOther, Finalize, Driver, Wanted
    <2>3. Undistracted(drv')
      BY <1>0, <2>1, <2>2 DEF AtEase, Undistracted, Compares, Driver, Wanted
    <2>. QED
      BY <1>5, <2>1, <2>3 DEF ControlOther, AtEase
  <1>6. CASE FanStopSwitch \/ LowTempProtectionSwitch \/ \E room \in Rooms : ReadRoom(room)
    <2>1. connected' = connected /\ was' = was /\ unit' = unit /\ heed' = heed
      BY <1>6 DEF FanStopSwitch, LowTempProtectionSwitch, ReadRoom
    <2>2. /\ drv'.first_real_state_received = drv.first_real_state_received
          /\ drv'.wanted = drv.wanted /\ drv'.command_age = drv.command_age
          /\ drv'.current = drv.current /\ drv'.commanded = drv.commanded
      BY <1>0, <1>6 DEF FanStopSwitch, LowTempProtectionSwitch, ReadRoom, Driver
    <2>. QED
      BY <1>a, <2>1, <2>2 DEF AtEase, Undistracted, Compares
  <1>7. CASE Connect
    BY <1>7, <1>a DEF Connect, AtEase
  <1>8. ASSUME NEW mode \in RemoteModes, NEW temp \in RemoteSetpoints, PressRemote(mode, temp)
        PROVE  connected' /\ was' = unit' /\ Undistracted(drv')
    <2>1. AtRest \/ heed
      BY <1>8 DEF PressRemote
    <2>2. AtRest => connected /\ Undistracted(drv)
      <3>1. AtRest => drv.wanted = NothingWanted /\ physical_mode(drv.current) = drv.commanded.mode
        BY DEF AtRest, DriverInv, WantedInv
      <3>. QED
        BY <3>1 DEF AtRest, Undistracted, Compares, NothingWanted
    <2>3. connected /\ Undistracted(drv)
      BY <1>a, <2>1, <2>2 DEF AtEase
    <2>. QED
      BY <1>8, <2>3 DEF PressRemote
  <1>9. CASE Tick
    <2>1. AtEase
      BY <1>9, <1>a DEF Tick
    <2>2. /\ drv.command_age \in Nat /\ drv.command_age >= LockoutWindow
          /\ SettleWindow \in Nat /\ LockoutWindow \in Nat /\ LockoutWindow <= SettleWindow
      BY <1>0, <2>1, SettingsSyncAssumption, ReconciliationAssumption
      DEF AtEase, Undistracted, Compares, Driver
    <2>3. Older(drv.command_age, SettleWindow) >= LockoutWindow
      BY <2>2 DEF Older
    <2>4. /\ drv'.command_age = Older(drv.command_age, SettleWindow)
          /\ drv'.wanted = drv.wanted /\ drv'.current = drv.current
          /\ drv'.commanded = drv.commanded
          /\ drv'.first_real_state_received = drv.first_real_state_received
      BY <1>0, <1>9 DEF Tick, Driver
    <2>5. Undistracted(drv')
      BY <2>1, <2>3, <2>4 DEF AtEase, Undistracted, Compares
    <2>. QED
      BY <1>9, <2>1, <2>5 DEF Tick, AtEase
  <1>10. CASE \/ Readback \/ ControlFanOff \/ Disconnect
              \/ \E mode \in HaModes : ControlMode(mode)
              \/ \E temp \in HaSetpoints : ControlTemperature(temp)
    BY <1>10 DEF Readback, ControlFanOff, Disconnect, ControlMode, ControlTemperature
  <1>. QED
    BY <1>1, <1>2, <1>3, <1>4, <1>5, <1>6, <1>7, <1>8, <1>9, <1>10 DEF Next

LEMMA SameAsItself == \A t \in Int : SameSetpoint(t, t)
  BY DEF SameSetpoint

\* The readback of an undistracted driver adopts what is new.
LEMMA ReadbackHeeds ==
    ASSUME TypeOK, DriverInv(drv), HeedInv, heed, Readback
    PROVE  /\ physical_mode(unit) # drv.commanded.mode => Adopted(drv'.desired)
           /\ NewSetpoint => SameSetpoint(drv'.desired.temp, unit.temp)
  <1>1. /\ drv \in Driver /\ unit \in UnitStates /\ unit.temp \in Nat
        /\ unit.temp # NoTemp
    BY DEF TypeOK, UnitStates, NoTemp
  <1>2. /\ drv.first_real_state_received /\ Compares(drv) /\ WantedInv(drv)
        /\ physical_mode(drv.current) = drv.commanded.mode
    BY DEF HeedInv, DriverInv
  <1>3. Reported = {unit}
    BY DEF HeedInv, Reported
  <1>4. PICK other_changed \in BOOLEAN : drv' = heatpump_update(drv, unit, other_changed)
    BY <1>3 DEF Readback
  <1>5. SameSetpoint(unit.temp, unit.temp)
    BY <1>1, SameAsItself
  <1>6. CASE /\ Agree(drv, drv')
             /\ \/ unit = drv.current
                \/ ~Compares(drv)
                \/ physical_mode(unit) = drv.commanded.mode /\ ~TempChanged(drv, unit)
    <2>1. physical_mode(unit) = drv.commanded.mode
      BY <1>2, <1>6
    <2>2. CASE unit = drv.current
      BY <1>5, <2>1, <2>2 DEF NewSetpoint
    <2>3. CASE ~TempChanged(drv, unit)
      <3>1. NewSetpoint => drv.commanded.temp # NoTemp
        BY <2>1 DEF NewSetpoint, DriverInv, SetpointInv
      <3>2. ~NewSetpoint
        BY <1>1, <2>3, <3>1 DEF NewSetpoint, TempChanged
      <3>. QED
        BY <2>1, <3>2
    <2>. QED
      BY <1>2, <1>6, <2>2, <2>3
  <1>7. CASE drv'.desired = [mode |-> physical_mode(unit), temp |-> unit.temp]
    BY <1>5, <1>7 DEF Adopted
  <1>8. CASE /\ physical_mode(unit) = drv.commanded.mode
             /\ Moved(drv, unit) \in Driver
             /\ Agree(evaluate_fan_stop_and_ltp(Moved(drv, unit)), drv')
    <2>1. Moved(drv, unit).desired.temp = unit.temp
      BY <1>1 DEF Moved, Noted, Driver, Desires
    <2>2. drv'.desired.temp = unit.temp
      BY <1>8, <2>1, EvaluationCommands DEF EvaluationFrame, Agree
    <2>. QED
      BY <1>5, <1>8, <2>2
  <1>. QED
    BY <1>1, <1>2, <1>4, <1>6, <1>7, <1>8, ReadbackGives

(***************************************************************************)
(* A change made with the remote while the unit was at rest is adopted by  *)
(* the readback that follows it, whatever else happened before: any        *)
(* windows, any setpoints, lost frames, protections and reconnections.     *)
(***************************************************************************)
THEOREM RemoteChangesAreAdopted == Spec => RemoteIsHeeded
  <1>. DEFINE Safe == TypeOK /\ DriverInv(drv) /\ HeedInv
  <1>1. Init => Safe
    <2>. SUFFICES ASSUME Init
                  PROVE  Safe
      OBVIOUS
    <2>1. TypeOK
      BY InitType
    <2>2. /\ drv.wanted = NothingWanted /\ drv.commanded = [mode |-> "OFF", temp |-> 220]
          /\ drv.desired.temp \in HaSetpoints /\ ~heed
      BY DEF Init
    <2>3. DriverInv(drv)
      BY <2>2, SettingsSyncAssumption
      DEF DriverInv, WantedInv, SetpointInv, NothingWanted, NoTemp
    <2>. QED
      BY <2>1, <2>2, <2>3 DEF HeedInv
  <1>2. Safe /\ [Next]_vars => Safe'
    BY NextType, DriverInvNext, HeedInvNext DEF DriverInv, WantedInv, SetpointInv
  <1>3. Safe /\ [Next]_vars =>
          [heed /\ Readback =>
            /\ physical_mode(unit) # drv.commanded.mode => Adopted(drv'.desired)
            /\ NewSetpoint => SameSetpoint(drv'.desired.temp, unit.temp)]_vars
    BY ReadbackHeeds
  <1>. HIDE DEF Safe
  <1>. QED
    BY <1>1, <1>2, <1>3, PTL DEF Spec, RemoteIsHeeded

-----------------------------------------------------------------------------
(***************************************************************************)
(* What is desired stays what was asked for.                               *)
(***************************************************************************)

\* Home Assistant offers setpoints the unit accepts (the visual range of the climate traits),
\* and the floor of low temperature protection is one of them or lower.
SetpointsAreOffered == HaSetpoints \subseteq SETPOINT_MIN .. SETPOINT_MAX
FloorIsSettable == floor_temp <= SETPOINT_MAX

Accepted == SETPOINT_MIN .. SETPOINT_MAX

\* Rounding what the unit accepts moves it by no more than SameSetpoint forgives.
LEMMA RoundingIsForgiven ==
    ASSUME NEW temp \in Accepted
    PROVE  SameSetpoint(temp, normalize_setpoint(temp))
  BY SMT DEF Accepted, SameSetpoint, normalize_setpoint, SETPOINT_MIN, SETPOINT_MAX

(***************************************************************************)
(* Once the unit is known, a write that waits is that of the last command, *)
(* given since anything was sent.                                          *)
(***************************************************************************)
CommandInv(d) ==
    /\ d.desired.temp \in Accepted
    /\ d.wanted.temp \in Accepted \union {NoTemp}
    /\ d.wanted.power # "UNKNOWN" => d.command_age = 0
    /\ d.wanted.power = "OFF" => d.commanded.mode = "OFF"
    /\ d.wanted.power = "ON" =>
         /\ d.wanted.mode = d.commanded.mode /\ d.wanted.mode \in HPMode
         /\ SameSetpoint(d.commanded.temp, d.wanted.temp)

LEMMA EvaluateCommanded ==
    ASSUME FloorIsSettable, NEW d \in Driver, CommandInv(d)
    PROVE  LET e == evaluate_fan_stop_and_ltp(d)
           IN  /\ CommandInv(e)
               /\ EvaluationFrame(d, e)
               /\ e.wanted.power = "UNKNOWN" =>
                    /\ d.wanted.power = "UNKNOWN"
                    /\ e.commanded = d.commanded /\ e.command_age = d.command_age
               /\ e.command_age \in {0, d.command_age}
  <1>. DEFINE in     == ReconcileInputs(d)
              target == resolve_physical_target(in, next_ltp_active(in))
              e      == evaluate_fan_stop_and_ltp(d)
              written == WriteTarget(d.wanted, target)
  <1>1. /\ EvaluationFrame(d, e)
        /\ target \in Targets /\ (target.power_on => target.mode \in HPMode)
        /\ Command(d, e, target) \/ NoCommand(d, e)
    BY EvaluationCommands
  <1>2. d.desired.temp # NoTemp
    BY DEF CommandInv, Accepted, SETPOINT_MIN, NoTemp
  <1>3. target.temp \in Accepted
    <2>1. /\ target.temp \in Nat
          /\ \/ target.temp = d.desired.temp
             \/ target.temp = floor_temp /\ ~(d.desired.temp > floor_temp)
      BY <1>2, LatchType, TargetSetpoint
    <2>2. d.desired.temp \in Accepted
      BY DEF CommandInv
    <2>. HIDE DEF target
    <2>. QED
      BY <2>1, <2>2, FloorIsNat DEF Accepted, FloorIsSettable, SETPOINT_MIN, SETPOINT_MAX
  <1>4. /\ written.power = IF target.power_on THEN "ON" ELSE "OFF"
        /\ written.mode = IF target.power_on THEN target.mode ELSE d.wanted.mode
        /\ written.temp = IF target.power_on THEN normalize_setpoint(target.temp)
                          ELSE d.wanted.temp
        /\ normalize_setpoint(target.temp) \in Accepted
        /\ target.power_on \in BOOLEAN
    <2>1. target.temp \in Nat /\ target.power_on \in BOOLEAN /\ d.wanted \in Wanted
      BY <1>1, <1>3 DEF Targets, Driver, Accepted, SETPOINT_MIN, SETPOINT_MAX
    <2>. QED
      BY <2>1, WriteTargetGives DEF Accepted
  <1>5. SameSetpoint(target.temp, normalize_setpoint(target.temp))
    BY <1>3, RoundingIsForgiven
  <1>. HIDE DEF target, e, written
  <1>6. CASE Command(d, e, target)
    <2>1. /\ e.wanted = written /\ e.desired = d.desired /\ e.command_age = 0
          /\ e.commanded.mode = IF target.power_on THEN target.mode ELSE "OFF"
          /\ e.commanded.temp = target.temp
      BY <1>1, <1>6 DEF Command, EvaluationFrame, written
    <2>2. CommandInv(e)
      BY <1>1, <1>4, <1>5, <2>1 DEF CommandInv
    <2>3. e.wanted.power # "UNKNOWN"
      BY <1>4, <2>1
    <2>. QED
      BY <1>1, <2>1, <2>2, <2>3 DEF e
  <1>7. CASE NoCommand(d, e)
    <2>1. CommandInv(e)
      BY <1>1, <1>7 DEF NoCommand, EvaluationFrame, CommandInv
    <2>. QED
      BY <1>1, <1>7, <2>1 DEF NoCommand, e
  <1>. QED
    BY <1>1, <1>6, <1>7

(***************************************************************************)
(* Until the unit is known, nothing has been read, so that what the user   *)
(* desires is what is commanded, and a command that was issued still waits *)
(* to be written: its setpoint was asked for at some time.                 *)
(***************************************************************************)
PendingInv(d, temps) ==
    /\ d.current = NothingKnown /\ d.room = NoTemp /\ ~d.ltp_active
    /\ d.desired.temp \in Accepted \intersect temps
    /\ d.wanted.temp # NoTemp => \E temp \in temps : d.wanted.temp = normalize_setpoint(temp)
    /\ d.has_issued => /\ d.wanted.power = IF d.last_issued.power_on THEN "ON" ELSE "OFF"
                       /\ d.last_issued.power_on => d.wanted.mode = d.last_issued.mode

BeforeInv(d, temps) ==
    /\ PendingInv(d, temps)
    /\ d.wanted.power = "ON" => d.wanted.mode = d.desired.mode /\ d.desired.mode # "OFF"
    /\ d.wanted.power = "OFF" => d.desired.mode = "OFF"

\* The target of a driver that knows neither the unit nor the room.
LEMMA TargetBefore ==
    ASSUME NEW d \in Driver, d.room = NoTemp, ~d.ltp_active
    PROVE  LET in == ReconcileInputs(d)
           IN  /\ next_ltp_active(in) = FALSE
               /\ resolve_physical_target(in, FALSE) =
                    [power_on |-> d.desired.mode # "OFF",
                     mode |-> IF d.desired.mode = "OFF" THEN NoMode ELSE d.desired.mode,
                     temp |-> d.desired.temp]
  BY DEF ReconcileInputs, next_ltp_active, resolve_physical_target, mode_is_governed, Driver

LEMMA EvaluateBefore ==
    ASSUME NEW d \in Driver, NEW temps \in SUBSET Nat, PendingInv(d, temps)
    PROVE  LET e == evaluate_fan_stop_and_ltp(d)
           IN  /\ BeforeInv(e, temps)
               /\ EvaluationFrame(d, e)
               /\ e.wanted.power # "UNKNOWN"
               /\ \/ e.command_age = 0
                  \/ d.has_issued /\ e.command_age = d.command_age
  <1>. DEFINE in     == ReconcileInputs(d)
              target == resolve_physical_target(in, next_ltp_active(in))
              e      == evaluate_fan_stop_and_ltp(d)
              written == WriteTarget(d.wanted, target)
  <1>1. /\ EvaluationFrame(d, e)
        /\ e.ltp_active = next_ltp_active(in)
        /\ IF has_mismatch(target, d.current) /\ ~should_suppress_repeat_command(in, target)
             THEN Command(d, e, target) ELSE NoCommand(d, e)
    BY EvaluationCommands
  <1>2. /\ next_ltp_active(in) = FALSE
        /\ target = [power_on |-> d.desired.mode # "OFF",
                     mode |-> IF d.desired.mode = "OFF" THEN NoMode ELSE d.desired.mode,
                     temp |-> d.desired.temp]
    BY TargetBefore DEF PendingInv
  <1>. HIDE DEF target
  <1>a. /\ target.power_on <=> d.desired.mode # "OFF"
        /\ target.power_on => target.mode = d.desired.mode
    <2>1. CASE d.desired.mode = "OFF"
      <3>1. target.power_on = FALSE
        BY <1>2, <2>1
      <3>. QED
        BY <2>1, <3>1
    <2>2. CASE d.desired.mode # "OFF"
      <3>1. target.power_on = TRUE /\ target.mode = d.desired.mode
        BY <1>2, <2>2
      <3>. QED
        BY <2>2, <3>1
    <2>. QED
      BY <2>1, <2>2
  <1>3. has_mismatch(target, d.current)
    BY <1>2 DEF PendingInv, NothingKnown, has_mismatch, mode_mismatch
  <1>4. /\ written.power = IF target.power_on THEN "ON" ELSE "OFF"
        /\ written.mode = IF target.power_on THEN target.mode ELSE d.wanted.mode
        /\ written.temp = IF target.power_on THEN normalize_setpoint(target.temp)
                          ELSE d.wanted.temp
    <2>1. target.temp \in Nat /\ target.power_on \in BOOLEAN /\ d.wanted \in Wanted
      BY <1>2 DEF PendingInv, Driver, Accepted, SETPOINT_MIN, SETPOINT_MAX
    <2>. QED
      BY <2>1, WriteTargetGives
  <1>. HIDE DEF e, written, in
  <1>5. /\ e.current = NothingKnown /\ e.room = NoTemp /\ ~e.ltp_active
        /\ e.desired = d.desired /\ e.desired.temp \in Accepted \intersect temps
    BY <1>1, <1>2 DEF EvaluationFrame, PendingInv
  <1>6. CASE Command(d, e, target)
    <2>1. /\ e.wanted = written /\ e.command_age = 0 /\ e.has_issued /\ e.last_issued = target
      BY <1>6 DEF Command, written
    <2>2. e.wanted.temp # NoTemp => \E temp \in temps : e.wanted.temp = normalize_setpoint(temp)
      <3>1. CASE target.power_on
        <4>1. e.wanted.temp = normalize_setpoint(d.desired.temp) /\ d.desired.temp \in temps
          BY <1>2, <1>4, <2>1, <3>1 DEF PendingInv
        <4>. QED
          BY <4>1
      <3>2. CASE ~target.power_on
        <4>1. e.wanted.temp = d.wanted.temp
          BY <1>4, <2>1, <3>2
        <4>. QED
          BY <4>1 DEF PendingInv
      <3>. QED
        BY <3>1, <3>2
    <2>3. /\ e.wanted.power = IF e.last_issued.power_on THEN "ON" ELSE "OFF"
          /\ e.last_issued.power_on => e.wanted.mode = e.last_issued.mode
      BY <1>4, <2>1
    <2>4. PendingInv(e, temps)
      BY <1>5, <2>2, <2>3 DEF PendingInv
    <2>5. /\ e.wanted.power = "ON" => e.wanted.mode = e.desired.mode /\ e.desired.mode # "OFF"
          /\ e.wanted.power = "OFF" => e.desired.mode = "OFF"
          /\ e.wanted.power # "UNKNOWN"
      BY <1>a, <1>4, <1>5, <2>1
    <2>6. BeforeInv(e, temps) /\ EvaluationFrame(d, e) /\ e.command_age = 0
      BY <1>1, <2>1, <2>4, <2>5 DEF BeforeInv
    <2>. QED
      BY <2>5, <2>6 DEF e
  <1>7. CASE NoCommand(d, e) /\ should_suppress_repeat_command(in, target)
    <2>1. /\ d.has_issued
          /\ target.power_on = d.last_issued.power_on
          /\ target.power_on => target.mode = d.last_issued.mode
      BY <1>7 DEF should_suppress_repeat_command, same_as, ReconcileInputs, in
    <2>2. /\ e.wanted = d.wanted /\ e.has_issued = d.has_issued
          /\ e.last_issued = d.last_issued /\ e.command_age = d.command_age
      BY <1>7 DEF NoCommand
    <2>3. /\ d.wanted.power = IF target.power_on THEN "ON" ELSE "OFF"
          /\ target.power_on => d.wanted.mode = target.mode
      BY <2>1 DEF PendingInv
    <2>4. PendingInv(e, temps)
      BY <1>5, <2>2 DEF PendingInv
    <2>5. BeforeInv(e, temps)
      BY <1>2, <1>5, <2>2, <2>3, <2>4 DEF BeforeInv
    <2>. QED
      BY <1>1, <2>1, <2>2, <2>3, <2>5 DEF e
  <1>. QED
    BY <1>1, <1>3, <1>6, <1>7

(***************************************************************************)
(* The first write, which send_wanted_settings takes for the first state   *)
(* of the unit: it adopts the mode the user desires, with the setpoint of  *)
(* that write, and what is commanded afterwards is what was written.       *)
(***************************************************************************)
LEMMA FirstSend ==
    ASSUME NEW d \in Driver, DriverInv(d), NEW temps \in SUBSET Nat, BeforeInv(d, temps),
           ~d.first_real_state_received, d.wanted.power # "UNKNOWN",
           d.has_issued => d.command_age = 0
    PROVE  LET n == send_wanted_settings_delegate(d)
           IN  /\ n.first_real_state_received
               /\ n.desired = [mode |-> d.desired.mode,
                               temp |-> IF d.wanted.temp # NoTemp THEN d.wanted.temp
                                        ELSE d.desired.temp]
               /\ physical_mode(d.wanted) = d.desired.mode
               /\ n.commanded.mode = d.desired.mode
               /\ d.desired.mode # "OFF" => n.commanded.temp = d.wanted.temp
               /\ n.wanted = NothingWanted
               /\ n.command_age = 0 /\ n.send_age = 0
               /\ n.fan_stop = d.fan_stop
  <1>. DEFINE sending  == [d EXCEPT !.send_age = 0]
              received == [sending EXCEPT !.first_real_state_received = TRUE]
              adopted  == Adopt(received, d.wanted)
              e        == evaluate_fan_stop_and_ltp(adopted)
              n        == send_wanted_settings_delegate(d)
  <1>1. physical_mode(d.wanted) = d.desired.mode
    <2>1. d.wanted.power \in {"ON", "OFF"} /\ d.desired.mode \in HPMode \union {"OFF"}
      BY DEF Driver, Wanted, Desires
    <2>. QED
      BY <2>1 DEF BeforeInv, physical_mode
  <1>2. /\ received \in Driver
        /\ received.desired = d.desired /\ received.command_age = d.command_age
        /\ received.has_issued = d.has_issued /\ received.send_age = 0
        /\ received.fan_stop = d.fan_stop /\ received.first_real_state_received
        /\ received.current = NothingKnown /\ received.room = NoTemp /\ ~received.ltp_active
    <2>1. 0 \in 0 .. WriteMemory
      BY WriteMemoryType
    <2>2. received \in Driver
      BY <2>1 DEF Driver
    <2>3. d.current = NothingKnown /\ d.room = NoTemp /\ ~d.ltp_active
      BY DEF BeforeInv, PendingInv
    <2>. QED
      BY <2>2, <2>3 DEF Driver
  <1>3. FirstState(sending, d.wanted) = e
    <2>1. d.desired.mode \in {"HEAT", "COOL"} => physical_mode(d.wanted) # "OFF"
      BY <1>1
    <2>2. sending.desired = d.desired
      BY DEF Driver
    <2>. QED
      BY <2>1, <2>2 DEF FirstState
  <1>4. n = [e EXCEPT !.wanted = NothingWanted]
    <2>1. ~sending.first_real_state_received
      BY DEF Driver
    <2>2. CheckPowerAndMode(sending, d.wanted) = e
      BY <1>3, <2>1 DEF CheckPowerAndMode
    <2>. QED
      BY <2>2 DEF send_wanted_settings_delegate
  <1>5. d.wanted.temp \in Temps
    BY DEF Driver, Wanted
  <1>. HIDE DEF sending, received, n
  <1>6. /\ adopted.desired = [mode |-> d.desired.mode,
                              temp |-> IF d.wanted.temp # NoTemp THEN d.wanted.temp
                                       ELSE d.desired.temp]
        /\ adopted.commanded = [mode |-> d.desired.mode, temp |-> d.wanted.temp]
        /\ adopted = [received EXCEPT !.desired = adopted.desired,
                                      !.commanded = adopted.commanded]
    <2>1. /\ adopted.desired = [mode |-> physical_mode(d.wanted),
                                temp |-> IF d.wanted.temp # NoTemp THEN d.wanted.temp
                                         ELSE received.desired.temp]
          /\ adopted.commanded = [mode |-> physical_mode(d.wanted), temp |-> d.wanted.temp]
          /\ adopted = [received EXCEPT !.desired = adopted.desired,
                                        !.commanded = adopted.commanded]
      BY <1>2, AdoptGives, Zenon
    <2>. QED
      BY <1>1, <1>2, <2>1
  <1>7. adopted \in Driver
    BY <1>2, <1>5, AdoptType
  <1>. HIDE DEF adopted
  <1>8. /\ adopted.command_age = d.command_age /\ adopted.has_issued = d.has_issued
        /\ adopted.send_age = 0 /\ adopted.fan_stop = d.fan_stop
        /\ adopted.first_real_state_received
        /\ adopted.current = NothingKnown /\ adopted.room = NoTemp /\ ~adopted.ltp_active
    BY <1>2, <1>6 DEF Driver
  <1>. DEFINE in     == ReconcileInputs(adopted)
              target == resolve_physical_target(in, next_ltp_active(in))
  <1>9. /\ EvaluationFrame(adopted, e)
        /\ IF has_mismatch(target, adopted.current) /\ ~should_suppress_repeat_command(in, target)
             THEN Command(adopted, e, target) ELSE NoCommand(adopted, e)
    BY <1>7, EvaluationCommands
  <1>10. target = [power_on |-> d.desired.mode # "OFF",
                   mode |-> IF d.desired.mode = "OFF" THEN NoMode ELSE d.desired.mode,
                   temp |-> adopted.desired.temp]
    <2>1. /\ next_ltp_active(in) = FALSE
          /\ resolve_physical_target(in, FALSE) =
               [power_on |-> adopted.desired.mode # "OFF",
                mode |-> IF adopted.desired.mode = "OFF" THEN NoMode ELSE adopted.desired.mode,
                temp |-> adopted.desired.temp]
      BY <1>7, <1>8, TargetBefore
    <2>2. adopted.desired.mode = d.desired.mode
      BY <1>6
    <2>. HIDE DEF in
    <2>. QED
      BY <2>1, <2>2
  <1>11. has_mismatch(target, adopted.current)
    BY <1>8, <1>10 DEF NothingKnown, has_mismatch, mode_mismatch
  <1>. HIDE DEF target, in
  <1>12. d.desired.mode # "OFF" => d.wanted.temp # NoTemp
    BY DEF BeforeInv, DriverInv, SetpointInv, Driver, Wanted
  <1>13. /\ e.command_age = 0
         /\ e.commanded.mode = d.desired.mode
         /\ d.desired.mode # "OFF" => e.commanded.temp = d.wanted.temp
    <2>1. CASE Command(adopted, e, target)
      <3>1. /\ e.command_age = 0 /\ e.commanded.temp = adopted.desired.temp
            /\ e.commanded.mode = IF target.power_on THEN target.mode ELSE "OFF"
        BY <1>10, <2>1 DEF Command
      <3>2. e.commanded.mode = d.desired.mode
        <4>1. CASE d.desired.mode = "OFF"
          <5>1. target.power_on = FALSE
            BY <1>10, <4>1
          <5>. QED
            BY <3>1, <4>1, <5>1
        <4>2. CASE d.desired.mode # "OFF"
          <5>1. target.power_on = TRUE /\ target.mode = d.desired.mode
            BY <1>10, <4>2
          <5>. QED
            BY <3>1, <5>1
        <4>. QED
          BY <4>1, <4>2
      <3>. QED
        BY <1>6, <1>12, <3>1, <3>2
    <2>2. CASE NoCommand(adopted, e) /\ should_suppress_repeat_command(in, target)
      <3>1. adopted.has_issued
        BY <2>2 DEF should_suppress_repeat_command, ReconcileInputs, in
      <3>2. e.command_age = 0 /\ e.commanded = adopted.commanded
        BY <1>8, <2>2, <3>1 DEF NoCommand
      <3>. QED
        BY <1>6, <3>2
    <2>. QED
      BY <1>9, <1>11, <2>1, <2>2
  <1>14. e \in Driver
    BY <1>7, EvaluateType
  <1>. HIDE DEF e
  <1>15. /\ n.first_real_state_received = e.first_real_state_received
         /\ n.desired = e.desired /\ n.commanded = e.commanded /\ n.wanted = NothingWanted
         /\ n.command_age = e.command_age /\ n.send_age = e.send_age /\ n.fan_stop = e.fan_stop
    BY <1>4, <1>14 DEF Driver
  <1>16. /\ e.first_real_state_received = adopted.first_real_state_received
         /\ e.desired = adopted.desired /\ e.send_age = adopted.send_age
         /\ e.fan_stop = adopted.fan_stop
    BY <1>9 DEF EvaluationFrame
  <1>. QED
    BY <1>1, <1>6, <1>8, <1>13, <1>15, <1>16 DEF n

\* Mode and setpoint of the unit are acceptable, and asked for if the driver has not seen
\* them; a readback may be older than the last command only in its lock-out.
RemoteInv ==
    /\ unit.temp \in Accepted
    /\ unseen => by_remote /\ physical_mode(unit) \in wish.modes /\ unit.temp \in wish.temps
    /\ was # unit /\ drv.send_age < LockoutWindow => drv.command_age <= drv.send_age

\* A driver that knows the unit and has no command to write has commanded what the unit
\* does, but for a change made with the remote that it has not seen.
KnownInv ==
    drv.first_real_state_received =>
      /\ TempIsAWish
      /\ CommandInv(drv)
      /\ drv.wanted.power = "UNKNOWN" /\ ~unseen => Adopted(drv.commanded)

\* A driver that does not know the unit evaluates, and writes, before it reads.
UnknownInv ==
    ~drv.first_real_state_received =>
      /\ BeforeInv(drv, wish.temps)
      /\ cycle = "idle"
      /\ connected /\ drv.wanted.power = "UNKNOWN" => drv.evaluation_age = EvaluationPeriod
      /\ connected /\ drv.has_issued => drv.command_age = 0

\* Undisturbed, the link comes up once, with an evaluation due.
LinkInv ==
    ~connected => ~drv.first_real_state_received /\ drv.evaluation_age = EvaluationPeriod

SyncInv == DesireIsAWish /\ RemoteInv /\ KnownInv /\ UnknownInv /\ LinkInv

LEMMA SyncInit == SetpointsAreOffered /\ Init => SyncInv
  <1>. SUFFICES ASSUME SetpointsAreOffered, Init
                PROVE  SyncInv
    OBVIOUS
  <1>0. PICK desired \in [mode : HaModes, temp : HaSetpoints],
             physical \in [power : {"ON", "OFF"}, mode : RemoteModes \ {"OFF"},
                           temp : RemoteSetpoints] :
          /\ unit = physical
          /\ was = physical
          /\ wish = [modes |-> {desired.mode, physical_mode(physical)},
                     temps |-> {desired.temp, physical.temp}]
          /\ drv = [desired |-> desired,
                    commanded |-> [mode |-> "OFF", temp |-> 220],
                    current |-> NothingKnown,
                    wanted |-> NothingWanted,
                    ltp_active |-> FALSE,
                    first_real_state_received |-> FALSE,
                    has_issued |-> FALSE,
                    last_issued |-> [power_on |-> FALSE, mode |-> NoMode, temp |-> NoTemp],
                    command_age |-> SettleWindow,
                    send_age |-> WriteMemory,
                    evaluation_age |-> EvaluationPeriod,
                    room |-> NoTemp,
                    last_room |-> NoTemp,
                    fan_stop |-> "fan_stop" \in has,
                    ltp_enabled |-> "ltp" \in has]
    BY DEF Init
  <1>1. /\ unit = physical /\ was = physical
        /\ wish = [modes |-> {desired.mode, physical_mode(physical)},
                   temps |-> {desired.temp, physical.temp}]
        /\ drv.desired = desired /\ drv.current = NothingKnown /\ drv.wanted = NothingWanted
        /\ drv.ltp_active = FALSE /\ drv.first_real_state_received = FALSE
        /\ drv.has_issued = FALSE
        /\ drv.evaluation_age = EvaluationPeriod /\ drv.room = NoTemp
    BY <1>0
  <1>2. desired.temp \in Accepted /\ physical.temp \in Accepted
    <2>1. /\ desired.temp \in HaSetpoints /\ physical.temp \in RemoteSetpoints
      OBVIOUS
    <2>2. RemoteSetpoints \subseteq Accepted
      BY SettingsSyncAssumption DEF Accepted
    <2>. QED
      BY <2>1, <2>2 DEF SetpointsAreOffered, Accepted
  <1>3. BeforeInv(drv, wish.temps)
    BY <1>1, <1>2 DEF BeforeInv, PendingInv, NothingWanted
  <1>4. ~connected /\ cycle = "idle" /\ by_remote
    BY DEF Init
  <1>5. RemoteInv
    BY <1>1, <1>2, <1>4 DEF RemoteInv
  <1>. QED
    BY <1>1, <1>3, <1>4, <1>5 DEF SyncInv, DesireIsAWish, KnownInv, UnknownInv, LinkInv

\* Where the driver may act and has no command to write, it knows the unit.
LEMMA KnownWhenActing ==
    ASSUME SyncInv, MayAct, drv.wanted.power = "UNKNOWN"
    PROVE  drv.first_real_state_received
  BY DEF SyncInv, UnknownInv, MayAct, EvaluationDue

\* A step that leaves alone what SyncInv speaks of, but for the driver seeing that the unit
\* does as commanded.
LEMMA QuietStep ==
    ASSUME SyncInv,
           drv'.desired = drv.desired, drv'.commanded = drv.commanded,
           drv'.wanted.power = drv.wanted.power, drv'.wanted.mode = drv.wanted.mode,
           drv'.wanted.temp = drv.wanted.temp,
           drv'.first_real_state_received = drv.first_real_state_received,
           drv'.command_age = drv.command_age, drv'.send_age = drv.send_age,
           ~drv.first_real_state_received =>
             /\ drv'.current = drv.current /\ drv'.room = drv.room
             /\ drv'.ltp_active = drv.ltp_active /\ drv'.evaluation_age = drv.evaluation_age
             /\ drv'.has_issued = drv.has_issued /\ drv'.last_issued = drv.last_issued
             /\ cycle' = cycle,
           UNCHANGED <<connected, unit, was, wish, by_remote>>,
           unseen' => unseen,
           unseen => unseen' \/ Adopted(drv.commanded)
    PROVE  SyncInv'
  <1>1. DesireIsAWish' /\ RemoteInv'
    BY DEF SyncInv, DesireIsAWish, RemoteInv
  <1>2. KnownInv'
    <2>. SUFFICES ASSUME drv.first_real_state_received
                  PROVE  /\ TempIsAWish'
                         /\ CommandInv(drv')
                         /\ drv'.wanted.power = "UNKNOWN" /\ ~unseen' => Adopted(drv.commanded)'
      BY DEF KnownInv
    <2>1. TempIsAWish'
      BY DEF SyncInv, KnownInv, TempIsAWish
    <2>2. CommandInv(drv')
      BY DEF SyncInv, KnownInv, CommandInv
    <2>3. Adopted(drv.commanded)' <=> Adopted(drv.commanded)
      BY DEF Adopted
    <2>4. drv.wanted.power = "UNKNOWN" /\ ~unseen => Adopted(drv.commanded)
      BY DEF SyncInv, KnownInv
    <2>. QED
      BY <2>1, <2>2, <2>3, <2>4
  <1>3. UnknownInv'
    <2>1. ~drv.first_real_state_received => BeforeInv(drv', wish.temps)
      BY DEF SyncInv, UnknownInv, BeforeInv, PendingInv
    <2>. QED
      BY <2>1 DEF SyncInv, UnknownInv
  <1>4. LinkInv'
    BY DEF SyncInv, LinkInv
  <1>. QED
    BY <1>1, <1>2, <1>3, <1>4 DEF SyncInv

\* An evaluation, of the driver as it is or for a new wish, with or without a pending write.
LEMMA EvaluateStep ==
    ASSUME FloorIsSettable, TypeOK, SyncInv, NEW x \in Driver,
           x.desired.temp \in Accepted, x.desired.mode \in wish'.modes,
           \E temp \in wish'.temps : x.desired.temp \in {temp, normalize_setpoint(temp)},
           wish'.temps \in SUBSET Nat,
           unseen => physical_mode(unit) \in wish'.modes /\ unit.temp \in wish'.temps,
           ~drv.first_real_state_received =>
             x.desired.temp \in wish'.temps /\ wish.temps \subseteq wish'.temps,
           x.commanded = drv.commanded, x.wanted = drv.wanted, x.current = drv.current,
           x.first_real_state_received = drv.first_real_state_received,
           x.has_issued = drv.has_issued, x.last_issued = drv.last_issued,
           x.command_age = drv.command_age, x.send_age = drv.send_age,
           x.room = drv.room, x.ltp_active = drv.ltp_active,
           connected \/ x.evaluation_age = drv.evaluation_age,
           drv' \in {evaluate_fan_stop_and_ltp(x), Finalize(evaluate_fan_stop_and_ltp(x))},
           UNCHANGED <<connected, cycle, unit, was, unseen, by_remote>>
    PROVE  SyncInv' /\ drv'.fan_stop = x.fan_stop
  <1>. DEFINE e == evaluate_fan_stop_and_ltp(x)
              in     == ReconcileInputs(x)
              target == resolve_physical_target(in, next_ltp_active(in))
  <1>1. EvaluationFrame(x, e) /\ (Command(x, e, target) \/ NoCommand(x, e))
    BY EvaluationCommands
  <1>2. e \in Driver
    BY EvaluateType
  <1>. HIDE DEF e, target
  <1>3. e.command_age \in {0, drv.command_age}
    BY <1>1 DEF Command, NoCommand
  <1>4. /\ drv'.desired = e.desired /\ drv'.commanded = e.commanded
        /\ drv'.wanted.power = e.wanted.power /\ drv'.wanted.mode = e.wanted.mode
        /\ drv'.wanted.temp = e.wanted.temp
        /\ drv'.first_real_state_received = e.first_real_state_received
        /\ drv'.command_age = e.command_age /\ drv'.send_age = e.send_age
        /\ drv'.current = e.current /\ drv'.room = e.room
        /\ drv'.ltp_active = e.ltp_active /\ drv'.evaluation_age = e.evaluation_age
        /\ drv'.has_issued = e.has_issued /\ drv'.last_issued = e.last_issued
        /\ drv'.fan_stop = e.fan_stop
    BY <1>2 DEF Finalize, Driver, Wanted, e
  <1>5. /\ e.desired = x.desired /\ e.send_age = drv.send_age /\ e.fan_stop = x.fan_stop
        /\ e.first_real_state_received = drv.first_real_state_received
        /\ e.evaluation_age = x.evaluation_age
    BY <1>1 DEF EvaluationFrame
  <1>6. DesireIsAWish'
    BY <1>4, <1>5 DEF DesireIsAWish
  <1>7. RemoteInv'
    <2>1. drv.command_age \in Nat /\ drv.send_age \in Nat
      BY WriteMemoryType, ReconciliationAssumption DEF TypeOK, Driver
    <2>2. drv'.send_age = drv.send_age /\ drv'.command_age \in {0, drv.command_age}
      BY <1>3, <1>4, <1>5
    <2>3. was # unit /\ drv.send_age < LockoutWindow => drv.command_age <= drv.send_age
      BY DEF SyncInv, RemoteInv
    <2>4. was' # unit' /\ drv'.send_age < LockoutWindow => drv'.command_age <= drv'.send_age
      BY <2>1, <2>2, <2>3
    <2>. QED
      BY <2>4 DEF SyncInv, RemoteInv
  <1>8. CASE drv.first_real_state_received
    <2>1. /\ CommandInv(drv)
          /\ drv.wanted.power = "UNKNOWN" /\ ~unseen => Adopted(drv.commanded)
      BY <1>8 DEF SyncInv, KnownInv
    <2>2. CommandInv(x)
      BY <2>1 DEF CommandInv
    <2>3. /\ CommandInv(e)
          /\ e.wanted.power = "UNKNOWN" =>
               x.wanted.power = "UNKNOWN" /\ e.commanded = x.commanded
      BY <2>2, EvaluateCommanded DEF e
    <2>4. CommandInv(drv')
      BY <1>4, <2>3 DEF CommandInv
    <2>5. TempIsAWish'
      BY <1>4, <1>5 DEF TempIsAWish
    <2>6. drv'.wanted.power = "UNKNOWN" /\ ~unseen' => Adopted(drv.commanded)'
      <3>1. drv'.wanted.power = "UNKNOWN" => drv.wanted.power = "UNKNOWN"
                                             /\ drv'.commanded = drv.commanded
        BY <1>4, <2>3
      <3>2. drv'.commanded = drv.commanded => (Adopted(drv.commanded)' <=> Adopted(drv.commanded))
        BY DEF Adopted
      <3>. QED
        BY <2>1, <3>1, <3>2
    <2>7. KnownInv' /\ UnknownInv' /\ LinkInv'
      BY <1>4, <1>5, <1>8, <2>4, <2>5, <2>6 DEF KnownInv, UnknownInv, LinkInv, SyncInv
    <2>. QED
      BY <1>4, <1>5, <1>6, <1>7, <2>7 DEF SyncInv
  <1>9. CASE ~drv.first_real_state_received
    <2>1. /\ BeforeInv(drv, wish.temps) /\ cycle = "idle"
          /\ connected /\ drv.has_issued => drv.command_age = 0
      BY <1>9 DEF SyncInv, UnknownInv
    <2>2. PendingInv(x, wish'.temps)
      <3>1. x.wanted.temp # NoTemp =>
              \E temp \in wish'.temps : x.wanted.temp = normalize_setpoint(temp)
        BY <1>9, <2>1 DEF BeforeInv, PendingInv
      <3>. QED
        BY <1>9, <2>1, <3>1 DEF BeforeInv, PendingInv
    <2>3. /\ BeforeInv(e, wish'.temps)
          /\ e.wanted.power # "UNKNOWN"
          /\ \/ e.command_age = 0
             \/ x.has_issued /\ e.command_age = x.command_age
      BY <2>2, EvaluateBefore DEF e
    <2>4. BeforeInv(drv', wish'.temps)
      BY <1>4, <2>3 DEF BeforeInv, PendingInv
    <2>5. /\ drv'.wanted.power # "UNKNOWN"
          /\ connected' => drv'.command_age = 0
      BY <1>4, <2>1, <2>3
    <2>6. KnownInv' /\ UnknownInv'
      BY <1>4, <1>5, <1>9, <2>1, <2>4, <2>5 DEF KnownInv, UnknownInv
    <2>7. LinkInv'
      BY <1>4, <1>5, <1>9 DEF LinkInv, SyncInv
    <2>. QED
      BY <1>4, <1>5, <1>6, <1>7, <2>6, <2>7 DEF SyncInv
  <1>. QED
    BY <1>8, <1>9

LEMMA SameIsSymmetric == \A s, t : SameSetpoint(s, t) => SameSetpoint(t, s)
  BY DEF SameSetpoint

LEMMA WishType == TypeOK => wish.temps \in SUBSET Nat
  BY DEF TypeOK

\* The frame reaches the unit, which then does what was commanded.
LEMMA SendStep ==
    ASSUME Undisturbed, TypeOK, DriverInv(drv), SyncInv, SendWantedSettings
    PROVE  SyncInv' /\ drv'.fan_stop = drv.fan_stop
  <1>. DEFINE n == send_wanted_settings_delegate(drv)
  <1>1. /\ drv \in Driver /\ unit \in UnitStates
        /\ drv' = n /\ MayAct /\ connected /\ connected' = connected /\ cycle' = cycle
        /\ wish' = wish /\ unit' = Apply(drv.wanted) /\ was' = unit
        /\ unseen' = (unseen /\ drv.wanted.power = "UNKNOWN")
        /\ by_remote' = (by_remote /\ drv.wanted.power = "UNKNOWN")
    BY DEF TypeOK, SendWantedSettings, Undisturbed, CommandsArrive, MayAct
  <1>2. /\ drv.wanted.power \in {"ON", "OFF", "UNKNOWN"}
        /\ drv.wanted.mode \in HPMode \union {"UNKNOWN"} /\ drv.wanted.temp \in Temps
        /\ drv.wanted.power = "UNKNOWN" => drv.wanted.mode = "UNKNOWN" /\ drv.wanted.temp = NoTemp
    BY <1>1 DEF Driver, Wanted, DriverInv, WantedInv
  <1>. HIDE DEF n
  <1>3. /\ NothingWanted.power = "UNKNOWN" /\ NothingWanted.temp = NoTemp
    BY DEF NothingWanted
  <1>4. 0 < LockoutWindow
    BY SettingsSyncAssumption
  <1>5. CASE drv.wanted.power = "UNKNOWN"
    <2>1. drv.first_real_state_received
      BY <1>1, <1>5, KnownWhenActing
    <2>2. drv' = [drv EXCEPT !.send_age = 0, !.wanted = NothingWanted]
      BY <1>1, <1>2, <1>5 DEF send_wanted_settings_delegate, Driver, n
    <2>3. /\ drv'.desired = drv.desired /\ drv'.commanded = drv.commanded
          /\ drv'.wanted = NothingWanted /\ drv'.first_real_state_received
          /\ drv'.fan_stop = drv.fan_stop
      BY <1>1, <2>1, <2>2 DEF Driver
    <2>4. unit' = unit /\ unseen' = unseen /\ by_remote' = by_remote /\ was' = unit'
      BY <1>1, <1>2, <1>5 DEF Apply, UnitStates, TypeOK
    <2>5. DesireIsAWish' /\ RemoteInv'
      BY <1>1, <2>3, <2>4 DEF SyncInv, DesireIsAWish, RemoteInv
    <2>6. CommandInv(drv) /\ TempIsAWish /\ (~unseen => Adopted(drv.commanded))
      BY <1>5, <2>1 DEF SyncInv, KnownInv
    <2>7. CommandInv(drv')
      BY <1>3, <2>3, <2>6 DEF CommandInv
    <2>8. TempIsAWish' /\ (~unseen' => Adopted(drv.commanded)')
      BY <1>1, <2>3, <2>4, <2>6 DEF TempIsAWish, Adopted
    <2>. QED
      BY <1>1, <2>3, <2>5, <2>7, <2>8 DEF SyncInv, KnownInv, UnknownInv, LinkInv
  <1>6. CASE drv.wanted.power # "UNKNOWN" /\ drv.first_real_state_received
    <2>1. CommandInv(drv) /\ TempIsAWish
      BY <1>6 DEF SyncInv, KnownInv
    <2>2. drv.command_age = 0
      BY <1>6, <2>1 DEF CommandInv
    <2>3. drv' = [drv EXCEPT !.send_age = 0, !.wanted = NothingWanted]
      <3>. DEFINE sending == [drv EXCEPT !.send_age = 0]
      <3>1. sending.first_real_state_received /\ sending.command_age = 0
        BY <1>1, <1>6, <2>2 DEF Driver
      <3>2. CheckPowerAndMode(sending, drv.wanted) = sending
        BY <1>4, <3>1 DEF CheckPowerAndMode
      <3>3. n = [sending EXCEPT !.wanted = NothingWanted]
        BY <1>6, <3>2 DEF send_wanted_settings_delegate, n
      <3>. QED
        BY <1>1, <3>3 DEF Driver
    <2>4. /\ drv'.desired = drv.desired /\ drv'.commanded = drv.commanded
          /\ drv'.wanted = NothingWanted /\ drv'.first_real_state_received
          /\ drv'.fan_stop = drv.fan_stop /\ drv'.command_age = 0 /\ drv'.send_age = 0
      BY <1>1, <1>6, <2>2, <2>3 DEF Driver
    <2>5. /\ unit'.temp = IF drv.wanted.temp = NoTemp THEN unit.temp ELSE drv.wanted.temp
          /\ physical_mode(unit') = IF drv.wanted.power = "ON" THEN drv.wanted.mode ELSE "OFF"
      <3>1. /\ unit'.power = drv.wanted.power
            /\ unit'.mode = IF drv.wanted.mode = "UNKNOWN" THEN unit.mode ELSE drv.wanted.mode
            /\ unit'.temp = IF drv.wanted.temp = NoTemp THEN unit.temp ELSE drv.wanted.temp
        BY <1>1, <1>6 DEF Apply
      <3>2. drv.wanted.power = "ON" => drv.wanted.mode \in HPMode /\ drv.wanted.mode # "UNKNOWN"
        BY <2>1 DEF CommandInv, HPMode
      <3>. QED
        BY <1>2, <1>6, <3>1, <3>2 DEF physical_mode
    <2>6. ~unseen'
      BY <1>1, <1>6
    <2>7. RemoteInv'
      <3>1. unit'.temp \in Accepted
        BY <2>1, <2>5 DEF CommandInv, SyncInv, RemoteInv
      <3>. QED
        BY <2>4, <2>6, <3>1 DEF RemoteInv
    <2>8. CommandInv(drv')
      BY <1>3, <2>1, <2>4 DEF CommandInv
    <2>9. Adopted(drv.commanded)'
      <3>1. CASE drv.wanted.power = "ON"
        <4>1. drv.wanted.temp # NoTemp
          BY <3>1 DEF DriverInv, SetpointInv
        <4>. QED
          BY <2>1, <2>4, <2>5, <3>1, <4>1 DEF Adopted, CommandInv
      <3>2. CASE drv.wanted.power = "OFF"
        BY <2>1, <2>4, <2>5, <3>2 DEF Adopted, CommandInv
      <3>. QED
        BY <1>2, <1>6, <3>1, <3>2
    <2>10. TempIsAWish' /\ DesireIsAWish'
      BY <1>1, <2>1, <2>4 DEF TempIsAWish, DesireIsAWish, SyncInv
    <2>. QED
      BY <1>1, <2>4, <2>7, <2>8, <2>9, <2>10 DEF SyncInv, KnownInv, UnknownInv, LinkInv
  <1>7. CASE drv.wanted.power # "UNKNOWN" /\ ~drv.first_real_state_received
    <2>1. BeforeInv(drv, wish.temps) /\ (drv.has_issued => drv.command_age = 0)
      BY <1>1, <1>7 DEF SyncInv, UnknownInv
    <2>2. /\ drv'.first_real_state_received
          /\ drv'.desired = [mode |-> drv.desired.mode,
                             temp |-> IF drv.wanted.temp # NoTemp THEN drv.wanted.temp
                                      ELSE drv.desired.temp]
          /\ physical_mode(drv.wanted) = drv.desired.mode
          /\ drv'.commanded.mode = drv.desired.mode
          /\ drv.desired.mode # "OFF" => drv'.commanded.temp = drv.wanted.temp
          /\ drv'.wanted = NothingWanted
          /\ drv'.command_age = 0 /\ drv'.send_age = 0
          /\ drv'.fan_stop = drv.fan_stop
      BY <1>1, <1>7, <2>1, FirstSend, WishType DEF n
    <2>3. \E temp \in wish.temps : drv'.desired.temp \in {temp, normalize_setpoint(temp)}
      <3>1. CASE drv.wanted.temp # NoTemp
        BY <2>1, <2>2, <3>1 DEF BeforeInv, PendingInv
      <3>2. CASE drv.wanted.temp = NoTemp
        BY <2>1, <2>2, <3>2 DEF BeforeInv, PendingInv
      <3>. QED
        BY <3>1, <3>2
    <2>4. /\ drv'.desired.temp \in Accepted
          /\ drv.wanted.temp # NoTemp => drv.wanted.temp \in Accepted
      <3>1. drv.wanted.temp # NoTemp => drv.wanted.temp \in Accepted
        BY <2>1, WishType, NormalizedIsAccepted DEF BeforeInv, PendingInv, Accepted
      <3>. QED
        BY <2>1, <2>2, <3>1 DEF BeforeInv, PendingInv
    <2>5. /\ unit'.temp = IF drv.wanted.temp = NoTemp THEN unit.temp ELSE drv.wanted.temp
          /\ physical_mode(unit') = drv.desired.mode
      <3>1. /\ unit'.power = drv.wanted.power
            /\ unit'.mode = IF drv.wanted.mode = "UNKNOWN" THEN unit.mode ELSE drv.wanted.mode
            /\ unit'.temp = IF drv.wanted.temp = NoTemp THEN unit.temp ELSE drv.wanted.temp
        BY <1>1, <1>7 DEF Apply
      <3>2. CASE drv.wanted.power = "ON"
        <4>1. drv.wanted.mode = drv.desired.mode /\ drv.desired.mode \in HPMode
          BY <1>1, <2>1, <3>2 DEF BeforeInv, Driver, Desires
        <4>2. drv.wanted.mode # "UNKNOWN"
          BY <4>1 DEF HPMode
        <4>. QED
          BY <3>1, <3>2, <4>1, <4>2 DEF physical_mode
      <3>3. CASE drv.wanted.power = "OFF"
        BY <2>1, <3>1, <3>3 DEF physical_mode, BeforeInv
      <3>. QED
        BY <1>2, <1>7, <3>2, <3>3
    <2>6. ~unseen'
      BY <1>1, <1>7
    <2>7. RemoteInv'
      <3>1. unit'.temp \in Accepted
        BY <2>4, <2>5 DEF SyncInv, RemoteInv
      <3>. QED
        BY <2>2, <2>6, <3>1 DEF RemoteInv
    <2>8. Adopted(drv.commanded)'
      <3>1. CASE drv.desired.mode # "OFF"
        <4>1. drv.wanted.temp # NoTemp
          BY <1>2, <1>7, <2>1, <3>1 DEF BeforeInv, DriverInv, SetpointInv
        <4>2. drv'.commanded.temp = unit'.temp /\ unit'.temp \in Int
          BY <2>2, <2>4, <2>5, <3>1, <4>1 DEF Accepted
        <4>. QED
          BY <2>2, <2>5, <4>2, SameAsItself DEF Adopted
      <3>2. CASE drv.desired.mode = "OFF"
        BY <2>2, <2>5, <3>2 DEF Adopted
      <3>. QED
        BY <3>1, <3>2
    <2>9. CommandInv(drv')
      BY <1>3, <2>2, <2>4 DEF CommandInv
    <2>10. TempIsAWish' /\ DesireIsAWish'
      BY <1>1, <2>2, <2>3 DEF TempIsAWish, DesireIsAWish, SyncInv
    <2>. QED
      BY <1>1, <2>2, <2>7, <2>8, <2>9, <2>10 DEF SyncInv, KnownInv, UnknownInv, LinkInv
  <1>. QED
    BY <1>5, <1>6, <1>7

\* A readback changes what is desired only for a change made with the remote.
LEMMA ReadbackStep ==
    ASSUME FloorIsSettable, TypeOK, DriverInv(drv), SyncInv, Readback
    PROVE  SyncInv' /\ (drv.fan_stop /\ ~drv'.fan_stop => by_remote)
  <1>1. /\ drv \in Driver /\ unit \in UnitStates /\ was \in UnitStates
        /\ drv.first_real_state_received
        /\ connected /\ connected' /\ unit' = unit /\ was' = was /\ wish' = wish
        /\ by_remote' = by_remote
        /\ unseen' = (unseen /\ ~(Adopted(drv'.desired) /\ Adopted(drv'.commanded)))
    BY DEF TypeOK, Readback, SyncInv, UnknownInv
  <1>2. PICK settings \in Reported, other_changed \in BOOLEAN :
          drv' = heatpump_update(drv, settings, other_changed)
    BY DEF Readback
  <1>3. settings \in UnitStates
    BY <1>1, <1>2 DEF Reported
  <1>4. /\ CommandInv(drv) /\ TempIsAWish /\ DesireIsAWish /\ RemoteInv /\ WantedInv(drv)
        /\ drv.wanted.power = "UNKNOWN" /\ ~unseen => Adopted(drv.commanded)
    BY <1>1 DEF SyncInv, KnownInv, DriverInv
  <1>5. drv.command_age \in Nat /\ drv.send_age \in Nat /\ LockoutWindow \in Nat
    BY <1>1, WriteMemoryType, ReconciliationAssumption, SettingsSyncAssumption DEF Driver
  <1>6. Compares(drv) => settings = unit
    <2>1. settings # unit => was # unit /\ drv.send_age < LockoutWindow
      BY <1>2 DEF Reported
    <2>2. settings # unit => drv.command_age < LockoutWindow
      BY <1>4, <1>5, <2>1 DEF RemoteInv
    <2>. QED
      BY <1>5, <2>2 DEF Compares
  <1>7. CASE Agree(drv, drv')
    <2>1. /\ drv'.desired = drv.desired /\ drv'.commanded = drv.commanded
          /\ drv'.wanted = drv.wanted /\ drv'.fan_stop = drv.fan_stop
          /\ drv'.first_real_state_received = drv.first_real_state_received
          /\ drv'.command_age = drv.command_age /\ drv'.send_age = drv.send_age
      BY <1>7 DEF Agree
    <2>2. UNCHANGED <<connected, unit, was, wish, by_remote>>
      BY <1>1
    <2>3. (unseen' => unseen) /\ (unseen => unseen' \/ Adopted(drv.commanded))
      BY <1>1, <2>1
    <2>4. SyncInv'
      BY <1>1, <2>1, <2>2, <2>3, QuietStep
    <2>. QED
      BY <2>1, <2>4
  <1>8. CASE /\ Compares(drv)
             /\ physical_mode(settings) # drv.commanded.mode
             /\ drv'.desired = [mode |-> physical_mode(settings), temp |-> settings.temp]
             /\ Agree([drv EXCEPT !.fan_stop = FALSE, !.desired = drv'.desired,
                                  !.commanded = drv'.desired], drv')
    <2>1. settings = unit
      BY <1>6, <1>8
    <2>2. /\ drv'.desired = [mode |-> physical_mode(unit), temp |-> unit.temp]
          /\ drv'.commanded = drv'.desired
          /\ drv'.wanted = drv.wanted /\ drv'.first_real_state_received
          /\ drv'.command_age = drv.command_age /\ drv'.send_age = drv.send_age
      BY <1>1, <1>8, <2>1 DEF Agree, Driver
    <2>3. unseen /\ drv.wanted.power = "UNKNOWN"
      BY <1>4, <1>8, <2>1 DEF Compares, Adopted
    <2>4. /\ by_remote /\ unit.temp \in Accepted
          /\ physical_mode(unit) \in wish.modes /\ unit.temp \in wish.temps
      BY <1>4, <2>3 DEF RemoteInv
    <2>5. Adopted(drv'.desired) /\ Adopted(drv'.commanded)
      <3>1. unit.temp \in Int
        BY <2>4 DEF Accepted
      <3>. QED
        BY <2>2, <3>1, SameAsItself DEF Adopted
    <2>6. ~unseen'
      BY <1>1, <2>5
    <2>7. Adopted(drv.commanded)'
      BY <1>1, <2>2, <2>5 DEF Adopted
    <2>8. CommandInv(drv')
      BY <1>4, <2>2, <2>3, <2>4 DEF CommandInv
    <2>9. DesireIsAWish' /\ TempIsAWish'
      BY <1>1, <2>2, <2>4 DEF DesireIsAWish, TempIsAWish
    <2>10. RemoteInv'
      BY <1>1, <1>4, <2>2, <2>6 DEF RemoteInv
    <2>. QED
      BY <1>1, <2>2, <2>4, <2>7, <2>8, <2>9, <2>10 DEF SyncInv, KnownInv, UnknownInv, LinkInv
  <1>9. CASE /\ Compares(drv)
             /\ physical_mode(settings) = drv.commanded.mode
             /\ TempChanged(drv, settings)
             /\ Moved(drv, settings) \in Driver
             /\ Agree(evaluate_fan_stop_and_ltp(Moved(drv, settings)), drv')
    <2>. DEFINE x == Moved(drv, unit)
                e == evaluate_fan_stop_and_ltp(x)
    <2>1. settings = unit
      BY <1>6, <1>9
    <2>2. /\ physical_mode(unit) = drv.commanded.mode /\ physical_mode(unit) # "OFF"
          /\ ~SameSetpoint(unit.temp, drv.commanded.temp)
      BY <1>9, <2>1 DEF TempChanged
    <2>3. unseen /\ drv.wanted.power = "UNKNOWN"
      BY <1>4, <1>9, <2>2, SameIsSymmetric DEF Compares, Adopted
    <2>4. by_remote /\ unit.temp \in Accepted /\ unit.temp \in wish.temps
      BY <1>4, <2>3 DEF RemoteInv
    <2>5. /\ x.desired = [mode |-> drv.desired.mode, temp |-> unit.temp]
          /\ x.commanded = [mode |-> drv.commanded.mode, temp |-> unit.temp]
          /\ x.wanted = drv.wanted /\ x.command_age = drv.command_age
          /\ x.send_age = drv.send_age /\ x.fan_stop = drv.fan_stop
          /\ x.first_real_state_received = drv.first_real_state_received
      BY <1>1 DEF Moved, Noted, Driver, Desires
    <2>6. CommandInv(x)
      BY <1>4, <2>3, <2>4, <2>5 DEF CommandInv
    <2>7. x \in Driver /\ Agree(e, drv')
      BY <1>9, <2>1
    <2>. HIDE DEF x
    <2>8. /\ CommandInv(e)
          /\ EvaluationFrame(x, e)
          /\ e.wanted.power = "UNKNOWN" => e.commanded = x.commanded
          /\ e.command_age \in {0, x.command_age}
      BY <2>6, <2>7, EvaluateCommanded
    <2>. HIDE DEF e
    <2>9. /\ drv'.desired = x.desired /\ drv'.commanded = e.commanded
          /\ drv'.wanted = e.wanted /\ drv'.first_real_state_received
          /\ drv'.command_age = e.command_age /\ drv'.send_age = drv.send_age
          /\ drv'.fan_stop = drv.fan_stop
      BY <1>1, <2>5, <2>7, <2>8 DEF Agree, EvaluationFrame
    <2>10. CommandInv(drv')
      BY <2>7, <2>8 DEF CommandInv, Agree
    <2>11. drv'.wanted.power = "UNKNOWN" => Adopted(drv.commanded)'
      <3>1. drv'.wanted.power = "UNKNOWN" =>
              drv'.commanded = [mode |-> physical_mode(unit), temp |-> unit.temp]
        BY <2>2, <2>5, <2>8, <2>9
      <3>2. unit.temp \in Int
        BY <2>4 DEF Accepted
      <3>. QED
        BY <1>1, <3>1, <3>2, SameAsItself DEF Adopted
    <2>12. DesireIsAWish' /\ TempIsAWish'
      BY <1>1, <1>4, <2>4, <2>5, <2>9 DEF DesireIsAWish, TempIsAWish
    <2>13. RemoteInv'
      <3>1. drv'.command_age \in {0, drv.command_age} /\ drv'.send_age = drv.send_age
        BY <2>5, <2>8, <2>9
      <3>2. was # unit /\ drv.send_age < LockoutWindow => drv.command_age <= drv.send_age
        BY <1>4 DEF RemoteInv
      <3>3. was' # unit' /\ drv'.send_age < LockoutWindow => drv'.command_age <= drv'.send_age
        BY <1>1, <1>5, <3>1, <3>2
      <3>. QED
        BY <1>1, <1>4, <3>3 DEF RemoteInv
    <2>. QED
      BY <1>1, <2>4, <2>9, <2>10, <2>11, <2>12, <2>13
      DEF SyncInv, KnownInv, UnknownInv, LinkInv
  <1>. QED
    BY <1>1, <1>2, <1>3, <1>4, <1>7, <1>8, <1>9, ReadbackGives

\* A command stays as recent as the frame that may hide behind it.
LEMMA AgesTogether ==
    ASSUME NEW a \in Nat, NEW s \in Nat, NEW A \in Nat, NEW S \in Nat, NEW lockout \in Nat,
           lockout <= S, s < lockout => a <= s
    PROVE  Older(s, S) < lockout => Older(a, A) <= Older(s, S)
  BY DEF Older

LEMMA TickStep ==
    ASSUME TypeOK, DriverInv(drv), SyncInv, cycle # "lost", Tick
    PROVE  SyncInv' /\ drv'.fan_stop = drv.fan_stop
  <1>1. /\ drv \in Driver
        /\ UNCHANGED <<connected, cycle, unit, was, wish, unseen, by_remote>>
        /\ drv' = [drv EXCEPT !.command_age = Older(@, SettleWindow),
                              !.send_age = Older(@, WriteMemory),
                              !.evaluation_age = Older(@, EvaluationPeriod)]
    BY DEF TypeOK, Tick
  <1>2. /\ drv'.desired = drv.desired /\ drv'.commanded = drv.commanded
        /\ drv'.wanted = drv.wanted /\ drv'.fan_stop = drv.fan_stop
        /\ drv'.first_real_state_received = drv.first_real_state_received
        /\ drv'.current = drv.current /\ drv'.room = drv.room
        /\ drv'.ltp_active = drv.ltp_active
        /\ drv'.has_issued = drv.has_issued /\ drv'.last_issued = drv.last_issued
        /\ drv'.command_age = Older(drv.command_age, SettleWindow)
        /\ drv'.send_age = Older(drv.send_age, WriteMemory)
        /\ drv'.evaluation_age = Older(drv.evaluation_age, EvaluationPeriod)
    BY <1>1 DEF Driver
  <1>3. /\ drv.command_age \in Nat /\ drv.send_age \in Nat
        /\ SettleWindow \in Nat /\ WriteMemory \in Nat /\ LockoutWindow \in Nat
        /\ LockoutWindow <= WriteMemory
    BY <1>1, WriteMemoryType, ReconciliationAssumption, SettingsSyncAssumption DEF Driver
  <1>4. connected => drv.wanted.power = "UNKNOWN" /\ drv.first_real_state_received
    <2>1. connected => MayAct /\ drv.wanted = NothingWanted
      BY DEF Tick, MayAct, DriverInv, WantedInv
    <2>. QED
      BY <2>1, KnownWhenActing DEF NothingWanted
  <1>5. RemoteInv'
    <2>1. was # unit => (drv.send_age < LockoutWindow => drv.command_age <= drv.send_age)
      BY DEF SyncInv, RemoteInv
    <2>2. was # unit => (drv'.send_age < LockoutWindow => drv'.command_age <= drv'.send_age)
      BY <1>2, <1>3, <2>1, AgesTogether
    <2>. QED
      BY <1>1, <2>2 DEF SyncInv, RemoteInv
  <1>6. DesireIsAWish'
    BY <1>1, <1>2 DEF SyncInv, DesireIsAWish
  <1>7. CASE drv.first_real_state_received
    <2>1. connected
      BY <1>7 DEF SyncInv, LinkInv
    <2>2. /\ CommandInv(drv) /\ TempIsAWish /\ drv.wanted.power = "UNKNOWN"
          /\ ~unseen => Adopted(drv.commanded)
      BY <1>4, <1>7, <2>1 DEF SyncInv, KnownInv
    <2>3. CommandInv(drv')
      BY <1>2, <2>2 DEF CommandInv
    <2>4. TempIsAWish' /\ (~unseen' => Adopted(drv.commanded)')
      BY <1>1, <1>2, <2>2 DEF TempIsAWish, Adopted
    <2>. QED
      BY <1>1, <1>2, <1>5, <1>6, <1>7, <2>1, <2>3, <2>4
      DEF SyncInv, KnownInv, UnknownInv, LinkInv
  <1>8. CASE ~drv.first_real_state_received
    <2>1. /\ ~connected /\ BeforeInv(drv, wish.temps) /\ cycle = "idle"
          /\ drv.evaluation_age = EvaluationPeriod
      BY <1>4, <1>8 DEF SyncInv, UnknownInv, LinkInv
    <2>2. BeforeInv(drv', wish.temps)
      BY <1>2, <2>1 DEF BeforeInv, PendingInv
    <2>3. drv'.evaluation_age = EvaluationPeriod
      BY <1>2, <2>1, SettingsSyncAssumption DEF Older
    <2>. QED
      BY <1>1, <1>2, <1>5, <1>6, <1>8, <2>1, <2>2, <2>3
      DEF SyncInv, KnownInv, UnknownInv, LinkInv
  <1>. QED
    BY <1>7, <1>8

LEMMA PressStep ==
    ASSUME TypeOK, SyncInv, NEW mode \in RemoteModes, NEW temp \in RemoteSetpoints,
           PressRemote(mode, temp)
    PROVE  SyncInv'
  <1>1. /\ drv' = drv /\ connected' = connected /\ cycle' = cycle /\ was' = unit'
        /\ unit' = IF mode = "OFF" THEN [unit EXCEPT !.power = "OFF"]
                   ELSE [power |-> "ON", mode |-> mode, temp |-> temp]
        /\ wish' = [modes |-> wish.modes \union {mode},
                    temps |-> wish.temps \union {unit'.temp}]
        /\ unseen' /\ by_remote'
    BY DEF PressRemote
  <1>2. mode \in HPMode \union {"OFF"} /\ temp \in Accepted
    BY SettingsSyncAssumption DEF Accepted
  <1>3. physical_mode(unit') = mode /\ unit'.temp \in Accepted
    <2>1. unit \in UnitStates /\ unit.temp \in Accepted
      BY DEF TypeOK, SyncInv, RemoteInv
    <2>. QED
      BY <1>1, <1>2, <2>1 DEF physical_mode, UnitStates, HPMode
  <1>4. wish.modes \subseteq wish'.modes /\ wish.temps \subseteq wish'.temps
    BY <1>1
  <1>5. DesireIsAWish' /\ RemoteInv'
    BY <1>1, <1>3, <1>4 DEF SyncInv, DesireIsAWish, RemoteInv
  <1>6. KnownInv'
    BY <1>1, <1>4 DEF SyncInv, KnownInv, TempIsAWish
  <1>7. UnknownInv'
    <2>1. ~drv.first_real_state_received => BeforeInv(drv, wish'.temps)
      <3>1. ~drv.first_real_state_received => BeforeInv(drv, wish.temps)
        BY DEF SyncInv, UnknownInv
      <3>. QED
        BY <1>4, <3>1 DEF BeforeInv, PendingInv
    <2>. QED
      BY <1>1, <2>1 DEF SyncInv, UnknownInv
  <1>8. LinkInv'
    BY <1>1 DEF SyncInv, LinkInv
  <1>. QED
    BY <1>5, <1>6, <1>7, <1>8 DEF SyncInv

LEMMA ConnectStep ==
    ASSUME TypeOK, SyncInv, Connect
    PROVE  SyncInv' /\ drv'.fan_stop = drv.fan_stop
  <1>1. /\ drv \in Driver /\ ~connected
        /\ UNCHANGED <<cycle, unit, was, wish, unseen, by_remote>>
        /\ drv' = [drv EXCEPT !.has_issued = FALSE, !.current = NothingKnown]
    BY DEF TypeOK, Connect
  <1>2. /\ drv'.desired = drv.desired /\ drv'.commanded = drv.commanded
        /\ drv'.wanted = drv.wanted /\ drv'.fan_stop = drv.fan_stop
        /\ drv'.first_real_state_received = drv.first_real_state_received
        /\ drv'.current = NothingKnown /\ drv'.room = drv.room
        /\ drv'.ltp_active = drv.ltp_active /\ ~drv'.has_issued
        /\ drv'.command_age = drv.command_age /\ drv'.send_age = drv.send_age
        /\ drv'.evaluation_age = drv.evaluation_age
    BY <1>1 DEF Driver
  <1>3. /\ ~drv.first_real_state_received /\ drv.evaluation_age = EvaluationPeriod
        /\ BeforeInv(drv, wish.temps) /\ cycle = "idle"
    BY <1>1 DEF SyncInv, LinkInv, UnknownInv
  <1>4. BeforeInv(drv', wish.temps)
    BY <1>2, <1>3 DEF BeforeInv, PendingInv
  <1>5. DesireIsAWish' /\ RemoteInv'
    BY <1>1, <1>2 DEF SyncInv, DesireIsAWish, RemoteInv
  <1>. QED
    BY <1>1, <1>2, <1>3, <1>4, <1>5, Zenon DEF SyncInv, KnownInv, UnknownInv, LinkInv, Connect

\* A call of Home Assistant for another mode or setpoint.
LEMMA ControlStep ==
    ASSUME SetpointsAreOffered, FloorIsSettable, TypeOK, DriverInv(drv), SyncInv,
           \/ \E mode \in HaModes : ControlMode(mode)
           \/ \E temp \in HaSetpoints : ControlTemperature(temp)
    PROVE  SyncInv' /\ drv'.fan_stop = drv.fan_stop
  <1>1. /\ drv \in Driver /\ wish.temps \in SUBSET Nat
        /\ unit.temp \in Accepted /\ unit.temp \in Nat
        /\ unseen => physical_mode(unit) \in wish.modes /\ unit.temp \in wish.temps
    BY DEF TypeOK, SyncInv, RemoteInv, UnitStates
  <1>2. /\ drv.desired.temp \in Accepted
        /\ TempIsAWish
        /\ ~drv.first_real_state_received => drv.desired.temp \in wish.temps
    <2>1. CASE drv.first_real_state_received
      BY <2>1 DEF SyncInv, KnownInv, CommandInv
    <2>2. CASE ~drv.first_real_state_received
      <3>1. drv.desired.temp \in Accepted \intersect wish.temps
        BY <2>2 DEF SyncInv, UnknownInv, BeforeInv, PendingInv
      <3>. QED
        BY <3>1 DEF TempIsAWish
    <2>. QED
      BY <2>1, <2>2
  <1>3. ASSUME NEW mode \in HaModes, ControlMode(mode)
        PROVE  SyncInv' /\ drv'.fan_stop = drv.fan_stop
    <2>. DEFINE x == [drv EXCEPT !.desired.mode = mode]
    <2>1. x \in Driver
      <3>1. [drv.desired EXCEPT !.mode = mode] \in Desires
        BY <1>1, SettingsSyncAssumption DEF Driver, Desires
      <3>. QED
        BY <1>1, <3>1 DEF Driver
    <2>2. /\ x.desired.mode = mode /\ x.desired.temp = drv.desired.temp
          /\ x.commanded = drv.commanded /\ x.wanted = drv.wanted /\ x.current = drv.current
          /\ x.first_real_state_received = drv.first_real_state_received
          /\ x.has_issued = drv.has_issued /\ x.last_issued = drv.last_issued
          /\ x.command_age = drv.command_age /\ x.send_age = drv.send_age
          /\ x.room = drv.room /\ x.ltp_active = drv.ltp_active
          /\ x.evaluation_age = drv.evaluation_age /\ x.fan_stop = drv.fan_stop
      BY <1>1 DEF Driver, Desires
    <2>3. /\ drv' = Finalize(evaluate_fan_stop_and_ltp(x))
          /\ wish' = [wish EXCEPT !.modes = {mode} \union Unseen(physical_mode(unit))]
          /\ UNCHANGED <<connected, cycle, unit, was, unseen, by_remote>>
      BY <1>3 DEF ControlMode
    <2>. HIDE DEF x
    <2>4. /\ wish'.modes = {mode} \union Unseen(physical_mode(unit))
          /\ wish'.temps = wish.temps
      BY <2>3 DEF TypeOK
    <2>5. unseen => physical_mode(unit) \in wish'.modes /\ unit.temp \in wish'.temps
      BY <1>1, <2>4 DEF Unseen
    <2>6. \E t \in wish'.temps : x.desired.temp \in {t, normalize_setpoint(t)}
      BY <1>2, <2>2, <2>4 DEF TempIsAWish
    <2>. QED
      BY <1>1, <1>2, <2>1, <2>2, <2>3, <2>4, <2>5, <2>6, EvaluateStep
  <1>4. ASSUME NEW temp \in HaSetpoints, ControlTemperature(temp)
        PROVE  SyncInv' /\ drv'.fan_stop = drv.fan_stop
    <2>. DEFINE x == [drv EXCEPT !.desired.temp = temp]
    <2>1. temp \in Accepted /\ temp \in Nat /\ temp \in Temps
      BY SettingsSyncAssumption DEF SetpointsAreOffered, Accepted, Temps
    <2>2. x \in Driver
      <3>1. [drv.desired EXCEPT !.temp = temp] \in Desires
        BY <1>1, <2>1 DEF Driver, Desires
      <3>. QED
        BY <1>1, <3>1 DEF Driver
    <2>3. /\ x.desired.mode = drv.desired.mode /\ x.desired.temp = temp
          /\ x.commanded = drv.commanded /\ x.wanted = drv.wanted /\ x.current = drv.current
          /\ x.first_real_state_received = drv.first_real_state_received
          /\ x.has_issued = drv.has_issued /\ x.last_issued = drv.last_issued
          /\ x.command_age = drv.command_age /\ x.send_age = drv.send_age
          /\ x.room = drv.room /\ x.ltp_active = drv.ltp_active
          /\ x.evaluation_age = drv.evaluation_age /\ x.fan_stop = drv.fan_stop
      BY <1>1 DEF Driver, Desires
    <2>4. /\ drv' = Finalize(evaluate_fan_stop_and_ltp(x))
          /\ wish' = [wish EXCEPT !.temps = {temp} \union Unseen(unit.temp) \union NotSettledYet]
          /\ UNCHANGED <<connected, cycle, unit, was, unseen, by_remote>>
      BY <1>4 DEF ControlTemperature
    <2>. HIDE DEF x
    <2>5. /\ wish'.temps = {temp} \union Unseen(unit.temp) \union NotSettledYet
          /\ wish'.modes = wish.modes
      BY <2>4 DEF TypeOK
    <2>6. wish'.temps \in SUBSET Nat
      BY <1>1, <2>1, <2>5 DEF Unseen, NotSettledYet
    <2>7. ~drv.first_real_state_received =>
            x.desired.temp \in wish'.temps /\ wish.temps \subseteq wish'.temps
      BY <2>3, <2>5 DEF NotSettledYet
    <2>8. unseen => physical_mode(unit) \in wish'.modes /\ unit.temp \in wish'.temps
      BY <1>1, <2>5 DEF Unseen
    <2>9. \E t \in wish'.temps : x.desired.temp \in {t, normalize_setpoint(t)}
      BY <2>3, <2>5
    <2>10. x.desired.mode \in wish'.modes
      BY <2>3, <2>5 DEF SyncInv, DesireIsAWish
    <2>. QED
      BY <1>1, <2>1, <2>2, <2>3, <2>4, <2>6, <2>7, <2>8, <2>9, <2>10, EvaluateStep
  <1>. QED
    BY <1>3, <1>4

LEMMA SyncStep ==
    ASSUME SetpointsAreOffered, FloorIsSettable, Undisturbed, TypeOK, DriverInv(drv), SyncInv,
           cycle # "lost", [Next]_vars
    PROVE  /\ SyncInv'
           /\ drv.fan_stop /\ ~drv'.fan_stop => by_remote \/ FanStopSwitch
  <1>0. drv \in Driver
    BY DEF TypeOK
  <1>1. CASE Evaluate
    <2>. DEFINE x == [drv EXCEPT !.evaluation_age = 0, !.last_room = drv.room]
    <2>1. x \in Driver
      <3>1. 0 \in 0 .. EvaluationPeriod
        BY SettingsSyncAssumption
      <3>. QED
        BY <1>0, <3>1 DEF Driver
    <2>2. /\ x.desired = drv.desired
          /\ x.commanded = drv.commanded /\ x.wanted = drv.wanted /\ x.current = drv.current
          /\ x.first_real_state_received = drv.first_real_state_received
          /\ x.has_issued = drv.has_issued /\ x.last_issued = drv.last_issued
          /\ x.command_age = drv.command_age /\ x.send_age = drv.send_age
          /\ x.room = drv.room /\ x.ltp_active = drv.ltp_active /\ x.fan_stop = drv.fan_stop
      BY <1>0 DEF Driver
    <2>3. /\ drv' = evaluate_fan_stop_and_ltp(x) /\ connected /\ wish' = wish
          /\ UNCHANGED <<connected, cycle, unit, was, unseen, by_remote>>
      BY <1>1 DEF Evaluate
    <2>. HIDE DEF x
    <2>4. /\ drv.desired.temp \in Accepted /\ TempIsAWish
          /\ ~drv.first_real_state_received => drv.desired.temp \in wish.temps
      <3>1. CASE drv.first_real_state_received
        BY <3>1 DEF SyncInv, KnownInv, CommandInv
      <3>2. CASE ~drv.first_real_state_received
        <4>1. drv.desired.temp \in Accepted \intersect wish.temps
          BY <3>2 DEF SyncInv, UnknownInv, BeforeInv, PendingInv
        <4>. QED
          BY <4>1 DEF TempIsAWish
      <3>. QED
        BY <3>1, <3>2
    <2>5. \E t \in wish'.temps : x.desired.temp \in {t, normalize_setpoint(t)}
      BY <2>2, <2>3, <2>4 DEF TempIsAWish
    <2>6. /\ x.desired.mode \in wish'.modes /\ wish'.temps \in SUBSET Nat
          /\ unseen => physical_mode(unit) \in wish'.modes /\ unit.temp \in wish'.temps
      BY <2>2, <2>3, WishType DEF SyncInv, DesireIsAWish, RemoteInv
    <2>7. SyncInv' /\ drv'.fan_stop = x.fan_stop
      BY <2>1, <2>2, <2>3, <2>4, <2>5, <2>6, EvaluateStep
    <2>. QED
      BY <2>2, <2>7
  <1>2. CASE SendWantedSettings
    BY <1>2, SendStep
  <1>3. CASE DropEmptySettings
    <2>1. drv.wanted.power = "UNKNOWN" /\ drv.wanted.mode = "UNKNOWN" /\ drv.wanted.temp = NoTemp
      <3>1. [drv.wanted EXCEPT !.has_changed = FALSE] = NothingWanted
        BY <1>3 DEF DropEmptySettings, has_payload
      <3>2. /\ drv.wanted.power = [drv.wanted EXCEPT !.has_changed = FALSE].power
            /\ drv.wanted.mode = [drv.wanted EXCEPT !.has_changed = FALSE].mode
            /\ drv.wanted.temp = [drv.wanted EXCEPT !.has_changed = FALSE].temp
        BY <1>0 DEF Driver, Wanted
      <3>. QED
        BY <3>1, <3>2 DEF NothingWanted
    <2>2. drv.first_real_state_received
      BY <1>3, <2>1, KnownWhenActing DEF DropEmptySettings
    <2>3. drv' = [drv EXCEPT !.wanted = NothingWanted]
      BY <1>3 DEF DropEmptySettings
    <2>4. /\ drv'.desired = drv.desired /\ drv'.commanded = drv.commanded
          /\ drv'.wanted = NothingWanted /\ drv'.fan_stop = drv.fan_stop
          /\ drv'.first_real_state_received = drv.first_real_state_received
          /\ drv'.command_age = drv.command_age /\ drv'.send_age = drv.send_age
      BY <1>0, <2>3 DEF Driver
    <2>5. SyncInv'
      BY <1>3, <2>1, <2>2, <2>4, QuietStep DEF DropEmptySettings, NothingWanted
    <2>. QED
      BY <2>4, <2>5
  <1>4. CASE StartCycle
    <2>1. drv.wanted = NothingWanted
      BY <1>4 DEF StartCycle, DriverInv, WantedInv
    <2>2. drv.first_real_state_received
      BY <1>4, <2>1, KnownWhenActing DEF StartCycle, NothingWanted
    <2>3. SyncInv'
      BY <1>4, <2>2, QuietStep DEF StartCycle
    <2>. QED
      BY <1>4, <2>3 DEF StartCycle
  <1>5. CASE Readback
    BY <1>5, ReadbackStep
  <1>6. CASE EndCycle \/ \E room \in Rooms : ReadRoom(room)
    <2>1. /\ cycle = "answered"
          /\ UNCHANGED <<connected, unit, was, wish, unseen, by_remote>>
      BY <1>6 DEF EndCycle, ReadRoom
    <2>2. drv.first_real_state_received
      BY <2>1 DEF SyncInv, UnknownInv
    <2>3. /\ drv'.desired = drv.desired /\ drv'.commanded = drv.commanded
          /\ drv'.wanted = drv.wanted /\ drv'.fan_stop = drv.fan_stop
          /\ drv'.first_real_state_received = drv.first_real_state_received
          /\ drv'.command_age = drv.command_age /\ drv'.send_age = drv.send_age
      BY <1>0, <1>6 DEF EndCycle, ReadRoom, Driver
    <2>4. SyncInv'
      BY <2>1, <2>2, <2>3, QuietStep
    <2>. QED
      BY <2>3, <2>4
  <1>7. CASE \/ \E mode \in HaModes : ControlMode(mode)
             \/ \E temp \in HaSetpoints : ControlTemperature(temp)
    BY <1>7, ControlStep
  <1>8. CASE ControlOther \/ FanStopSwitch \/ LowTempProtectionSwitch
    <2>1. UNCHANGED <<connected, cycle, unit, was, wish, unseen, by_remote>>
      BY <1>8 DEF ControlOther, FanStopSwitch, LowTempProtectionSwitch
    <2>2. /\ drv'.desired = drv.desired /\ drv'.commanded = drv.commanded
          /\ drv'.wanted.power = drv.wanted.power /\ drv'.wanted.mode = drv.wanted.mode
          /\ drv'.wanted.temp = drv.wanted.temp
          /\ drv'.first_real_state_received = drv.first_real_state_received
          /\ drv'.command_age = drv.command_age /\ drv'.send_age = drv.send_age
          /\ drv'.current = drv.current /\ drv'.room = drv.room
          /\ drv'.ltp_active = drv.ltp_active /\ drv'.evaluation_age = drv.evaluation_age
          /\ drv'.has_issued = drv.has_issued /\ drv'.last_issued = drv.last_issued
      <3>1. CASE ControlOther
        BY <1>0, <3>1 DEF ControlOther, Finalize, Driver, Wanted
      <3>2. CASE FanStopSwitch
        BY <1>0, <3>2 DEF FanStopSwitch, Driver
      <3>3. CASE LowTempProtectionSwitch
        BY <1>0, <3>3 DEF LowTempProtectionSwitch, Driver
      <3>. QED
        BY <1>8, <3>1, <3>2, <3>3
    <2>3. SyncInv'
      BY <2>1, <2>2, QuietStep
    <2>4. ControlOther \/ LowTempProtectionSwitch => drv'.fan_stop = drv.fan_stop
      BY <1>0 DEF ControlOther, LowTempProtectionSwitch, Finalize, Driver
    <2>. QED
      BY <1>8, <2>3, <2>4
  <1>9. CASE ControlFanOff \/ Disconnect
    BY <1>9 DEF ControlFanOff, Disconnect, Undisturbed, CommandsArrive
  <1>10. CASE Connect
    BY <1>10, ConnectStep
  <1>11. CASE \E mode \in RemoteModes, temp \in RemoteSetpoints : PressRemote(mode, temp)
    BY <1>11, PressStep DEF PressRemote
  <1>12. CASE Tick
    BY <1>12, TickStep
  <1>14. CASE LoseAnswer \/ CycleTimeout
    BY <1>14 DEF LoseAnswer, CycleTimeout, Undisturbed
  <1>13. CASE UNCHANGED vars
    <2>1. drv' = drv /\ UNCHANGED <<connected, cycle, unit, was, wish, unseen, by_remote>>
      BY <1>13 DEF vars
    <2>2. SyncInv'
      BY <2>1, QuietStep
    <2>. QED
      BY <2>1, <2>2
  <1>. QED
    BY <1>1, <1>2, <1>3, <1>4, <1>5, <1>6, <1>7, <1>8, <1>9, <1>10, <1>11, <1>12, <1>13, <1>14
    DEF Next

\* No cycle waits for a lost answer where none is lost.
LEMMA NothingLost ==
    ASSUME Undisturbed, cycle # "lost", [Next]_vars
    PROVE  cycle' # "lost"
  BY DEF Undisturbed, Next, Evaluate, SendWantedSettings, DropEmptySettings, StartCycle, Readback,
         EndCycle, LoseAnswer, CycleTimeout, ControlMode, ControlTemperature, ControlOther,
         ControlFanOff, FanStopSwitch, LowTempProtectionSwitch, Disconnect, Connect, ReadRoom,
         PressRemote, Tick, vars

\* What the theorems below hold for: the three invariants, of an undisturbed installation.
SyncSafe == TypeOK /\ DriverInv(drv) /\ (Undisturbed => SyncInv /\ cycle # "lost")

LEMMA SyncSafeHolds ==
    ASSUME SetpointsAreOffered, FloorIsSettable
    PROVE  /\ Init => SyncSafe
           /\ SyncSafe /\ [Next]_vars => SyncSafe'
  <1>1. Init => SyncSafe
    <2>. SUFFICES ASSUME Init
                  PROVE  SyncSafe
      OBVIOUS
    <2>1. /\ drv.wanted = NothingWanted /\ drv.commanded = [mode |-> "OFF", temp |-> 220]
          /\ drv.desired.temp \in HaSetpoints
      BY DEF Init
    <2>2. DriverInv(drv)
      BY <2>1, SettingsSyncAssumption
      DEF DriverInv, WantedInv, SetpointInv, NothingWanted, NoTemp
    <2>. QED
      BY <2>2, InitType, SyncInit DEF SyncSafe, Init
  <1>2. SyncSafe /\ [Next]_vars => SyncSafe'
    <2>. SUFFICES ASSUME SyncSafe, [Next]_vars
                  PROVE  SyncSafe'
      OBVIOUS
    <2>1. TypeOK' /\ DriverInv(drv')
      BY NextType, DriverInvNext DEF SyncSafe
    <2>2. has' = has
      BY DEF Next, Evaluate, SendWantedSettings, DropEmptySettings, StartCycle, Readback,
             EndCycle, LoseAnswer, CycleTimeout, ControlMode, ControlTemperature, ControlOther,
             ControlFanOff, FanStopSwitch, LowTempProtectionSwitch, Disconnect, Connect, ReadRoom,
             PressRemote, Tick, vars
    <2>3. Undisturbed' <=> Undisturbed
      BY <2>2 DEF Undisturbed, CommandsArrive
    <2>4. Undisturbed => SyncInv' /\ cycle' # "lost"
      BY SyncStep, NothingLost DEF SyncSafe
    <2>5. DriverInv(drv)' <=> DriverInv(drv')
      BY DEF DriverInv, WantedInv, SetpointInv
    <2>. QED
      BY <2>1, <2>3, <2>4, <2>5 DEF SyncSafe
  <1>. QED
    BY <1>1, <1>2

(***************************************************************************)
(* For any windows, modes, setpoints, rooms and protections: as long as    *)
(* the link holds, no frame is lost, neither a SET nor an answer, and the  *)
(* fan mode OFF is not offered, the driver never takes for the user's wish *)
(* what nobody asked for, be it the answer to an older state, a command of *)
(* its own or what a protection has the unit do.                           *)
(***************************************************************************)
THEOREM DesireIsWhatWasAsked ==
    ASSUME SetpointsAreOffered, FloorIsSettable
    PROVE  Spec => []DesireIsKept
  <1>1. SyncSafe => DesireIsKept
    <2>. SUFFICES ASSUME SyncSafe, Undisturbed
                  PROVE  DesireIsAWish /\ TempIsAWish
      BY DEF DesireIsKept
    <2>1. SyncInv
      BY DEF SyncSafe
    <2>2. CASE drv.first_real_state_received
      BY <2>1, <2>2 DEF SyncInv, KnownInv
    <2>3. CASE ~drv.first_real_state_received
      <3>1. drv.desired.temp \in wish.temps
        BY <2>1, <2>3 DEF SyncInv, UnknownInv, BeforeInv, PendingInv
      <3>. QED
        BY <2>1, <3>1 DEF SyncInv, TempIsAWish
    <2>. QED
      BY <2>2, <2>3
  <1>. QED
    BY <1>1, SyncSafeHolds, PTL DEF Spec

(***************************************************************************)
(* Nor does it give up fan stop for anything but a change made with the    *)
(* remote, or its switch.                                                  *)
(***************************************************************************)
THEOREM FanStopIsGivenUpForRemote ==
    ASSUME SetpointsAreOffered, FloorIsSettable
    PROVE  Spec => FanStopIsKept
  <1>1. SyncSafe /\ [Next]_vars =>
          [Undisturbed /\ drv.fan_stop /\ ~drv'.fan_stop => by_remote \/ FanStopSwitch]_vars
    BY SyncStep DEF SyncSafe
  <1>. QED
    BY <1>1, SyncSafeHolds, PTL DEF Spec, FanStopIsKept

(***************************************************************************)
(* Settled is settled.                                                     *)
(***************************************************************************)
\* An evaluation commands nothing and moves no latch when the latch is where the room has it
\* and the unit does what is wanted of it.
LEMMA EvaluationIsSilent ==
    ASSUME NEW d \in Driver,
           d.ltp_active = next_ltp_active(ReconcileInputs(d)),
           ~has_mismatch(resolve_physical_target(ReconcileInputs(d), d.ltp_active), d.current)
    PROVE  evaluate_fan_stop_and_ltp(d) = d
  <1>. DEFINE decision == decide_reconciliation(ReconcileInputs(d))
  <1>1. decision.ltp_active = d.ltp_active /\ ~decision.should_command
    BY DEF decide_reconciliation, ReconcileInputs
  <1>. HIDE DEF decision
  <1>2. [d EXCEPT !.ltp_active = decision.ltp_active] = d
    BY <1>1 DEF Driver
  <1>. QED
    BY <1>1, <1>2 DEF evaluate_fan_stop_and_ltp, decision

\* An answer that reports what is known and commanded changes nothing, even when another
\* field makes the driver publish it.
LEMMA AnswerIsSilent ==
    ASSUME NEW d \in Driver, NEW settings \in UnitStates, NEW other_changed \in BOOLEAN,
           d.first_real_state_received, d.current = settings,
           physical_mode(settings) = d.commanded.mode, ~TempChanged(d, settings)
    PROVE  heatpump_update(d, settings, other_changed) = d
  <1>. DEFINE read == [d EXCEPT !.current.power = settings.power, !.current.mode = settings.mode]
  <1>1. read = d /\ [d EXCEPT !.current.temp = settings.temp] = d
    BY DEF Driver, Known
  <1>2. check_power_and_mode_settings(d, settings) = d
    <2>1. check_power_and_mode_settings(d, settings) = CheckPowerAndMode(d, settings)
      BY <1>1 DEF check_power_and_mode_settings
    <2>. QED
      BY <2>1 DEF CheckPowerAndMode
  <1>3. BelieveSetpoint(d, settings) = d
    BY <1>1 DEF BelieveSetpoint
  <1>. QED
    BY <1>2, <1>3 DEF heatpump_update, publish_state_to_ha

\* Ages alone do not unsettle.
LEMMA SettledKept ==
    ASSUME TypeOK, TypeOK', Settled, UNCHANGED <<connected, unit, was>>,
           drv' = [drv EXCEPT !.command_age = drv'.command_age, !.send_age = drv'.send_age,
                              !.evaluation_age = drv'.evaluation_age,
                              !.last_room = drv'.last_room],
           drv.send_age >= LockoutWindow => drv'.send_age >= LockoutWindow
    PROVE  Settled' /\ drv'.desired = drv.desired /\ drv'.commanded = drv.commanded
  <1>1. /\ drv'.desired = drv.desired /\ drv'.commanded = drv.commanded
        /\ drv'.current = drv.current /\ drv'.wanted = drv.wanted
        /\ drv'.first_real_state_received = drv.first_real_state_received
        /\ drv'.ltp_active = drv.ltp_active /\ drv'.ltp_enabled = drv.ltp_enabled
        /\ drv'.room = drv.room /\ drv'.fan_stop = drv.fan_stop
    BY DEF TypeOK, Driver
  <1>2. /\ TempChanged(drv', unit') = TempChanged(drv, unit)
        /\ next_ltp_active(ReconcileInputs(drv')) = next_ltp_active(ReconcileInputs(drv))
    BY <1>1 DEF TempChanged, next_ltp_active, ReconcileInputs
  <1>3. UnitObeys' = UnitObeys
    BY <1>1 DEF UnitObeys, ReconcileInputs, resolve_physical_target, mode_is_governed,
                fan_stop_wants_running
  <1>. QED
    BY <1>1, <1>2, <1>3 DEF Settled

\* What is settled stays so, and the unit is left alone, until something happens to it or to
\* the driver (`events`): no evaluation, answer or passing window starts a command or makes
\* another state the user's, whatever the order they come in.
SettledIsStable ==
    [][Settled /\ events' = events =>
         Settled' /\ UNCHANGED <<unit, drv.desired, drv.commanded, drv.wanted>>]_vars

\* The second half of EventuallySettled, for every choice of the windows, the protections,
\* the rooms and the setpoints.
THEOREM SettledStaysSettled == Spec => SettledIsStable
  <1>1. ASSUME TypeOK, TypeOK', [Next]_vars, Settled, events' = events
        PROVE  Settled' /\ UNCHANGED <<unit, drv.desired, drv.commanded, drv.wanted>>
    <2>1. drv \in Driver /\ unit \in UnitStates
      BY <1>1 DEF TypeOK
    <2>2. ~Happen
      BY <1>1 DEF Happen, TypeOK
    <2>3. ~drv.wanted.has_changed /\ connected
      BY <1>1 DEF Settled, NothingWanted
    <2>4. ASSUME UNCHANGED <<drv, connected, unit, was>>
          PROVE  Settled' /\ UNCHANGED <<unit, drv.desired, drv.commanded, drv.wanted>>
      BY <1>1, <2>4 DEF Settled, UnitObeys
    <2>5. CASE StartCycle \/ EndCycle \/ CycleTimeout \/ UNCHANGED vars
      BY <2>4, <2>5 DEF StartCycle, EndCycle, CycleTimeout, vars
    <2>6. CASE Readback
      <3>1. PICK settings \in Reported, other_changed \in BOOLEAN :
              drv' = heatpump_update(drv, settings, other_changed)
        BY <2>6 DEF Readback
      <3>2. settings = unit
        BY <1>1, <2>1, <3>1, WriteMemoryType, SettingsSyncAssumption
           DEF Reported, Settled, Driver
      <3>3. drv' = drv
        BY <1>1, <2>1, <3>1, <3>2, AnswerIsSilent DEF Settled
      <3>. QED
        BY <2>4, <2>6, <3>3 DEF Readback
    <2>7. CASE Evaluate
      <3>. DEFINE d == [drv EXCEPT !.evaluation_age = 0, !.last_room = drv.room]
      <3>1. d \in Driver
        <4>1. 0 \in 0 .. EvaluationPeriod
          BY SettingsSyncAssumption
        <4>. QED
          BY <2>1, <4>1 DEF Driver
      <3>2. ReconcileInputs(d) = ReconcileInputs(drv) /\ d.ltp_active = drv.ltp_active
              /\ d.current = drv.current
        BY <2>1 DEF ReconcileInputs, Driver
      <3>3. [ReconcileInputs(drv) EXCEPT !.current = unit] = ReconcileInputs(drv)
        BY <1>1 DEF Settled, ReconcileInputs
      <3>. HIDE DEF d
      <3>4. evaluate_fan_stop_and_ltp(d) = d
        BY <1>1, <3>1, <3>2, <3>3, EvaluationIsSilent DEF Settled, UnitObeys
      <3>5. drv' = d /\ UNCHANGED <<connected, unit, was>>
        BY <2>7, <3>4 DEF Evaluate, d
      <3>6. /\ drv' = [drv EXCEPT !.command_age = drv'.command_age, !.send_age = drv'.send_age,
                                  !.evaluation_age = drv'.evaluation_age,
                                  !.last_room = drv'.last_room]
            /\ drv'.send_age = drv.send_age /\ drv'.wanted = drv.wanted
        BY <2>1, <3>5 DEF d, Driver
      <3>. QED
        BY <1>1, <3>5, <3>6, SettledKept
    <2>8. CASE Tick
      <3>1. /\ drv' = [drv EXCEPT !.command_age = drv'.command_age, !.send_age = drv'.send_age,
                                  !.evaluation_age = drv'.evaluation_age,
                                  !.last_room = drv'.last_room]
            /\ drv'.send_age = Older(drv.send_age, WriteMemory) /\ drv'.wanted = drv.wanted
            /\ UNCHANGED <<connected, unit, was>>
        BY <2>1, <2>8 DEF Tick, Driver
      <3>2. drv.send_age >= LockoutWindow => drv'.send_age >= LockoutWindow
        BY <2>1, <3>1, WriteMemoryType, SettingsSyncAssumption DEF Older, Driver
      <3>. QED
        BY <1>1, <3>1, <3>2, SettledKept
    <2>9. CASE SendWantedSettings \/ DropEmptySettings \/ Connect
      BY <2>3, <2>9 DEF SendWantedSettings, DropEmptySettings, Connect
    <2>. QED
      BY <1>1, <2>2, <2>5, <2>6, <2>7, <2>8, <2>9
         DEF Next, ControlMode, ControlTemperature, ControlOther, ControlFanOff, FanStopSwitch,
             LowTempProtectionSwitch, Disconnect, ReadRoom, PressRemote, LoseAnswer
  <1>2. TypeOK /\ TypeOK' /\ [Next]_vars =>
          [Settled /\ events' = events =>
             Settled' /\ UNCHANGED <<unit, drv.desired, drv.commanded, drv.wanted>>]_vars
    BY <1>1
  <1>. QED
    BY <1>2, SyncTypeCorrect, PTL DEF Spec, SettledIsStable
=============================================================================
