------------------------ MODULE Reconciliation_proofs ------------------------
(***************************************************************************)
(* What the decision of reconciliation_policy.h promises, for every input  *)
(* and every configuration of the two protections.                         *)
(***************************************************************************)
EXTENDS Reconciliation, TLAPS

Temperatures == Nat \union {NoTemp}

Inputs ==
    [desired : [mode : HPMode \union {"OFF"}, temp : Temperatures],
     current : [power : {"ON", "OFF", "UNKNOWN"}, mode : HPMode \union {"UNKNOWN"},
                temp : Temperatures],
     room : Int,
     ltp_enabled : BOOLEAN,
     ltp_active : BOOLEAN,
     fan_stop : BOOLEAN,
     has_issued : BOOLEAN,
     last_issued : [power_on : BOOLEAN, mode : HPMode \union {NoMode}, temp : Temperatures],
     issued_age : Nat]

AllTargets == [power_on : BOOLEAN, mode : HPMode \union {NoMode}, temp : Temperatures]

\* The setpoint that is written is one the unit accepts.
LEMMA NormalizedIsAccepted ==
    ASSUME NEW temp \in Int
    PROVE  normalize_setpoint(temp) \in SETPOINT_MIN .. SETPOINT_MAX
  BY SMT DEF normalize_setpoint, SETPOINT_MIN, SETPOINT_MAX

LEMMA FloorIsNat == floor_temp \in Nat /\ LowTemp <= floor_temp
  BY ReconciliationAssumption DEF floor_temp

\* The latch of low temperature protection is stable: evaluated again in the same room, it
\* stays as it is.
LEMMA LatchIsStable ==
    ASSUME NEW in \in Inputs, NEW after \in Inputs,
           after.ltp_enabled = in.ltp_enabled, after.room = in.room,
           after.ltp_active = next_ltp_active(in)
    PROVE  next_ltp_active(after) = after.ltp_active
  BY FloorIsNat, ReconciliationAssumption DEF next_ltp_active, Inputs

LEMMA TargetType ==
    ASSUME NEW in \in Inputs, NEW ltp_active \in BOOLEAN
    PROVE  /\ resolve_physical_target(in, ltp_active) \in AllTargets
           /\ LET target == resolve_physical_target(in, ltp_active)
              IN  target.power_on => target.mode \in HPMode
  BY FloorIsNat DEF resolve_physical_target, AllTargets, Inputs, Temperatures, HPMode

\* The deadband of fan stop is stable: a unit that obeyed is not told otherwise.
LEMMA TargetIsStable ==
    ASSUME NEW in \in Inputs, NEW ltp_active \in BOOLEAN, NEW after \in Inputs,
           after.desired = in.desired, after.room = in.room, after.fan_stop = in.fan_stop,
           after.current.power =
             IF resolve_physical_target(in, ltp_active).power_on THEN "ON" ELSE "OFF"
    PROVE  resolve_physical_target(after, ltp_active) = resolve_physical_target(in, ltp_active)
  <1>1. CASE ltp_active
    BY <1>1 DEF resolve_physical_target
  <1>2. CASE ~ltp_active /\ in.desired.mode = "OFF"
    BY <1>2 DEF resolve_physical_target
  <1>3. CASE ~ltp_active /\ in.desired.mode # "OFF"
    <2>1. mode_is_governed(after) <=> mode_is_governed(in)
      BY DEF mode_is_governed
    <2>2. mode_is_governed(in) =>
            (fan_stop_wants_running(after) <=> fan_stop_wants_running(in))
      BY <1>3, <2>1, ReconciliationAssumption
      DEF mode_is_governed, fan_stop_wants_running, resolve_physical_target, Inputs, Temperatures
    <2>. QED
      BY <1>3, <2>1, <2>2 DEF resolve_physical_target
  <1>. QED
    BY <1>1, <1>2, <1>3

\* A unit that obeys a target matches it, also where the unit cannot set the setpoint asked for.
LEMMA ObeyedIsAMatch ==
    ASSUME NEW current, NEW target \in AllTargets
    PROVE  ~has_mismatch(target, obeyed(current, target))
  <1>1. CASE target.power_on
    <2>1. normalize_setpoint(target.temp) \in SETPOINT_MIN .. SETPOINT_MAX
      BY NormalizedIsAccepted DEF AllTargets, Temperatures, NoTemp
    <2>. QED
      BY <1>1, <2>1
      DEF has_mismatch, mode_mismatch, temp_mismatch, obeyed, SameSetpoint, SETPOINT_MIN,
          SETPOINT_MAX, NoTemp
  <1>2. CASE ~target.power_on
    BY <1>2 DEF has_mismatch, mode_mismatch, temp_mismatch, obeyed
  <1>. QED
    BY <1>1, <1>2 DEF AllTargets

(***************************************************************************)
(* decide_reconciliation converges: a unit that obeys its command is not   *)
(* commanded again for the same wish, room and switches.                   *)
(***************************************************************************)
THEOREM CommandSettles == \A in \in Inputs : SettlesWhenObeyed(in)
  <1>. SUFFICES ASSUME NEW in \in Inputs
                PROVE  SettlesWhenObeyed(in)
    OBVIOUS
  <1>. DEFINE first  == decide_reconciliation(in)
              target == first.target
              after  == [in EXCEPT !.ltp_active = first.ltp_active,
                                   !.current = obeyed(in.current, target)]
              again  == decide_reconciliation(after)
  <1>1. /\ first.ltp_active = next_ltp_active(in)
        /\ first.ltp_active \in BOOLEAN
        /\ target = resolve_physical_target(in, first.ltp_active)
    BY DEF decide_reconciliation, next_ltp_active, Inputs
  <1>2. target \in AllTargets /\ (target.power_on => target.mode \in HPMode)
    BY <1>1, TargetType
  <1>3. /\ after \in Inputs
        /\ after.current = obeyed(in.current, target)
        /\ after.ltp_active = first.ltp_active
        /\ after.desired = in.desired /\ after.room = in.room
        /\ after.fan_stop = in.fan_stop /\ after.ltp_enabled = in.ltp_enabled
    <2>1. normalize_setpoint(target.temp) \in Nat
      BY <1>2, NormalizedIsAccepted
      DEF AllTargets, Temperatures, NoTemp, SETPOINT_MIN, SETPOINT_MAX
    <2>2. obeyed(in.current, target) \in
            [power : {"ON", "OFF", "UNKNOWN"}, mode : HPMode \union {"UNKNOWN"},
             temp : Temperatures]
      BY <1>2, <2>1 DEF obeyed, Inputs, AllTargets, Temperatures
    <2>. QED
      BY <1>1, <2>2 DEF Inputs
  <1>4. after.current.power = IF target.power_on THEN "ON" ELSE "OFF"
    BY <1>3 DEF obeyed, Inputs
  <1>5. again.target = target
    <2>1. next_ltp_active(after) = first.ltp_active
      BY <1>1, <1>3, LatchIsStable
    <2>2. again.target = resolve_physical_target(after, first.ltp_active)
      BY <2>1 DEF decide_reconciliation
    <2>3. after.current.power =
            IF resolve_physical_target(in, first.ltp_active).power_on THEN "ON" ELSE "OFF"
      BY <1>1, <1>4
    <2>. HIDE DEF first, after
    <2>4. resolve_physical_target(after, first.ltp_active) =
            resolve_physical_target(in, first.ltp_active)
      BY <1>1, <1>3, <2>3, TargetIsStable
    <2>. QED
      BY <1>1, <2>2, <2>4
  <1>6. ~has_mismatch(again.target, after.current)
    BY <1>2, <1>3, <1>5, ObeyedIsAMatch
  <1>. QED
    BY <1>6 DEF SettlesWhenObeyed
=============================================================================
