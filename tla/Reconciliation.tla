--------------------------- MODULE Reconciliation ---------------------------
(***************************************************************************)
(* reconciliation_policy.h: from what the user asked for, what the unit    *)
(* last reported and the two protections, the physical target the unit     *)
(* should be driven to, and whether to command it now.  Temperatures are   *)
(* tenths of a degree; NoTemp is NAN, or an optional without value.        *)
(*                                                                         *)
(* The inputs `in` are a record with the names of ReconcileInputs: desired *)
(* (mode and temp; "OFF" is desired_power_on = false), current (power,     *)
(* mode, temp), room, ltp_enabled, ltp_active, fan_stop, has_issued,       *)
(* last_issued and issued_age, the time since last_issued_ms.              *)
(***************************************************************************)
EXTENDS Integers

CONSTANTS
    LowTemp,              \* low_temp_temp
    LowTempHysteresis,    \* low_temp_hysteresis
    Hysteresis,           \* hysteresis of fan stop
    SettleWindow          \* command_settle_window_ms

ASSUME ReconciliationAssumption ==
    /\ LowTemp \in Nat
    /\ LowTempHysteresis \in Nat
    /\ Hysteresis \in Nat \ {0}
    /\ SettleWindow \in Nat

NoTemp == -10000

HPMode == {"HEAT", "COOL", "DRY", "FAN"}

\* `mode` is NoMode when the target leaves the mode of the unit alone.
NoMode == "NO_MODE"

SETPOINT_MIN == 160
SETPOINT_MAX == 310

\* Rounded to the nearest half degree and clamped to what the unit accepts.
normalize_setpoint(temp) ==
    LET rounded == ((temp + 2) \div 5) * 5
    IN  IF rounded < SETPOINT_MIN THEN SETPOINT_MIN
        ELSE IF rounded > SETPOINT_MAX THEN SETPOINT_MAX
        ELSE rounded

\* |a - b| < SETPOINT_EPSILON_C, a quarter of a degree.
SameSetpoint(a, b) == 2 * (a - b) < 5 /\ 2 * (b - a) < 5

same_as(target, other) ==
    /\ target.power_on = other.power_on
    /\ target.power_on =>
         /\ target.mode = other.mode
         /\ target.temp # NoTemp /\ other.temp # NoTemp
         /\ SameSetpoint(target.temp, other.temp)

floor_temp == LowTemp + LowTempHysteresis

\* The latch of the low temperature protection.
next_ltp_active(in) ==
    /\ in.ltp_enabled
    /\ IF in.room = NoTemp THEN in.ltp_active
       ELSE IF in.ltp_active THEN ~(in.room > floor_temp)
       ELSE in.room < LowTemp

\* Mutant: the deadband turned around.
MutFanStopTogglesInDeadband(in) ==
    LET over  == in.room - in.desired.temp
        wants == IF in.desired.mode = "HEAT" THEN -over ELSE over
    IN  /\ wants > -Hysteresis
        /\ wants >= Hysteresis \/ in.current.power = "OFF"

\* Inside the deadband the unit keeps doing what it does.
fan_stop_wants_running(in) ==
    LET over  == in.room - in.desired.temp
        wants == IF in.desired.mode = "HEAT" THEN -over ELSE over
    IN  /\ wants > -Hysteresis
        /\ wants >= Hysteresis \/ in.current.power # "OFF"

mode_is_governed(in) ==
    /\ in.fan_stop
    /\ in.desired.mode \in {"HEAT", "COOL"}
    /\ in.room # NoTemp
    /\ in.desired.temp # NoTemp

resolve_physical_target(in, ltp_active) ==
    IF ltp_active
      THEN [power_on |-> TRUE, mode |-> "HEAT",
            temp |-> IF in.desired.temp > floor_temp THEN in.desired.temp ELSE floor_temp]
    ELSE IF in.desired.mode = "OFF" \/ (mode_is_governed(in) /\ ~fan_stop_wants_running(in))
      THEN [power_on |-> FALSE, mode |-> NoMode, temp |-> in.desired.temp]
    ELSE [power_on |-> TRUE, mode |-> in.desired.mode, temp |-> in.desired.temp]

mode_mismatch(target, current) ==
    IF target.power_on
      THEN current.power # "ON" \/ (target.mode # NoMode /\ current.mode # target.mode)
      ELSE current.power # "OFF"

temp_mismatch(target, current) ==
    /\ target.power_on
    /\ \/ current.temp = NoTemp
       \/ ~SameSetpoint(current.temp, normalize_setpoint(target.temp))

has_mismatch(target, current) == mode_mismatch(target, current) \/ temp_mismatch(target, current)

\* Mutant: a command that was issued once is never repeated.
MutSuppressForEver(in, target) == in.has_issued /\ same_as(target, in.last_issued)

should_suppress_repeat_command(in, target) ==
    /\ in.has_issued
    /\ same_as(target, in.last_issued)
    /\ in.issued_age < SettleWindow

decide_reconciliation(in) ==
    LET ltp    == next_ltp_active(in)
        target == resolve_physical_target(in, ltp)
    IN  [ltp_active |-> ltp,
         target |-> target,
         should_command |-> /\ has_mismatch(target, in.current)
                            /\ ~should_suppress_repeat_command(in, target)]

-----------------------------------------------------------------------------
(***************************************************************************)
(* Properties of the decision itself.                                      *)
(***************************************************************************)

\* What the unit reports once it has obeyed `target`.
obeyed(current, target) ==
    IF target.power_on
      THEN [power |-> "ON",
            mode  |-> IF target.mode = NoMode THEN current.mode ELSE target.mode,
            temp  |-> normalize_setpoint(target.temp)]
      ELSE [current EXCEPT !.power = "OFF"]

(***************************************************************************)
(* A command that is obeyed settles the matter: evaluated again with what  *)
(* the unit then reports, and nothing else changed, the policy sees no     *)
(* mismatch, although the latch of the protection has moved on and the     *)
(* power of the unit, which the deadband depends on, is a different one.   *)
(***************************************************************************)
SettlesWhenObeyed(in) ==
    LET first == decide_reconciliation(in)
        after == [in EXCEPT !.ltp_active = first.ltp_active,
                            !.current = obeyed(in.current, first.target)]
        again == decide_reconciliation(after)
    IN  first.should_command => ~has_mismatch(again.target, after.current)
=============================================================================
