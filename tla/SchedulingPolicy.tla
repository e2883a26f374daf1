-------------------------- MODULE SchedulingPolicy --------------------------
(***************************************************************************)
(* The pure decisions of scheduling_policy.h: which single action loop()   *)
(* takes in an iteration, from the timestamps the driver keeps.  Every     *)
(* window is derived from the poll interval, as in the code; the margins   *)
(* are parameters so that TLC can use a coarser grid than milliseconds     *)
(* and the proofs can cover every value.                                   *)
(***************************************************************************)
EXTENDS MillisClock

CONSTANTS
    UpdateInterval,     \* update_interval_ : the poll interval
    StarvationMargin,   \* CYCLE_STARVATION_MARGIN_MS
    StallMargin,        \* REMOTE_TEMP_STALL_MARGIN_MS
    WriteGap            \* the 300 ms write throttle

ASSUME PolicyAssumption ==
    /\ UpdateInterval \in Nat \ {0}
    /\ StarvationMargin \in Nat
    /\ StallMargin \in Nat
    /\ WriteGap \in Nat

cycle_starvation_threshold == 3 * UpdateInterval + StarvationMargin

remote_temp_stall_threshold == cycle_starvation_threshold + StallMargin

\* Mutant: the guard written like has_update_interval_passed, blind across the wrap.
MutIsCycleStarvedNoWrap(now, last_cycle_end) ==
    /\ now >= last_cycle_end
    /\ Minus(now, last_cycle_end) > cycle_starvation_threshold

is_cycle_starved(now, last_cycle_end) ==
    Minus(now, last_cycle_end) > cycle_starvation_threshold

should_force_remote_temp_send(pending, now, pending_since, last_send) ==
    /\ pending
    /\ Minus(now, pending_since) >= remote_temp_stall_threshold
    /\ Minus(now, last_send) > WriteGap

\* The comparison that guards the subtraction does not wrap, unlike the others.
has_update_interval_passed(now, last_complete_cycle) ==
    /\ now >= last_complete_cycle
    /\ Minus(now, last_complete_cycle) > UpdateInterval

LoopActions == {"IDLE", "CHECK_CYCLE_TIMEOUT", "SEND_REMOTE_TEMP", "SEND_SETTINGS",
                "SEND_RUN_STATES", "SET_FUNCTIONS", "START_CYCLE"}

\* Mutant: the order before the starvation guard, writes always ahead of cycles.
MutDecideWritesFirst(in) ==
    IF in.cycle_running
      THEN "CHECK_CYCLE_TIMEOUT"
    ELSE IF should_force_remote_temp_send(in.remote_pending, in.now, in.remote_since, in.last_send)
      THEN "SEND_REMOTE_TEMP"
    ELSE IF in.settings_changed THEN "SEND_SETTINGS"
    ELSE IF in.run_states_changed THEN "SEND_RUN_STATES"
    ELSE IF in.set_functions THEN "SET_FUNCTIONS"
    ELSE IF has_update_interval_passed(in.now, in.last_complete_cycle) THEN "START_CYCLE"
    ELSE "IDLE"

\* Mutant: the safety net of the remote temperature outranks the running cycle.
MutDecideForcesInCycle(in) ==
    IF should_force_remote_temp_send(in.remote_pending, in.now, in.remote_since, in.last_send)
      THEN "SEND_REMOTE_TEMP"
    ELSE IF in.cycle_running THEN "CHECK_CYCLE_TIMEOUT"
    ELSE IF in.settings_changed THEN "SEND_SETTINGS"
    ELSE IF has_update_interval_passed(in.now, in.last_complete_cycle) THEN "START_CYCLE"
    ELSE "IDLE"

\* Mutant: starvation restarts the cycle that is already running.
MutDecideRestartsCycle(in) ==
    IF is_cycle_starved(in.now, in.last_cycle_end) THEN "START_CYCLE"
    ELSE IF in.cycle_running THEN "CHECK_CYCLE_TIMEOUT"
    ELSE IF should_force_remote_temp_send(in.remote_pending, in.now, in.remote_since, in.last_send)
      THEN "SEND_REMOTE_TEMP"
    ELSE IF in.settings_changed THEN "SEND_SETTINGS"
    ELSE IF has_update_interval_passed(in.now, in.last_complete_cycle) THEN "START_CYCLE"
    ELSE "IDLE"

(***************************************************************************)
(* decide_loop_action on the inputs loop() gathers.  A write is "allowed"  *)
(* only while cycles are not starved.                                      *)
(***************************************************************************)
decide_loop_action(in) ==
    LET starved == is_cycle_starved(in.now, in.last_cycle_end) IN
    IF in.cycle_running
      THEN "CHECK_CYCLE_TIMEOUT"
    ELSE IF should_force_remote_temp_send(in.remote_pending, in.now, in.remote_since, in.last_send)
      THEN "SEND_REMOTE_TEMP"
    ELSE IF ~starved /\ in.settings_changed
      THEN "SEND_SETTINGS"
    ELSE IF ~starved /\ in.run_states_changed
      THEN "SEND_RUN_STATES"
    ELSE IF ~starved /\ in.set_functions
      THEN "SET_FUNCTIONS"
    ELSE IF starved \/ has_update_interval_passed(in.now, in.last_complete_cycle)
      THEN "START_CYCLE"
    ELSE "IDLE"
=============================================================================
