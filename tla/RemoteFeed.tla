----------------------------- MODULE RemoteFeed -----------------------------
(***************************************************************************)
(* What the driver promises about the remote temperature, and nothing of   *)
(* how: the unit regulates on what is wanted at the moment it is told, or  *)
(* on its own sensor, and what Home Assistant does not renew is given up.  *)
(***************************************************************************)
EXTENDS Naturals

CONSTANTS
    Internal,   \* no remote temperature: the unit's own sensor
    Told        \* what the unit can be told; Internal is one of them

VARIABLES
    wanted,     \* what the unit should regulate on
    unit,       \* what it regulates on
    age,        \* how long ago Home Assistant last renewed a wanted temperature
    lease       \* how long one is kept without being renewed, 0 for ever

feedVars == <<wanted, unit, age, lease>>

Init ==
    /\ wanted = Internal
    /\ unit = Internal
    /\ age = 0
    /\ lease \in Nat

Renew ==
    /\ wanted' \in Told \ {Internal}
    /\ age' = 0
    /\ UNCHANGED <<unit, lease>>

GiveUp ==
    /\ wanted' = Internal
    /\ age' = 0
    /\ UNCHANGED <<unit, lease>>

Tell ==
    /\ unit' = wanted
    /\ UNCHANGED <<wanted, age, lease>>

FallBack ==
    /\ unit' = Internal
    /\ UNCHANGED <<wanted, age, lease>>

Pass ==
    /\ wanted # Internal
    /\ lease # 0
    /\ age < lease
    /\ age' = age + 1
    /\ UNCHANGED <<wanted, unit, lease>>

Next == Renew \/ GiveUp \/ Tell \/ FallBack \/ Pass

Spec == Init /\ [][Next]_feedVars
=============================================================================
