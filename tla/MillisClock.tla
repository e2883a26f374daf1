---------------------------- MODULE MillisClock ----------------------------
(***************************************************************************)
(* The clock of the driver: CUSTOM_MILLIS, i.e. ESPHome's millis(), an     *)
(* unsigned counter that wraps.  Every timestamp the driver keeps is a     *)
(* value of this clock and every age it computes is an unsigned            *)
(* subtraction, so both are modular here.  The modulus is a parameter:     *)
(* 2^32 on the device, a handful of grid points under TLC, anything in     *)
(* the proofs.                                                             *)
(*                                                                         *)
(* Plus and Minus are written with one conditional instead of `%` because  *)
(* their arguments are always in range; the two forms agree there.         *)
(***************************************************************************)
EXTENDS Naturals

CONSTANT ClockMod     \* number of values of the clock (2^32 milliseconds on the device)

ASSUME ClockModAssumption == ClockMod \in Nat \ {0}

Millis == 0 .. (ClockMod - 1)

\* a - b on the unsigned clock: the age of b at time a, for a, b \in Millis.
Minus(a, b) == IF b <= a THEN a - b ELSE (a + ClockMod) - b

\* a + d on the unsigned clock, for a \in Millis and d < ClockMod.
Plus(a, d) == IF a + d < ClockMod THEN a + d ELSE (a + d) - ClockMod
=============================================================================
