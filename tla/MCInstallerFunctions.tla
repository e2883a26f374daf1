------------------------ MODULE MCInstallerFunctions ------------------------
(***************************************************************************)
(* InstallerFunctions with one function code in each part and two values   *)
(* that a select offers.  The units: one that reports a value and a 0, one *)
(* that has a code in part 1 only, one without functions, and one whose    *)
(* data are short.                                                         *)
(***************************************************************************)
EXTENDS InstallerFunctions, TLC

FirstCodes == {101}
SecondCodes == {115}
OneOrTwo == {1, 2}
Unit(first, second, isShort) == [has |-> (101 :> first @@ 115 :> second), short |-> isShort]
FourUnits ==
    {Unit(1, 0, FALSE), Unit(1, NoByte, FALSE), Unit(NoByte, NoByte, FALSE), Unit(1, 1, TRUE)}
WithAndWithoutSelects == {{}, {101, 115}}
=============================================================================
