---------------------------- MODULE MCDriverLoop ----------------------------
(***************************************************************************)
(* DriverLoop on a grid of one second with an update interval of one       *)
(* second: the code's windows in seconds, 300 ms being less than a grid    *)
(* point and the 500 ms of fn_set_part2 rounded up to one.                 *)
(***************************************************************************)
EXTENDS DriverLoop

NoClients == {}
RemoteOnly == {"remote"}
SettingsAndRemote == {"settings", "remote"}
SettingsRunStatesAndFunctions == {"settings", "run_states", "functions"}

AtBoot == {0}
BeforeTheWrap == {ClockMod - 4}
=============================================================================
