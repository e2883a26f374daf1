--------------------------- MODULE MCSettingsSync ---------------------------
(***************************************************************************)
(* SettingsSync on a grid of 2.5 s with a poll interval of one grid point, *)
(* so that the 5 s windows are 2, the settle window and the timeout of a   *)
(* cycle (6 s) 3, and the grace window (3.25 s) 2; temperatures are tenths *)
(* of a degree.  The rooms: one below the low temperature, one inside the  *)
(* deadband of fan stop, and one that needs no heating.                    *)
(***************************************************************************)
EXTENDS SettingsSync

OffOrHeat == {"OFF", "HEAT"}
OffOrCool == {"OFF", "COOL"}
AskedInHA == {203}
AskedOnRemote == {240}
FrostToHot == {70, 205, 260}

Installations ==
    {{"fan_stop", "ltp", "lost_set"},
     {"fan_stop", "ltp", "other_fields"},
     {"fan_stop", "ltp", "reconnections"},
     {"fan_stop", "fan_off"},
     {"fan_stop", "lost_answer"},
     {"other_fields", "reconnections"}}

\* For the run that shows one flaw.
ReconnectingWithProtection == {{"ltp", "reconnections"}}
=============================================================================
