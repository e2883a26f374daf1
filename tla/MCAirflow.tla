----------------------------- MODULE MCAirflow -----------------------------
(***************************************************************************)
(* Airflow with a few codes of each field: the byte 4 is no fan speed.     *)
(***************************************************************************)
EXTENDS Airflow

FanHigh == {"HIGH"}
AllSwingModes == {"OFF", "VERTICAL", "HORIZONTAL", "BOTH"}
OneVane == {"V1"}
AirflowControlOnly == {"AIRFLOW_CONTROL"}
CenterSwingAndAirflow == {"CENTER", "SWING", "AIRFLOW_CONTROL"}
Direct == {"DIRECT"}
AutoAndStrange == {0, 4}
AutoAndSwing == {0, 7}
SwingOnly == {12}

Everything == Features \ {"losses"}
Installed == 
    {Everything, (Everything \ {"vertical_select"}) \union {"losses"}, {"vertical_select"}}
=============================================================================
