------------------------- MODULE MCRemoteTemperature -------------------------
(***************************************************************************)
(* RemoteTemperature on a grid of five seconds: the rate limit of 10 s is  *)
(* 2, the keep-alive of 20 s is 4.  Two of the samples share a byte, the   *)
(* third is above what the unit accepts.                                   *)
(***************************************************************************)
EXTENDS RemoteTemperature

SameByteAndClamped == {208, 212, 390}

NeverOrSix == {0, 6}
=============================================================================
