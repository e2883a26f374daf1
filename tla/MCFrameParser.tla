--------------------------- MODULE MCFrameParser ---------------------------
(***************************************************************************)
(* FrameParser with an empty frame (an acknowledgement of a connection)    *)
(* and one with a start byte in its payload, and room for one byte more.   *)
(* A length of 200 does not fit.                                           *)
(***************************************************************************)
EXTENDS FrameParser

TwoFrames == {<<252, 122, 1, 48, 0>>, <<252, 98, 1, 48, 2, 2, 252>>}
StartAndLengths == {252, 0, 200}
=============================================================================
