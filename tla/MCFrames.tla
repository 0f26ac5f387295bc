------------------------------ MODULE MCFrames ------------------------------
(***************************************************************************)
(* Room for three frames, or two and data.                                 *)
(***************************************************************************)
EXTENDS Frames
=============================================================================
