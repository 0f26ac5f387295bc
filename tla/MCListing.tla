----------------------------- MODULE MCListing -----------------------------
(***************************************************************************)
(* Listing over the whole opcode space.                                    *)
(***************************************************************************)
EXTENDS Listing

AllWords == 0..65535
=============================================================================
