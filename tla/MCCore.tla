------------------------------- MODULE MCCore -------------------------------
(***************************************************************************)
(* Small instances of Core for TLC.  A few bytes of memory in a slightly   *)
(* larger address space give every access a mapped, an unmapped, an odd    *)
(* and a wrapping address.  The host bus is absent, answers everything, or *)
(* answers reads only.                                                     *)
(***************************************************************************)
EXTENDS Core

NoHostBus == {}
FullHostBus == BOOLEAN \X {1, 2, 4}
ReadHostBus == {FALSE} \X {1, 2, 4}

=============================================================================
