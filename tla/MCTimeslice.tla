----------------------------- MODULE MCTimeslice -----------------------------
(***************************************************************************)
(* Small instances of Timeslice for TLC: ints of a few hundred values, so  *)
(* that target_cycles wraps within a few slices.                           *)
(***************************************************************************)
EXTENDS Timeslice

ShrinkAndGrow == {-20, 40}
\* A wait_bus callback may answer with a negative number, which is ignored.
SomeWaits == {-1, 0, 2}
AllKinds == DOMAIN Plans \ {"claimed"}

=============================================================================
