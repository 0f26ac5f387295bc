----------------------------- MODULE Suspension -----------------------------
(***************************************************************************)
(* What exceptions and RTE promise a program: suspended computations form  *)
(* a stack, and RTE resumes the last one exactly where it was suspended,   *)
(* with its status and its stack pointer.                                  *)
(***************************************************************************)
EXTENDS Integers, Sequences

CONSTANT Pcs      \* places in a program
VARIABLES
    running,      \* [pc, s, t, m, a7]: place, supervisor, trace, mask, stack pointer
    suspended     \* the computations that wait, innermost first

suspensionVars == <<running, suspended>>

SuspensionInit == suspended = <<>>

\* The running computation goes on.  Only an exception makes it privileged.
Run ==
    /\ running'.s => running.s
    /\ running'.pc \in Pcs
    /\ ~running.s => running'.t = running.t /\ running'.m = running.m
    /\ UNCHANGED suspended

\* An exception: the suspended computation will go on here or at the next place.
Suspend ==
    /\ running'.s /\ ~running'.t
    /\ \E pc \in {running.pc, (running.pc + 1) % (1 + CHOOSE p \in Pcs : \A q \in Pcs : q <= p)} :
          suspended' = <<[running EXCEPT !.pc = pc]>> \o suspended

Resume ==
    /\ running.s /\ suspended # <<>>
    /\ running' = Head(suspended) /\ suspended' = Tail(suspended)

SuspensionNext == Run \/ Suspend \/ Resume
SuspensionSpec == SuspensionInit /\ [][SuspensionNext]_suspensionVars
=============================================================================
