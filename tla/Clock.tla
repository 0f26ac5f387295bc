-------------------------------- MODULE Clock --------------------------------
(***************************************************************************)
(* What m68k_execute promises its host: a clock that only emulated work    *)
(* moves, and a budget that bounds the work.  Granting, extending and      *)
(* cancelling the budget never moves the clock; a call returns once the    *)
(* budget is used up, with the time that passed during it.                 *)
(***************************************************************************)
EXTENDS Integers

CONSTANTS
    IntMod,     \* ints hold IntMod values
    Amounts,    \* amounts by which the host changes the budget
    Costs       \* what a piece of work may cost

VARIABLES clock, budget, running, begun, result

clockVars == <<clock, budget, running, begun, result>>

\* Two's complement.
Wrap(n) == ((n + IntMod \div 2) % IntMod) - IntMod \div 2

ClockInit ==
    /\ clock \in -(IntMod \div 2) .. IntMod \div 2 - 1 /\ budget = 0
    /\ running = FALSE /\ begun = 0 /\ result = 0

Call ==
    /\ ~running /\ running' = TRUE /\ begun' = clock
    /\ \E n \in Amounts : budget' = Wrap(budget + n)
    /\ result' = 0 /\ UNCHANGED clock

Work ==
    /\ \E n \in Costs :
          clock' = Wrap(clock + n) /\ budget' = Wrap(budget - n)
    /\ UNCHANGED <<running, begun, result>>

Extend ==
    /\ \E n \in Amounts : budget' = Wrap(budget + n)
    /\ UNCHANGED <<clock, running, begun, result>>

Cancel == budget' = 0 /\ UNCHANGED <<clock, running, begun, result>>

Return ==
    /\ running /\ budget <= 0
    /\ running' = FALSE /\ result' = Wrap(clock - begun) /\ begun' = 0
    /\ UNCHANGED <<clock, budget>>

ClockNext == Call \/ Work \/ Extend \/ Cancel \/ Return

ClockSpec == ClockInit /\ [][ClockNext]_clockVars
=============================================================================
