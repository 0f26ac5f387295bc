------------------------------ MODULE Timeslice ------------------------------
(***************************************************************************)
(* The timeslice of rocket68: cycles_remaining and target_cycles, as       *)
(* m68k_execute, m68k_modify_timeslice and m68k_end_timeslice change them  *)
(* and as a step spends them stage by stage (Cycles).  The host is called  *)
(* back at every bus cycle and may change the slice it is running in.      *)
(* Both counters are ints: sums wrap at IntMod.                            *)
(***************************************************************************)
EXTENDS Cycles, SequencesExt

CONSTANTS
    IntMod,       \* ints hold IntMod values (2^32)
    Requests,     \* cycles m68k_execute is called with
    Adjustments,  \* cycles m68k_modify_timeslice is called with
    Waits,        \* what the wait_bus callback returns
    Kinds,        \* instructions of the program under emulation
    Targets,      \* target_cycles that earlier slices have left
    MaxCalls,     \* bound: what the host does in callbacks during one m68k_execute
    MaxDebt,      \* bound: overdraft at which the host takes no further step or slice
    MaxSlices     \* bound: calls of m68k_execute

ASSUME TimesliceAssumption ==
    /\ IntMod \in Nat /\ IntMod % 2 = 0 /\ IntMod > 0
    /\ Requests \subseteq Nat /\ Adjustments \subseteq Int /\ Waits \subseteq Int
    /\ Kinds \subseteq DOMAIN Plans
    /\ Targets \subseteq -(IntMod \div 2) .. IntMod \div 2 - 1
    /\ MaxCalls \in Nat /\ MaxDebt \in Nat /\ MaxSlices \in Nat

VARIABLES
    target_cycles, cycles_remaining,
    start_cycles_run,   \* m68k_execute's local
    result,             \* what m68k_execute returned, until the next call
    ctl,                \* "host", in m68k_execute's "loop", or in a "step"
    back,               \* where the step returns to
    plan,               \* the rest of the step
    slices, calls,      \* calls of m68k_execute, and of the host's callbacks, still to come
    ended,              \* history: the host has ended the slice
    spent,              \* history: cycles charged during this call
    before              \* history: spent before this step, or on its wait states

counters == <<target_cycles, cycles_remaining>>
frame    == <<start_cycles_run, result>>
vars     == <<counters, frame, ctl, back, plan, slices, calls, ended, spent, before>>

\* Faulty variant: counters of unlimited width.
WrapNever(n) == n

\* Two's complement.
Wrap(n) == ((n + IntMod \div 2) % IntMod) - IntMod \div 2

m68k_cycles_run == Wrap(target_cycles - cycles_remaining)

Spend(n) ==
    /\ cycles_remaining' = Wrap(cycles_remaining - n)
    /\ spent' = spent + n
    /\ UNCHANGED target_cycles

(***************************************************************************)
(* The step.                                                               *)
(***************************************************************************)
\* Faulty variant: a stopped processor idles for free.
StepPlansFreeIdle ==
    {Frames \o <<Charge(44)>>, <<Charge(0)>>}
      \cup UNION {{<<Bus>> \o p : p \in Plans[k]} : k \in Kinds}

\* An interrupt, an idle cycle of a stopped processor, or an instruction.
StepPlans ==
    {Frames \o <<Charge(44)>>, <<Charge(4)>>}
      \cup UNION {{<<Bus>> \o p : p \in Plans[k]} : k \in Kinds}

StepBegin ==
    /\ \/ ctl = "loop" /\ cycles_remaining > 0
       \/ ctl = "host" /\ cycles_remaining > -MaxDebt
    /\ plan' \in StepPlans
    /\ ctl' = "step" /\ back' = ctl /\ before' = spent
    /\ UNCHANGED <<counters, frame, slices, calls, ended, spent>>

ChargeCycles ==
    /\ plan # <<>> /\ Head(plan).op = "charge"
    /\ Spend(Head(plan).n)
    /\ plan' = Tail(plan)
    /\ UNCHANGED <<frame, ctl, back, slices, calls, ended, before>>

\* apply_wait_bus, then the access; a fault of the instruction's own cycles
\* leaves it by longjmp and costs 54 on top of what is spent.
BusCycle ==
    /\ plan # <<>> /\ Head(plan).op \in {"bus", "frame"}
    /\ \E wait \in Waits :
          LET states == IF wait > 0 THEN wait ELSE 0
          IN  /\ wait = 0 \/ calls > 0
              /\ calls' = IF wait = 0 THEN calls ELSE calls - 1
              /\ Spend(states) /\ before' = before + states
    /\ \/ plan' = Tail(plan)
       \/ Head(plan).op = "bus" /\ plan' = Frames \o <<Charge(54)>>
    /\ UNCHANGED <<frame, ctl, back, slices, ended>>

StepEnd ==
    /\ ctl = "step" /\ plan = <<>>
    /\ ctl' = back /\ back' = "host" /\ before' = 0
    /\ spent' = IF back = "host" THEN 0 ELSE spent
    /\ UNCHANGED <<counters, frame, plan, slices, calls, ended>>

(***************************************************************************)
(* m68k_execute and the slice.                                             *)
(***************************************************************************)
\* Faulty variant: the slice's start is read before the request is added.
ExecuteFromTarget ==
    /\ ctl = "host" /\ slices > 0 /\ slices' = slices - 1 /\ cycles_remaining >= -MaxDebt
    /\ \E n \in Requests : /\ cycles_remaining' = Wrap(cycles_remaining + n)
                           /\ target_cycles' = Wrap(target_cycles + n)
                           /\ start_cycles_run' = target_cycles
    /\ ctl' = "loop" /\ calls' = MaxCalls /\ result' = 0
    /\ UNCHANGED <<back, plan, ended, spent, before>>

Execute ==
    /\ ctl = "host" /\ slices > 0 /\ slices' = slices - 1 /\ cycles_remaining >= -MaxDebt
    /\ \E n \in Requests : /\ cycles_remaining' = Wrap(cycles_remaining + n)
                           /\ target_cycles' = Wrap(target_cycles + n)
    /\ start_cycles_run' = m68k_cycles_run'
    /\ ctl' = "loop" /\ calls' = MaxCalls /\ result' = 0
    /\ UNCHANGED <<back, plan, ended, spent, before>>

Return ==
    /\ ctl = "loop" /\ cycles_remaining <= 0
    /\ result' = Wrap(m68k_cycles_run - start_cycles_run)
    /\ ctl' = "host" /\ calls' = 0 /\ start_cycles_run' = 0 /\ spent' = 0 /\ ended' = FALSE
    /\ UNCHANGED <<counters, back, plan, slices, before>>

\* The host changes the slice from a callback of the running step.
HostChange ==
    /\ ctl = "step" /\ plan # <<>> /\ Head(plan).op \in {"bus", "frame"} /\ calls > 0
    /\ calls' = calls - 1
    /\ UNCHANGED <<frame, ctl, back, plan, slices, spent, before>>

ModifyTimeslice ==
    /\ HostChange
    /\ \E n \in Adjustments : /\ cycles_remaining' = Wrap(cycles_remaining + n)
                              /\ target_cycles' = Wrap(target_cycles + n)
                              /\ ended' = (ended /\ n <= 0)

\* Faulty variants: the budget stays; the target keeps the cycles that will not be run.
EndTimesliceKeepingBudget ==
    HostChange /\ target_cycles' = m68k_cycles_run /\ ended' = TRUE /\ UNCHANGED cycles_remaining
EndTimesliceKeepingTarget ==
    HostChange /\ cycles_remaining' = 0 /\ ended' = TRUE /\ UNCHANGED target_cycles

EndTimeslice ==
    /\ HostChange
    /\ target_cycles' = m68k_cycles_run
    /\ cycles_remaining' = 0
    /\ ended' = TRUE

(***************************************************************************)
(* The specification.                                                      *)
(***************************************************************************)
\* Between two slices.
Init ==
    /\ target_cycles \in Targets /\ cycles_remaining = 0 /\ slices = MaxSlices
    /\ start_cycles_run = 0 /\ result = 0
    /\ ctl = "host" /\ back = "host" /\ plan = <<>> /\ calls = 0
    /\ ended = FALSE /\ spent = 0 /\ before = 0

Machine == StepBegin \/ ChargeCycles \/ BusCycle \/ StepEnd \/ Return

Next == Machine \/ Execute \/ ModifyTimeslice \/ EndTimeslice

Spec == Init /\ [][Next]_vars

\* C code runs on: m68k_execute loops and a step proceeds.  Nothing makes the
\* host call m68k_step or m68k_execute.
FairSpec == Spec /\ WF_vars(ctl # "host" /\ Machine)

(***************************************************************************)
(* Properties.                                                             *)
(***************************************************************************)

\* Type correctness: the counters stay ints, and only a running step has
\* stages left.
TypeOK ==
    /\ {target_cycles, cycles_remaining, start_cycles_run, result}
          \subseteq -(IntMod \div 2) .. IntMod \div 2 - 1
    /\ ctl \in {"host", "loop", "step"} /\ back \in {"host", "loop"}
    /\ plan \in Seq([op : {"bus", "frame", "charge"}, n : Int])
    /\ ctl # "step" => plan = <<>>
    /\ slices \in 0..MaxSlices /\ calls \in 0..MaxCalls /\ ended \in BOOLEAN /\ spent \in Int /\ before \in Int

\* The cycles m68k_execute accounts for are those the steps of this call have
\* spent, at every bus cycle, whatever the host does to the slice meanwhile and
\* although target_cycles wraps.
ConsumedIsSpent ==
    ctl # "host" /\ (ctl = "step" => back = "loop")
        => Wrap(m68k_cycles_run - start_cycles_run) = Wrap(spent)

\* The shortest and the dearest step; wait states come on top.
MinStep == 4
MaxStep == 190

\* Every step costs something, so m68k_execute gets on, and no step, finished or
\* aborted at any of its bus cycles, costs more than MaxStep: stages and refunds
\* add up.
StepCost ==
    ctl = "step" /\ plan = <<>> => spent - before \in MinStep .. MaxStep

\* A slice that the host ends from a callback ends with the running step: the
\* stages and refunds still to come bring no budget back.
EndedMeansLast == [][ctl = "loop" /\ ctl' = "step" => ~ended]_vars

\* Everything Spend is called with.
Charges == {stage.n : stage \in UNION {Range(p) : p \in StepPlans}} \cup Waits \cup {54}
AbstractClock ==
    INSTANCE Clock WITH clock <- m68k_cycles_run, budget <- cycles_remaining,
                        running <- (ctl = "loop" \/ (ctl = "step" /\ back = "loop")),
                        begun <- start_cycles_run, result <- result,
                        Amounts <- Requests \cup Adjustments, Costs <- Charges

\* The timeslice implements the abstract clock: host calls never move
\* m68k_cycles_run, steps move it by what they take from the budget, and
\* m68k_execute returns the difference.
ImplementsClock == AbstractClock!ClockSpec

\* m68k_execute returns.
ExecuteReturns == ctl = "loop" ~> ctl = "host"
=============================================================================
