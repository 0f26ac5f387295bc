-------------------------------- MODULE Cycles --------------------------------
(***************************************************************************)
(* What a step of m68k_step_ex charges to the timeslice, and when.  A step *)
(* is a sequence of stages: a charge (negative for a refund) or a bus      *)
(* cycle, at which the host is called back and the instruction may fault.  *)
(* The last stage is the dispatcher's own charge, subtracted at the end.   *)
(* Costs are the code's own; operands are abstracted to the addressing     *)
(* mode and to word or long.                                               *)
(***************************************************************************)
EXTENDS Integers, Sequences

Bus == [op |-> "bus", n |-> 0]
Charge(n) == [op |-> "charge", n |-> n]
Buses(n) == [i \in 1..n |-> Bus]
\* Bus cycles of exception processing: a fault in one does not end the step.
Frames == <<[op |-> "frame", n |-> 0], [op |-> "frame", n |-> 0]>>

(***************************************************************************)
(* Effective addresses.                                                    *)
(***************************************************************************)
Direct == {"dn", "an"}
Alterable == {"ind", "postinc", "predec", "disp", "index", "absw", "absl"}
Memory == Alterable \cup {"pcdisp", "pcindex"}
Modes == Direct \cup Memory \cup {"imm"}

\* m68k_ea_cycle_table, its word column; long adds 4 to every memory mode.
WordCycles ==
    [dn |-> 0, an |-> 0, ind |-> 4, postinc |-> 4, predec |-> 6, disp |-> 8, index |-> 10,
     absw |-> 8, absl |-> 12, pcdisp |-> 8, pcindex |-> 10, imm |-> 4]
EaCycles(mode, long) ==
    WordCycles[mode] + (IF long /\ mode \notin Direct THEN 4 ELSE 0)

Extensions(mode, long) ==
    CASE mode \in {"disp", "index", "absw", "pcdisp", "pcindex"} -> 1
      [] mode = "absl" -> 2
      [] mode = "imm" -> IF long THEN 2 ELSE 1
      [] OTHER -> 0

\* The word share is spent before the operand is read, the rest after.
CalcEa(mode, long) ==
    <<Charge(EaCycles(mode, FALSE))>>
        \o Buses(Extensions(mode, long) + (IF mode \in Memory THEN 1 ELSE 0))
        \o <<Charge(EaCycles(mode, long) - EaCycles(mode, FALSE))>>

CalcEaAddr(mode, long) ==
    <<Charge(EaCycles(mode, long))>> \o Buses(Extensions(mode, long))

LeaCycles == [ind |-> 4, disp |-> 8, index |-> 12, absw |-> 8, absl |-> 12, pcdisp |-> 8,
              pcindex |-> 12]
JmpCycles == [ind |-> 8, disp |-> 10, index |-> 14, absw |-> 10, absl |-> 12, pcdisp |-> 10,
              pcindex |-> 14]
Control == DOMAIN LeaCycles
CalcEaCtl(mode, costs) == <<Charge(costs[mode])>> \o Buses(Extensions(mode, TRUE))

StoreCycles == [ind |-> 8, predec |-> 8, disp |-> 12, index |-> 14, absw |-> 12, absl |-> 16]
LoadCycles == [ind |-> 12, postinc |-> 12, disp |-> 16, index |-> 18, absw |-> 16, absl |-> 20,
               pcdisp |-> 16, pcindex |-> 18]

(***************************************************************************)
(* Handlers: what they charge themselves, then the dispatcher's charge.    *)
(***************************************************************************)

\* <ea> to register: ADD, SUB, AND, OR, CMP, TST, and without the long
\* surcharge the other readers.
AluRead == {CalcEa(m, l) \o <<Charge(IF ~l THEN 4 ELSE IF m \in Memory THEN 6 ELSE 8)>> :
              m \in Modes, l \in BOOLEAN}

\* Register to <ea>, unary operations, ADDQ and SUBQ: read, modify, write.
AluModify ==
    {CalcEa(m, l) \o <<Bus, Charge(IF l THEN 12 ELSE 8)>> : m \in Alterable, l \in BOOLEAN}
      \cup {<<Charge(n)>> : n \in {4, 6, 8}}

\* The immediate words are paid for before the operand is resolved.
ImmediateOp ==
    {Buses(IF l THEN 2 ELSE 1) \o <<Charge(IF l THEN 8 ELSE 4)>> \o CalcEa(m, l)
       \o (IF m = "dn" THEN <<Charge(IF l THEN 8 ELSE 4)>>
                       ELSE <<Bus, Charge(IF l THEN 12 ELSE 8)>>) :
       m \in Alterable \cup {"dn"}, l \in BOOLEAN}

MoveToMemory(source, dest, long) ==
    LET refund == (IF ~long THEN 0 ELSE IF dest = "predec" THEN 2 ELSE 4)
                    + (IF dest = "absl" /\ source \in Memory THEN 4 ELSE 0)
    IN  CalcEa(source, long) \o CalcEaAddr(dest, long) \o <<Charge(-refund)>>
          \o (IF dest # "predec" THEN <<Bus, Charge(refund), Charge(4)>>
              ELSE IF long THEN <<Bus, Bus, Charge(refund), Charge(2)>>
              ELSE <<Charge(2), Bus, Charge(refund), Charge(0)>>)
MoveOp ==
    {CalcEa(s, l) \o <<Charge(4)>> : s \in Modes, l \in BOOLEAN}
      \cup {MoveToMemory(s, d, l) : s \in Modes, d \in Alterable, l \in BOOLEAN}

SccOp == {<<Charge(n), Charge(0)>> : n \in {4, 6}}
           \cup {CalcEaAddr(m, FALSE) \o <<Bus, Charge(8), Charge(0)>> : m \in Alterable}

\* JMP and LEA cost what their effective address costs; JSR and PEA add 8.
ControlOp ==
    {CalcEaCtl(m, t) \o <<Charge(0)>> : m \in Control, t \in {LeaCycles, JmpCycles}}
      \cup {CalcEaCtl(m, t) \o <<Bus, Charge(8)>> : m \in Control, t \in {LeaCycles, JmpCycles}}

Transfers(n, long) == [i \in 1..2 * n |-> IF i % 2 = 1 THEN Bus ELSE Charge(IF long THEN 8 ELSE 4)]

\* The trailing read of MOVEM to registers is paid for at the end.
MovemOp ==
    {<<Bus>> \o Buses(Extensions(m, FALSE)) \o <<Charge(LoadCycles[m]), Charge(-4)>>
       \o Transfers(n, l) \o <<Charge(4), Charge(0)>> :
       m \in DOMAIN LoadCycles, n \in {0, 1, 16}, l \in BOOLEAN}
      \cup {<<Bus>> \o Buses(Extensions(m, FALSE)) \o <<Charge(StoreCycles[m])>>
              \o Transfers(n, l) \o <<Charge(0)>> :
              m \in DOMAIN StoreCycles, n \in {0, 1, 16}, l \in BOOLEAN}

\* Bcc, BSR and DBcc charge themselves; a faulted target costs 50 more.
BranchOp ==
    {<<Charge(n), Charge(0)>> : n \in {8, 10}}
      \cup {<<Bus, Charge(n), Charge(0)>> : n \in {10, 12, 14, 18}}
      \cup {<<Bus, Charge(50)>> \o Frames \o <<Charge(n), Charge(0)>> : n \in {10, 18}}

\* MULU and MULS: 17 to 33 steps.  DIVU and DIVS: overflow exits early.
MulOp == {CalcEa(m, FALSE) \o <<Charge(2 * s + 4), Charge(0)>> :
            m \in Modes \ {"an"}, s \in {17, 33}}
DivOp == {CalcEa(m, FALSE) \o <<Charge(n), Charge(0)>> :
            m \in Modes \ {"an"}, n \in {10, 16, 18, 76, 120, 136, 156}}
           \cup {CalcEa(m, FALSE) \o Frames \o <<Charge(38)>> : m \in Modes \ {"an"}}

ShiftOp == {<<Charge(b + 2 * n)>> : b \in {6, 8}, n \in {0, 1, 63}}
             \cup {CalcEa(m, FALSE) \o <<Bus, Charge(8)>> : m \in Alterable}

\* ADDX and SUBX -(An), CMPM: the costs are spent in stages.  ABCD and SBCD
\* leave them to the dispatcher.
ExtendedOp ==
    {<<Charge(6), Bus, Charge(IF l THEN 8 ELSE 4), Bus, Bus, Charge(IF l THEN 16 ELSE 8)>> :
       l \in BOOLEAN}
      \cup {<<Charge(4), Bus, Charge(IF l THEN 8 ELSE 4), Bus, Charge(IF l THEN 8 ELSE 4)>> :
              l \in BOOLEAN}
      \cup {<<Charge(6)>>, Buses(3) \o <<Charge(18)>>}

\* BTST, BCHG, BCLR, BSET: a static bit number is one more word.
BitOp ==
    {<<Charge(n)>> : n \in {6, 8, 10}} \cup {<<Bus, Charge(n)>> : n \in {10, 12, 14}}
      \cup {Buses(i) \o CalcEa(m, FALSE) \o Buses(j) \o <<Charge(4 + 4 * i + 4 * j)>> :
              m \in Alterable, i \in {0, 1}, j \in {0, 1}}

\* RESET, NOP, STOP, RTE, RTS, RTR, RTD, MOVEC, TRAP, LINK, UNLK, MOVEP.
PlainFlow ==
    {<<Charge(4)>>, <<Charge(132)>>, <<Bus, Charge(4)>>, Buses(2) \o <<Charge(20)>>,
     <<Bus, Charge(16)>>, <<Bus, Charge(12)>>, Frames \o <<Charge(34)>>,
     Buses(2) \o <<Charge(16)>>, <<Charge(4), Bus, Charge(8)>>, Buses(5) \o <<Charge(24)>>}

\* A return or jump to an odd address faults at the end of the step, a traced
\* instruction takes its exception there, free of charge.
FlowOp ==
    PlainFlow
      \cup {<<Bus, Charge(50)>> \o Frames \o <<Charge(n)>> : n \in {0, 16, 20}}
      \cup {<<Bus>> \o Frames \o <<Charge(n)>> : n \in {4, 16}}

\* CHK pays for its own trap; the dispatcher's charge is suppressed.
ChkOp ==
    {CalcEa(m, FALSE) \o <<Charge(10)>> : m \in Modes \ {"an"}}
      \cup {CalcEa(m, FALSE) \o <<Charge(n)>> \o Frames \o <<Charge(0)>> :
              m \in Modes \ {"an"}, n \in {38, 40}}

\* Illegal encodings, privilege violations, TRAPV: the exception's cost
\* replaces the handler's.
IllegalOp == {Frames \o <<Charge(34)>>}

\* illg_cb claims an illegal encoding: exception_thrown stays 0, and the
\* dispatcher charges what the decoded handler would have left to it.
ClaimedOp == {<<Charge(n)>> : n \in {0, 4, 8, 12, 34}}

Plans ==
    [read |-> AluRead, modify |-> AluModify, immediate |-> ImmediateOp, move |-> MoveOp,
     scc |-> SccOp, control |-> ControlOp, movem |-> MovemOp, branch |-> BranchOp,
     mul |-> MulOp, div |-> DivOp, shift |-> ShiftOp, extended |-> ExtendedOp, bit |-> BitOp,
     flow |-> FlowOp, chk |-> ChkOp, illegal |-> IllegalOp, claimed |-> ClaimedOp]
=============================================================================
