------------------------------ MODULE Handlers ------------------------------
(***************************************************************************)
(* The instruction handlers of rocket68 (ops_*.c) as the fault, exception  *)
(* and interrupt engine sees them.                                         *)
(*                                                                         *)
(* A handler is the set of its paths.  A path is the sequence of the steps *)
(* that reach shared machinery, in the order the C code makes them: bus    *)
(* cycles, changes of SR, A7, USP, VBR or PC, raised exceptions and latch  *)
(* updates.  Data is abstracted, so a test of a register, a condition code *)
(* or an extension word becomes a choice of path; the tests the engine's   *)
(* own state decides (supervisor bit, odd or unmapped target, faulting bus *)
(* cycle) stay steps, and cut the path short when they fail.               *)
(***************************************************************************)
EXTENDS Integers, Sequences

CONSTANTS
    TrapVectors,    \* the vectors 32 + n that TRAP #n instructions use
    OperandSizes    \* operand sizes in bytes (M68kSize)

ASSUME HandlersAssumption == TrapVectors \subseteq 32..47 /\ OperandSizes \subseteq {1, 2, 4}

StepNames == {"fetch", "ea", "read", "progread", "write", "latchwrite",
              "push", "pop", "peek", "readabs", "movesp", "setsp", "setusp",
              "setvbr", "priv", "raise", "illegalea", "setsr", "stop",
              "probe", "jump", "goto", "return"}

MicroStep == [op : StepNames \ {"raise"}, n : Int] \cup [op : {"raise"}, n : 0..255]

Step(op, n) == [op |-> op, n |-> n]

(***************************************************************************)
(* Steps.  n is a size in bytes, an offset, an address or a vector number. *)
(***************************************************************************)
Fetch        == Step("fetch", 2)       \* m68k_fetch of an extension word
Ea           == Step("ea", 0)          \* fault_pc := ...; fault_pc_valid := true
Read(n)      == Step("read", n)        \* operand read, data space
ProgRead(n)  == Step("progread", n)    \* PC-relative operand read
Write(n)     == Step("write", n)       \* operand write
LatchWrite(n) == Step("latchwrite", n) \* MOVE to -(An): bus word latched
Push(n)      == Step("push", n)        \* m68k_push_16, m68k_push_32
Pop(n)       == Step("pop", n)         \* m68k_pop_16, m68k_pop_32
Peek(off)    == Step("peek", off)      \* 68010 RTE reads the frame in place
ReadAbs(a)   == Step("readabs", a)     \* m68k_reset reads a reset vector
MoveSp(n)    == Step("movesp", n)      \* A7 += n
SetSp        == Step("setsp", 0)       \* A7 := a computed value
SetUsp       == Step("setusp", 0)
SetVbr       == Step("setvbr", 0)
Priv         == Step("priv", 0)        \* not supervisor: vector 8, return
Raise(v)     == Step("raise", v)       \* m68k_exception(v), then return
IllegalEa    == Step("illegalea", 4)   \* m68k_raise_illegal_ea
SetSr        == Step("setsr", 0)       \* m68k_set_sr
Stop         == Step("stop", 0)        \* m68k_set_sr; stopped := true
Probe        == Step("probe", 0)       \* an odd or unmapped target faults
Goto         == Step("goto", 0)        \* set_pc to the target probed before
Jump         == Step("jump", 0)        \* an even unmapped target faults
Return       == Step("return", 0)      \* set_pc to a value read from memory

(***************************************************************************)
(* Effective addresses (m68k_calc_ea_ex).  Register modes have no step;    *)
(* every memory mode latches a fault PC first, then fetches its extension  *)
(* words.  -(A7) and byte or word (A7)+ move A7 before the operand cycle,  *)
(* long (A7)+ after it.                                                    *)
(***************************************************************************)
\* A byte on the stack takes a word.
StackStep(n) == IF n = 1 THEN 2 ELSE n

EaPlain(n) == {<<Ea>>, <<Ea, Fetch>>, <<Ea, Fetch, Fetch>>, <<Ea, MoveSp(-StackStep(n))>>}

\* m68k_calc_ea_addr: the address only.
EaAddr(n) == EaPlain(n) \cup {<<Ea, MoveSp(StackStep(n))>>}

\* m68k_calc_ea: the operand is read too; from alterable memory ...
EaMemory(n) ==
    {p \o <<Read(n)>> : p \in EaPlain(n)}
      \cup {IF n = 4 THEN <<Ea, Read(n), MoveSp(n)>>
                     ELSE <<Ea, MoveSp(StackStep(n)), Read(n)>>}

EaImmediate(n) == IF n = 4 THEN <<Fetch, Fetch>> ELSE <<Fetch>>

\* ... and in any mode.
EaValue(n) == {<<>>, EaImmediate(n), <<Ea, Fetch, ProgRead(n)>>} \cup EaMemory(n)

\* m68k_calc_ea_ctl: any other mode is an illegal encoding.
EaControl == {<<IllegalEa>>, <<Ea>>, <<Ea, Fetch>>, <<Ea, Fetch, Fetch>>}

\* Each path of S followed by p.
Then(S, p) == {q \o p : q \in S}

\* Each path of S followed by one of T.
Join(S, T) == UNION {Then(S, p) : p \in T}

(***************************************************************************)
(* Control transfer (ops_control.c).                                       *)
(***************************************************************************)
Bcc  == LET disp == {<<>>, <<Fetch>>}
        IN  disp \cup Then(disp, <<Jump>>) \cup Then(disp, <<Push(4), Probe, Goto>>)
Dbcc == {<<Fetch>>, <<Fetch, Probe, Goto>>}
Jmp  == Then(EaControl, <<Jump>>) \cup Then(EaControl, <<Probe, Push(4), Goto>>)
Rts  == {<<Pop(4), Return>>}
Rtr  == {<<Pop(2), Pop(4), Return>>}
Rtd  == {<<Pop(4), Fetch, SetSp, Return>>}

Rte(is68010) ==
    IF is68010
    THEN {<<Priv, Peek(6), Raise(14)>>,
          <<Priv, Peek(6), Peek(0), Peek(2), MoveSp(8), SetSr, Return>>}
    ELSE {<<Priv, Pop(2), Pop(4), SetSr, Return>>}

(***************************************************************************)
(* Traps and privileged instructions.  Line-A, line-F, BKPT and undecoded  *)
(* opcodes only raise their vector; DIV by zero raises vector 5.           *)
(***************************************************************************)
Trap  == {<<Raise(v)>> : v \in TrapVectors}
Chk   == {<<Raise(4)>>} \cup EaValue(2) \cup Then(EaValue(2), <<Raise(6)>>)
Div   == {<<Raise(4)>>} \cup EaValue(2) \cup Then(EaValue(2), <<Raise(5)>>)
Trapv == {<<>>, <<Raise(7)>>}
Unimplemented == {<<Raise(4)>>, <<Raise(10)>>, <<Raise(11)>>}

StopHandler  == {<<Priv, Fetch, Stop>>}
ResetHandler == {<<Priv>>}
ToSr    == {<<Raise(4)>>, <<Priv, Fetch, SetSr>>}
             \cup {<<Priv>> \o p \o <<SetSr>> : p \in EaValue(2)}
FromSr(is68010) ==
    LET guard == IF is68010 THEN <<Priv>> ELSE <<>>
    IN  {<<Raise(4)>>, guard}
          \cup {guard \o p \o <<Read(2), Write(2)>> : p \in EaAddr(2)}
FromCcr == {<<Raise(4)>>, <<>>} \cup Then(EaAddr(2), <<Read(2), Write(2)>>)

\* Faulty variant of MOVE USP: no privilege check.
MoveUspUnchecked == {<<SetUsp>>, <<SetSp>>, <<>>}

MoveUsp == {<<Priv, SetUsp>>, <<Priv, SetSp>>, <<Priv>>}
Movec   == {<<Priv, Fetch, Raise(4)>>, <<Priv, Fetch, SetUsp>>, <<Priv, Fetch>>,
            <<Priv, Fetch, SetVbr>>, <<Priv, Fetch, SetSp>>}

(***************************************************************************)
(* Data movement and stack frames (ops_move.c).  MOVE commits -(A7) before *)
(* a byte or word write and after a long one, which goes low word first,   *)
(* and (A7)+ only after the write.  MOVEM is shown with at most two        *)
(* registers in its list, A7 last.                                         *)
(***************************************************************************)
Link  == {<<Fetch, Push(4), SetSp>>}
Unlk  == {<<Ea, Read(4), SetSp>>}
Pea   == Then(EaControl, <<Push(4)>>)
Lea   == EaControl \cup Then(EaControl, <<SetSp>>)

MoveDest(n) ==
    {<<>>, <<Ea, Write(n)>>, <<Ea, Fetch, Write(n)>>, <<Ea, Fetch, Fetch, Write(n)>>,
     <<Ea, Write(n), MoveSp(StackStep(n))>>}
      \cup (IF n = 1 THEN {} ELSE {<<SetSp>>})
      \cup (IF n = 4 THEN {<<Ea, Write(2), Write(2)>>, <<Ea, Write(2), Write(2), MoveSp(-4)>>}
                     ELSE {<<Ea, LatchWrite(n)>>,
                           <<MoveSp(-StackStep(n)), Ea, LatchWrite(n)>>})

MoveSized(n) == Join(EaValue(n), MoveDest(n))
Move  == {<<Raise(4)>>, <<IllegalEa>>} \cup (UNION {MoveSized(n) : n \in OperandSizes})
MovemTransfer(n) == {<<>>, <<Read(n), Read(n)>>, <<Read(n), SetSp>>, <<Write(n), Write(n)>>}
MovemSized(n) ==
    Join({<<Fetch, Ea>>, <<Fetch, Ea, Fetch>>, <<Fetch, Ea, Fetch, Fetch>>}, MovemTransfer(n))
      \cup {<<Fetch, Ea, Fetch, ProgRead(n), ProgRead(n)>>,
            <<Fetch, Ea, Read(n), Read(n), MoveSp(2 * n)>>,
            <<Fetch, Ea, Write(2), Write(2), MoveSp(-4)>>}
Movem == {<<Raise(4)>>} \cup (UNION {MovemSized(n) : n \in OperandSizes \ {1}})
Movep == {<<Fetch, Read(1), Read(1)>>, <<Fetch, Write(1), Write(1)>>,
          <<Fetch, Read(1), Read(1), Read(1), Read(1)>>,
          <<Fetch, Write(1), Write(1), Write(1), Write(1)>>}
MovesSized(n) == {<<Priv, Fetch>> \o p \o <<Write(n)>> : p \in EaAddr(n)}
                   \cup {<<Priv, Fetch>> \o p \o <<SetSp>> : p \in EaMemory(n)}
Moves == {<<Raise(4)>>, <<Priv, Fetch, Raise(4)>>}
           \cup (UNION {MovesSized(n) : n \in OperandSizes})

(***************************************************************************)
(* Arithmetic, logic and bit handlers (ops_arith.c, ops_logic.c,           *)
(* ops_bit.c).  Compute leaves memory alone: its result goes to a register *)
(* (A7 for ADDA, SUBA, ADDQ, SUBQ and EXG) or to the condition codes.      *)
(* Modify reads, modifies and writes a memory operand; CLR reads twice.    *)
(* The immediate forms fetch their operand first.                          *)
(***************************************************************************)
ComputeSized(n) == EaValue(n) \cup Then(EaValue(n), <<SetSp>>)
                     \cup {EaImmediate(n) \o p : p \in EaMemory(n)}
Compute == {<<Raise(4)>>, <<SetSp>>} \cup (UNION {ComputeSized(n) : n \in OperandSizes})

ModifySized(n) == Then(EaMemory(n), <<Write(n)>>) \cup Then(EaMemory(n), <<Read(n), Write(n)>>)
                    \cup {EaImmediate(n) \o p \o <<Write(n)>> : p \in EaMemory(n)}
Modify == {<<Raise(4)>>} \cup (UNION {ModifySized(n) : n \in OperandSizes})

Scc  == {<<Raise(4)>>, <<>>} \cup Then(EaAddr(1), <<Write(1)>>)

\* -(An) operands of ADDX, SUBX, ABCD and SBCD: a long one is read low word
\* first and committed after both words.
Predec(n) ==
    IF n = 4 THEN {<<Read(2), Read(2)>>, <<Read(2), Read(2), MoveSp(-4)>>}
             ELSE {<<Read(n)>>, <<MoveSp(-StackStep(n)), Read(n)>>}

AddxSized(n) == Join({<<Ea>>}, Then(Join(Predec(n), Predec(n)), <<Write(n)>>))
Addx == {<<>>} \cup (UNION {AddxSized(n) : n \in OperandSizes})
Abcd == {<<>>} \cup Then(Join(Predec(1), Predec(1)), <<Write(1)>>)

\* CMPM: the source is committed word by word, the destination after its read.
Postinc(n) ==
    IF n = 4 THEN {<<Read(4)>>, <<MoveSp(2), Read(4), MoveSp(2)>>}
             ELSE {<<Read(n)>>, <<MoveSp(StackStep(n)), Read(n)>>}

CmpmSized(n) == Join(Join({<<Ea>>}, Postinc(n)),
                     {<<Read(n)>>, <<Read(n), MoveSp(StackStep(n))>>})
Cmpm == UNION {CmpmSized(n) : n \in OperandSizes}

\* On the 68000 the later-family instructions raise vector 4.
Later(is68010, handler) == IF is68010 THEN handler ELSE {<<Raise(4)>>}

\* The opcode space: which handler a decoded opcode reaches.
Paths(is68010) ==
    [bcc |-> Bcc, dbcc |-> Dbcc, jmp |-> Jmp, rts |-> Rts, rtr |-> Rtr,
     rte |-> Rte(is68010), trap |-> Trap, chk |-> Chk, div |-> Div,
     trapv |-> Trapv, unimplemented |-> Unimplemented,
     stop |-> StopHandler, reset |-> ResetHandler, tosr |-> ToSr,
     fromsr |-> FromSr(is68010), moveusp |-> MoveUsp, link |-> Link,
     unlk |-> Unlk, pea |-> Pea, lea |-> Lea, move |-> Move,
     movem |-> Movem, movep |-> Movep, compute |-> Compute, modify |-> Modify,
     scc |-> Scc, addx |-> Addx, abcd |-> Abcd, cmpm |-> Cmpm,
     fromccr |-> Later(is68010, FromCcr),
     rtd   |-> Later(is68010, Rtd),
     movec |-> Later(is68010, Movec),
     moves |-> Later(is68010, Moves)]

InstructionNames == DOMAIN Paths(FALSE)
=============================================================================
