------------------------------- MODULE Logic -------------------------------
(***************************************************************************)
(* AND, OR, EOR and their immediate forms, NOT, CLR, TST, the bit          *)
(* instructions and TAS: handlers that were written one by one, each with  *)
(* its own masks, on a register or on an operand in memory.  A value is    *)
(* the set of its one bits, a status register the set of its flags.        *)
(*                                                                         *)
(* A second processor, the twin, runs the program that uses only the       *)
(* logical instructions with an immediate operand.                         *)
(***************************************************************************)
EXTENDS Integers

CONSTANTS
    ByteBits,      \* bits of a byte: 8 in the code
    Patterns,      \* values of registers, memory and operands
    Numbers,       \* bit numbers that a program asks for
    MaxSteps       \* bound: instructions of a program

LongBits == 4 * ByteBits
LogicAssumption ==
    /\ ByteBits \in Nat \ {0} /\ Numbers \subseteq Nat /\ MaxSteps \in Nat
    /\ Patterns \subseteq SUBSET (0 .. LongBits - 1)

VARIABLES
    cpu, twin,        \* [reg, mem, ccr]: Dn, four bytes of memory, the flags
    start, touched,   \* history: the first state, the bits that were written
    last,             \* history: the operand of the last instruction
    steps
vars == <<cpu, twin, start, touched, last, steps>>

All == 0 .. LongBits - 1
Flags == {"x", "n", "z", "v", "c"}
Cpu == [reg : SUBSET All, mem : SUBSET All, ccr : SUBSET Flags]
Sizes == {1, 2, 4}                             \* bytes

WidthOf(size) == size * ByteBits
Low(size) == 0 .. WidthOf(size) - 1
Msb(size) == WidthOf(size) - 1

\* An operand: Dn, or the bits of memory from "at" on.  Memory is big endian:
\* a byte or a word at a lower address holds higher bits.
Dn == [mem |-> FALSE, at |-> 0]
Operands(size) == {Dn} \cup [mem : {TRUE}, at : {k * WidthOf(size) : k \in 0 .. (4 \div size) - 1}]
Placed(dest, bits) == {dest.at + b : b \in bits}
Window(dest, size) == Placed(dest, Low(size))

\* What m68k_calc_ea finds: all of the register, or the bits in memory alone.
EaValue(m, dest, size) ==
    IF dest.mem THEN {b \in Low(size) : dest.at + b \in m.mem} ELSE m.reg

\* Faulty variant: the whole register is written.
StoreWhole(m, dest, size, result) ==
    IF dest.mem THEN [m EXCEPT !.mem = (@ \ Window(dest, size)) \cup Placed(dest, result \cap Low(size))]
    ELSE [m EXCEPT !.reg = result]
Store(m, dest, size, result) ==
    IF dest.mem THEN [m EXCEPT !.mem = (@ \ Window(dest, size)) \cup Placed(dest, result \cap Low(size))]
    ELSE [m EXCEPT !.reg = (@ \ Low(size)) \cup (result \cap Low(size))]

When(p, flag) == IF p THEN {flag} ELSE {}

\* Faulty variant: Z looks at the bits above the operand.
UpdateFlagsLogicWhole(ccr, result, size) ==
    (ccr \cap {"x"}) \cup When(Msb(size) \in result, "n") \cup When(result = {}, "z")
UpdateFlagsLogic(ccr, result, size) ==
    (ccr \cap {"x"}) \cup When(Msb(size) \in result, "n") \cup When(result \cap Low(size) = {}, "z")

(***************************************************************************)
(* The handlers.                                                           *)
(***************************************************************************)
SymDiff(a, b) == (a \ b) \cup (b \ a)
And(a, b) == a \cap b
Or(a, b) == a \cup b
Eor(a, b) == SymDiff(a, b)
Apply(op, dest, src) ==
    CASE op = "and" -> And(dest, src) [] op = "or" -> Or(dest, src) [] op = "eor" -> Eor(dest, src)

\* AND, OR, EOR and ANDI, ORI, EORI.
Logical(m, op, src, dest, size) ==
    LET result == Apply(op, EaValue(m, dest, size), src)
    IN  [Store(m, dest, size, result) EXCEPT !.ccr = UpdateFlagsLogic(@, result, size)]

\* ANDI, ORI and EORI to CCR.
ToCcr(m, op, imm) == [m EXCEPT !.ccr = Apply(op, @, imm)]

Not(m, dest, size) ==
    LET result == All \ EaValue(m, dest, size)
    IN  [Store(m, dest, size, result) EXCEPT !.ccr = UpdateFlagsLogic(@, result, size)]

Clr(m, dest, size) == [Store(m, dest, size, {}) EXCEPT !.ccr = (@ \ {"n", "v", "c"}) \cup {"z"}]

Tst(m, dest, size) ==
    LET result == EaValue(m, dest, size)
    IN  [m EXCEPT !.ccr = (@ \ {"n", "z", "v", "c"}) \cup When(Msb(size) \in result, "n")
                             \cup When(result \cap Low(size) = {}, "z")]

\* Faulty variant: a bit number of a memory operand is reduced like one of Dn.
GetBitMaskLong(bit_num, is_register) == {bit_num % LongBits}
GetBitMask(bit_num, is_register) == {bit_num % (IF is_register THEN LongBits ELSE ByteBits)}

\* BTST, BSET, BCLR and BCHG: a long in Dn, a byte in memory.
BitSize(dest) == IF dest.mem THEN 1 ELSE 4
TestBit(m, mask, data) == [m EXCEPT !.ccr = (@ \ {"z"}) \cup When(data \cap mask = {}, "z")]
Btst(m, n, dest) == TestBit(m, GetBitMask(n, ~dest.mem), EaValue(m, dest, BitSize(dest)))
Bset(m, n, dest) ==
    LET data == EaValue(m, dest, BitSize(dest))
    IN  Store(Btst(m, n, dest), dest, BitSize(dest), data \cup GetBitMask(n, ~dest.mem))
Bclr(m, n, dest) ==
    LET data == EaValue(m, dest, BitSize(dest))
    IN  Store(Btst(m, n, dest), dest, BitSize(dest), data \ GetBitMask(n, ~dest.mem))
Bchg(m, n, dest) ==
    LET data == EaValue(m, dest, BitSize(dest))
    IN  Store(Btst(m, n, dest), dest, BitSize(dest), SymDiff(data, GetBitMask(n, ~dest.mem)))
BitOp(m, op, n, dest) ==
    CASE op = "btst" -> Btst(m, n, dest) [] op = "bset" -> Bset(m, n, dest)
      [] op = "bclr" -> Bclr(m, n, dest) [] op = "bchg" -> Bchg(m, n, dest)

\* TAS: flags of the byte that was read, bit 7 set in the byte that is written
\* unless the host's callback forbids the write.
Tas(m, dest, allow_write) ==
    LET data == EaValue(m, dest, 1) \cap Low(1)
        tested == [m EXCEPT !.ccr = (@ \cap {"x"}) \cup When(data = {}, "z")
                                       \cup When(Msb(1) \in data, "n")]
    IN  IF allow_write THEN Store(tested, dest, 1, data \cup {Msb(1)}) ELSE tested

(***************************************************************************)
(* The program of the twin: the instruction spelled with ANDI, ORI, EORI   *)
(* and TST.                                                                *)
(***************************************************************************)

\* The bit that a manual of the processor calls bit n of the operand.
TheBit(n, dest) == {n % WidthOf(BitSize(dest))}

\* The flags of m, except for Z which is that of t.
OnlyZ(t, m) == [t EXCEPT !.ccr = (m.ccr \ {"z"}) \cup (t.ccr \cap {"z"})]
TestWith(t, n, dest) ==
    [t EXCEPT !.ccr = OnlyZ(Logical(t, "and", TheBit(n, dest), dest, BitSize(dest)), t).ccr]
Spelled(t, op, n, dest) ==
    LET size   == BitSize(dest)
        tested == TestWith(t, n, dest)
        kept(u) == [u EXCEPT !.ccr = tested.ccr]
    IN  CASE op = "btst" -> tested
          [] op = "bset" -> kept(Logical(t, "or", TheBit(n, dest), dest, size))
          [] op = "bclr" -> kept(Logical(t, "and", All \ TheBit(n, dest), dest, size))
          [] op = "bchg" -> kept(Logical(t, "eor", TheBit(n, dest), dest, size))

TasSpelled(t, dest, allow_write) ==
    LET tested == Tst(t, dest, 1)
    IN  IF allow_write
        THEN [Logical(t, "or", {Msb(1)}, dest, 1) EXCEPT !.ccr = tested.ccr]
        ELSE tested

Init ==
    /\ \E r, m \in Patterns, f \in {{}, Flags} : cpu = [reg |-> r, mem |-> m, ccr |-> f]
    /\ twin = cpu /\ start = cpu
    /\ touched = [reg |-> {}, mem |-> {}] /\ last = <<>> /\ steps = 0

\* One instruction: new states of both processors, and what it may write.
Executed(c, t, dest, size, writes, flags) ==
    /\ steps < MaxSteps /\ steps' = steps + 1
    /\ cpu' = c /\ twin' = t
    /\ touched' = IF ~writes THEN touched
                  ELSE IF dest.mem THEN [touched EXCEPT !.mem = @ \cup Window(dest, size)]
                  ELSE [touched EXCEPT !.reg = @ \cup Low(size)]
    /\ last' = IF flags THEN <<dest, size>> ELSE <<>>
    /\ UNCHANGED start

DoLogical ==
    \E op \in {"and", "or", "eor"}, size \in Sizes, src \in Patterns : \E dest \in Operands(size) :
       Executed(Logical(cpu, op, src, dest, size), Logical(twin, op, src \cap Low(size), dest, size),
                dest, size, TRUE, TRUE)
DoToCcr ==
    \E op \in {"and", "or", "eor"}, imm \in {{"x"}, {"n", "z"}, Flags \ {"x"}} :
       Executed(ToCcr(cpu, op, imm), ToCcr(twin, op, imm), Dn, 1, FALSE, FALSE)
DoNot ==
    \E size \in Sizes : \E dest \in Operands(size) :
       Executed(Not(cpu, dest, size), Logical(twin, "eor", Low(size), dest, size),
                dest, size, TRUE, TRUE)
DoClr ==
    \E size \in Sizes : \E dest \in Operands(size) :
       Executed(Clr(cpu, dest, size), Logical(twin, "and", {}, dest, size), dest, size, TRUE, TRUE)
DoTst ==
    \E size \in Sizes : \E dest \in Operands(size) :
       Executed(Tst(cpu, dest, size), Logical(twin, "or", {}, dest, size), dest, size, FALSE, TRUE)
DoBitOp ==
    \E op \in {"btst", "bset", "bclr", "bchg"}, n \in Numbers :
       \E dest \in {Dn} \cup Operands(1) :
          Executed(BitOp(cpu, op, n, dest), Spelled(twin, op, n, dest),
                   dest, BitSize(dest), op # "btst", FALSE)
DoTas ==
    \E dest \in Operands(1), allow_write \in BOOLEAN :
       Executed(Tas(cpu, dest, allow_write), TasSpelled(twin, dest, allow_write),
                dest, 1, allow_write, FALSE)

Next == DoLogical \/ DoToCcr \/ DoNot \/ DoClr \/ DoTst \/ DoBitOp \/ DoTas
Spec == Init /\ [][Next]_vars

(***************************************************************************)
(* Properties.                                                             *)
(***************************************************************************)

\* Type correctness: no handler sets a bit outside the operand's container.
TypeOK == cpu \in Cpu /\ twin \in Cpu /\ steps \in 0 .. MaxSteps

\* Every handler does what the same instruction spelled with ANDI, ORI, EORI
\* and TST does, flags included: on bit numbers beyond the operand, on source
\* registers with bits above it, and for TAS with and without its write.
TwinsAgree == cpu = twin

\* No sequence of instructions changes a bit of Dn or of memory that is outside
\* the operands it wrote.
FieldsKept ==
    /\ cpu.reg \ touched.reg = start.reg \ touched.reg
    /\ cpu.mem \ touched.mem = start.mem \ touched.mem

\* After a logical instruction N and Z describe the operand as it now is where
\* it was stored, whatever surrounds it; V and C are clear.
FlagsDescribe == last # <<>> =>
    LET stored == EaValue(cpu, last[1], last[2]) \cap Low(last[2])
    IN  /\ "z" \in cpu.ccr <=> stored = {}
        /\ "n" \in cpu.ccr <=> Msb(last[2]) \in stored
        /\ cpu.ccr \cap {"v", "c"} = {}
=============================================================================
