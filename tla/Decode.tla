------------------------------- MODULE Decode -------------------------------
(***************************************************************************)
(* Which of the 65536 operation words the executor accepts, as what, and   *)
(* how many extension words it fetches: the dispatcher of m68k_step with   *)
(* the checks on the effective address at the head of each handler.        *)
(***************************************************************************)
EXTENDS Integers

M68000 == 0
M68010 == 1

\* The fields of an operation word.
Bits(w, high, low) == (w \div 2^low) % 2^(high - low + 1)
Line(w) == Bits(w, 15, 12)
Top(w) == Bits(w, 11, 8)
Rx(w) == Bits(w, 11, 9)
Opmode(w) == Bits(w, 8, 6)
SizeBits(w) == Bits(w, 7, 6)
Mode(w) == Bits(w, 5, 3)
Ry(w) == Bits(w, 2, 0)

Sized(code) == CASE code = 0 -> "B" [] code = 1 -> "W" [] code = 2 -> "L" [] code = 3 -> "?"

(***************************************************************************)
(* Effective addresses: the categories the handlers test for, and the      *)
(* extension words fetched for one.                                        *)
(***************************************************************************)
Readable == ((0..6) \X (0..7)) \cup ({7} \X (0..4))
Data == Readable \ ({1} \X (0..7))
DataAlterable == Data \ ({7} \X (2..4))
MemoryAlterable == DataAlterable \ ({0} \X (0..7))
Control == ({2, 5, 6} \X (0..7)) \cup ({7} \X (0..3))

EaWords(m, r, size) ==
    CASE m <= 4 -> 0
      [] m \in {5, 6} \/ (m = 7 /\ r \in {0, 2, 3}) -> 1
      [] m = 7 /\ r = 1 -> 2
      [] m = 7 /\ r = 4 -> IF size = "L" THEN 2 ELSE 1
      [] OTHER -> 0

(***************************************************************************)
(* Outcomes: an exception without an instruction, or an instruction with   *)
(* its operand size ("-" if none), the extension words it fetches and the  *)
(* mode of its effective address (-1 if none).                             *)
(***************************************************************************)
Exception(vector) == [vector |-> vector, name |-> "none", size |-> "-", words |-> 0, ea |-> -1]
Illegal == Exception(4)
Does(name, size, words) ==
    [vector |-> 0, name |-> name, size |-> size, words |-> words, ea |-> -1]
\* An instruction on the effective address in the low six bits, if it is legal there.
On(w, legal, name, size, words) ==
    IF <<Mode(w), Ry(w)>> \in legal
    THEN [vector |-> 0, name |-> name, size |-> size,
          words |-> words + EaWords(Mode(w), Ry(w), size), ea |-> Mode(w)]
    ELSE Illegal
Unless(condition, outcome) == IF condition THEN Illegal ELSE outcome

(***************************************************************************)
(* Line 0: immediates, bit operations, MOVEP, MOVES.  ext tells whether    *)
(* the extension word of MOVES or MOVEC is a valid one.                    *)
(***************************************************************************)
ImmediateName ==
    [t \in {0, 2, 4, 6, 10, 12} |->
        CASE t = 0 -> "ORI" [] t = 2 -> "ANDI" [] t = 4 -> "SUBI"
          [] t = 6 -> "ADDI" [] t = 10 -> "EORI" [] t = 12 -> "CMPI"]
BitName(code) ==
    CASE code = 0 -> "BTST" [] code = 1 -> "BCHG" [] code = 2 -> "BCLR" [] code = 3 -> "BSET"
StatusImmediates == {\h003C, \h007C, \h023C, \h027C, \h0A3C, \h0A7C}

BtstStatic == Data \ {<<7, 4>>}
BitOperation(w) ==
    LET words == IF Top(w) = 8 THEN 1 ELSE 0
    IN  IF SizeBits(w) # 0 THEN On(w, DataAlterable, BitName(SizeBits(w)), "B", words)
        ELSE IF Top(w) = 8 THEN On(w, BtstStatic, "BTST", "B", words)
        ELSE On(w, Data, "BTST", "B", words)

Immediate(w) ==
    IF w \in StatusImmediates THEN Does(ImmediateName[Top(w)], "-", 1)
    ELSE Unless(SizeBits(w) = 3,
                On(w, DataAlterable, ImmediateName[Top(w)], Sized(SizeBits(w)),
                   IF SizeBits(w) = 2 THEN 2 ELSE 1))

Line0(w, model, ext) ==
    CASE Top(w) \in DOMAIN ImmediateName -> Immediate(w)
      [] Top(w) = 14 ->
            Unless(model < M68010 \/ SizeBits(w) = 3 \/ ~ext,
                   On(w, MemoryAlterable, "MOVES", Sized(SizeBits(w)), 1))
      [] Top(w) = 8 -> BitOperation(w)
      [] Top(w) % 2 = 1 /\ Mode(w) = 1 ->
            Does("MOVEP", IF Opmode(w) \in {5, 7} THEN "L" ELSE "W", 1)
      [] Top(w) % 2 = 1 /\ Mode(w) # 1 -> BitOperation(w)

(***************************************************************************)
(* Lines 1 to 3: MOVE.                                                     *)
(***************************************************************************)
MoveSize(w) == CASE Line(w) = 1 -> "B" [] Line(w) = 3 -> "W" [] Line(w) = 2 -> "L"
\* Faulty variant: the destination is not checked.
MoveAnywhere(w) ==
    On(w, Readable, "MOVE", MoveSize(w), EaWords(Bits(w, 8, 6), Rx(w), MoveSize(w)))
Move(w) ==
    LET mode == Bits(w, 8, 6)
    IN  Unless((mode = 7 /\ Rx(w) > 1) \/ (mode = 1 /\ MoveSize(w) = "B"),
               On(w, Readable, "MOVE", MoveSize(w), EaWords(mode, Rx(w), MoveSize(w))))

(***************************************************************************)
(* Line 4.                                                                 *)
(***************************************************************************)
Plain4E(w, model, ext) ==
    CASE w \in \h4E40..\h4E4F -> Does("TRAP", "-", 0)
      [] w \in \h4E50..\h4E57 -> Does("LINK", "-", 1)
      [] w \in \h4E58..\h4E5F -> Does("UNLK", "-", 0)
      [] w \in \h4E60..\h4E6F -> Does("MOVE", "-", 0)
      [] w = \h4E70 -> Does("RESET", "-", 0)
      [] w = \h4E71 -> Does("NOP", "-", 0)
      [] w = \h4E72 -> Does("STOP", "-", 1)
      [] w = \h4E73 -> Does("RTE", "-", 0)
      [] w = \h4E74 -> Unless(model < M68010, Does("RTD", "-", 1))
      [] w = \h4E75 -> Does("RTS", "-", 0)
      [] w = \h4E76 -> Does("TRAPV", "-", 0)
      [] w = \h4E77 -> Does("RTR", "-", 0)
      [] w \in {\h4E7A, \h4E7B} -> Unless(model < M68010 \/ ~ext, Does("MOVEC", "-", 1))
      [] OTHER -> Illegal

MovemEa(w) ==
    LET toRegisters == Bits(w, 10, 10) = 1
        legal == IF toRegisters THEN Control \cup ({3} \X (0..7))
                 ELSE MemoryAlterable \ ({3} \X (0..7))
    IN  On(w, legal, "MOVEM", IF SizeBits(w) = 3 THEN "L" ELSE "W", 1)

Unary(w, name) == On(w, DataAlterable, name, Sized(SizeBits(w)), 0)

Line4(w, model, ext) ==
    LET top == Top(w)
        size == SizeBits(w)
    IN  CASE Opmode(w) = 6 -> On(w, Data, "CHK", "W", 0)
          [] Opmode(w) = 7 -> On(w, Control, "LEA", "L", 0)
          [] Opmode(w) \in {4, 5} -> Illegal
          [] top = 0 /\ size = 3 -> On(w, DataAlterable, "MOVE", "W", 0)
          [] top = 2 /\ size = 3 ->
                Unless(model < M68010, On(w, DataAlterable, "MOVE", "W", 0))
          [] top \in {4, 6} /\ size = 3 -> On(w, Data, "MOVE", "W", 0)
          [] top = 0 /\ size # 3 -> Unary(w, "NEGX")
          [] top = 2 /\ size # 3 -> Unary(w, "CLR")
          [] top = 4 /\ size # 3 -> Unary(w, "NEG")
          [] top = 6 /\ size # 3 -> Unary(w, "NOT")
          [] top = 8 /\ size = 0 -> On(w, DataAlterable, "NBCD", "B", 0)
          [] top = 8 /\ size = 1 ->
                (CASE Mode(w) = 0 -> Does("SWAP", "-", 0)
                   [] Mode(w) = 1 -> Illegal    \* BKPT
                   [] OTHER -> On(w, Control, "PEA", "L", 0))
          [] top \in {8, 12} /\ size >= 2 ->
                IF Mode(w) = 0 THEN [Does("EXT", IF size = 3 THEN "L" ELSE "W", 0) EXCEPT !.ea = 0]
                ELSE MovemEa(w)
          [] top = 10 /\ size = 3 -> On(w, DataAlterable, "TAS", "B", 0)
          [] top = 10 /\ size # 3 -> Unary(w, "TST")
          [] top = 14 /\ size = 1 -> Plain4E(w, model, ext)
          [] top = 14 /\ size = 2 -> On(w, Control, "JSR", "L", 0)
          [] top = 14 /\ size = 3 -> On(w, Control, "JMP", "L", 0)
          [] <<top, size>> \in {<<12, 0>>, <<12, 1>>, <<14, 0>>} -> Illegal

(***************************************************************************)
(* Lines 5, 6, 7 and E.                                                    *)
(***************************************************************************)
Line5(w) ==
    CASE SizeBits(w) = 3 /\ Mode(w) = 1 -> Does("DBcc", "-", 1)
      [] SizeBits(w) = 3 /\ Mode(w) # 1 -> On(w, DataAlterable, "Scc", "B", 0)
      [] SizeBits(w) # 3 ->
            LET legal == DataAlterable \cup (IF SizeBits(w) = 0 THEN {} ELSE {1} \X (0..7))
            IN  On(w, legal, IF Bits(w, 8, 8) = 1 THEN "SUBQ" ELSE "ADDQ", Sized(SizeBits(w)), 0)

Line6(w) == Does(IF Top(w) = 1 THEN "BSR" ELSE "Bcc", "-", IF Bits(w, 7, 0) = 0 THEN 1 ELSE 0)

Line7(w) == Unless(Bits(w, 8, 8) = 1, Does("MOVEQ", "-", 0))

ShiftName(type, left) ==
    CASE type = 0 -> IF left THEN "ASL" ELSE "ASR" [] type = 1 -> IF left THEN "LSL" ELSE "LSR"
      [] type = 2 -> IF left THEN "ROXL" ELSE "ROXR" [] type = 3 -> IF left THEN "ROL" ELSE "ROR"
LineE(w) ==
    LET left == Bits(w, 8, 8) = 1
    IN  IF SizeBits(w) = 3 THEN On(w, MemoryAlterable, ShiftName(Bits(w, 10, 9), left), "W", 0)
        ELSE Does(ShiftName(Bits(w, 4, 3), left), Sized(SizeBits(w)), 0)

(***************************************************************************)
(* The two-operand lines.                                                  *)
(***************************************************************************)
OpSize(w) == Sized(Opmode(w) % 4)
ToRegister(w, name) ==
    LET legal == IF OpSize(w) = "B" THEN Data ELSE Readable
    IN  On(w, legal, name, OpSize(w), 0)
ToAddress(w, name) == On(w, Readable, name, IF Opmode(w) = 7 THEN "L" ELSE "W", 0)
Logical(w, name) ==
    IF Opmode(w) >= 4 THEN On(w, MemoryAlterable, name, OpSize(w), 0)
    ELSE On(w, Data, name, OpSize(w), 0)

\* Lines 8 and C: OR and AND, with division, multiplication, the decimal
\* operations and, in line C, EXG.
Line8(w) ==
    CASE Opmode(w) = 3 -> On(w, Data, "DIVU", "W", 0)
      [] Opmode(w) = 7 -> On(w, Data, "DIVS", "W", 0)
      [] Opmode(w) = 4 /\ Mode(w) <= 1 -> Does("SBCD", "B", 0)
      [] OTHER -> Logical(w, "OR")
IsExg(w) ==
    (Opmode(w) = 5 /\ Bits(w, 7, 3) \in {8, 9}) \/ (Opmode(w) = 6 /\ Bits(w, 7, 3) = 17)
LineC(w) ==
    CASE Opmode(w) = 3 -> On(w, Data, "MULU", "W", 0)
      [] Opmode(w) = 7 -> On(w, Data, "MULS", "W", 0)
      [] Opmode(w) = 4 /\ Mode(w) <= 1 -> Does("ABCD", "B", 0)
      [] IsExg(w) -> Does("EXG", "L", 0)
      [] OTHER -> Logical(w, "AND")

\* Lines 9 and D: SUB and ADD.
AddSub(w, name, toAddress, extended) ==
    CASE Opmode(w) \in {3, 7} -> ToAddress(w, toAddress)
      [] Opmode(w) \in 4..6 /\ Mode(w) <= 1 -> Does(extended, OpSize(w), 0)
      [] Opmode(w) \in 4..6 /\ Mode(w) > 1 -> On(w, MemoryAlterable, name, OpSize(w), 0)
      [] Opmode(w) \in 0..2 -> ToRegister(w, name)
Line9(w) == AddSub(w, "SUB", "SUBA", "SUBX")
LineD(w) == AddSub(w, "ADD", "ADDA", "ADDX")

LineB(w) ==
    CASE Opmode(w) \in {3, 7} -> ToAddress(w, "CMPA")
      [] Opmode(w) \in 4..6 /\ Mode(w) = 1 -> Does("CMPM", OpSize(w), 0)
      [] Opmode(w) \in 4..6 /\ Mode(w) # 1 -> On(w, DataAlterable, "EOR", OpSize(w), 0)
      [] Opmode(w) \in 0..2 -> ToRegister(w, "CMP")

Decoded(w, model, ext) ==
    CASE Line(w) = 0 -> Line0(w, model, ext)
      [] Line(w) \in 1..3 -> Move(w)
      [] Line(w) = 4 -> Line4(w, model, ext)
      [] Line(w) = 5 -> Line5(w)
      [] Line(w) = 6 -> Line6(w)
      [] Line(w) = 7 -> Line7(w)
      [] Line(w) = 8 -> Line8(w)
      [] Line(w) = 9 -> Line9(w)
      [] Line(w) = 10 -> Exception(10)
      [] Line(w) = 11 -> LineB(w)
      [] Line(w) = 12 -> LineC(w)
      [] Line(w) = 13 -> LineD(w)
      [] Line(w) = 14 -> LineE(w)
      [] Line(w) = 15 -> Exception(11)
=============================================================================
