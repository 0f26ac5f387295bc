------------------------------- MODULE Disasm -------------------------------
(***************************************************************************)
(* m68k_disasm: for each operation word the mnemonic ("???" if none), its  *)
(* size suffix ("-" if it prints none), whether the arguments could be     *)
(* printed, and the length in bytes it returns.                            *)
(***************************************************************************)
EXTENDS Integers, Decode

\* What is printed for one effective address, and the bytes it takes.
EaKnown(m, r) == ~(m = 7 /\ r > 4)
\* Faulty variant: every immediate takes one word.
disasm_eaShort(m, r, size) ==
    CASE m <= 4 \/ (m = 7 /\ r > 4) -> 0
      [] m \in {5, 6} \/ (m = 7 /\ r \in {0, 2, 3, 4}) -> 2
      [] m = 7 /\ r = 1 -> 4
disasm_ea(m, r, size) ==
    CASE m <= 4 \/ (m = 7 /\ r > 4) -> 0
      [] m \in {5, 6} \/ (m = 7 /\ r \in {0, 2, 3}) -> 2
      [] m = 7 /\ r = 1 -> 4
      [] m = 7 /\ r = 4 -> IF size = "L" THEN 4 ELSE 2

Unknown == [op |-> "???", size |-> "-", args |-> TRUE, len |-> 2]
\* A mnemonic with words after the operation word and no effective address.
Text(op, size, words) == [op |-> op, size |-> size, args |-> TRUE, len |-> 2 + 2 * words]
\* A mnemonic with an effective address of the given size after some words.
TextEa(w, op, suffix, size, words) ==
    [op |-> op, size |-> suffix, args |-> EaKnown(Mode(w), Ry(w)),
     len |-> 2 + 2 * words + disasm_ea(Mode(w), Ry(w), size)]
\* Size code 3 prints ".?" and is taken for a long.
SizeOfCode(code) == IF code = 3 THEN "L" ELSE Sized(code)
TextSized(w, op, words) ==
    TextEa(w, op, Sized(SizeBits(w)), SizeOfCode(SizeBits(w)), words)

decode_move(w) ==
    LET size == MoveSize(w)
        m == Bits(w, 8, 6)
    IN  [op |-> "MOVE", size |-> size, args |-> EaKnown(Mode(w), Ry(w)) /\ EaKnown(m, Rx(w)),
         len |-> 2 + disasm_ea(Mode(w), Ry(w), size) + disasm_ea(m, Rx(w), size)]

decode_branch(w) ==
    Text(IF Top(w) = 1 THEN "BSR" ELSE "Bcc", "-", IF Bits(w, 7, 0) = 0 THEN 1 ELSE 0)

\* Opmodes 3 and 7 return a length of 0.
decode_std_arith(w, op) ==
    IF Opmode(w) \in {3, 7} THEN [Unknown EXCEPT !.len = 0]
    ELSE TextEa(w, op, OpSize(w), OpSize(w), 0)

decode_imm_arith(w, op) ==
    TextSized(w, op, IF SizeOfCode(SizeBits(w)) = "L" THEN 2 ELSE 1)

Disasm0(w) ==
    CASE Top(w) = 8 -> TextEa(w, BitName(SizeBits(w)), "-", "B", 1)
      [] Top(w) % 2 = 1 /\ Mode(w) = 1 ->
            Text("MOVEP", IF Opmode(w) \in {5, 7} THEN "L" ELSE "W", 1)
      [] Top(w) % 2 = 1 /\ Mode(w) # 1 -> TextEa(w, BitName(SizeBits(w)), "-", "B", 0)
      [] Top(w) = 14 -> IF SizeBits(w) = 3 THEN Unknown ELSE TextSized(w, "MOVES", 1)
      [] Top(w) \in DOMAIN ImmediateName ->
            IF w \in StatusImmediates THEN Text(ImmediateName[Top(w)], "-", 1)
            ELSE decode_imm_arith(w, ImmediateName[Top(w)])

\* An unknown control register is an argument that cannot be printed.
Disasm4E(w, ext) ==
    CASE w \in \h4E40..\h4E4F -> Text("TRAP", "-", 0)
      [] w \in \h4E50..\h4E57 -> Text("LINK", "-", 1)
      [] w \in \h4E58..\h4E5F -> Text("UNLK", "-", 0)
      [] w \in \h4E60..\h4E6F -> Text("MOVE", "-", 0)
      [] w = \h4E70 -> Text("RESET", "-", 0)
      [] w = \h4E71 -> Text("NOP", "-", 0)
      [] w = \h4E72 -> Text("STOP", "-", 1)
      [] w = \h4E73 -> Text("RTE", "-", 0)
      [] w = \h4E74 -> Text("RTD", "-", 1)
      [] w = \h4E75 -> Text("RTS", "-", 0)
      [] w = \h4E76 -> Text("TRAPV", "-", 0)
      [] w = \h4E77 -> Text("RTR", "-", 0)
      [] w \in {\h4E7A, \h4E7B} -> [Text("MOVEC", "-", 1) EXCEPT !.args = ext]
      [] OTHER -> Unknown

Disasm4(w, ext) ==
    LET top == Top(w)
        size == SizeBits(w)
        long == IF size = 3 THEN "L" ELSE "W"
    IN  CASE Opmode(w) = 6 -> TextEa(w, "CHK", "-", "W", 0)
          [] Opmode(w) = 7 ->
                IF <<Mode(w), Ry(w)>> \in Control THEN TextEa(w, "LEA", "-", "L", 0) ELSE Unknown
          [] Opmode(w) \in {4, 5} -> Unknown
          [] top \in {0, 2, 4, 6} /\ size = 3 -> TextEa(w, "MOVE", "-", "W", 0)
          [] top = 0 /\ size # 3 -> TextSized(w, "NEGX", 0)
          [] top = 2 /\ size # 3 -> TextSized(w, "CLR", 0)
          [] top = 4 /\ size # 3 -> TextSized(w, "NEG", 0)
          [] top = 6 /\ size # 3 -> TextSized(w, "NOT", 0)
          [] top = 8 /\ size = 0 -> TextEa(w, "NBCD", "-", "B", 0)
          [] top = 8 /\ size = 1 ->
                (CASE Mode(w) = 0 -> Text("SWAP", "-", 0)
                   [] Mode(w) = 1 -> Text("BKPT", "-", 0)
                   [] OTHER -> TextEa(w, "PEA", "-", "L", 0))
          [] top \in {8, 12} /\ size >= 2 ->
                IF Mode(w) = 0 THEN Text("EXT", long, 0) ELSE TextEa(w, "MOVEM", long, long, 1)
          [] top = 10 /\ size = 3 -> TextEa(w, "TAS", "-", "B", 0)
          [] top = 10 /\ size # 3 -> TextSized(w, "TST", 0)
          [] top = 14 /\ size = 1 -> Disasm4E(w, ext)
          [] top = 14 /\ size = 2 -> TextEa(w, "JSR", "-", "L", 0)
          [] top = 14 /\ size = 3 -> TextEa(w, "JMP", "-", "L", 0)
          [] <<top, size>> \in {<<12, 0>>, <<12, 1>>, <<14, 0>>} -> Unknown

Disasm5(w) ==
    CASE SizeBits(w) = 3 /\ Mode(w) = 1 -> Text("DBcc", "-", 1)
      [] SizeBits(w) = 3 /\ Mode(w) # 1 -> TextEa(w, "Scc", "-", "B", 0)
      [] SizeBits(w) # 3 -> TextSized(w, IF Bits(w, 8, 8) = 1 THEN "SUBQ" ELSE "ADDQ", 0)

\* Registers or predecrements, with bits 5 and 4 clear.
Pair(w) == Bits(w, 8, 8) = 1 /\ Bits(w, 5, 4) = 0
\* Faulty variant: the signed division is not singled out.
Disasm8NoDivs(w) ==
    IF Opmode(w) = 3 THEN TextEa(w, "DIVU", "W", "W", 0)
    ELSE IF Opmode(w) = 4 /\ Pair(w) THEN Text("SBCD", "-", 0) ELSE decode_std_arith(w, "OR")
Disasm8(w) ==
    CASE Opmode(w) = 3 -> TextEa(w, "DIVU", "W", "W", 0)
      [] Opmode(w) = 7 -> TextEa(w, "DIVS", "W", "W", 0)
      [] Opmode(w) = 4 /\ Pair(w) -> Text("SBCD", "-", 0)
      [] OTHER -> decode_std_arith(w, "OR")
DisasmC(w) ==
    CASE Opmode(w) = 3 -> TextEa(w, "MULU", "W", "W", 0)
      [] Opmode(w) = 7 -> TextEa(w, "MULS", "W", "W", 0)
      [] Opmode(w) = 4 /\ Pair(w) -> Text("ABCD", "-", 0)
      [] Opmode(w) \in {5, 6} /\ Pair(w) -> Text("EXG", "-", 0)
      [] OTHER -> decode_std_arith(w, "AND")
DisasmAddSub(w, op, toAddress, extended) ==
    LET size == IF Opmode(w) = 3 THEN "W" ELSE "L"
    IN  CASE Opmode(w) \in {3, 7} -> TextEa(w, toAddress, size, size, 0)
          [] Opmode(w) \in 4..6 /\ Pair(w) -> Text(extended, OpSize(w), 0)
          [] OTHER -> decode_std_arith(w, op)
DisasmB(w) ==
    LET size == IF Opmode(w) = 3 THEN "W" ELSE "L"
    IN  CASE Opmode(w) \in {3, 7} -> TextEa(w, "CMPA", size, size, 0)
          [] Opmode(w) \in 4..6 /\ Mode(w) = 1 -> Text("CMPM", OpSize(w), 0)
          [] Opmode(w) \in 4..6 /\ Mode(w) # 1 -> decode_std_arith(w, "EOR")
          [] Opmode(w) \in 0..2 -> decode_std_arith(w, "CMP")
DisasmE(w) ==
    LET left == Bits(w, 8, 8) = 1
    IN  IF SizeBits(w) = 3 THEN TextEa(w, ShiftName(Bits(w, 10, 9), left), "W", "W", 0)
        ELSE Text(ShiftName(Bits(w, 4, 3), left), Sized(SizeBits(w)), 0)

m68k_disasm(w, ext) ==
    CASE Line(w) = 0 -> Disasm0(w)
      [] Line(w) \in 1..3 -> decode_move(w)
      [] Line(w) = 4 -> Disasm4(w, ext)
      [] Line(w) = 5 -> Disasm5(w)
      [] Line(w) = 6 -> decode_branch(w)
      [] Line(w) = 7 -> Text("MOVEQ", "-", 0)
      [] Line(w) = 8 -> Disasm8(w)
      [] Line(w) = 9 -> DisasmAddSub(w, "SUB", "SUBA", "SUBX")
      [] Line(w) = 11 -> DisasmB(w)
      [] Line(w) = 12 -> DisasmC(w)
      [] Line(w) = 13 -> DisasmAddSub(w, "ADD", "ADDA", "ADDX")
      [] Line(w) = 14 -> DisasmE(w)
      [] Line(w) \in {10, 15} -> Unknown
=============================================================================
