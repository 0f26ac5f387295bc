------------------------------- MODULE Listing -------------------------------
(***************************************************************************)
(* A host that lists every instruction with m68k_disasm before it executes *)
(* it with m68k_step: do the disassembler and the executor, two decoders   *)
(* of the same operation words written separately, agree?                  *)
(***************************************************************************)
EXTENDS Integers, Disasm

CONSTANTS OpWords, Models   \* the operation words and the models looked at

ASSUME ListingAssumption == OpWords \subseteq 0..65535 /\ Models \subseteq {M68000, M68010}

VARIABLES word, model,
          ext,       \* is the extension word of MOVES or MOVEC a valid one?
          text,      \* what m68k_disasm returned, or "none"
          done       \* what m68k_step did, or "none"
vars == <<word, model, ext, text, done>>

None == [name |-> "none yet"]
HasControlWord(w) == w \in {\h4E7A, \h4E7B} \/ Bits(w, 15, 8) = 14

Init ==
    /\ word \in OpWords /\ model \in Models
    /\ ext \in (IF HasControlWord(word) THEN BOOLEAN ELSE {TRUE})
    /\ text = None /\ done = None

Disassemble ==
    /\ text = None /\ text' = m68k_disasm(word, ext)
    /\ UNCHANGED <<word, model, ext, done>>
Step ==
    /\ text # None /\ done = None
    /\ done' = Decoded(word, model, ext)
    /\ UNCHANGED <<word, model, ext, text>>

Next == Disassemble \/ Step
Spec == Init /\ [][Next]_vars

(***************************************************************************)
(* Properties.                                                             *)
(***************************************************************************)
Accepted == done # None /\ done.vector = 0

\* Every encoding the executor accepts disassembles to a mnemonic, of the
\* instruction that is executed, with the operand size that is used, and with
\* arguments that can all be printed.
SameInstruction ==
    Accepted => text.op = done.name /\ text.args /\ text.size \in {"-", done.size}

\* The length m68k_disasm returns is the number of bytes the executor fetches for
\* an instruction it accepts, so a listing that follows the lengths stays on the
\* boundaries at which instructions are executed; and accepted or not, it leads
\* forward, to an even address, over no more than the longest instruction.
SameLength ==
    /\ Accepted => text.len = 2 + 2 * done.words
    /\ text # None => text.len \in {2, 4, 6, 8, 10}
==============================================================================
