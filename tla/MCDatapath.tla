----------------------------- MODULE MCDatapath -----------------------------
(***************************************************************************)
(* Narrow registers, so that every operand can be tried: limbs of two bits *)
(* in chains of three, with clean and dirty upper register halves (-1      *)
(* stands for sign-extended contents), all digits of a decimal byte, five  *)
(* bits to shift, words of four bits to multiply, bytes of two bits for    *)
(* the logic, with patterns inside and outside of every operand.           *)
(***************************************************************************)
EXTENDS Datapath

DirtyUpper == {-1, 0, 1}
FewPatterns == {{}, {0, 3, 4, 7}, {1, 2, 6}}
=============================================================================
