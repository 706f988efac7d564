------------------------------- MODULE FieldOps -------------------------------
(***************************************************************************)
(* The field arithmetic of src/src/fe25519.s at the level of whole          *)
(* elements.                                                                *)
(*                                                                          *)
(* An element is what a 32-byte buffer can hold: a number of Word, that is  *)
(* 0 .. 2^256 - 1.  Most routines return some representative of the right   *)
(* residue class, not the canonical one; which of them do, and what they    *)
(* need of their operands to be right at all, is the contract the ladder is *)
(* written against.  The operators below keep the 256-bit wrap-arounds, the *)
(* single conditional correction of add and sub and the carries that the    *)
(* folds feed back or drop.                                                 *)
(*                                                                          *)
(* The prime is 2^k - C: for Curve25519, k = 255 and C = 19, so             *)
(* Half = 2^255, R = 2^256 = 2P + 38 and Fold = 38.                         *)
(***************************************************************************)
EXTENDS Integers

CONSTANTS
  P,     \* the prime, 2^255 - 19                                 (fe_p)
  C,     \* 2^255 - P                                             (19)
  A24    \* the curve constant (A - 2) / 4                        (121665)

Half == P + C
R    == 2 * Half
Fold == 2 * C

(***************************************************************************)
(* What the code relies on about its own constants: a second fold of a      *)
(* carry cannot carry again, in fe_reduce_wide and in fe25519_mul_a24, and  *)
(* 2^256 is below 3P.                                                       *)
(***************************************************************************)
ASSUME FieldAssumption ==
  /\ P \in Nat \ {0} /\ C \in Nat \ {0} /\ A24 \in Nat
  /\ Fold * (Fold + 1) <= R
  /\ Fold * (A24 + 1) <= R
  /\ Fold < P

Word  == 0 .. R - 1     \* what 32 bytes hold
Canon == 0 .. P - 1     \* the canonical representatives

(***************************************************************************)
(* fe25519_add: a 256-bit addition, then one subtraction of P, masked by    *)
(* (carry out) OR (sum >= P).                                               *)
(***************************************************************************)
Add(a, b) ==
  LET sum   == (a + b) % R
      carry == a + b >= R
  IN  IF carry \/ sum >= P THEN (sum - P) % R ELSE sum

(***************************************************************************)
(* fe25519_sub: a 256-bit subtraction, then one addition of P, masked by    *)
(* the borrow.                                                              *)
(***************************************************************************)
Sub(a, b) ==
  LET diff == (a - b) % R
  IN  IF a < b THEN (diff + P) % R ELSE diff

(***************************************************************************)
(* fe25519_reduce_final: two rounds of fe_cmp_p_ct and a masked subtraction.*)
(***************************************************************************)
SubPIfGe(v) == IF v >= P THEN v - P ELSE v

ReduceFinal(v) == SubPIfGe(SubPIfGe(v))

(***************************************************************************)
(* fe_reduce_wide: the 512-bit product is folded at 2^256 (weight Fold),    *)
(* the carry of that is folded again (section B and cascade 1), then the    *)
(* residual carry of that (section C and cascade 2); cascade 2's own carry  *)
(* is dropped.                                                              *)
(***************************************************************************)
FoldOnce(w) == (w % R) + Fold * (w \div R)

ReduceWide(w) == FoldOnce(FoldOnce(FoldOnce(w))) % R

(* fe25519_mul and fe25519_sqr: no reduce_final at the end. *)
Mul(a, b) == ReduceWide(a * b)

Sqr(a) == ReduceWide(a * a)

(***************************************************************************)
(* fe25519_mul_a24: the product with A24 is folded at 2^256 by the three    *)
(* stages, the carry out of byte 31 is folded once more (L32) with its own  *)
(* carry dropped, and the result is made canonical.                         *)
(***************************************************************************)
MulA24(a) == ReduceFinal(FoldOnce(FoldOnce(A24 * a)) % R)

(***************************************************************************)
(* Exact arithmetic in the field, on canonical representatives.             *)
(***************************************************************************)
FAdd(x, y) == (x + y) % P
FSub(x, y) == (x - y) % P
FMul(x, y) == (x * y) % P

(***************************************************************************)
(* The inverse, and 0 for 0: what raising to P - 2 yields.  fe25519_inv's   *)
(* addition chain, and that its exponent is P - 2, is module FeInv.         *)
(***************************************************************************)
FInv(x) == IF \E w \in Canon : FMul(w, x) = 1
             THEN CHOOSE w \in Canon : FMul(w, x) = 1
             ELSE 0

(* fe25519_inv ends with fe25519_reduce_final. *)
Inv(a) == FInv(a % P)

===============================================================================
