---------------------------- MODULE QuarterSquare ----------------------------
(***************************************************************************)
(* The products everything rests on: sqtab_init builds the table of         *)
(* quarter squares (src/src/sqtab_init.s), ct_mul_8x8 multiplies two bytes  *)
(* with it (src/src/mul_8x8.s), and two loops fill the staging buffers      *)
(* mul_dma_lo and mul_dma_hi with a row of products: reu_mul_init's, for    *)
(* the row tables in the REU, and the on-chip generator of fe25519_mul,     *)
(* which makes only the entries the multiplication will read.               *)
(*                                                                          *)
(* The multiplicand a is baked into two immediate operands of ct_mul_8x8    *)
(* (smc_sum_a_imm and smc_diff_a_imm), which keep what the last caller left *)
(* there; entries of the staging buffers that are not written are stale.    *)
(* The lo and hi pages of a table are one table of words here.              *)
(***************************************************************************)
EXTENDS Integers

CONSTANTS
  B,       \* the values of a byte                                      (256)
  N        \* bytes of a field element                                   (32)

ASSUME ByteAssumption == B \in Nat /\ B >= 4 /\ N \in Nat \ {0}

Byte == 0 .. B - 1
Pair == 0 .. B * B - 1          \* what two bytes hold
Index == 0 .. 2 * B - 1         \* the table has two pages

VARIABLES
  pc,             \* "cold", "sqtab", "idle", "row", "onchip", "row done", "onchip done"
  tab,            \* sqtab_lo, sqtab_hi
  acc, i,         \* sq_acc (three bytes) and sq_i
  sumImm, diffImm,  \* the operands of smc_sum_a_imm and smc_diff_a_imm
  a, b,           \* reu_init_a or src1[i]; reu_init_b or fe_mul_j
  src2,           \* the second operand of fe25519_mul
  staged          \* mul_dma_lo, mul_dma_hi

vars == <<pc, tab, acc, i, sumImm, diffImm, a, b, src2, staged>>

Init ==
  /\ pc = "cold"
  /\ \E v \in {0, B * B - 1} : tab = [n \in Index |-> v] /\ staged = [n \in Byte |-> v]
  /\ acc = 0 /\ i = 0
  /\ sumImm = 0 /\ diffImm = 0
  /\ a = 0 /\ b = 0
  /\ src2 = [j \in 0 .. N - 1 |-> 0]

(***************************************************************************)
(* sqtab_init, by the recurrence (i + 1)^2 = i^2 + 2i + 1.  It may be       *)
(* called again, by another library's initialisation for instance.          *)
(***************************************************************************)
SqtabClears ==       \* faulty: the table is cleared before it is built
  /\ pc \in {"cold", "idle"}
  /\ tab' = [n \in Index |-> 0]
  /\ acc' = 0 /\ i' = 0
  /\ pc' = "sqtab"
  /\ UNCHANGED <<sumImm, diffImm, a, b, src2, staged>>

SqtabBegin ==
  /\ pc \in {"cold", "idle"}
  /\ acc' = 0 /\ i' = 0
  /\ pc' = "sqtab"
  /\ UNCHANGED <<tab, sumImm, diffImm, a, b, src2, staged>>

SqtabStep ==
  /\ pc = "sqtab"
  /\ tab' = [tab EXCEPT ![i] = (acc \div 4) % (B * B)]
  /\ acc' = (acc + ((2 * i + 1) % (B * B))) % (B * B * B)
  /\ i' = i + 1
  /\ pc' = IF i + 1 = 2 * B THEN "idle" ELSE "sqtab"
  /\ UNCHANGED <<sumImm, diffImm, a, b, src2, staged>>

(***************************************************************************)
(* ct_mul_8x8: sqtab[a + b] - sqtab[|a - b|].  The sum's page is patched    *)
(* into the load; the difference is b - a, complemented and incremented     *)
(* under the mask of its borrow.                                            *)
(***************************************************************************)
SumIndex(y) ==
  LET sum == sumImm + y
  IN  B * (sum \div B) + (sum % B)

AbsDiff(y) ==
  LET raw == (y - diffImm) % B
  IN  IF y >= diffImm THEN raw ELSE ((B - 1 - raw) + 1) % B

CtMul(y) == (tab[SumIndex(y)] - tab[AbsDiff(y)]) % (B * B)

(***************************************************************************)
(* The row loop of reu_mul_init: bake a, then b = 0 .. 255, until the       *)
(* counter wraps.                                                           *)
(***************************************************************************)
BakeSum(v)  == sumImm' = v /\ UNCHANGED diffImm      \* faulty: one site only

Bake(v) == sumImm' = v /\ diffImm' = v

RowBegin ==
  /\ pc = "idle"
  /\ \E v \in Byte : a' = v /\ Bake(v)
  /\ b' = 0
  /\ pc' = "row"
  /\ UNCHANGED <<tab, acc, i, src2, staged>>

RowStep ==
  /\ pc = "row"
  /\ staged' = [staged EXCEPT ![b] = CtMul(b)]
  /\ b' = (b + 1) % B
  /\ pc' = IF (b + 1) % B = 0 THEN "row done" ELSE "row"
  /\ UNCHANGED <<tab, acc, i, sumImm, diffImm, a, src2>>

(***************************************************************************)
(* The on-chip generator: bake a = src1[i], then j = 31 .. 0, an entry for  *)
(* each byte of src2.                                                       *)
(***************************************************************************)
OnchipBegin ==
  /\ pc = "idle"
  /\ \E v \in Byte : a' = v /\ Bake(v)
  /\ src2' \in [0 .. N - 1 -> Byte]
  /\ b' = N - 1
  /\ pc' = "onchip"
  /\ UNCHANGED <<tab, acc, i, staged>>

OnchipSkipZero ==    \* faulty: no entries are made for a = 0
  /\ pc = "onchip"
  /\ staged' = IF a = 0 THEN staged ELSE [staged EXCEPT ![src2[b]] = CtMul(src2[b])]
  /\ b' = IF b = 0 THEN 0 ELSE b - 1
  /\ pc' = IF b = 0 THEN "onchip done" ELSE "onchip"
  /\ UNCHANGED <<tab, acc, i, sumImm, diffImm, a, src2>>

OnchipStep ==
  /\ pc = "onchip"
  /\ staged' = [staged EXCEPT ![src2[b]] = CtMul(src2[b])]
  /\ b' = IF b = 0 THEN 0 ELSE b - 1
  /\ pc' = IF b = 0 THEN "onchip done" ELSE "onchip"
  /\ UNCHANGED <<tab, acc, i, sumImm, diffImm, a, src2>>

(* The row is stashed, or multiplied with. *)
RowUsed ==
  /\ pc \in {"row done", "onchip done"}
  /\ pc' = "idle"
  /\ UNCHANGED <<tab, acc, i, sumImm, diffImm, a, b, src2, staged>>

(* Between calls: another library's use of ct_mul_8x8, or of the buffers. *)
Sibling ==
  /\ pc = "idle"
  /\ \E v \in Byte : Bake(v)
  /\ \E v \in {0, B * B - 1} : staged' = [n \in Byte |-> v]
  /\ UNCHANGED <<pc, tab, acc, i, a, b, src2>>

Loop == SqtabStep \/ RowStep \/ OnchipStep

Next == SqtabBegin \/ RowBegin \/ OnchipBegin \/ Loop \/ RowUsed \/ Sibling

Spec == Init /\ [][Next]_vars

(***************************************************************************)
(* Properties.                                                              *)
(***************************************************************************)

(* Types: no index leaves its table, no byte and no word overflows. *)
TypeOK ==
  /\ pc \in {"cold", "sqtab", "idle", "row", "onchip", "row done", "onchip done"}
  /\ tab \in [Index -> Pair] /\ staged \in [Byte -> Pair]
  /\ acc \in 0 .. B * B * B - 1
  /\ i \in 0 .. 2 * B /\ (pc = "sqtab" => i < 2 * B)
  /\ sumImm \in Byte /\ diffImm \in Byte /\ a \in Byte
  /\ b \in Nat /\ (pc = "row" => b \in Byte) /\ (pc = "onchip" => b \in 0 .. N - 1)
  /\ src2 \in [0 .. N - 1 -> Byte]

(***************************************************************************)
(* The row the tables are filled from is the row of products of a, for      *)
(* every b, whatever the sites and the buffers held before.                 *)
(***************************************************************************)
RowRight == pc = "row done" => \A n \in Byte : staged[n] = a * n

(***************************************************************************)
(* The on-chip row is right in every entry fe25519_mul is going to read,    *)
(* though the others are stale: also for a = 0, and for repeated bytes.     *)
(***************************************************************************)
OnchipRight ==
  pc = "onchip done" => \A j \in 0 .. N - 1 : staged[src2[j]] = a * src2[j]

(***************************************************************************)
(* sqtab_init is idempotent ("calling it twice ... is wasteful but not      *)
(* incorrect"): once the table is built, a further call writes each entry   *)
(* as it is, and the table is usable all along.                             *)
(***************************************************************************)
Quarter(n) == (n * n) \div 4

TableBuilt == \A n \in Index : tab[n] = Quarter(n)

TableKept == [][TableBuilt => TableBuilt']_vars
===============================================================================
