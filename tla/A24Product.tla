------------------------------ MODULE A24Product ------------------------------
(***************************************************************************)
(* fe25519_mul_a24 (src/src/fe25519.s) byte by byte: the product of a field *)
(* element with the three-byte curve constant 121665, made from a table of  *)
(* four-byte products, then folded in three stages that hand a carry on     *)
(* through fe_carry, and once more for the carry out of the top byte.       *)
(*                                                                          *)
(* What comes out of a byte is absorbed by the two bytes above it, by a     *)
(* bridge between two stages, by a ripple, or is dropped because it is said *)
(* to be zero.  The fold of the top carry (L32) is there because one such   *)
(* saying was wrong once.                                                   *)
(***************************************************************************)
EXTENDS FeScratch

\* What the two tables and the three stages are made for.
A24Fits == N >= 5 /\ A24 < 2 * B * B

a24Vars == <<pc, src1, dst, wide, i, carry>>

A24Init ==
  /\ pc = "idle" /\ src1 = Zeros /\ dst = Zeros
  /\ wide \in StaleWide
  /\ i = 0 /\ carry = 0

(* Bytes 0 .. 36 of fe_wide are cleared; what is above is left as it is. *)
ClearNarrow ==        \* faulty: only bytes 0 .. 34, what the product needs
  [k \in 0 .. 2 * N - 1 |-> IF k <= N + 2 THEN 0 ELSE wide[k]]

Clear == [k \in 0 .. 2 * N - 1 |-> IF k <= N + 4 THEN 0 ELSE wide[k]]

A24Call ==
  /\ pc = "idle"
  /\ src1' \in Operands
  /\ wide' = Clear
  /\ i' = 0
  /\ pc' = "add_product"
  /\ UNCHANGED <<dst, carry>>

(***************************************************************************)
(* Byte i: the tables' four bytes are added at i, the carry is absorbed by  *)
(* bytes i + 4 and i + 5, and what comes out of that is dropped.            *)
(***************************************************************************)
Entry(v, n) == ((A24 * v) \div Weight[n]) % B         \* a24_b0 .. a24_b3

Added(w, from, y) ==
  LET c[n \in 0 .. 6] ==                          \* the carry into byte from + n
        IF n = 0 THEN 0
        ELSE (w[from + n - 1] + (IF n <= 4 THEN Entry(y, n - 1) ELSE 0) + c[n - 1]) \div B
  IN  [k \in DOMAIN w |->
         IF k \in from .. from + 5
           THEN (w[k] + (IF k < from + 4 THEN Entry(y, k - from) ELSE 0) + c[k - from]) % B
           ELSE w[k]]

AddProduct ==
  /\ pc = "add_product"
  /\ wide' = Added(wide, i, src1[i])
  /\ IF i + 1 < N
       THEN i' = i + 1 /\ UNCHANGED <<pc, carry>>
       ELSE i' = 0 /\ pc' = "stage" /\ carry' = 0
  /\ UNCHANGED <<src1, dst>>

(***************************************************************************)
(* Stage i (0, 1, 2): a bridge adds fe_carry to byte i + 1, before the      *)
(* second stage and the third; then Fold times byte 32 + i is added at byte *)
(* i, and fe_carry is what is owed to byte i + 2.                           *)
(***************************************************************************)
BridgeKeepsCarry ==   \* faulty: fe_carry is not replaced by the bridge's own carry
  LET sum == wide[i + 1] + carry
  IN  IF i = 0
        THEN [w |-> wide, owed |-> carry]
        ELSE [w |-> [wide EXCEPT ![i + 1] = sum % B], owed |-> carry + (sum \div B)]

Bridge ==
  LET sum == wide[i + 1] + carry
  IN  IF i = 0
        THEN [w |-> wide, owed |-> carry]
        ELSE [w |-> [wide EXCEPT ![i + 1] = sum % B], owed |-> sum \div B]

Stage ==
  LET w    == Bridge.w
      low  == w[i] + ((Fold * w[N + i]) % B)
      high == w[i + 1] + ((Fold * w[N + i]) \div B) + (low \div B)
  IN  /\ pc = "stage"
      /\ wide' = [w EXCEPT ![i] = low % B, ![i + 1] = high % B]
      /\ carry' = Bridge.owed + (high \div B)
      /\ i' = i + 1
      /\ pc' = IF i + 1 = 3 THEN "final_ripple" ELSE "stage"
      /\ UNCHANGED <<src1, dst>>

(* fe_carry goes to byte 4 and is rippled to byte 31. *)
FinalRipple ==
  /\ pc = "final_ripple"
  /\ wide' = Rippled(wide, 4, N - 1, carry)
  /\ carry' = Carries(wide, 4, carry)[N]
  /\ pc' = "top_fold"
  /\ UNCHANGED <<src1, dst, i>>

TopFoldDropped ==     \* faulty: the carry out of byte 31 is dropped (before v0.12)
  /\ pc = "top_fold"
  /\ pc' = "copy_reduced"
  /\ UNCHANGED <<src1, dst, wide, i, carry>>

(* L32: the carry out of byte 31 is folded in; this ripple's own is dropped. *)
TopFold ==
  LET low == wide[0] + Fold * carry
  IN  /\ pc = "top_fold"
      /\ wide' = Rippled([wide EXCEPT ![0] = low % B], 1, N - 1, low \div B)
      /\ pc' = "copy_reduced"
      /\ UNCHANGED <<src1, dst, i, carry>>

(* The copy, and fe25519_reduce_final on the destination. *)
Digits(v) == [k \in 0 .. N - 1 |-> (v \div Weight[k]) % B]

CopyReduced ==
  /\ pc = "copy_reduced"
  /\ dst' = Digits(ReduceFinal(Value(wide, 0, N - 1)))
  /\ pc' = "reduced"
  /\ UNCHANGED <<src1, wide, i, carry>>

(* The caller takes the result; the buffers are used for something else. *)
A24Return ==
  /\ pc = "reduced"
  /\ pc' = "idle"
  /\ src1' = Zeros /\ dst' = Zeros
  /\ wide' \in StaleWide
  /\ i' = 0 /\ carry' = 0

A24Next ==
  \/ A24Call \/ AddProduct \/ Stage \/ FinalRipple \/ TopFold \/ CopyReduced \/ A24Return

A24Spec == A24Init /\ [][A24Next]_a24Vars

(***************************************************************************)
(* Properties.                                                              *)
(***************************************************************************)

(* Types: no byte overflows, and no index leaves fe_wide. *)
A24TypeOK ==
  /\ pc \in {"idle", "add_product", "stage", "final_ripple", "top_fold", "copy_reduced",
             "reduced"}
  /\ src1 \in Operands \cup {Zeros} /\ dst \in Elements
  /\ wide \in [0 .. 2 * N - 1 -> Byte]
  /\ i \in 0 .. N /\ carry \in 0 .. 2
  /\ pc = "add_product" => i + 5 < 2 * N

Source == Value(src1, 0, N - 1)

(***************************************************************************)
(* The product is exact while it grows, and the two bytes above it that     *)
(* only absorb carries stay zero: none is lost there.  After the three      *)
(* stages, with fe_carry owed to byte 4, the low 32 bytes are one fold of   *)
(* the product; the fold of the top carry makes them the second, which no   *)
(* longer reaches 2^256; the result is the canonical value FieldOps!MulA24  *)
(* says, also where the first fold wraps.                                   *)
(***************************************************************************)
A24Exact ==
  LET product == Value(wide, 0, N + 2)
      low     == Value(wide, 0, N - 1)
  IN  /\ pc = "add_product" =>
           product = IF i = 0 THEN 0 ELSE A24 * Value(src1, 0, i - 1)
      /\ pc = "stage" /\ i = 0 => product = A24 * Source
      /\ pc \in {"add_product", "stage"} => wide[N + 3] = 0 /\ wide[N + 4] = 0
      /\ pc = "final_ripple" => low + carry * Weight[4] = FoldOnce(A24 * Source)
      /\ pc = "top_fold"     => low + carry * R = FoldOnce(A24 * Source)
      /\ pc = "copy_reduced" => low = FoldOnce(FoldOnce(A24 * Source))
      /\ pc = "reduced"      => Value(dst, 0, N - 1) = MulA24(Source)
===============================================================================
