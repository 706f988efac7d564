----------------------------- MODULE WideProduct -----------------------------
(***************************************************************************)
(* fe25519_mul and fe_reduce_wide (src/src/fe25519.s) byte by byte: the     *)
(* schoolbook product in the 64-byte buffer fe_wide with its chain of       *)
(* pending carries, and the three folds back to 32 bytes.                   *)
(*                                                                          *)
(* The chain replaced branches on secret carries by an unconditional step   *)
(* per body, and leaves carries out at two places where they are said to    *)
(* be zero; the cascades of the reduction run a fixed number of bytes and   *)
(* drop what comes out at the end.  Whether anything is lost is the         *)
(* question.  Operand bytes come as products already (module QuarterSquare  *)
(* is about those).                                                         *)
(***************************************************************************)
EXTENDS FeScratch

CONSTANT Unroll     \* bodies of the unrolled inner loop                    (4)

\* The reduction is written out for bytes 0 and 1.
UnrollFits == N >= 2 /\ Unroll \in Nat \ {0} /\ N % Unroll = 0

VARIABLE pending     \* mul_pending

wideVars == <<pc, src1, src2, wide, i, x, pending, carry, dst>>

WideInit ==
  /\ pc = "idle"
  /\ src1 \in Operands /\ src2 = src1
  /\ wide \in StaleWide
  /\ i = 0 /\ x = 0 /\ pending = 0 /\ carry = 0
  /\ dst = Zeros

(* The buffer is cleared (reu_clear_wide) and the loops are entered. *)
MulCall ==
  /\ pc = "idle"
  /\ src1' \in Operands /\ src2' \in Operands
  /\ wide' = [k \in 0 .. 2 * N - 1 |-> 0]
  /\ i' = 0 /\ x' = 0 /\ pending' = 0
  /\ pc' = "body"
  /\ UNCHANGED <<carry, dst>>

(***************************************************************************)
(* A body of the inner loop: the product of src1[i] and src2[x] is added at *)
(* i + x; its carry out and the pending carry are added one byte further,   *)
(* and the carry of that is the new pending one.                            *)
(***************************************************************************)
Product == src1[i] * src2[x]
LowSum  == wide[i + x] + (Product % B)
HighSum == wide[i + x + 1] + (Product \div B) + (LowSum \div B)

CarryOut == (HighSum \div B) + pending

Target == i + x + 2

NextBody(again) ==
  /\ x' = x + 1
  /\ pc' = IF x + 1 = N THEN "ripple" ELSE again
  /\ UNCHANGED <<src1, src2, i, carry, dst>>

(* Only the last body of the unrolled loop looks whether the target exists. *)
PhantomNarrow == x % Unroll = Unroll - 1 /\ x + 1 >= N - 1 - i   \* faulty: mul_bound = 31 - i

PhantomUnguarded == FALSE     \* faulty: the guard is not there

Phantom == x % Unroll = Unroll - 1 /\ x + 1 >= 2 * N - 1 - i

ChainForgets ==       \* faulty: the pending carry is overwritten, not added
  /\ pc = "body" /\ ~Phantom
  /\ LET sum == wide[Target] + (HighSum \div B)
     IN  /\ wide' = [wide EXCEPT ![i + x] = LowSum % B, ![i + x + 1] = HighSum % B,
                                 ![Target] = sum % B]
         /\ pending' = sum \div B
  /\ NextBody("body")

Chain ==
  /\ pc = "body" /\ ~Phantom
  /\ LET sum == wide[Target] + CarryOut
     IN  /\ wide' = [wide EXCEPT ![i + x] = LowSum % B, ![i + x + 1] = HighSum % B,
                                 ![Target] = sum % B]
         /\ pending' = sum \div B
  /\ NextBody("body")

(* The carry is dropped. *)
ChainSkip ==
  /\ pc = "body" /\ Phantom
  /\ wide' = [wide EXCEPT ![i + x] = LowSum % B, ![i + x + 1] = HighSum % B]
  /\ pending' = 0
  /\ NextBody("body")

(* The end of a row: the pending carry is rippled, if there is room. *)
Ripple ==
  /\ pc = "ripple"
  /\ wide' = IF i + 1 + x < 2 * N THEN Rippled(wide, i + 1 + x, 2 * N - 1, pending) ELSE wide
  /\ i' = i + 1 /\ x' = 0 /\ pending' = 0 /\ carry' = 0
  /\ pc' = IF i + 1 = N THEN "fold" ELSE "body"
  /\ UNCHANGED <<src1, src2, dst>>

(***************************************************************************)
(* fe_reduce_wide.  First fold: byte x of the low half receives Fold times  *)
(* byte x of the high half, and the running carry.                          *)
(***************************************************************************)
FoldByte ==
  /\ pc = "fold"
  /\ LET sum == wide[x] + Fold * wide[N + x] + carry
     IN  /\ wide' = [wide EXCEPT ![x] = sum % B]
         /\ carry' = (sum \div B) % B
  /\ x' = x + 1
  /\ pc' = IF x + 1 = N THEN "section_b" ELSE "fold"
  /\ UNCHANGED <<src1, src2, i, pending, dst>>

(* Second fold: Fold times the carry goes to bytes 0 and 1, cascade 1 to the rest. *)
SectionB ==
  LET low  == wide[0] + ((Fold * carry) % B)
      high == wide[1] + ((Fold * carry) \div B) + (low \div B)
      w    == [wide EXCEPT ![0] = low % B, ![1] = high % B]
  IN  /\ pc = "section_b"
      /\ wide' = Rippled(w, 2, N - 1, high \div B)
      /\ carry' = Carries(w, 2, high \div B)[N]
      /\ pc' = "section_c"
      /\ UNCHANGED <<src1, src2, i, x, pending, dst>>

SectionCBare ==       \* faulty: the carry of the last fold does not go beyond byte 0
  /\ pc = "section_c"
  /\ wide' = [wide EXCEPT ![0] = (wide[0] + Fold * carry) % B]
  /\ pc' = "copy"
  /\ UNCHANGED <<src1, src2, i, x, pending, carry, dst>>

(* Third fold: of cascade 1's carry; cascade 2's own carry is dropped. *)
SectionC ==
  LET low == wide[0] + Fold * carry
      w   == [wide EXCEPT ![0] = low % B]
  IN  /\ pc = "section_c"
      /\ wide' = Rippled(w, 1, N - 1, low \div B)
      /\ pc' = "copy"
      /\ UNCHANGED <<src1, src2, i, x, pending, carry, dst>>

(* The sources are read up to the last row, so dst may be either of them. *)
Copy ==
  /\ pc = "copy"
  /\ dst' = [k \in 0 .. N - 1 |-> wide[k]]
  /\ pc' = "done"
  /\ UNCHANGED <<src1, src2, wide, i, x, pending, carry>>

(* The caller takes the result; the buffers are used for something else. *)
WideReturn ==
  /\ pc = "done"
  /\ pc' = "idle"
  /\ src1' \in Operands /\ src2' = src1'
  /\ wide' \in StaleWide
  /\ dst' = Zeros
  /\ i' = 0 /\ x' = 0 /\ carry' = 0
  /\ UNCHANGED pending

Reduce == FoldByte \/ SectionB \/ SectionC \/ Copy

MulNext == MulCall \/ Chain \/ ChainSkip \/ Ripple \/ Reduce \/ WideReturn

(***************************************************************************)
(* Properties.                                                              *)
(***************************************************************************)

Value1 == Value(src1, 0, N - 1)
Value2 == Value(src2, 0, N - 1)

(***************************************************************************)
(* The loop invariant of the product: fe_wide and the pending carry, at its *)
(* weight, are the rows done and the part of the row under way.             *)
(***************************************************************************)
RowsExact ==
  pc \in {"body", "ripple"} =>
    LET done == IF i = 0 THEN 0 ELSE Value(src1, 0, i - 1) * Value2
        part == IF x = 0 THEN 0 ELSE src1[i] * Weight[i] * Value(src2, 0, x - 1)
    IN  Value(wide, 0, 2 * N - 1) + pending * Weight[Target] = done + part

(***************************************************************************)
(* No carry is lost where the code drops one or has no room for it: at the  *)
(* end of a row nothing is pending, and the body that skips its chain step  *)
(* has nothing to add.  ("mathematically zero", says the comment.)          *)
(***************************************************************************)
NoCarryDropped ==
  /\ pc = "ripple" => pending = 0
  /\ pc = "body" /\ Phantom => CarryOut = 0

(***************************************************************************)
(* Each stage of the reduction is one fold of the whole product, and the    *)
(* result is the representative FieldOps!Mul says, also for the operands    *)
(* whose folds carry out of byte 31 twice.                                  *)
(***************************************************************************)
FoldsExact ==
  LET product == Value1 * Value2
      low     == Value(wide, 0, N - 1)
  IN  /\ pc = "section_b" => low + carry * R = FoldOnce(product)
      /\ pc = "section_c" => low + carry * R = FoldOnce(FoldOnce(product))
      /\ pc = "copy"      => low = FoldOnce(FoldOnce(FoldOnce(product)))
      /\ pc = "done"      => Value(dst, 0, N - 1) = Mul(Value1, Value2)
===============================================================================
