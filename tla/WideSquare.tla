------------------------------ MODULE WideSquare ------------------------------
(***************************************************************************)
(* fe25519_sqr (src/src/fe25519.s) byte by byte.  It shares fe_wide, the    *)
(* reduction and most of its counters with fe25519_mul (module WideProduct),*)
(* and has an inner loop of its own: each cross product is taken once and   *)
(* doubled, which makes it 17 bits wide, in pairs of bodies A and B; rows   *)
(* of odd length end on a phantom byte.  The squares of the bytes are added *)
(* in a second loop.                                                        *)
(*                                                                          *)
(* Rows below SQR_DMA_K take the doubled products from the REU (module      *)
(* ReuRows), the others compute them; the bodies of the two paths differ in *)
(* the guard of body B only.                                                *)
(*                                                                          *)
(* WideSpec is about both routines, called in any order.                    *)
(***************************************************************************)
EXTENDS WideProduct

CONSTANT SqrDmaKs     \* the values of SQR_DMA_K of the builds         ({0, 22})

SqrFits == SqrDmaKs \subseteq 0 .. N - 2

VARIABLES
  dmaK,        \* SQR_DMA_K
  pairs        \* fe_sqr_pairs

sqrVars == <<wideVars, dmaK, pairs>>

SqrInit == WideInit /\ dmaK \in SqrDmaKs /\ pairs = 0

(* The pairs of row r; the last body B of a row of odd length is a phantom. *)
PairsFloor(r) == (N - 1 - r) \div 2      \* faulty: the odd byte is left out

PairsOf(r) == (N - r) \div 2

(* fe_wide is cleared, and src1 copied to mul_src2_buf, which src2 stands for. *)
SqrCall ==
  /\ pc = "idle"
  /\ \E v \in Operands : src1' = v /\ src2' = v
  /\ wide' = [k \in 0 .. 2 * N - 1 |-> 0]
  /\ i' = 0 /\ x' = 1 /\ pairs' = PairsOf(0) /\ pending' = 0
  /\ pc' = "body_a"
  /\ UNCHANGED <<carry, dst, dmaK>>

(***************************************************************************)
(* A body: twice the product of a[i] and a[x] is added at i + x.  Its carry *)
(* out, its 17th bit and the pending carry go one byte further.  Byte 32 of *)
(* mul_src2_buf is zero and is never written.                               *)
(***************************************************************************)
Padded(k) == IF k = N THEN 0 ELSE src2[k]

Twice == 2 * src1[i] * Padded(x)

SqrLow  == wide[i + x] + (Twice % B)
SqrHigh == wide[i + x + 1] + ((Twice \div B) % B) + (SqrLow \div B)

CombinedDropsBit == (SqrHigh \div B) + pending     \* faulty: without the 17th bit

Combined == (SqrHigh \div B) + (Twice \div (B * B)) + pending

SqrBodyChained ==
  LET sum == wide[Target] + Combined
  IN  /\ wide' = [wide EXCEPT ![i + x] = SqrLow % B, ![i + x + 1] = SqrHigh % B,
                              ![Target] = sum % B]
      /\ pending' = sum \div B

BodyA ==
  /\ pc = "body_a"
  /\ SqrBodyChained
  /\ x' = x + 1
  /\ pc' = "body_b"
  /\ UNCHANGED <<src1, src2, i, carry, dst, dmaK, pairs>>

NextPair ==
  /\ x' = x + 1 /\ pairs' = pairs - 1
  /\ pc' = IF pairs - 1 = 0 THEN "sqr_ripple" ELSE "body_a"
  /\ UNCHANGED <<src1, src2, i, carry, dst, dmaK>>

(* Only the computed rows look whether the target exists: cpx sqr_bound. *)
NoTargetEarly == i >= dmaK /\ x + 1 >= N - 1 - i         \* faulty: sqr_bound = 31 - i

NoTarget == i >= dmaK /\ x + 1 >= 2 * N - 1 - i

BodyB ==
  /\ pc = "body_b" /\ ~NoTarget
  /\ SqrBodyChained
  /\ NextPair

(* The carry is dropped. *)
BodyBSkip ==
  /\ pc = "body_b" /\ NoTarget
  /\ wide' = [wide EXCEPT ![i + x] = SqrLow % B, ![i + x + 1] = SqrHigh % B]
  /\ pending' = 0
  /\ NextPair

(* The end of a row; the last row of cross products is N - 2. *)
SqrRipple ==
  /\ pc = "sqr_ripple"
  /\ wide' = IF i + 1 + x < 2 * N THEN Rippled(wide, i + 1 + x, 2 * N - 1, pending) ELSE wide
  /\ IF i + 1 < N - 1
       THEN pc' = "body_a" /\ i' = i + 1 /\ x' = i + 2 /\ pairs' = PairsOf(i + 1)
       ELSE pc' = "diagonal" /\ i' = 0 /\ UNCHANGED <<x, pairs>>
  /\ pending' = 0
  /\ UNCHANGED <<src1, src2, carry, dst, dmaK>>

(***************************************************************************)
(* The second loop: a[i]^2 is added at 2i, and its carry rippled through    *)
(* the rest of the buffer.                                                  *)
(***************************************************************************)
DiagonalLow  == wide[2 * i] + ((src1[i] * src1[i]) % B)
DiagonalHigh == wide[2 * i + 1] + ((src1[i] * src1[i]) \div B) + (DiagonalLow \div B)

DiagonalUnrippled ==      \* faulty: the carry goes one byte far
  /\ pc = "diagonal"
  /\ LET w == [wide EXCEPT ![2 * i] = DiagonalLow % B, ![2 * i + 1] = DiagonalHigh % B]
     IN  wide' = IF i + 1 < N THEN Rippled(w, 2 * i + 2, 2 * i + 2, DiagonalHigh \div B) ELSE w
  /\ pending' = DiagonalHigh \div B
  /\ i' = i + 1 /\ x' = 0 /\ carry' = 0
  /\ pc' = IF i + 1 = N THEN "fold" ELSE "diagonal"
  /\ UNCHANGED <<src1, src2, dst, dmaK, pairs>>

Diagonal ==
  /\ pc = "diagonal"
  /\ LET w == [wide EXCEPT ![2 * i] = DiagonalLow % B, ![2 * i + 1] = DiagonalHigh % B]
     IN  wide' = IF i + 1 < N THEN Rippled(w, 2 * i + 2, 2 * N - 1, DiagonalHigh \div B) ELSE w
  /\ pending' = DiagonalHigh \div B
  /\ i' = i + 1 /\ x' = 0 /\ carry' = 0
  /\ pc' = IF i + 1 = N THEN "fold" ELSE "diagonal"
  /\ UNCHANGED <<src1, src2, dst, dmaK, pairs>>

(* fe_reduce_wide, the copy to the destination and the return are among     *)
(* fe25519_mul's actions.                                                   *)
SqrNext == SqrCall \/ BodyA \/ BodyB \/ BodyBSkip \/ SqrRipple \/ Diagonal

WideNext == SqrNext \/ (MulNext /\ UNCHANGED <<dmaK, pairs>>)

WideSpec == SqrInit /\ [][WideNext]_sqrVars

(***************************************************************************)
(* Properties.                                                              *)
(***************************************************************************)

(* Types: no byte overflows, no index leaves fe_wide or the padded operand. *)
WideTypeOK ==
  /\ pc \in {"idle", "body", "ripple", "body_a", "body_b", "sqr_ripple", "diagonal", "fold",
             "section_b", "section_c", "copy", "done"}
  /\ src1 \in Operands /\ src2 \in Operands /\ dst \in Elements
  /\ wide \in [0 .. 2 * N - 1 -> Byte]
  /\ i \in 0 .. N /\ x \in 0 .. N + 1 /\ pairs \in 0 .. N \div 2
  /\ pc = "body" => i < N /\ x < N /\ (~Phantom => Target < 2 * N)
  /\ pc = "body_a" => i < N - 1 /\ x < N /\ Target < 2 * N /\ pairs > 0
  /\ pc = "body_b" => x <= N /\ i + x + 1 < 2 * N /\ (~NoTarget => Target < 2 * N)
  /\ pending \in {0, 1} /\ carry \in Byte

(***************************************************************************)
(* The loop invariants of both loops.  During the first, fe_wide and the    *)
(* pending carry are twice the cross products taken so far, each once; then *)
(* the squares are added.  The reduction finds the whole product, of either *)
(* routine.                                                                 *)
(***************************************************************************)
CrossRows(a, n) ==
  LET s[r \in 0 .. n] ==
        IF r = 0 THEN 0
        ELSE s[r - 1] + a[r - 1] * Weight[r - 1] * Weight[r] * Value(a, r, N - 1)
  IN  s[n]

Squares(a, n) ==
  LET s[r \in 0 .. n] ==
        IF r = 0 THEN 0 ELSE s[r - 1] + a[r - 1] * a[r - 1] * Weight[2 * (r - 1)]
  IN  s[n]

SumsExact ==
  LET sum  == Value(wide, 0, 2 * N - 1)
      last == IF x <= N THEN x - 1 ELSE N - 1      \* the last byte used in row i
      part == IF last <= i THEN 0
              ELSE src1[i] * Weight[i] * Weight[i + 1] * Value(src1, i + 1, last)
  IN  /\ pc \in {"body_a", "body_b", "sqr_ripple"} =>
           sum + pending * Weight[Target] = 2 * (CrossRows(src1, i) + part)
      /\ pc = "diagonal" => sum = 2 * CrossRows(src1, N - 1) + Squares(src1, i)
      /\ pc = "fold" /\ x = 0 => sum = Value1 * Value2

(***************************************************************************)
(* No carry is lost in the squaring either: nothing is pending at the end   *)
(* of a row, a body that skips its chain step has nothing to add, and       *)
(* neither has the last square nor any ripple past the end of the buffer.   *)
(***************************************************************************)
NoCarryLost ==
  /\ NoCarryDropped
  /\ pc = "sqr_ripple" => pending = 0
  /\ pc = "body_b" /\ NoTarget => Combined = 0
  /\ pc = "fold" /\ x = 0 => pending = 0
===============================================================================
