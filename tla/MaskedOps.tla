------------------------------- MODULE MaskedOps -------------------------------
(***************************************************************************)
(* fe25519_add, fe25519_sub, fe25519_reduce_final and fe25519_cswap         *)
(* (src/src/fe25519.s) byte by byte.  None of them branches on data: a      *)
(* reduction is a subtraction or addition of P under a mask made from a     *)
(* carry, in a second loop over the destination.                            *)
(*                                                                          *)
(* The pointers fe25519_src1, fe25519_src2 and fe25519_dst may name the     *)
(* same buffer, in any combination; operands are overwritten while they are *)
(* read.                                                                    *)
(***************************************************************************)
EXTENDS FeScratch

CONSTANT Buffers     \* 32-byte buffers the pointers may name

VARIABLES
  op,          \* the routine: "add", "sub", "reduce_final", "cswap"
  buf,         \* the buffers
  y,           \* the Y register; N when a loop has ended
  mask,        \* fe_cmp_mask; in fe25519_cswap, fe_carry
  addMask,     \* fe_add_carry_mask
  round,       \* of fe25519_reduce_final
  old          \* history: the buffers at the call

maskedVars == <<pc, op, src1, src2, dst, buf, y, carry, mask, addMask, round, old>>

Masks == {0, B - 1}

MaskedInit ==
  /\ pc = "idle" /\ op = "add"
  /\ src1 \in Buffers /\ src2 = src1 /\ dst = src1
  /\ buf = [b \in Buffers |-> Zeros] /\ old = buf
  /\ y = 0 /\ carry = 0 /\ mask = 0 /\ addMask = 0 /\ round = 1

(***************************************************************************)
(* Calls.  The caller has filled the buffers; the masks are left over.      *)
(***************************************************************************)
Enter(routine, loop, c) ==
  /\ pc = "idle"
  /\ op' = routine /\ pc' = loop
  /\ src1' \in Buffers /\ src2' \in Buffers /\ dst' \in Buffers
  /\ \E v, w \in Operands :
       buf' = [b \in Buffers |-> IF b = src1' THEN v ELSE IF b = src2' THEN w ELSE Zeros]
  /\ old' = buf'
  /\ y' = 0 /\ carry' = c /\ round' = 1
  /\ UNCHANGED addMask

CallAdd == Enter("add", "add", 0) /\ UNCHANGED mask

CallSub == Enter("sub", "subtract", 1) /\ UNCHANGED mask

(* It works on the destination alone, which the caller filled as src1. *)
CallReduceFinal ==
  Enter("reduce_final", "compare", 1) /\ dst' = src1' /\ src2' = src1' /\ UNCHANGED mask

CallCSwap == Enter("cswap", "swap", 0) /\ mask' \in Masks /\ dst' = src1'

(***************************************************************************)
(* The loops.  adc and sbc on a byte, with the carry flag in and out.       *)
(***************************************************************************)
Adc(m, n) == m + n + carry

Sbc(m, n) == m - n - (1 - carry)

StoreSum(sum) ==
  /\ buf' = [buf EXCEPT ![dst][y] = sum % B]
  /\ carry' = sum \div B

StoreDifference(diff) ==
  /\ buf' = [buf EXCEPT ![dst][y] = diff % B]
  /\ carry' = IF diff >= 0 THEN 1 ELSE 0

InLoop(loop) == pc = loop /\ y < N /\ y' = y + 1 /\ UNCHANGED <<pc, op, src1, src2, dst, old>>

EndOf(loop) == pc = loop /\ y = N /\ y' = 0 /\ UNCHANGED <<op, src1, src2, dst, old, buf>>

PByte(k) == (P \div Weight[k]) % B           \* fe_p

Masked(v) == IF mask = 0 THEN 0 ELSE v   \* and fe_cmp_mask

AddByte ==
  /\ InLoop("add")
  /\ StoreSum(Adc(buf[src1][y], buf[src2][y]))
  /\ UNCHANGED <<mask, addMask, round>>

(* lda #0 / sbc #0, with and without eor #$FF. *)
MaskIfClear(c) == IF c = 0 THEN B - 1 ELSE 0

BareIfSet(c) == c             \* faulty: a value, not a mask

MaskIfSet(c) == IF c = 1 THEN B - 1 ELSE 0

AddEnd ==
  /\ EndOf("add")
  /\ addMask' = MaskIfSet(carry)
  /\ pc' = "compare" /\ carry' = 1
  /\ UNCHANGED <<mask, round>>

(* fe_cmp_p_ct: a subtraction of P that stores nothing. *)
CompareByte ==
  /\ InLoop("compare")
  /\ carry' = IF Sbc(buf[dst][y], PByte(y)) >= 0 THEN 1 ELSE 0
  /\ UNCHANGED <<buf, mask, addMask, round>>

(* Only fe25519_add combines the mask with that of its own carry. *)
CompareAlone(m) == m     \* faulty: the carry of the addition is forgotten

WithAddMask(m) == IF op = "add" /\ addMask # 0 THEN B - 1 ELSE m

CompareEnd ==
  /\ EndOf("compare")
  /\ mask' = WithAddMask(MaskIfSet(carry))
  /\ pc' = "sub_p" /\ carry' = 1
  /\ UNCHANGED <<addMask, round>>

SubPByte ==
  /\ InLoop("sub_p")
  /\ StoreDifference(Sbc(buf[dst][y], Masked(PByte(y))))
  /\ UNCHANGED <<mask, addMask, round>>

(* fe25519_reduce_final has a second round. *)
SubPEndOnce ==        \* faulty: fe25519_reduce_final has one round
  /\ EndOf("sub_p")
  /\ pc' = "masked_done"
  /\ UNCHANGED <<carry, mask, addMask, round>>

SubPEnd ==
  /\ EndOf("sub_p")
  /\ IF op = "reduce_final" /\ round = 1
       THEN pc' = "compare" /\ round' = 2 /\ carry' = 1
       ELSE pc' = "masked_done" /\ UNCHANGED <<round, carry>>
  /\ UNCHANGED <<mask, addMask>>

SubByte ==
  /\ InLoop("subtract")
  /\ StoreDifference(Sbc(buf[src1][y], buf[src2][y]))
  /\ UNCHANGED <<mask, addMask, round>>

SubEnd ==
  /\ EndOf("subtract")
  /\ mask' = MaskIfClear(carry)
  /\ pc' = "add_p" /\ carry' = 0
  /\ UNCHANGED <<addMask, round>>

AddPByte ==
  /\ InLoop("add_p")
  /\ StoreSum(Adc(buf[dst][y], Masked(PByte(y))))
  /\ UNCHANGED <<mask, addMask, round>>

AddPEnd ==
  /\ EndOf("add_p")
  /\ pc' = "masked_done"
  /\ UNCHANGED <<carry, mask, addMask, round>>

(* fe25519_cswap goes downwards: eor with the masked difference of the bytes. *)
Exchanged(k) ==
  IF mask = 0 THEN buf
  ELSE [buf EXCEPT ![src1][k] = buf[src2][k], ![src2][k] = buf[src1][k]]

SwapByte ==
  /\ InLoop("swap")
  /\ buf' = Exchanged(N - 1 - y)
  /\ UNCHANGED <<carry, mask, addMask, round>>

SwapEnd ==
  /\ EndOf("swap")
  /\ pc' = "masked_done"
  /\ UNCHANGED <<carry, mask, addMask, round>>

(* The caller takes the result; the buffers are used for something else. *)
MaskedReturn ==
  /\ pc = "masked_done"
  /\ pc' = "idle" /\ op' = "add"
  /\ src2' = src1 /\ dst' = src1
  /\ buf' = [b \in Buffers |-> Zeros] /\ old' = buf'
  /\ y' = 0 /\ carry' = 0 /\ round' = 1
  /\ UNCHANGED <<src1, mask, addMask>>

MaskedCall == CallAdd \/ CallSub \/ CallReduceFinal \/ CallCSwap

MaskedNext ==
  \/ MaskedCall \/ MaskedReturn
  \/ AddByte \/ AddEnd \/ CompareByte \/ CompareEnd \/ SubPByte \/ SubPEnd
  \/ SubByte \/ SubEnd \/ AddPByte \/ AddPEnd
  \/ SwapByte \/ SwapEnd

MaskedSpec == MaskedInit /\ [][MaskedNext]_maskedVars

(***************************************************************************)
(* Properties.                                                              *)
(***************************************************************************)

(* Types: bytes stay bytes, and the carry is a carry. *)
MaskedTypeOK ==
  /\ pc \in {"idle", "add", "compare", "sub_p", "subtract", "add_p", "swap", "masked_done"}
  /\ op \in {"add", "sub", "reduce_final", "cswap"}
  /\ {src1, src2, dst} \subseteq Buffers
  /\ buf \in [Buffers -> Elements] /\ old \in [Buffers -> Elements]
  /\ y \in 0 .. N /\ carry \in {0, 1}
  /\ mask \in Masks /\ addMask \in Masks /\ round \in {1, 2}

Number(b) == Value(b, 0, N - 1)

(***************************************************************************)
(* Each masked loop is entered with the right decision, though the mask is  *)
(* shared by the routines and its two inputs are made at different times:   *)
(* P is subtracted exactly when the sum overflowed or is P or more, in the  *)
(* rounds of the final reduction exactly when the value is P or more, and   *)
(* added exactly when the difference was negative.                          *)
(***************************************************************************)
DecisionRight ==
  LET a == Number(old[src1])
      b == Number(old[src2])
  IN  /\ pc = "sub_p" /\ y = 0 =>
           (mask # 0) <=> IF op = "add" THEN a + b >= P ELSE Number(buf[dst]) >= P
      /\ pc = "add_p" /\ y = 0 => ((mask # 0) <=> a < b)

(***************************************************************************)
(* Each routine leaves in its destination what FieldOps says of the whole   *)
(* elements, also where the destination is one of the operands or both are  *)
(* the same buffer, and every other buffer as it was.                       *)
(***************************************************************************)
Result ==
  LET a == Number(old[src1])
      b == Number(old[src2])
  IN  CASE op = "add"          -> Add(a, b)
        [] op = "sub"          -> Sub(a, b)
        [] op = "reduce_final" -> ReduceFinal(a)

OperationExact ==
  pc = "masked_done" =>
    IF op = "cswap"
      THEN buf = IF mask = 0 THEN old
                 ELSE [old EXCEPT ![src1] = old[src2], ![src2] = old[src1]]
      ELSE /\ Number(buf[dst]) = Result
           /\ \A b \in Buffers \ {dst} : buf[b] = old[b]
===============================================================================
