----------------------------- MODULE X25519Proofs -----------------------------
(***************************************************************************)
(* The scalar multiplication of X25519, for every field, geometry and input *)
(* the assumptions allow: the buffers stay in range, every operand contract *)
(* is met, the code implements the ladder of RFC 7748, and the ladder       *)
(* computes multiples of points of the curve.                               *)
(***************************************************************************)
EXTENDS X25519Curve, FieldOpsProofs

(***************************************************************************)
(* What one write does to the buffers.                                      *)
(***************************************************************************)
LEMMA Update ==
  ASSUME reg \in [Regs -> Word], NEW d \in Regs, NEW v \in Word,
         reg' = [reg EXCEPT ![d] = v]
  PROVE  /\ reg' \in [Regs -> Word]
         /\ reg'[d] = v
         /\ \A r \in Regs \ {d} : reg'[r] = reg[r]
  OBVIOUS

(* A buffer's content is a 32-byte value, and so are the small constants. *)
LEMMA BufferWord ==
  ASSUME reg \in [Regs -> Word]
  PROVE  \A r \in Regs : reg[r] \in Word /\ Residue(r) \in Canon
<1> SUFFICES ASSUME NEW r \in Regs
             PROVE  reg[r] \in Word /\ Residue(r) \in Canon
  OBVIOUS
<1>1. reg[r] \in Word
  OBVIOUS
<1> QED  BY <1>1, WordResidue DEF Residue

(* 0 and 1 are canonical, and are their own residues. *)
LEMMA SmallConstants ==
  /\ 0 \in Canon /\ 1 \in Canon
  /\ 0 % P = 0 /\ 1 % P = 1
<1>1. P \in Nat \ {0} /\ 1 < P
  BY FieldAssumption, Constants
<1>2. 0 \in 0 .. P - 1 /\ 1 \in 0 .. P - 1
  BY <1>1
<1> QED  BY <1>1, <1>2, ModSmall DEF Canon

(* The masked working copy of x25_u is a 32-byte value. *)
LEMMA DecodedWord ==
  ASSUME NEW v \in Word
  PROVE  Decoded(v) \in Word /\ Decoded(v) % P \in Canon
<1>0. P \in Nat \ {0} /\ C \in Nat \ {0}
  BY FieldAssumption
<1>1. v \in Int /\ Half \in Nat \ {0} /\ Half < R
  BY <1>0 DEF Half, R, Word
<1>2. v % Half \in 0 .. Half - 1
  BY <1>1, DivMod
<1>3. Decoded(v) \in Word
  BY <1>1, <1>2, Constants DEF Decoded, Word
<1> QED  BY <1>3, WordResidue

(* The inverse of a field element is one. *)
LEMMA InverseCanon ==
  ASSUME NEW x
  PROVE  FInv(x) \in Canon
<1>1. CASE \E w \in Canon : FMul(w, x) = 1
  <2>1. (CHOOSE w \in Canon : FMul(w, x) = 1) \in Canon
    BY <1>1
  <2> QED  BY <1>1, <2>1 DEF FInv
<1>2. CASE ~ \E w \in Canon : FMul(w, x) = 1
  BY <1>2, SmallConstants DEF FInv
<1> QED  BY <1>1, <1>2

(* Clamping yields a scalar. *)
LEMMA ClampedScalar ==
  ASSUME NEW s \in Scalar
  PROVE  Clamped(s) \in Scalar
<1> DEFINE low == [s EXCEPT ![0] = @ \ (0 .. Cofactor - 1)]
<1>1. NB - 1 \in 0 .. NB - 1 /\ 0 \in 0 .. NB - 1 /\ W - 2 \in 0 .. W - 1
  BY GeometryAssumption
<1>2. low \in Scalar
  BY <1>1 DEF Scalar, ByteBits
<1>3. (low[NB - 1] \ {W - 1}) \cup {W - 2} \in ByteBits
  BY <1>1, <1>2 DEF Scalar, ByteBits
<1>4. [low EXCEPT ![NB - 1] = (@ \ {W - 1}) \cup {W - 2}] \in Scalar
  BY <1>1, <1>2, <1>3 DEF Scalar
<1> QED  BY <1>4 DEF Clamped

(***************************************************************************)
(* The inductive invariant.                                                 *)
(***************************************************************************)

(* The cursor never selects the top bit of the last byte. *)
Cursor ==
  pc \in {"swap", "step"} /\ byteIdx = NB - 1 => bitPos <= W - 2

(***************************************************************************)
(* Which buffers are canonical where: z_2 throughout a call, z_3 except     *)
(* while the ladder step rebuilds it, and the three temporaries that are    *)
(* the second operand of a later add or sub, from the operation that        *)
(* reduces them on.                                                         *)
(***************************************************************************)
Running == {"swap", "step", "final", "invert", "multiply"}

Reduced ==
  /\ pc \in Running => reg["z2"] \in Canon
  /\ pc \in Running /\ ~(pc = "step" /\ op \in {13, 14}) => reg["z3"] \in Canon
  /\ pc = "step" /\ op \in 5 .. 15  => reg["tmp4"] \in Canon
  /\ pc = "step" /\ op \in 10 .. 12 => reg["cb"] \in Canon
  /\ pc = "step" /\ op = 17         => reg["tmp1"] \in Canon

IInv == TypeOK /\ Cursor /\ Reduced

(***************************************************************************)
(* The field operations, one lemma for what each step of the ladder writes. *)
(***************************************************************************)

(* An operation of the ladder step keeps the types if its value fits. *)
LEMMA OperationType ==
  ASSUME IInv, NEW n \in 1 .. 18, NEW d \in Regs, NEW v \in Word, Operation(n, d, v)
  PROVE  /\ TypeOK' /\ Cursor'
         /\ pc = "step" /\ pc' = "step" /\ op = n /\ op' = n + 1
         /\ reg'[d] = v
         /\ \A r \in Regs \ {d} : reg'[r] = reg[r]
<1>1. /\ reg' \in [Regs -> Word]
      /\ reg'[d] = v
      /\ \A r \in Regs \ {d} : reg'[r] = reg[r]
  BY Update DEF IInv, TypeOK, Operation
<1>2. op = n /\ op' = n + 1 /\ pc = "step" /\ pc' = "step"
  BY DEF Operation
<1>3. UNCHANGED <<pc, scalar, prevBit, byteIdx, bitPos>>
  BY DEF Operation
<1>4. TypeOK'
  BY <1>1, <1>2, <1>3 DEF IInv, TypeOK
<1>5. Cursor'
  BY <1>2, <1>3 DEF IInv, Cursor
<1> QED  BY <1>1, <1>2, <1>4, <1>5

(* The contract at each operation, from the invariant. *)
LEMMA Contract ==
  ASSUME IInv
  PROVE  OperandContract
  BY DEF IInv, Reduced, OperandContract, Running, TypeOK

(* What an operation's write to buffer d leaves behind, apart from the value. *)
Wrote(n, d) ==
  /\ TypeOK' /\ Cursor'
  /\ pc = "step" /\ pc' = "step" /\ op = n /\ op' = n + 1
  /\ \A r \in Regs \ {d} : reg'[r] = reg[r]

(* fe25519_add, on buffers p and q, into d. *)
LEMMA AddEffect ==
  ASSUME IInv, NEW n \in 1 .. 18, NEW d \in Regs, NEW p \in Regs, NEW q \in Regs,
         reg[q] \in Canon, Operation(n, d, Add(reg[p], reg[q]))
  PROVE  Wrote(n, d) /\ Residue(d)' = FAdd(Residue(p), Residue(q))
<1>1. reg[p] \in Word
  BY BufferWord DEF IInv, TypeOK
<1>2. /\ Add(reg[p], reg[q]) \in Word
      /\ Add(reg[p], reg[q]) % P = FAdd(reg[p] % P, reg[q] % P)
  BY <1>1, AddCorrect
<1> QED  BY <1>2, OperationType DEF Wrote, Residue

(* fe25519_sub. *)
LEMMA SubEffect ==
  ASSUME IInv, NEW n \in 1 .. 18, NEW d \in Regs, NEW p \in Regs, NEW q \in Regs,
         reg[q] \in Canon, Operation(n, d, Sub(reg[p], reg[q]))
  PROVE  Wrote(n, d) /\ Residue(d)' = FSub(Residue(p), Residue(q))
<1>1. reg[p] \in Word
  BY BufferWord DEF IInv, TypeOK
<1>2. /\ Sub(reg[p], reg[q]) \in Word
      /\ Sub(reg[p], reg[q]) % P = FSub(reg[p] % P, reg[q] % P)
  BY <1>1, SubCorrect
<1> QED  BY <1>2, OperationType DEF Wrote, Residue

(* fe25519_mul, left unreduced. *)
LEMMA MulEffect ==
  ASSUME IInv, NEW n \in 1 .. 18, NEW d \in Regs, NEW p \in Regs, NEW q \in Regs,
         Operation(n, d, Mul(reg[p], reg[q]))
  PROVE  Wrote(n, d) /\ Residue(d)' = FMul(Residue(p), Residue(q))
<1>1. reg[p] \in Word /\ reg[q] \in Word
  BY BufferWord DEF IInv, TypeOK
<1>2. /\ Mul(reg[p], reg[q]) \in Word
      /\ Mul(reg[p], reg[q]) % P = FMul(reg[p] % P, reg[q] % P)
  BY <1>1, MulCorrect
<1> QED  BY <1>2, OperationType DEF Wrote, Residue

(* fe25519_sqr, left unreduced. *)
LEMMA SqrEffect ==
  ASSUME IInv, NEW n \in 1 .. 18, NEW d \in Regs, NEW p \in Regs,
         Operation(n, d, Sqr(reg[p]))
  PROVE  Wrote(n, d) /\ Residue(d)' = FMul(Residue(p), Residue(p))
<1>1. reg[p] \in Word
  BY BufferWord DEF IInv, TypeOK
<1>2. /\ Sqr(reg[p]) \in Word
      /\ Sqr(reg[p]) % P = FMul(reg[p] % P, reg[p] % P)
  BY <1>1, SqrCorrect
<1> QED  BY <1>2, OperationType DEF Wrote, Residue

(* A write of a canonical value: its residue is the value itself. *)
LEMMA CanonicalEffect ==
  ASSUME IInv, NEW n \in 1 .. 18, NEW d \in Regs, NEW v \in Canon, Operation(n, d, v)
  PROVE  Wrote(n, d) /\ reg'[d] \in Canon /\ Residue(d)' = v
<1>1. v \in Word /\ v % P = v
  BY CanonResidue
<1> QED  BY <1>1, OperationType DEF Wrote, Residue

(* fe25519_mul, made canonical by fe25519_reduce_final. *)
LEMMA MulReducedEffect ==
  ASSUME IInv, NEW n \in 1 .. 18, NEW d \in Regs, NEW p \in Regs, NEW q \in Regs,
         Operation(n, d, ReduceFinal(Mul(reg[p], reg[q])))
  PROVE  /\ Wrote(n, d) /\ reg'[d] \in Canon
         /\ Residue(d)' = FMul(Residue(p), Residue(q))
<1>1. reg[p] \in Word /\ reg[q] \in Word
  BY BufferWord DEF IInv, TypeOK
<1>2. /\ ReduceFinal(Mul(reg[p], reg[q])) \in Canon
      /\ ReduceFinal(Mul(reg[p], reg[q])) = FMul(Residue(p), Residue(q))
  BY <1>1, MulReducedCorrect DEF Residue
<1> QED  BY <1>2, CanonicalEffect

(***************************************************************************)
(* The eighteen operations of the ladder step: each writes the residue that *)
(* its formula asks for, and the ones the code reduces are canonical.       *)
(***************************************************************************)
LEMMA Effects ==
  ASSUME IInv
  PROVE
    /\ StepA     => Wrote(1, "a") /\ Residue("a")' = FAdd(Residue("x2"), Residue("z2"))
    /\ StepB     => Wrote(2, "b") /\ Residue("b")' = FSub(Residue("x2"), Residue("z2"))
    /\ StepAA    => Wrote(3, "tmp3") /\ Residue("tmp3")' = FMul(Residue("a"), Residue("a"))
    /\ StepBB    => /\ Wrote(4, "tmp4") /\ reg'["tmp4"] \in Canon
                    /\ Residue("tmp4")' = FMul(Residue("b"), Residue("b"))
    /\ StepE     => Wrote(5, "e") /\ Residue("e")' = FSub(Residue("tmp3"), Residue("tmp4"))
    /\ StepC     => Wrote(6, "tmp1") /\ Residue("tmp1")' = FAdd(Residue("x3"), Residue("z3"))
    /\ StepD     => Wrote(7, "tmp2") /\ Residue("tmp2")' = FSub(Residue("x3"), Residue("z3"))
    /\ StepDA    => Wrote(8, "da") /\ Residue("da")' = FMul(Residue("tmp2"), Residue("a"))
    /\ StepCB    => /\ Wrote(9, "cb") /\ reg'["cb"] \in Canon
                    /\ Residue("cb")' = FMul(Residue("tmp1"), Residue("b"))
    /\ StepSum   => Wrote(10, "x3") /\ Residue("x3")' = FAdd(Residue("da"), Residue("cb"))
    /\ StepX3    => Wrote(11, "x3") /\ Residue("x3")' = FMul(Residue("x3"), Residue("x3"))
    /\ StepDiff  => Wrote(12, "z3") /\ Residue("z3")' = FSub(Residue("da"), Residue("cb"))
    /\ StepDiff2 => Wrote(13, "z3") /\ Residue("z3")' = FMul(Residue("z3"), Residue("z3"))
    /\ StepZ3    => /\ Wrote(14, "z3") /\ reg'["z3"] \in Canon
                    /\ Residue("z3")' = FMul(Residue("x1"), Residue("z3"))
    /\ StepX2    => Wrote(15, "x2") /\ Residue("x2")' = FMul(Residue("tmp3"), Residue("tmp4"))
    /\ StepA24E  => /\ Wrote(16, "tmp1") /\ reg'["tmp1"] \in Canon
                    /\ Residue("tmp1")' = FMul(A24 % P, Residue("e"))
    /\ StepAA24E => Wrote(17, "tmp1") /\ Residue("tmp1")' = FAdd(Residue("tmp3"), Residue("tmp1"))
    /\ StepZ2    => /\ Wrote(18, "z2") /\ reg'["z2"] \in Canon
                    /\ Residue("z2")' = FMul(Residue("e"), Residue("tmp1"))
<1>a. /\ "a" \in Regs /\ "b" \in Regs /\ "da" \in Regs /\ "cb" \in Regs
      /\ "tmp1" \in Regs /\ "tmp2" \in Regs /\ "tmp3" \in Regs /\ "tmp4" \in Regs
      /\ "x1" \in Regs /\ "x2" \in Regs /\ "z2" \in Regs
      /\ "x3" \in Regs /\ "z3" \in Regs /\ "e" \in Regs
  BY DEF Regs, Temps
<1>1. StepA => Wrote(1, "a") /\ Residue("a")' = FAdd(Residue("x2"), Residue("z2"))
  <2>1. StepA => reg["z2"] \in Canon
    BY Contract DEF StepA, Operation, OperandContract
  <2> QED  BY <1>a, <2>1, AddEffect DEF StepA
<1>2. StepB => Wrote(2, "b") /\ Residue("b")' = FSub(Residue("x2"), Residue("z2"))
  <2>1. StepB => reg["z2"] \in Canon
    BY Contract DEF StepB, Operation, OperandContract
  <2> QED  BY <1>a, <2>1, SubEffect DEF StepB
<1>3. StepAA => Wrote(3, "tmp3") /\ Residue("tmp3")' = FMul(Residue("a"), Residue("a"))
  BY <1>a, SqrEffect DEF StepAA
<1>4. StepBB => /\ Wrote(4, "tmp4") /\ reg'["tmp4"] \in Canon
                /\ Residue("tmp4")' = FMul(Residue("b"), Residue("b"))
  <2>1. Sqr(reg["b"]) = Mul(reg["b"], reg["b"])
    BY DEF Sqr, Mul
  <2> QED  BY <1>a, <2>1, MulReducedEffect DEF StepBB
<1>5. StepE => Wrote(5, "e") /\ Residue("e")' = FSub(Residue("tmp3"), Residue("tmp4"))
  <2>1. StepE => reg["tmp4"] \in Canon
    BY Contract DEF StepE, Operation, OperandContract
  <2> QED  BY <1>a, <2>1, SubEffect DEF StepE
<1>6. StepC => Wrote(6, "tmp1") /\ Residue("tmp1")' = FAdd(Residue("x3"), Residue("z3"))
  <2>1. StepC => reg["z3"] \in Canon
    BY Contract DEF StepC, Operation, OperandContract
  <2> QED  BY <1>a, <2>1, AddEffect DEF StepC
<1>7. StepD => Wrote(7, "tmp2") /\ Residue("tmp2")' = FSub(Residue("x3"), Residue("z3"))
  <2>1. StepD => reg["z3"] \in Canon
    BY Contract DEF StepD, Operation, OperandContract
  <2> QED  BY <1>a, <2>1, SubEffect DEF StepD
<1>8. StepDA => Wrote(8, "da") /\ Residue("da")' = FMul(Residue("tmp2"), Residue("a"))
  BY <1>a, MulEffect DEF StepDA
<1>9. StepCB => /\ Wrote(9, "cb") /\ reg'["cb"] \in Canon
                /\ Residue("cb")' = FMul(Residue("tmp1"), Residue("b"))
  BY <1>a, MulReducedEffect DEF StepCB
<1>10. StepSum => Wrote(10, "x3") /\ Residue("x3")' = FAdd(Residue("da"), Residue("cb"))
  <2>1. StepSum => reg["cb"] \in Canon
    BY Contract DEF StepSum, Operation, OperandContract
  <2> QED  BY <1>a, <2>1, AddEffect DEF StepSum
<1>11. StepX3 => Wrote(11, "x3") /\ Residue("x3")' = FMul(Residue("x3"), Residue("x3"))
  BY <1>a, SqrEffect DEF StepX3
<1>12. StepDiff => Wrote(12, "z3") /\ Residue("z3")' = FSub(Residue("da"), Residue("cb"))
  <2>1. StepDiff => reg["cb"] \in Canon
    BY Contract DEF StepDiff, Operation, OperandContract
  <2> QED  BY <1>a, <2>1, SubEffect DEF StepDiff
<1>13. StepDiff2 => Wrote(13, "z3") /\ Residue("z3")' = FMul(Residue("z3"), Residue("z3"))
  BY <1>a, SqrEffect DEF StepDiff2
<1>14. StepZ3 => /\ Wrote(14, "z3") /\ reg'["z3"] \in Canon
                 /\ Residue("z3")' = FMul(Residue("x1"), Residue("z3"))
  BY <1>a, MulReducedEffect DEF StepZ3
<1>15. StepX2 => Wrote(15, "x2") /\ Residue("x2")' = FMul(Residue("tmp3"), Residue("tmp4"))
  BY <1>a, MulEffect DEF StepX2
<1>16. StepA24E => /\ Wrote(16, "tmp1") /\ reg'["tmp1"] \in Canon
                   /\ Residue("tmp1")' = FMul(A24 % P, Residue("e"))
  <2>1. reg["e"] \in Word
    BY <1>a, BufferWord DEF IInv, TypeOK
  <2>2. MulA24(reg["e"]) \in Canon /\ MulA24(reg["e"]) = FMul(A24 % P, Residue("e"))
    BY <2>1, MulA24Correct DEF Residue
  <2> QED  BY <1>a, <2>2, CanonicalEffect DEF StepA24E
<1>17. StepAA24E => Wrote(17, "tmp1") /\ Residue("tmp1")' = FAdd(Residue("tmp3"), Residue("tmp1"))
  <2>1. StepAA24E => reg["tmp1"] \in Canon
    BY Contract DEF StepAA24E, Operation, OperandContract
  <2> QED  BY <1>a, <2>1, AddEffect DEF StepAA24E
<1>18. StepZ2 => /\ Wrote(18, "z2") /\ reg'["z2"] \in Canon
                 /\ Residue("z2")' = FMul(Residue("e"), Residue("tmp1"))
  BY <1>a, MulReducedEffect DEF StepZ2
<1> QED
  BY <1>1, <1>2, <1>3, <1>4, <1>5, <1>6, <1>7, <1>8, <1>9, <1>10, <1>11, <1>12,
     <1>13, <1>14, <1>15, <1>16, <1>17, <1>18

(***************************************************************************)
(* The invariant is inductive.                                              *)
(***************************************************************************)

(* It holds initially. *)
LEMMA InitInvariant == Init => IInv
<1> SUFFICES ASSUME Init
             PROVE  IInv
  OBVIOUS
<1>1. NB - 1 \in -1 .. NB - 1 /\ W - 2 \in 0 .. W - 1 /\ W - 2 <= W - 2
  BY GeometryAssumption
<1>2. reg \in [Regs -> Word] /\ scalar \in Scalar
  BY InputAssumption DEF Init
<1>3. TypeOK
  BY <1>1, <1>2 DEF Init, TypeOK
<1> QED  BY <1>1, <1>3 DEF IInv, Cursor, Reduced, Init, Running

(* Every operation of the ladder step preserves it. *)
LEMMA LadderStepInvariant ==
  ASSUME IInv, LadderStep
  PROVE  IInv'
<1> USE DEF IInv, Wrote, Reduced, Running
<1>0. "tmp1" \in Regs /\ "tmp4" \in Regs /\ "cb" \in Regs /\ "z2" \in Regs /\ "z3" \in Regs
  BY DEF Regs, Temps
<1>1. CASE StepA
  BY <1>0, <1>1, Effects
<1>2. CASE StepB
  BY <1>0, <1>2, Effects
<1>3. CASE StepAA
  BY <1>0, <1>3, Effects
<1>4. CASE StepBB
  BY <1>0, <1>4, Effects
<1>5. CASE StepE
  BY <1>0, <1>5, Effects
<1>6. CASE StepC
  BY <1>0, <1>6, Effects
<1>7. CASE StepD
  BY <1>0, <1>7, Effects
<1>8. CASE StepDA
  BY <1>0, <1>8, Effects
<1>9. CASE StepCB
  BY <1>0, <1>9, Effects
<1>10. CASE StepSum
  BY <1>0, <1>10, Effects
<1>11. CASE StepX3
  BY <1>0, <1>11, Effects
<1>12. CASE StepDiff
  BY <1>0, <1>12, Effects
<1>13. CASE StepDiff2
  BY <1>0, <1>13, Effects
<1>14. CASE StepZ3
  BY <1>0, <1>14, Effects
<1>15. CASE StepX2
  BY <1>0, <1>15, Effects
<1>16. CASE StepA24E
  BY <1>0, <1>16, Effects
<1>17. CASE StepAA24E
  BY <1>0, <1>17, Effects
<1>18. CASE StepZ2
  BY <1>0, <1>18, Effects
<1> QED
  BY <1>1, <1>2, <1>3, <1>4, <1>5, <1>6, <1>7, <1>8, <1>9, <1>10, <1>11, <1>12,
     <1>13, <1>14, <1>15, <1>16, <1>17, <1>18 DEF LadderStep

(* The conditional swap exchanges canonical buffers for canonical ones. *)
LEMMA SwapBuffers ==
  ASSUME reg \in [Regs -> Word], NEW mask \in BOOLEAN
  PROVE  /\ CSwapRegs(reg, mask) \in [Regs -> Word]
         /\ \A r \in Regs \ {"x2", "z2", "x3", "z3"} : CSwapRegs(reg, mask)[r] = reg[r]
         /\ CSwapRegs(reg, mask)["x2"] = IF mask THEN reg["x3"] ELSE reg["x2"]
         /\ CSwapRegs(reg, mask)["x3"] = IF mask THEN reg["x2"] ELSE reg["x3"]
         /\ CSwapRegs(reg, mask)["z2"] = IF mask THEN reg["z3"] ELSE reg["z2"]
         /\ CSwapRegs(reg, mask)["z3"] = IF mask THEN reg["z2"] ELSE reg["z3"]
<1>1. {"x2", "z2", "x3", "z3"} \subseteq Regs
  BY DEF Regs
<1> QED  BY <1>1 DEF CSwapRegs

(* What x25519_scalarmult loads into the ladder's buffers. *)
LEMMA LoadedBuffers ==
  ASSUME reg \in [Regs -> Word]
  PROVE  /\ LoadWorking(reg) \in [Regs -> Word]
         /\ \A r \in Regs \ {"x1", "x2", "z2", "x3", "z3"} : LoadWorking(reg)[r] = reg[r]
         /\ LoadWorking(reg)["x1"] = Decoded(reg["u"])
         /\ LoadWorking(reg)["x2"] = 1 /\ LoadWorking(reg)["z2"] = 0
         /\ LoadWorking(reg)["x3"] = Decoded(reg["u"]) /\ LoadWorking(reg)["z3"] = 1
<1>1. {"x1", "x2", "z2", "x3", "z3", "u"} \subseteq Regs
  BY DEF Regs
<1>2. Decoded(reg["u"]) \in Word /\ 0 \in Word /\ 1 \in Word
  BY <1>1, DecodedWord, SmallConstants, CanonResidue
<1> QED  BY <1>1, <1>2 DEF LoadWorking

(* What the inversion leaves: its result, and the temporaries at anything. *)
LEMMA InvertedBuffers ==
  ASSUME reg \in [Regs -> Word], Invert
  PROVE  /\ reg' \in [Regs -> Word]
         /\ \A r \in Regs \ (Temps \cup {"result"}) : reg'[r] = reg[r]
         /\ reg'["result"] = Inv(reg["z2"])
<1>1. Inv(reg["z2"]) \in Word
  BY InverseCanon, CanonResidue DEF Inv
<1>2. "result" \in Regs
  BY DEF Regs
<1> QED  BY <1>1, <1>2, InputAssumption DEF Invert

(* The last product, into x25_result. *)
LEMMA MultipliedBuffers ==
  ASSUME reg \in [Regs -> Word], Multiply
  PROVE  /\ reg' \in [Regs -> Word]
         /\ \A r \in Regs \ {"result"} : reg'[r] = reg[r]
         /\ reg'["result"] = FMul(Residue("x2"), Residue("result"))
<1>1. "result" \in Regs /\ "x2" \in Regs
  BY DEF Regs
<1>2. reg["x2"] \in Word /\ reg["result"] \in Word
  BY <1>1, BufferWord
<1>3. /\ ReduceFinal(Mul(reg["x2"], reg["result"])) \in Word
      /\ ReduceFinal(Mul(reg["x2"], reg["result"])) = FMul(Residue("x2"), Residue("result"))
  BY <1>2, MulReducedCorrect, CanonResidue DEF Residue
<1> QED  BY <1>1, <1>3, Update DEF Multiply

(* Every step preserves the invariant, one case per action. *)
LEMMA NextInvariant == IInv /\ [Next]_vars => IInv'
<1> SUFFICES ASSUME IInv, [Next]_vars
             PROVE  IInv'
  OBVIOUS
<1> USE DEF IInv
<1>0. /\ reg \in [Regs -> Word] /\ scalar \in Scalar
      /\ "z2" \in Regs /\ "z3" \in Regs /\ "u" \in Regs
  BY DEF TypeOK, Regs
<1>1. CASE Clamp
  BY <1>0, <1>1, ClampedScalar DEF Clamp, TypeOK, Cursor, Reduced, Running
<1>2. CASE Base
  <2>1. reg' \in [Regs -> Word]
    BY <1>0, <1>2, InputAssumption DEF Base
  <2> QED  BY <1>0, <1>2, <2>1, ClampedScalar DEF Base, TypeOK, Cursor, Reduced, Running
<1>3. CASE ScalarMult
  BY <1>0, <1>3 DEF ScalarMult, TypeOK, Cursor, Reduced, Running
<1>4. CASE Setup
  <2>1. NB - 1 \in -1 .. NB - 1 /\ W - 2 \in 0 .. W - 1 /\ W - 2 <= W - 2 /\ NB - 1 >= 0
    BY GeometryAssumption
  <2> QED  BY <1>0, <1>4, <2>1, LoadedBuffers, SmallConstants
           DEF Setup, TypeOK, Cursor, Reduced, Running
<1>5. CASE Swap
  <2>1. ScalarBit \in BOOLEAN /\ (ScalarBit # prevBit) \in BOOLEAN
    BY DEF ScalarBit
  <2>2. reg' \in [Regs -> Word] /\ reg'["z2"] \in Canon /\ reg'["z3"] \in Canon
    BY <1>0, <1>5, <2>1, SwapBuffers DEF Swap, Reduced, Running
  <2> QED  BY <1>5, <2>1, <2>2 DEF Swap, TypeOK, Cursor, Reduced, Running
<1>6. CASE LadderStep
  BY <1>6, LadderStepInvariant
<1>7. CASE NextBit
  <2>1. NB - 1 \in Nat /\ W - 1 \in 0 .. W - 1 /\ byteIdx \in 0 .. NB - 1 /\ bitPos \in 0 .. W - 1
    BY <1>7, GeometryAssumption DEF NextBit, TypeOK
  <2>2. UNCHANGED <<op, reg, scalar, prevBit>> /\ pc = "step" /\ op = 19
    BY <1>7 DEF NextBit
  <2>3. /\ pc' \in {"swap", "final"}
        /\ byteIdx' \in -1 .. NB - 1 /\ bitPos' \in 0 .. W - 1
        /\ pc' = "swap" => byteIdx' >= 0
        /\ byteIdx' = NB - 1 => bitPos' <= W - 2
    <3>1. CASE bitPos > 0
      <4>1. W \in Nat /\ bitPos' = bitPos - 1 /\ byteIdx' = byteIdx /\ pc' = "swap"
        BY <1>7, <3>1, GeometryAssumption DEF NextBit
      <4> QED  BY <2>1, <3>1, <4>1
    <3>2. CASE ~ bitPos > 0
      BY <1>7, <2>1, <3>2 DEF NextBit
    <3> QED  BY <3>1, <3>2
  <2>4. TypeOK'
    BY <2>2, <2>3 DEF TypeOK
  <2>5. Cursor'
    BY <2>3 DEF Cursor
  <2>6. Reduced'
    BY <2>2, <2>3 DEF Reduced, Running
  <2> QED  BY <2>4, <2>5, <2>6
<1>8. CASE FinalSwap
  <2>1. reg' \in [Regs -> Word] /\ reg'["z2"] \in Canon /\ reg'["z3"] \in Canon
    BY <1>0, <1>8, SwapBuffers DEF FinalSwap, TypeOK, Reduced, Running
  <2> QED  BY <1>8, <2>1 DEF FinalSwap, TypeOK, Cursor, Reduced, Running
<1>9. CASE Invert
  <2>1. "z2" \notin Temps \cup {"result"} /\ "z3" \notin Temps \cup {"result"}
    BY DEF Temps
  <2>2. reg' \in [Regs -> Word] /\ reg'["z2"] = reg["z2"] /\ reg'["z3"] = reg["z3"]
    BY <1>0, <1>9, <2>1, InvertedBuffers
  <2> QED  BY <1>9, <2>2 DEF Invert, TypeOK, Cursor, Reduced, Running
<1>10. CASE Multiply
  <2>1. reg' \in [Regs -> Word]
    BY <1>0, <1>10, MultipliedBuffers
  <2> QED  BY <1>10, <2>1 DEF Multiply, TypeOK, Cursor, Reduced, Running
<1>11. CASE Return
  BY <1>0, <1>11 DEF Return, TypeOK, Cursor, Reduced, Running
<1>12. CASE UNCHANGED vars
  BY <1>0, <1>12 DEF vars, TypeOK, Cursor, Reduced, Running
<1> QED
  BY <1>1, <1>2, <1>3, <1>4, <1>5, <1>6, <1>7, <1>8, <1>9, <1>10, <1>11, <1>12
     DEF Next, Call, Compute

(***************************************************************************)
(* The strengthened invariant holds of every behaviour of x25519.s.         *)
(***************************************************************************)
THEOREM Invariance == Spec => []IInv
<1>1. Init => IInv
  BY InitInvariant
<1>2. IInv /\ [Next]_vars => IInv'
  BY NextInvariant
<1> QED  BY <1>1, <1>2, PTL DEF Spec

(***************************************************************************)
(* The buffers always hold 32-byte values and the loop's cursor stays in    *)
(* the scalar.                                                              *)
(***************************************************************************)
THEOREM TypeCorrect == Spec => []TypeOK
<1>1. IInv => TypeOK
  BY DEF IInv
<1> QED  BY <1>1, Invariance, PTL

(***************************************************************************)
(* Every fe25519_add and fe25519_sub of the ladder gets a canonical second  *)
(* operand, in whatever order the conditional swaps move the buffers: the   *)
(* calls to fe25519_reduce_final that the code leaves out are not needed.   *)
(***************************************************************************)
THEOREM OperandsReduced == Spec => []OperandContract
<1>1. IInv => OperandContract
  BY Contract
<1> QED  BY <1>1, Invariance, PTL

-----------------------------------------------------------------------------
(***************************************************************************)
(* The code of x25519.s implements MontgomeryLadder, for every field,       *)
(* geometry and input: the initial states map to initial states, and every  *)
(* step maps to a step of the ideal ladder or to none.                      *)
(***************************************************************************)

(* The ideal ladder's field is the field. *)
LEMMA IdealField ==
  /\ Ideal!Canon = Canon /\ Ideal!Word = Word
  /\ \A x, y : /\ Ideal!FAdd(x, y) = FAdd(x, y)
               /\ Ideal!FSub(x, y) = FSub(x, y)
               /\ Ideal!FMul(x, y) = FMul(x, y)
  /\ \A x : Ideal!FInv(x) = FInv(x)
<1>1. Ideal!Canon = Canon /\ Ideal!Word = Word
  BY DEF Ideal!Canon, Canon, Ideal!Word, Word, Ideal!R, R, Ideal!Half, Half
<1>2. \A x, y : /\ Ideal!FAdd(x, y) = FAdd(x, y)
                /\ Ideal!FSub(x, y) = FSub(x, y)
                /\ Ideal!FMul(x, y) = FMul(x, y)
  BY DEF Ideal!FAdd, FAdd, Ideal!FSub, FSub, Ideal!FMul, FMul
<1>3. \A x : Ideal!FInv(x) = FInv(x)
  BY <1>1, <1>2 DEF Ideal!FInv, FInv
<1> QED  BY <1>1, <1>2, <1>3

(***************************************************************************)
(* What the temporaries mean while the ladder step has not yet overwritten  *)
(* a coordinate, in the names of RFC 7748.                                  *)
(***************************************************************************)
LA  == FAdd(Residue("x2"), Residue("z2"))
LB  == FSub(Residue("x2"), Residue("z2"))
LAA == FMul(LA, LA)
LBB == FMul(LB, LB)
LE  == FSub(LAA, LBB)
LC  == FAdd(Residue("x3"), Residue("z3"))
LD  == FSub(Residue("x3"), Residue("z3"))
LDA == FMul(LD, LA)
LCB == FMul(LC, LB)

Dataflow ==
  pc = "step" /\ op <= 10 =>
    /\ op > 1 => Residue("a") = LA
    /\ op > 2 => Residue("b") = LB
    /\ op > 3 => Residue("tmp3") = LAA
    /\ op > 4 => Residue("tmp4") = LBB
    /\ op > 5 => Residue("e") = LE
    /\ op > 6 => Residue("tmp1") = LC
    /\ op > 7 => Residue("tmp2") = LD
    /\ op > 8 => Residue("da") = LDA
    /\ op > 9 => Residue("cb") = LCB

(* Between the inversion and the last product, x25_result is the inverse. *)
Inverted == pc = "multiply" => reg["result"] = Inv(reg["z2"])

RInv == IInv /\ Dataflow /\ Inverted

(* The cursor's position in the scalar, and the bit it selects. *)
LEMMA CursorBit ==
  ASSUME IInv, pc \in {"swap", "step"}
  PROVE  /\ IdealT \in 0 .. LadderTop
         /\ IdealT = (W * byteIdx) + bitPos
         /\ IdealK[IdealT] = ScalarBit
<1>1. /\ W \in Nat \ {0} /\ NB \in Nat \ {0}
      /\ byteIdx \in 0 .. NB - 1 /\ bitPos \in 0 .. W - 1
      /\ byteIdx = NB - 1 => bitPos <= W - 2
  BY GeometryAssumption DEF IInv, TypeOK, Cursor
<1>2. IdealT = (W * byteIdx) + bitPos
  BY <1>1 DEF IdealT
<1>3. (W * byteIdx) + bitPos \in 0 .. (W * NB) - 2
  <2>1. CASE byteIdx = NB - 1
    <3>1. W * byteIdx = (W * NB) - W
      BY <1>1, <2>1
    <3> QED  BY <1>1, <2>1, <3>1
  <2>2. CASE byteIdx # NB - 1
    <3>1. PICK d \in Nat : NB = byteIdx + 2 + d
      <4>1. NB - byteIdx - 2 \in Nat
        BY <1>1, <2>2
      <4> QED  BY <1>1, <4>1
    <3>2. W * NB = (W * byteIdx) + (2 * W) + (W * d)
      BY <1>1, <3>1
    <3>3. W * byteIdx \in Nat /\ W * d \in Nat
      BY <1>1
    <3> QED  BY <1>1, <3>2, <3>3
  <2> QED  BY <2>1, <2>2
<1>4. ((W * byteIdx) + bitPos) % W = bitPos /\ ((W * byteIdx) + bitPos) \div W = byteIdx
  BY <1>1, DivModUnique
<1>5. IdealT \in 0 .. LadderTop
  BY <1>2, <1>3 DEF LadderTop
<1>6. IdealK[IdealT] = (IdealT % W \in scalar[IdealT \div W])
  BY <1>5 DEF IdealK
<1> QED  BY <1>2, <1>4, <1>5, <1>6 DEF ScalarBit

(* A buffer whose content is left alone keeps its residue. *)
LEMMA SameResidue ==
  ASSUME NEW r, reg'[r] = reg[r]
  PROVE  Residue(r)' = Residue(r)
  BY DEF Residue

(***************************************************************************)
(* The first nine operations fill the temporaries from coordinates that     *)
(* none of them writes.                                                     *)
(***************************************************************************)
LEMMA NamedBuffers ==
  /\ "a" \in Regs /\ "b" \in Regs /\ "da" \in Regs /\ "cb" \in Regs /\ "e" \in Regs
  /\ "tmp1" \in Regs /\ "tmp2" \in Regs /\ "tmp3" \in Regs /\ "tmp4" \in Regs
  /\ "x1" \in Regs /\ "x2" \in Regs /\ "z2" \in Regs /\ "x3" \in Regs /\ "z3" \in Regs
  /\ "u" \in Regs /\ "result" \in Regs
  BY DEF Regs, Temps

(* An operation that writes buffer d leaves every other residue alone. *)
LEMMA OtherResidues ==
  ASSUME NEW n, NEW d, Wrote(n, d)
  PROVE  \A r \in Regs \ {d} : Residue(r)' = Residue(r)
  BY DEF Wrote, Residue

(* Each of them establishes its part of the dataflow and keeps the rest. *)
LEMMA DataflowStep ==
  ASSUME IInv, Dataflow, LadderStep
  PROVE  Dataflow'
<1>1. CASE StepA
  <2>1. Wrote(1, "a")
    BY <1>1, Effects
  <2>2. \A r \in Regs \ {"a"} : Residue(r)' = Residue(r)
    BY <2>1, OtherResidues
  <2> QED  BY <1>1, <2>1, <2>2, Effects, NamedBuffers
           DEF Dataflow, Wrote, LA, LB, LAA, LBB, LE, LC, LD, LDA, LCB
<1>2. CASE StepB
  <2>1. Wrote(2, "b")
    BY <1>2, Effects
  <2>2. \A r \in Regs \ {"b"} : Residue(r)' = Residue(r)
    BY <2>1, OtherResidues
  <2> QED  BY <1>2, <2>1, <2>2, Effects, NamedBuffers
           DEF Dataflow, Wrote, LA, LB, LAA, LBB, LE, LC, LD, LDA, LCB
<1>3. CASE StepAA
  <2>1. Wrote(3, "tmp3")
    BY <1>3, Effects
  <2>2. \A r \in Regs \ {"tmp3"} : Residue(r)' = Residue(r)
    BY <2>1, OtherResidues
  <2> QED  BY <1>3, <2>1, <2>2, Effects, NamedBuffers
           DEF Dataflow, Wrote, LA, LB, LAA, LBB, LE, LC, LD, LDA, LCB
<1>4. CASE StepBB
  <2>1. Wrote(4, "tmp4")
    BY <1>4, Effects
  <2>2. \A r \in Regs \ {"tmp4"} : Residue(r)' = Residue(r)
    BY <2>1, OtherResidues
  <2> QED  BY <1>4, <2>1, <2>2, Effects, NamedBuffers
           DEF Dataflow, Wrote, LA, LB, LAA, LBB, LE, LC, LD, LDA, LCB
<1>5. CASE StepE
  <2>1. Wrote(5, "e")
    BY <1>5, Effects
  <2>2. \A r \in Regs \ {"e"} : Residue(r)' = Residue(r)
    BY <2>1, OtherResidues
  <2> QED  BY <1>5, <2>1, <2>2, Effects, NamedBuffers
           DEF Dataflow, Wrote, LA, LB, LAA, LBB, LE, LC, LD, LDA, LCB
<1>6. CASE StepC
  <2>1. Wrote(6, "tmp1")
    BY <1>6, Effects
  <2>2. \A r \in Regs \ {"tmp1"} : Residue(r)' = Residue(r)
    BY <2>1, OtherResidues
  <2> QED  BY <1>6, <2>1, <2>2, Effects, NamedBuffers
           DEF Dataflow, Wrote, LA, LB, LAA, LBB, LE, LC, LD, LDA, LCB
<1>7. CASE StepD
  <2>1. Wrote(7, "tmp2")
    BY <1>7, Effects
  <2>2. \A r \in Regs \ {"tmp2"} : Residue(r)' = Residue(r)
    BY <2>1, OtherResidues
  <2> QED  BY <1>7, <2>1, <2>2, Effects, NamedBuffers
           DEF Dataflow, Wrote, LA, LB, LAA, LBB, LE, LC, LD, LDA, LCB
<1>8. CASE StepDA
  <2>1. Wrote(8, "da")
    BY <1>8, Effects
  <2>2. \A r \in Regs \ {"da"} : Residue(r)' = Residue(r)
    BY <2>1, OtherResidues
  <2> QED  BY <1>8, <2>1, <2>2, Effects, NamedBuffers
           DEF Dataflow, Wrote, LA, LB, LAA, LBB, LE, LC, LD, LDA, LCB
<1>9. CASE StepCB
  <2>1. Wrote(9, "cb")
    BY <1>9, Effects
  <2>2. \A r \in Regs \ {"cb"} : Residue(r)' = Residue(r)
    BY <2>1, OtherResidues
  <2> QED  BY <1>9, <2>1, <2>2, Effects, NamedBuffers
           DEF Dataflow, Wrote, LA, LB, LAA, LBB, LE, LC, LD, LDA, LCB
<1>10. CASE ~ (op \in 1 .. 9)
  <2>1. op' > 10
    BY <1>10 DEF LadderStep, Operation, StepA, StepB, StepAA, StepBB, StepE, StepC, StepD,
       StepDA, StepCB, StepSum, StepX3, StepDiff, StepDiff2, StepZ3, StepX2, StepA24E,
       StepAA24E, StepZ2
  <2>2. op' \in 1 .. 19
    BY LadderStepInvariant DEF IInv, TypeOK
  <2>3. ~ (op' <= 10)
    BY <2>1, <2>2
  <2> QED  BY <2>3 DEF Dataflow
<1> QED
  BY <1>1, <1>2, <1>3, <1>4, <1>5, <1>6, <1>7, <1>8, <1>9, <1>10
     DEF LadderStep, Operation, StepSum, StepX3, StepDiff, StepDiff2, StepZ3, StepX2,
         StepA24E, StepAA24E, StepZ2

(* The strengthened invariant of the refinement is inductive. *)
LEMMA RInvNext == RInv /\ [Next]_vars => RInv'
<1> SUFFICES ASSUME RInv, [Next]_vars
             PROVE  RInv'
  OBVIOUS
<1> USE DEF RInv
<1>1. IInv'
  BY NextInvariant
<1>2. Dataflow'
  <2>1. CASE LadderStep
    BY <2>1, DataflowStep
  <2>2. CASE Swap
    <3>1. op' = 1
      BY <2>2 DEF Swap
    <3> QED  BY <3>1 DEF Dataflow
  <2>3. CASE pc' # "step"
    BY <2>3 DEF Dataflow
  <2>4. CASE UNCHANGED vars
    BY <2>4 DEF vars, Dataflow, Residue, LA, LB, LAA, LBB, LE, LC, LD, LDA, LCB
  <2> QED
    BY <2>1, <2>2, <2>3, <2>4 DEF Next, Call, Compute, Clamp, Base, ScalarMult, Setup,
       NextBit, FinalSwap, Invert, Multiply, Return
<1>3. Inverted'
  <2>1. CASE Invert
    <3>1. reg \in [Regs -> Word] /\ "z2" \in Regs \ (Temps \cup {"result"})
      BY DEF IInv, TypeOK, Regs, Temps
    <3> QED  BY <2>1, <3>1, InvertedBuffers DEF Inverted
  <2>2. CASE pc' # "multiply"
    BY <2>2 DEF Inverted
  <2>3. CASE UNCHANGED vars
    BY <2>3 DEF vars, Inverted
  <2>4. CASE LadderStep
    <3>1. pc' = "step"
      BY <2>4, Effects DEF LadderStep, Wrote
    <3> QED  BY <3>1 DEF Inverted
  <2> QED
    BY <2>1, <2>2, <2>3, <2>4 DEF Next, Call, Compute, Clamp, Base, ScalarMult, Setup,
       Swap, NextBit, FinalSwap, Multiply, Return
<1> QED  BY <1>1, <1>2, <1>3

(* It holds initially, and so throughout. *)
LEMMA RInvariance == Spec => []RInv
<1>1. Init => RInv
  BY InitInvariant DEF Init, RInv, Dataflow, Inverted
<1>2. RInv /\ [Next]_vars => RInv'
  BY RInvNext
<1> QED  BY <1>1, <1>2, PTL DEF Spec

(***************************************************************************)
(* The mapping.                                                             *)
(***************************************************************************)

(* Outside the committed part of a step the coordinates are the buffers'. *)
LEMMA Uncommitted ==
  ASSUME ~Committed
  PROVE  /\ IdealX2 = Residue("x2") /\ IdealZ2 = Residue("z2")
         /\ IdealX3 = Residue("x3") /\ IdealZ3 = Residue("z3")
  BY DEF IdealX2, IdealZ2, IdealX3, IdealZ3

(* The mapped inputs and ladder coordinates are of the ideal's types. *)
LEMMA InputMapped ==
  ASSUME IInv
  PROVE  IdealK \in Ideal!AbsScalar /\ IdealU \in Ideal!Canon
<1>1. IdealK \in Ideal!AbsScalar
  BY DEF IdealK, Ideal!AbsScalar
<1>2. IdealU \in Canon
  BY NamedBuffers, BufferWord, DecodedWord DEF IdealU, IInv, TypeOK
<1> QED  BY <1>1, <1>2, IdealField

(* Initial states map to initial states. *)
LEMMA InitMapped == Init => Ideal!AbsInit
<1> SUFFICES ASSUME Init
             PROVE  Ideal!AbsInit
  OBVIOUS
<1>1. IInv /\ ~Committed /\ IdealPhase = "idle"
  BY InitInvariant DEF Init, Committed, IdealPhase
<1>2. /\ Residue("x1") \in Canon /\ Residue("x2") \in Canon /\ Residue("z2") \in Canon
      /\ Residue("x3") \in Canon /\ Residue("z3") \in Canon /\ reg["result"] \in Word
  BY <1>1, NamedBuffers, BufferWord DEF IInv, TypeOK
<1>3. IdealT \in 0 .. LadderTop
  <2>1. W \in Nat /\ NB \in Nat /\ W >= 2 /\ NB >= 1 /\ byteIdx = NB - 1 /\ bitPos = W - 2
    BY GeometryAssumption DEF Init
  <2>2. W * (NB - 1) = (W * NB) - W /\ W * (NB - 1) >= 0
    BY <2>1
  <2>3. IdealT = (W * (NB - 1)) + (W - 2)
    BY <2>1 DEF IdealT
  <2> QED  BY <2>1, <2>2, <2>3 DEF LadderTop
<1>4. IdealOut = reg["result"] /\ prevBit \in BOOLEAN
  BY DEF Init, IdealOut
<1> QED  BY <1>1, <1>2, <1>3, <1>4, InputMapped, Uncommitted, IdealField DEF Ideal!AbsInit

(* What an operation of the ladder step cannot change of the mapped state. *)
LEMMA OperationMapped ==
  ASSUME NEW n \in 1 .. 18, NEW d \in Regs \ {"u", "x1", "result"}, NEW v,
         Operation(n, d, v), Wrote(n, d)
  PROVE  /\ UNCHANGED <<IdealK, IdealU, Residue("x1"), prevBit, IdealT, IdealOut>>
         /\ IdealPhase' = IF n >= 10 THEN "next" ELSE "step"
         /\ IdealPhase = IF n >= 11 THEN "next" ELSE "step"
<1>1. /\ UNCHANGED <<scalar, byteIdx, bitPos, prevBit>>
      /\ pc = "step" /\ pc' = "step" /\ op = n /\ op' = n + 1
  BY DEF Operation
<1>2. reg'["u"] = reg["u"] /\ reg'["x1"] = reg["x1"]
  BY NamedBuffers DEF Wrote
<1>3. UNCHANGED <<IdealK, IdealU, Residue("x1"), prevBit, IdealT, IdealOut>>
  BY <1>1, <1>2 DEF IdealK, IdealU, Residue, IdealT, IdealOut, LadderTop
<1>4. (op > 10 <=> n >= 11) /\ (op' > 10 <=> n >= 10)
  BY <1>1
<1> QED  BY <1>1, <1>3, <1>4 DEF IdealPhase, Committed

(***************************************************************************)
(* The operations that leave the mapped state alone: the ones before the    *)
(* first coordinate is overwritten, and the ones after, which make the      *)
(* buffers what the mapping has already promised.                           *)
(***************************************************************************)
LEMMA LadderStepStutters ==
  ASSUME RInv, LadderStep, op # 10
  PROVE  UNCHANGED Ideal!absVars
<1> USE DEF RInv
<1> SUFFICES
      /\ UNCHANGED <<IdealK, IdealU, Residue("x1"), prevBit, IdealT, IdealOut, IdealPhase>>
      /\ UNCHANGED <<IdealX2, IdealZ2, IdealX3, IdealZ3>>
  BY DEF Ideal!absVars
<1>1. CASE StepA
  <2>1. Wrote(1, "a") /\ op = 1 /\ op' = 2 /\ pc = "step" /\ pc' = "step"
    BY <1>1, Effects DEF Wrote
  <2>2. UNCHANGED <<IdealK, IdealU, Residue("x1"), prevBit, IdealT, IdealOut, IdealPhase>>
    BY <1>1, <2>1, OperationMapped, NamedBuffers DEF StepA
  <2>3. \A r \in Regs \ {"a"} : Residue(r)' = Residue(r)
    BY <2>1, OtherResidues
  <2>4. UNCHANGED <<IdealX2, IdealZ2, IdealX3, IdealZ3>>
    BY <2>1, <2>3, NamedBuffers DEF IdealX2, IdealZ2, IdealX3, IdealZ3, Committed
  <2> QED  BY <2>2, <2>4
<1>2. CASE StepB
  <2>1. Wrote(2, "b") /\ op = 2 /\ op' = 3 /\ pc = "step" /\ pc' = "step"
    BY <1>2, Effects DEF Wrote
  <2>2. UNCHANGED <<IdealK, IdealU, Residue("x1"), prevBit, IdealT, IdealOut, IdealPhase>>
    BY <1>2, <2>1, OperationMapped, NamedBuffers DEF StepB
  <2>3. \A r \in Regs \ {"b"} : Residue(r)' = Residue(r)
    BY <2>1, OtherResidues
  <2>4. UNCHANGED <<IdealX2, IdealZ2, IdealX3, IdealZ3>>
    BY <2>1, <2>3, NamedBuffers DEF IdealX2, IdealZ2, IdealX3, IdealZ3, Committed
  <2> QED  BY <2>2, <2>4
<1>3. CASE StepAA
  <2>1. Wrote(3, "tmp3") /\ op = 3 /\ op' = 4 /\ pc = "step" /\ pc' = "step"
    BY <1>3, Effects DEF Wrote
  <2>2. UNCHANGED <<IdealK, IdealU, Residue("x1"), prevBit, IdealT, IdealOut, IdealPhase>>
    BY <1>3, <2>1, OperationMapped, NamedBuffers DEF StepAA
  <2>3. \A r \in Regs \ {"tmp3"} : Residue(r)' = Residue(r)
    BY <2>1, OtherResidues
  <2>4. UNCHANGED <<IdealX2, IdealZ2, IdealX3, IdealZ3>>
    BY <2>1, <2>3, NamedBuffers DEF IdealX2, IdealZ2, IdealX3, IdealZ3, Committed
  <2> QED  BY <2>2, <2>4
<1>4. CASE StepBB
  <2>1. Wrote(4, "tmp4") /\ op = 4 /\ op' = 5 /\ pc = "step" /\ pc' = "step"
    BY <1>4, Effects DEF Wrote
  <2>2. UNCHANGED <<IdealK, IdealU, Residue("x1"), prevBit, IdealT, IdealOut, IdealPhase>>
    BY <1>4, <2>1, OperationMapped, NamedBuffers DEF StepBB
  <2>3. \A r \in Regs \ {"tmp4"} : Residue(r)' = Residue(r)
    BY <2>1, OtherResidues
  <2>4. UNCHANGED <<IdealX2, IdealZ2, IdealX3, IdealZ3>>
    BY <2>1, <2>3, NamedBuffers DEF IdealX2, IdealZ2, IdealX3, IdealZ3, Committed
  <2> QED  BY <2>2, <2>4
<1>5. CASE StepE
  <2>1. Wrote(5, "e") /\ op = 5 /\ op' = 6 /\ pc = "step" /\ pc' = "step"
    BY <1>5, Effects DEF Wrote
  <2>2. UNCHANGED <<IdealK, IdealU, Residue("x1"), prevBit, IdealT, IdealOut, IdealPhase>>
    BY <1>5, <2>1, OperationMapped, NamedBuffers DEF StepE
  <2>3. \A r \in Regs \ {"e"} : Residue(r)' = Residue(r)
    BY <2>1, OtherResidues
  <2>4. UNCHANGED <<IdealX2, IdealZ2, IdealX3, IdealZ3>>
    BY <2>1, <2>3, NamedBuffers DEF IdealX2, IdealZ2, IdealX3, IdealZ3, Committed
  <2> QED  BY <2>2, <2>4
<1>6. CASE StepC
  <2>1. Wrote(6, "tmp1") /\ op = 6 /\ op' = 7 /\ pc = "step" /\ pc' = "step"
    BY <1>6, Effects DEF Wrote
  <2>2. UNCHANGED <<IdealK, IdealU, Residue("x1"), prevBit, IdealT, IdealOut, IdealPhase>>
    BY <1>6, <2>1, OperationMapped, NamedBuffers DEF StepC
  <2>3. \A r \in Regs \ {"tmp1"} : Residue(r)' = Residue(r)
    BY <2>1, OtherResidues
  <2>4. UNCHANGED <<IdealX2, IdealZ2, IdealX3, IdealZ3>>
    BY <2>1, <2>3, NamedBuffers DEF IdealX2, IdealZ2, IdealX3, IdealZ3, Committed
  <2> QED  BY <2>2, <2>4
<1>7. CASE StepD
  <2>1. Wrote(7, "tmp2") /\ op = 7 /\ op' = 8 /\ pc = "step" /\ pc' = "step"
    BY <1>7, Effects DEF Wrote
  <2>2. UNCHANGED <<IdealK, IdealU, Residue("x1"), prevBit, IdealT, IdealOut, IdealPhase>>
    BY <1>7, <2>1, OperationMapped, NamedBuffers DEF StepD
  <2>3. \A r \in Regs \ {"tmp2"} : Residue(r)' = Residue(r)
    BY <2>1, OtherResidues
  <2>4. UNCHANGED <<IdealX2, IdealZ2, IdealX3, IdealZ3>>
    BY <2>1, <2>3, NamedBuffers DEF IdealX2, IdealZ2, IdealX3, IdealZ3, Committed
  <2> QED  BY <2>2, <2>4
<1>8. CASE StepDA
  <2>1. Wrote(8, "da") /\ op = 8 /\ op' = 9 /\ pc = "step" /\ pc' = "step"
    BY <1>8, Effects DEF Wrote
  <2>2. UNCHANGED <<IdealK, IdealU, Residue("x1"), prevBit, IdealT, IdealOut, IdealPhase>>
    BY <1>8, <2>1, OperationMapped, NamedBuffers DEF StepDA
  <2>3. \A r \in Regs \ {"da"} : Residue(r)' = Residue(r)
    BY <2>1, OtherResidues
  <2>4. UNCHANGED <<IdealX2, IdealZ2, IdealX3, IdealZ3>>
    BY <2>1, <2>3, NamedBuffers DEF IdealX2, IdealZ2, IdealX3, IdealZ3, Committed
  <2> QED  BY <2>2, <2>4
<1>9. CASE StepCB
  <2>1. Wrote(9, "cb") /\ op = 9 /\ op' = 10 /\ pc = "step" /\ pc' = "step"
    BY <1>9, Effects DEF Wrote
  <2>2. UNCHANGED <<IdealK, IdealU, Residue("x1"), prevBit, IdealT, IdealOut, IdealPhase>>
    BY <1>9, <2>1, OperationMapped, NamedBuffers DEF StepCB
  <2>3. \A r \in Regs \ {"cb"} : Residue(r)' = Residue(r)
    BY <2>1, OtherResidues
  <2>4. UNCHANGED <<IdealX2, IdealZ2, IdealX3, IdealZ3>>
    BY <2>1, <2>3, NamedBuffers DEF IdealX2, IdealZ2, IdealX3, IdealZ3, Committed
  <2> QED  BY <2>2, <2>4
<1>11. CASE StepX3
  <2>1. Wrote(11, "x3") /\ op = 11 /\ op' = 12 /\ pc = "step" /\ pc' = "step"
    BY <1>11, Effects DEF Wrote
  <2>2. UNCHANGED <<IdealK, IdealU, Residue("x1"), prevBit, IdealT, IdealOut, IdealPhase>>
    BY <1>11, <2>1, OperationMapped, NamedBuffers DEF StepX3
  <2>3. \A r \in Regs \ {"x3"} : Residue(r)' = Residue(r)
    BY <2>1, OtherResidues
  <2>4. UNCHANGED <<IdealX2, IdealZ2, IdealX3, IdealZ3>>
    BY <1>11, <2>1, <2>3, Effects, NamedBuffers
       DEF IdealX2, IdealZ2, IdealX3, IdealZ3, Committed
  <2> QED  BY <2>2, <2>4
<1>12. CASE StepDiff
  <2>1. Wrote(12, "z3") /\ op = 12 /\ op' = 13 /\ pc = "step" /\ pc' = "step"
    BY <1>12, Effects DEF Wrote
  <2>2. UNCHANGED <<IdealK, IdealU, Residue("x1"), prevBit, IdealT, IdealOut, IdealPhase>>
    BY <1>12, <2>1, OperationMapped, NamedBuffers DEF StepDiff
  <2>3. \A r \in Regs \ {"z3"} : Residue(r)' = Residue(r)
    BY <2>1, OtherResidues
  <2>4. UNCHANGED <<IdealX2, IdealZ2, IdealX3, IdealZ3>>
    BY <1>12, <2>1, <2>3, Effects, NamedBuffers
       DEF IdealX2, IdealZ2, IdealX3, IdealZ3, Committed
  <2> QED  BY <2>2, <2>4
<1>13. CASE StepDiff2
  <2>1. Wrote(13, "z3") /\ op = 13 /\ op' = 14 /\ pc = "step" /\ pc' = "step"
    BY <1>13, Effects DEF Wrote
  <2>2. UNCHANGED <<IdealK, IdealU, Residue("x1"), prevBit, IdealT, IdealOut, IdealPhase>>
    BY <1>13, <2>1, OperationMapped, NamedBuffers DEF StepDiff2
  <2>3. \A r \in Regs \ {"z3"} : Residue(r)' = Residue(r)
    BY <2>1, OtherResidues
  <2>4. UNCHANGED <<IdealX2, IdealZ2, IdealX3, IdealZ3>>
    BY <1>13, <2>1, <2>3, Effects, NamedBuffers
       DEF IdealX2, IdealZ2, IdealX3, IdealZ3, Committed
  <2> QED  BY <2>2, <2>4
<1>14. CASE StepZ3
  <2>1. Wrote(14, "z3") /\ op = 14 /\ op' = 15 /\ pc = "step" /\ pc' = "step"
    BY <1>14, Effects DEF Wrote
  <2>2. UNCHANGED <<IdealK, IdealU, Residue("x1"), prevBit, IdealT, IdealOut, IdealPhase>>
    BY <1>14, <2>1, OperationMapped, NamedBuffers DEF StepZ3
  <2>3. \A r \in Regs \ {"z3"} : Residue(r)' = Residue(r)
    BY <2>1, OtherResidues
  <2>4. UNCHANGED <<IdealX2, IdealZ2, IdealX3, IdealZ3>>
    BY <1>14, <2>1, <2>3, Effects, NamedBuffers
       DEF IdealX2, IdealZ2, IdealX3, IdealZ3, Committed
  <2> QED  BY <2>2, <2>4
<1>15. CASE StepX2
  <2>1. Wrote(15, "x2") /\ op = 15 /\ op' = 16 /\ pc = "step" /\ pc' = "step"
    BY <1>15, Effects DEF Wrote
  <2>2. UNCHANGED <<IdealK, IdealU, Residue("x1"), prevBit, IdealT, IdealOut, IdealPhase>>
    BY <1>15, <2>1, OperationMapped, NamedBuffers DEF StepX2
  <2>3. \A r \in Regs \ {"x2"} : Residue(r)' = Residue(r)
    BY <2>1, OtherResidues
  <2>4. UNCHANGED <<IdealX2, IdealZ2, IdealX3, IdealZ3>>
    BY <1>15, <2>1, <2>3, Effects, NamedBuffers
       DEF IdealX2, IdealZ2, IdealX3, IdealZ3, Committed
  <2> QED  BY <2>2, <2>4
<1>16. CASE StepA24E
  <2>1. Wrote(16, "tmp1") /\ op = 16 /\ op' = 17 /\ pc = "step" /\ pc' = "step"
    BY <1>16, Effects DEF Wrote
  <2>2. UNCHANGED <<IdealK, IdealU, Residue("x1"), prevBit, IdealT, IdealOut, IdealPhase>>
    BY <1>16, <2>1, OperationMapped, NamedBuffers DEF StepA24E
  <2>3. \A r \in Regs \ {"tmp1"} : Residue(r)' = Residue(r)
    BY <2>1, OtherResidues
  <2>4. UNCHANGED <<IdealX2, IdealZ2, IdealX3, IdealZ3>>
    BY <1>16, <2>1, <2>3, Effects, NamedBuffers
       DEF IdealX2, IdealZ2, IdealX3, IdealZ3, Committed
  <2> QED  BY <2>2, <2>4
<1>17. CASE StepAA24E
  <2>1. Wrote(17, "tmp1") /\ op = 17 /\ op' = 18 /\ pc = "step" /\ pc' = "step"
    BY <1>17, Effects DEF Wrote
  <2>2. UNCHANGED <<IdealK, IdealU, Residue("x1"), prevBit, IdealT, IdealOut, IdealPhase>>
    BY <1>17, <2>1, OperationMapped, NamedBuffers DEF StepAA24E
  <2>3. \A r \in Regs \ {"tmp1"} : Residue(r)' = Residue(r)
    BY <2>1, OtherResidues
  <2>4. UNCHANGED <<IdealX2, IdealZ2, IdealX3, IdealZ3>>
    BY <1>17, <2>1, <2>3, Effects, NamedBuffers
       DEF IdealX2, IdealZ2, IdealX3, IdealZ3, Committed
  <2> QED  BY <2>2, <2>4
<1>18. CASE StepZ2
  <2>1. Wrote(18, "z2") /\ op = 18 /\ op' = 19 /\ pc = "step" /\ pc' = "step"
    BY <1>18, Effects DEF Wrote
  <2>2. UNCHANGED <<IdealK, IdealU, Residue("x1"), prevBit, IdealT, IdealOut, IdealPhase>>
    BY <1>18, <2>1, OperationMapped, NamedBuffers DEF StepZ2
  <2>3. \A r \in Regs \ {"z2"} : Residue(r)' = Residue(r)
    BY <2>1, OtherResidues
  <2>4. UNCHANGED <<IdealX2, IdealZ2, IdealX3, IdealZ3>>
    BY <1>18, <2>1, <2>3, Effects, NamedBuffers
       DEF IdealX2, IdealZ2, IdealX3, IdealZ3, Committed
  <2> QED  BY <2>2, <2>4
<1> QED
  BY <1>1, <1>2, <1>3, <1>4, <1>5, <1>6, <1>7, <1>8, <1>9, <1>11, <1>12,
     <1>13, <1>14, <1>15, <1>16, <1>17, <1>18 DEF LadderStep, StepSum, Operation

(* The first write to a coordinate commits the whole ideal step. *)
LEMMA CommitMapped ==
  ASSUME RInv, StepSum
  PROVE  Ideal!LadderStep
<1> USE DEF RInv
<1>1. Wrote(10, "x3") /\ op = 10 /\ op' = 11 /\ pc = "step" /\ pc' = "step"
  BY Effects DEF Wrote
<1>2. /\ UNCHANGED <<IdealK, IdealU, Residue("x1"), prevBit, IdealT, IdealOut>>
      /\ IdealPhase' = "next" /\ IdealPhase = "step"
  BY <1>1, OperationMapped, NamedBuffers DEF StepSum
<1>3. \A r \in Regs \ {"x3"} : Residue(r)' = Residue(r)
  BY <1>1, OtherResidues
<1>4. /\ Residue("tmp3") = LAA /\ Residue("tmp4") = LBB /\ Residue("e") = LE
      /\ Residue("da") = LDA /\ Residue("cb") = LCB
  BY <1>1 DEF Dataflow
<1>5. /\ IdealX2 = Residue("x2") /\ IdealZ2 = Residue("z2")
      /\ IdealX3 = Residue("x3") /\ IdealZ3 = Residue("z3")
  BY <1>1, Uncommitted DEF Committed
<1>6. IdealX3' = FMul(FAdd(LDA, LCB), FAdd(LDA, LCB))
  BY <1>1, <1>4, Effects DEF IdealX3, Committed
<1>7. IdealZ3' = FMul(Residue("x1"), FMul(FSub(LDA, LCB), FSub(LDA, LCB)))
  BY <1>1, <1>3, <1>4, NamedBuffers DEF IdealZ3, Committed
<1>8. IdealX2' = FMul(LAA, LBB)
  BY <1>1, <1>3, <1>4, NamedBuffers DEF IdealX2, Committed
<1>9. IdealZ2' = FMul(LE, FAdd(LAA, FMul(A24 % P, LE)))
  BY <1>1, <1>3, <1>4, NamedBuffers DEF IdealZ2, Committed
<1> QED
  BY <1>2, <1>5, <1>6, <1>7, <1>8, <1>9, IdealField
     DEF Ideal!LadderStep, LA, LB, LAA, LBB, LE, LC, LD, LDA, LCB

(* @bit_loop's conditional swap is the ideal's. *)
LEMMA SwapMapped ==
  ASSUME RInv, Swap
  PROVE  Ideal!CSwap
<1> USE DEF RInv
<1>1. /\ pc = "swap" /\ pc' = "step" /\ op' = 1 /\ prevBit' = ScalarBit
      /\ UNCHANGED <<scalar, byteIdx, bitPos>>
      /\ reg' = CSwapRegs(reg, ScalarBit # prevBit)
  BY DEF Swap
<1>2. ScalarBit \in BOOLEAN /\ (ScalarBit # prevBit) \in BOOLEAN /\ reg \in [Regs -> Word]
  BY DEF ScalarBit, IInv, TypeOK
<1>3. ~Committed /\ ~Committed' /\ IdealPhase = "swap" /\ IdealPhase' = "step"
  BY <1>1 DEF Committed, IdealPhase
<1>4. /\ IdealX2 = Residue("x2") /\ IdealZ2 = Residue("z2")
      /\ IdealX3 = Residue("x3") /\ IdealZ3 = Residue("z3")
  BY <1>3, Uncommitted
<1>5. /\ IdealX2' = Residue("x2")' /\ IdealZ2' = Residue("z2")'
      /\ IdealX3' = Residue("x3")' /\ IdealZ3' = Residue("z3")'
  BY <1>3 DEF IdealX2, IdealZ2, IdealX3, IdealZ3
<1>6. /\ UNCHANGED <<IdealU, Residue("x1")>>
      /\ IF ScalarBit # prevBit
           THEN /\ Residue("x2")' = Residue("x3") /\ Residue("x3")' = Residue("x2")
                /\ Residue("z2")' = Residue("z3") /\ Residue("z3")' = Residue("z2")
           ELSE UNCHANGED <<Residue("x2"), Residue("x3"), Residue("z2"), Residue("z3")>>
  BY <1>1, <1>2, SwapBuffers, NamedBuffers DEF Residue, IdealU
<1>7. UNCHANGED <<IdealK, IdealT, IdealOut>>
  BY <1>1 DEF IdealK, IdealT, IdealOut, LadderTop
<1>8. IdealK[IdealT] = ScalarBit
  BY <1>1, CursorBit
<1> QED  BY <1>1, <1>3, <1>4, <1>5, <1>6, <1>7, <1>8 DEF Ideal!CSwap

(* The byte index and bit mask step like the ideal's bit number. *)
LEMMA NextBitMapped ==
  ASSUME RInv, NextBit
  PROVE  Ideal!NextBit
<1> USE DEF RInv
<1>1. /\ pc = "step" /\ op = 19 /\ pc' \in {"swap", "final"}
      /\ UNCHANGED <<op, reg, scalar, prevBit>>
  BY DEF NextBit
<1>2. /\ W \in Nat /\ W >= 2 /\ byteIdx \in Nat /\ bitPos \in 0 .. W - 1
      /\ IdealT = (W * byteIdx) + bitPos
  BY <1>1, GeometryAssumption, CursorBit DEF IInv, TypeOK
<1>3. IF IdealT > 0 THEN pc' = "swap" /\ IdealT' = IdealT - 1
                    ELSE pc' = "final" /\ IdealT' = 0
  <2>1. CASE bitPos > 0
    <3>1. pc' = "swap" /\ byteIdx' = byteIdx /\ bitPos' = bitPos - 1
      BY <2>1 DEF NextBit
    <3>2. W * byteIdx \in Nat
      BY <1>2
    <3>3. IdealT' = (W * byteIdx) + (bitPos - 1)
      BY <1>2, <3>1 DEF IdealT
    <3> QED  BY <1>2, <2>1, <3>1, <3>2, <3>3
  <2>2. CASE ~ bitPos > 0 /\ byteIdx > 0
    <3>1. pc' = "swap" /\ byteIdx' = byteIdx - 1 /\ bitPos' = W - 1
      BY <1>2, <2>2 DEF NextBit
    <3>2. IdealT' = (W * (byteIdx - 1)) + (W - 1)
      BY <1>2, <2>2, <3>1 DEF IdealT
    <3>3. PICK d \in Nat : byteIdx = d + 1
      <4>1. byteIdx - 1 \in Nat
        BY <1>2, <2>2
      <4> QED  BY <1>2, <4>1
    <3>4. W * (byteIdx - 1) = W * d /\ W * byteIdx = (W * d) + W /\ W * d \in Nat
      BY <1>2, <3>3
    <3> QED  BY <1>2, <2>2, <3>1, <3>2, <3>4
  <2>3. CASE ~ bitPos > 0 /\ byteIdx = 0
    <3>1. pc' = "final" /\ byteIdx' = -1
      BY <1>2, <2>3 DEF NextBit
    <3>2. IdealT' = 0 /\ IdealT = 0
      BY <1>2, <2>3, <3>1 DEF IdealT
    <3> QED  BY <3>1, <3>2
  <2> QED  BY <1>2, <2>1, <2>2, <2>3
<1>4. IdealPhase = "next" /\ IdealPhase' = pc'
  BY <1>1 DEF IdealPhase, Committed
<1>5. UNCHANGED <<IdealX2, IdealZ2, IdealX3, IdealZ3>>
  BY <1>1 DEF IdealX2, IdealZ2, IdealX3, IdealZ3, Committed, Residue
<1>6. UNCHANGED <<IdealK, IdealU, Residue("x1"), prevBit, IdealOut>>
  BY <1>1 DEF IdealK, IdealU, Residue, IdealOut, LadderTop
<1> QED  BY <1>3, <1>4, <1>5, <1>6 DEF Ideal!NextBit

(* The swap after the loop. *)
LEMMA FinalSwapMapped ==
  ASSUME RInv, FinalSwap
  PROVE  Ideal!FinalSwap
<1> USE DEF RInv
<1>1. /\ pc = "final" /\ pc' = "invert"
      /\ UNCHANGED <<op, scalar, prevBit, byteIdx, bitPos>>
      /\ reg' = CSwapRegs(reg, prevBit)
  BY DEF FinalSwap
<1>2. prevBit \in BOOLEAN /\ reg \in [Regs -> Word]
  BY DEF IInv, TypeOK
<1>3. ~Committed /\ ~Committed' /\ IdealPhase = "final" /\ IdealPhase' = "divide"
  BY <1>1 DEF Committed, IdealPhase
<1>4. /\ IdealX2 = Residue("x2") /\ IdealZ2 = Residue("z2")
      /\ IdealX3 = Residue("x3") /\ IdealZ3 = Residue("z3")
  BY <1>3, Uncommitted
<1>5. /\ IdealX2' = Residue("x2")' /\ IdealZ2' = Residue("z2")'
      /\ IdealX3' = Residue("x3")' /\ IdealZ3' = Residue("z3")'
  BY <1>3 DEF IdealX2, IdealZ2, IdealX3, IdealZ3
<1>6. /\ UNCHANGED <<IdealU, Residue("x1")>>
      /\ IF prevBit
           THEN /\ Residue("x2")' = Residue("x3") /\ Residue("x3")' = Residue("x2")
                /\ Residue("z2")' = Residue("z3") /\ Residue("z3")' = Residue("z2")
           ELSE UNCHANGED <<Residue("x2"), Residue("x3"), Residue("z2"), Residue("z3")>>
  BY <1>1, <1>2, SwapBuffers, NamedBuffers DEF Residue, IdealU
<1>7. UNCHANGED <<IdealK, IdealT, IdealOut>>
  BY <1>1 DEF IdealK, IdealT, IdealOut, LadderTop
<1> QED  BY <1>1, <1>3, <1>4, <1>5, <1>6, <1>7 DEF Ideal!FinalSwap

(* Loading the working buffers starts the ideal ladder. *)
LEMMA SetupMapped ==
  ASSUME RInv, Setup
  PROVE  Ideal!Start
<1> USE DEF RInv
<1>1. /\ pc = "setup" /\ pc' = "swap" /\ prevBit' = FALSE /\ UNCHANGED <<op, scalar>>
      /\ byteIdx' = NB - 1 /\ bitPos' = W - 2 /\ reg' = LoadWorking(reg)
  BY DEF Setup
<1>2. reg \in [Regs -> Word]
  BY DEF IInv, TypeOK
<1>3. ~Committed' /\ IdealPhase = "idle" /\ IdealPhase' = "swap"
  BY <1>1 DEF Committed, IdealPhase
<1>4. /\ Residue("x1")' = IdealU /\ Residue("x3")' = IdealU
      /\ Residue("x2")' = 1 /\ Residue("z2")' = 0 /\ Residue("z3")' = 1
      /\ IdealU' = IdealU
  BY <1>1, <1>2, LoadedBuffers, NamedBuffers, SmallConstants DEF Residue, IdealU
<1>5. /\ IdealX2' = Residue("x2")' /\ IdealZ2' = Residue("z2")'
      /\ IdealX3' = Residue("x3")' /\ IdealZ3' = Residue("z3")'
  BY <1>3 DEF IdealX2, IdealZ2, IdealX3, IdealZ3
<1>6. IdealT' = LadderTop
  <2>1. W \in Nat /\ NB \in Nat /\ NB >= 1
    BY GeometryAssumption
  <2>2. W * (NB - 1) = (W * NB) - W
    BY <2>1
  <2>3. IdealT' = (W * (NB - 1)) + (W - 2)
    BY <1>1, <2>1 DEF IdealT
  <2> QED  BY <2>1, <2>2, <2>3 DEF LadderTop
<1>7. IdealK' = IdealK /\ IdealOut' = 0
  BY <1>1 DEF IdealK, IdealOut, LadderTop
<1> QED  BY <1>1, <1>3, <1>4, <1>5, <1>6, <1>7 DEF Ideal!Start

(* The last product delivers the ideal's quotient, canonical. *)
LEMMA MultiplyMapped ==
  ASSUME RInv, Multiply
  PROVE  Ideal!Divide
<1> USE DEF RInv
<1>1. /\ pc = "multiply" /\ pc' = "done"
      /\ UNCHANGED <<op, scalar, prevBit, byteIdx, bitPos>>
  BY DEF Multiply
<1>2. reg \in [Regs -> Word]
  BY DEF IInv, TypeOK
<1>3. ~Committed /\ ~Committed' /\ IdealPhase = "divide" /\ IdealPhase' = "done"
  BY <1>1 DEF Committed, IdealPhase
<1>4. /\ \A r \in Regs \ {"result"} : reg'[r] = reg[r]
      /\ reg'["result"] = FMul(Residue("x2"), Residue("result"))
  BY <1>2, MultipliedBuffers
<1>5. Residue("result") = FInv(Residue("z2"))
  <2>1. reg["result"] = FInv(Residue("z2"))
    BY <1>1 DEF Inverted, Inv, Residue
  <2> QED  BY <2>1, InverseCanon, CanonResidue DEF Residue
<1>6. /\ IdealX2 = Residue("x2") /\ IdealZ2 = Residue("z2")
      /\ IdealX3 = Residue("x3") /\ IdealZ3 = Residue("z3")
  BY <1>3, Uncommitted
<1>7. UNCHANGED <<IdealX2, IdealZ2, IdealX3, IdealZ3, Residue("x1"), IdealU>>
  BY <1>3, <1>4, NamedBuffers DEF IdealX2, IdealZ2, IdealX3, IdealZ3, Residue, IdealU
<1>8. IdealOut' = FMul(IdealX2, FInv(IdealZ2))
  BY <1>1, <1>4, <1>5, <1>6 DEF IdealOut
<1>9. UNCHANGED <<IdealK, IdealT>>
  BY <1>1 DEF IdealK, IdealT, LadderTop
<1> QED  BY <1>1, <1>3, <1>7, <1>8, <1>9, IdealField DEF Ideal!Divide

(* The inversion is inside the ideal's division. *)
LEMMA InvertStutters ==
  ASSUME RInv, Invert
  PROVE  UNCHANGED Ideal!absVars
<1> USE DEF RInv
<1>1. /\ pc = "invert" /\ pc' = "multiply"
      /\ UNCHANGED <<op, scalar, prevBit, byteIdx, bitPos>>
  BY DEF Invert
<1>2. \A r \in Regs \ (Temps \cup {"result"}) : reg'[r] = reg[r]
  BY InvertedBuffers DEF IInv, TypeOK
<1>3. {"x1", "x2", "z2", "x3", "z3", "u"} \subseteq Regs \ (Temps \cup {"result"})
  BY DEF Regs, Temps
<1>4. /\ reg'["x1"] = reg["x1"] /\ reg'["x2"] = reg["x2"] /\ reg'["z2"] = reg["z2"]
      /\ reg'["x3"] = reg["x3"] /\ reg'["z3"] = reg["z3"] /\ reg'["u"] = reg["u"]
  BY <1>2, <1>3
<1>5. /\ UNCHANGED <<IdealX2, IdealZ2, IdealX3, IdealZ3, Residue("x1"), IdealU>>
      /\ UNCHANGED <<IdealK, IdealT, IdealOut, IdealPhase>>
  BY <1>1, <1>4 DEF IdealX2, IdealZ2, IdealX3, IdealZ3, Residue, IdealU, Committed,
     IdealK, IdealT, IdealOut, IdealPhase, LadderTop
<1> QED  BY <1>1, <1>5 DEF Ideal!absVars

(* Between calls only the inputs move, and returning ends the ideal call. *)
LEMMA CallMapped ==
  ASSUME RInv, Call
  PROVE  [Ideal!SetInputs]_(Ideal!absVars)
<1> USE DEF RInv
<1>1. /\ pc = "idle" /\ pc' \in {"idle", "setup"}
      /\ UNCHANGED <<op, prevBit, byteIdx, bitPos>>
      /\ \A r \in Regs \ {"u"} : reg'[r] = reg[r]
  <2>1. reg \in [Regs -> Word]
    BY DEF IInv, TypeOK
  <2>2. CASE Base
    BY <2>1, <2>2, NamedBuffers DEF Base
  <2>3. CASE Clamp \/ ScalarMult
    BY <2>3 DEF Clamp, ScalarMult
  <2> QED  BY <2>2, <2>3 DEF Call
<1>2. ~Committed /\ ~Committed' /\ IdealPhase = "idle" /\ IdealPhase' = "idle"
  BY <1>1 DEF Committed, IdealPhase
<1>3. /\ UNCHANGED <<IdealX2, IdealZ2, IdealX3, IdealZ3, Residue("x1")>>
      /\ UNCHANGED <<IdealT, IdealOut, prevBit>>
  BY <1>1, <1>2, NamedBuffers
     DEF IdealX2, IdealZ2, IdealX3, IdealZ3, Residue, IdealT, IdealOut
<1>4. IInv'
  BY NextInvariant DEF Next
<1>5. IdealK' \in Ideal!AbsScalar /\ IdealU' \in Ideal!Canon
  <2>1. IdealK' \in Ideal!AbsScalar
    BY DEF IdealK, Ideal!AbsScalar
  <2>2. reg'["u"] \in Word
    BY <1>4, NamedBuffers DEF IInv, TypeOK
  <2>3. IdealU' \in Canon
    BY <2>2, DecodedWord DEF IdealU
  <2> QED  BY <2>1, <2>3, IdealField
<1> QED  BY <1>2, <1>3, <1>5 DEF Ideal!SetInputs

(* Returning hands the result to the caller, who may call again. *)
LEMMA ReturnMapped ==
  ASSUME RInv, Return
  PROVE  Ideal!Return
<1>1. /\ pc = "done" /\ pc' = "idle"
      /\ UNCHANGED <<op, reg, scalar, prevBit, byteIdx, bitPos>>
  BY DEF Return
<1>2. IdealPhase = "done" /\ IdealPhase' = "idle"
  BY <1>1 DEF IdealPhase, Committed
<1>3. /\ UNCHANGED <<IdealX2, IdealZ2, IdealX3, IdealZ3, Residue("x1"), IdealU>>
      /\ UNCHANGED <<IdealK, IdealT, IdealOut>>
  BY <1>1 DEF IdealX2, IdealZ2, IdealX3, IdealZ3, Residue, IdealU, Committed,
     IdealK, IdealT, IdealOut, LadderTop
<1> QED  BY <1>1, <1>2, <1>3 DEF Ideal!Return

(* A step that changes nothing changes nothing of the mapped state. *)
LEMMA IdleMapped ==
  ASSUME UNCHANGED vars
  PROVE  UNCHANGED Ideal!absVars
  BY DEF vars, Ideal!absVars, IdealX2, IdealZ2, IdealX3, IdealZ3, Residue, IdealU,
     Committed, IdealK, IdealT, IdealOut, IdealPhase, LadderTop

(***************************************************************************)
(* The implementation theorem: the code of x25519.s, with its lazily        *)
(* reduced representatives, its eighteen operations over eleven shared      *)
(* buffers and its byte and mask cursor, implements the ladder of RFC 7748  *)
(* over exact field elements.                                               *)
(***************************************************************************)
THEOREM Implementation == Spec => ImplementsLadder
<1>1. Init => Ideal!AbsInit
  BY InitMapped
<1>2. RInv /\ [Next]_vars => [Ideal!AbsNext]_(Ideal!absVars)
  <2> SUFFICES ASSUME RInv, [Next]_vars
               PROVE  [Ideal!AbsNext]_(Ideal!absVars)
    OBVIOUS
  <2>1. CASE Call
    BY <2>1, CallMapped DEF Ideal!AbsNext
  <2>2. CASE Setup
    BY <2>2, SetupMapped DEF Ideal!AbsNext
  <2>3. CASE Swap
    BY <2>3, SwapMapped DEF Ideal!AbsNext
  <2>4. CASE LadderStep /\ op # 10
    BY <2>4, LadderStepStutters
  <2>5. CASE LadderStep /\ op = 10
    <3>1. StepSum
      BY <2>5, Effects DEF RInv, LadderStep, Wrote
    <3> QED  BY <3>1, CommitMapped DEF Ideal!AbsNext
  <2>6. CASE NextBit
    BY <2>6, NextBitMapped DEF Ideal!AbsNext
  <2>7. CASE FinalSwap
    BY <2>7, FinalSwapMapped DEF Ideal!AbsNext
  <2>8. CASE Invert
    BY <2>8, InvertStutters
  <2>9. CASE Multiply
    BY <2>9, MultiplyMapped DEF Ideal!AbsNext
  <2>10. CASE Return
    BY <2>10, ReturnMapped DEF Ideal!AbsNext
  <2>11. CASE UNCHANGED vars
    BY <2>11, IdleMapped
  <2> QED
    BY <2>1, <2>2, <2>3, <2>4, <2>5, <2>6, <2>7, <2>8, <2>9, <2>10, <2>11 DEF Next, Compute
<1> QED  BY <1>1, <1>2, RInvariance, PTL DEF Spec, ImplementsLadder, Ideal!AbsSpec

(***************************************************************************)
(* Congruence.  Cls(x) is the residue class of x, as its canonical member;  *)
(* it is kept opaque, so that chains of congruences are chains of           *)
(* equalities.                                                              *)
(***************************************************************************)
Cls(x) == x % P

(* The canonical residue is in the class. *)
LEMMA ClsMod ==
  ASSUME NEW a \in Int
  PROVE  a % P \in Canon /\ Cls(a % P) = Cls(a)
<1>0. P \in Nat \ {0}
  BY FieldAssumption
<1>1. a % P \in 0 .. P - 1
  BY <1>0, DivMod
<1>2. (a % P) % P = a % P
  BY <1>0, <1>1, ModSmall
<1> QED  BY <1>1, <1>2 DEF Cls, Canon

(* Canonical residues of one class are equal. *)
LEMMA ClsCanon ==
  ASSUME NEW a \in Canon
  PROVE  a \in Int /\ Cls(a) = a
<1>0. P \in Nat \ {0} /\ a \in 0 .. P - 1
  BY FieldAssumption DEF Canon
<1>1. a % P = a
  BY <1>0, ModSmall
<1> QED  BY <1>0, <1>1 DEF Cls

(* The field operations are the integers' on classes. *)
LEMMA ClsField ==
  ASSUME NEW x \in Int, NEW y \in Int
  PROVE  /\ FAdd(x, y) \in Canon /\ Cls(FAdd(x, y)) = Cls(x + y)
         /\ FSub(x, y) \in Canon /\ Cls(FSub(x, y)) = Cls(x - y)
         /\ FMul(x, y) \in Canon /\ Cls(FMul(x, y)) = Cls(x * y)
<1>1. x + y \in Int /\ x - y \in Int /\ x * y \in Int
  OBVIOUS
<1>2. FAdd(x, y) \in Canon /\ Cls(FAdd(x, y)) = Cls(x + y)
  BY <1>1, ClsMod DEF FAdd
<1>3. FSub(x, y) \in Canon /\ Cls(FSub(x, y)) = Cls(x - y)
  BY <1>1, ClsMod DEF FSub
<1>4. FMul(x, y) \in Canon /\ Cls(FMul(x, y)) = Cls(x * y)
  BY <1>1, ClsMod DEF FMul
<1> QED  BY <1>2, <1>3, <1>4

(* Numbers that differ by a multiple of P are of one class, and only those. *)
LEMMA ClsMultiple ==
  ASSUME NEW a \in Int, NEW b \in Int
  PROVE  /\ \A k \in Int : a = b + (P * k) => Cls(a) = Cls(b)
         /\ Cls(a) = Cls(b) => \E k \in Int : a = b + (P * k)
<1>0. P \in Nat \ {0}
  BY FieldAssumption
<1>1. ASSUME NEW k \in Int, a = b + (P * k)
      PROVE  Cls(a) = Cls(b)
  BY <1>0, <1>1, ModEqual DEF Cls
<1>2. ASSUME Cls(a) = Cls(b)
      PROVE  \E k \in Int : a = b + (P * k)
  <2>1. PICK q \in Int, r \in 0 .. P - 1 : r = a % P /\ a = P * q + r
    BY <1>0, DivMod
  <2>2. PICK t \in Int, v \in 0 .. P - 1 : v = b % P /\ b = P * t + v
    BY <1>0, DivMod
  <2>3. r = v
    BY <1>2, <2>1, <2>2 DEF Cls
  <2>4. PICK k \in Int : k = q - t
    OBVIOUS
  <2>5. P * k = P * q - P * t
    BY <1>0, <2>4
  <2>6. a = b + (P * k)
    <3>1. P * k \in Int /\ P * q \in Int /\ P * t \in Int
      BY <1>0
    <3> QED  BY <2>1, <2>2, <2>3, <2>5, <3>1
  <2> QED  BY <2>6
<1> QED  BY <1>1, <1>2

(* The number l is r up to c times the difference of e and f. *)
Shift(l, r, c, e, f) ==
  /\ l \in Int /\ r \in Int /\ c \in Int /\ e \in Int /\ f \in Int
  /\ l = r + c * (e - f)

(* Replacing e by a number f of its class changes no class. *)
LEMMA Combination ==
  ASSUME NEW l, NEW r, NEW c, NEW e, NEW f, Shift(l, r, c, e, f), Cls(e) = Cls(f)
  PROVE  Cls(l) = Cls(r)
<1>0. P \in Nat \ {0}
  BY FieldAssumption
<1>1. PICK a \in Int, b \in Int, d \in Int, g \in Int, h \in Int :
        /\ a = l /\ b = r /\ d = c /\ g = e /\ h = f
        /\ a = b + d * (g - h)
  BY DEF Shift
<1>2. PICK k \in Int : g = h + (P * k)
  BY <1>1, ClsMultiple
<1>3. PICK m \in Int : m = d * k
  OBVIOUS
<1>4. d * (g - h) = P * m
  BY <1>0, <1>2, <1>3
<1>5. a = b + (P * m)
  BY <1>1, <1>4
<1>6. Cls(a) = Cls(b)
  BY <1>5, ClsMultiple
<1> QED  BY <1>1, <1>6

(* The number a is of the class of e. *)
Is(a, e) == a \in Int /\ e \in Int /\ Cls(a) = Cls(e)

(* The numbers l and r are products of e and g, and of f and h. *)
Products(l, r, e, f, g, h) ==
  /\ l \in Int /\ r \in Int /\ e \in Int /\ f \in Int /\ g \in Int /\ h \in Int
  /\ l = e * g /\ r = f * h

(* Classes multiply. *)
LEMMA ClsProduct ==
  ASSUME NEW l, NEW r, NEW e, NEW f, NEW g, NEW h, Products(l, r, e, f, g, h),
         Cls(e) = Cls(f), Cls(g) = Cls(h)
  PROVE  Cls(l) = Cls(r)
<1>1. /\ l \in Int /\ r \in Int /\ e \in Int /\ f \in Int /\ g \in Int /\ h \in Int
      /\ l = e * g /\ r = f * h
  BY DEF Products
<1>2. PICK k \in Int : k = f * g
  BY <1>1
<1>3. Shift(l, k, g, e, f) /\ Shift(k, r, f, g, h)
  BY <1>1, <1>2 DEF Shift
<1>4. Cls(l) = Cls(k) /\ Cls(k) = Cls(r)
  BY <1>3, Combination
<1> QED  BY <1>4

(* 0 and 1 are two residues, and the curve constant is a number. *)
LEMMA ClsConstants ==
  /\ 0 \in Canon /\ 1 \in Canon /\ Cls(0) = 0 /\ Cls(1) = 1 /\ CurveA \in Int
<1>1. P \in Nat \ {0} /\ 1 < P /\ A24 \in Nat
  BY FieldAssumption, Constants
<1>2. 0 \in 0 .. P - 1 /\ 1 \in 0 .. P - 1
  BY <1>1
<1>3. CurveA \in Int
  BY <1>1 DEF CurveA
<1> QED  BY <1>2, <1>3, ClsCanon DEF Canon

(* A residue other than 0 can be divided by. *)
LEMMA Invertible ==
  ASSUME NEW a \in Int, Cls(a) # Cls(0)
  PROVE  \E w \in Canon : Cls(w * a) = Cls(1)
<1>1. PICK r \in Canon : r = a % P /\ Cls(r) = Cls(a)
  BY ClsMod
<1>2. r \in Int /\ r # 0
  BY <1>1, ClsCanon
<1>3. PICK w \in Canon : FMul(w, r) = 1
  BY <1>1, <1>2, PrimeAssumption
<1>4. w \in Int
  BY ClsCanon
<1>5. Cls(w * r) = Cls(1)
  BY <1>2, <1>3, <1>4, ClsField
<1>6. Shift(w * a, w * r, w, a, r)
  BY <1>2, <1>4 DEF Shift
<1>7. Cls(w * a) = Cls(w * r)
  BY <1>1, <1>2, <1>4, <1>6, Combination
<1> QED  BY <1>5, <1>7

(* The field has no zero divisors. *)
LEMMA ZeroProduct ==
  ASSUME NEW a \in Int, NEW b \in Int, Cls(a * b) = Cls(0), Cls(a) # Cls(0)
  PROVE  Cls(b) = Cls(0)
<1>1. PICK w \in Canon : Cls(w * a) = Cls(1)
  BY Invertible
<1>2. w \in Int
  BY ClsCanon
<1>3. Shift(b, w * (a * b), -b, w * a, 1)
  BY <1>2 DEF Shift
<1>4. Cls(b) = Cls(w * (a * b))
  BY <1>1, <1>2, <1>3, Combination
<1>5. Shift(w * (a * b), 0, w, a * b, 0)
  BY <1>2 DEF Shift
<1>6. Cls(w * (a * b)) = Cls(0)
  BY <1>2, <1>5, Combination
<1> QED  BY <1>4, <1>6

(* A product of numbers of other classes than 0 is of another class. *)
LEMMA NonZeroProduct ==
  ASSUME NEW a \in Int, NEW b \in Int, Cls(a) # Cls(0), Cls(b) # Cls(0)
  PROVE  Cls(a * b) # Cls(0)
  BY ZeroProduct

(* A factor of another class than 0 can be cancelled. *)
LEMMA Cancel ==
  ASSUME NEW d \in Int, NEW x \in Int, NEW y \in Int,
         Cls(d * x) = Cls(d * y), Cls(d) # Cls(0)
  PROVE  Cls(x) = Cls(y)
<1>1. PICK e \in Int : e = x - y
  OBVIOUS
<1>2. Shift(d * e, 0, 1, d * x, d * y)
  BY <1>1 DEF Shift
<1>3. Cls(d * e) = Cls(0)
  BY <1>2, Combination
<1>4. Cls(e) = Cls(0)
  BY <1>3, ZeroProduct
<1>5. Shift(x, y, 1, e, 0)
  BY <1>1 DEF Shift
<1> QED  BY <1>4, <1>5, Combination

(* A square is of the class of 0 only if its root is. *)
LEMMA ZeroSquare ==
  ASSUME NEW a \in Int, Cls(a * a) = Cls(0)
  PROVE  Cls(a) = Cls(0)
  BY ZeroProduct

(* FDiv is division, and 0 where the divisor is 0. *)
LEMMA FDivSpec ==
  ASSUME NEW x \in Canon, NEW y \in Canon
  PROVE  /\ FDiv(x, y) \in Canon
         /\ y # 0 => Cls(FDiv(x, y) * y) = Cls(x)
         /\ y = 0 => FDiv(x, y) = 0
<1>1. x \in Int /\ y \in Int /\ Cls(y) = y
  BY ClsCanon
<1>2. PICK i : i = FInv(y)
  OBVIOUS
<1>3. FDiv(x, y) = FMul(x, i)
  BY <1>2 DEF FDiv, Inverses
<1>4. i \in Canon /\ (y # 0 => FMul(i, y) = 1) /\ (y = 0 => i = 0)
  <2>1. CASE y # 0
    <3>1. \E w \in Canon : FMul(w, y) = 1
      BY <2>1, PrimeAssumption
    <3>2. i \in Canon /\ FMul(i, y) = 1
      BY <1>2, <3>1 DEF FInv
    <3> QED  BY <2>1, <3>2
  <2>2. CASE y = 0
    <3>1. ASSUME NEW w \in Canon PROVE FMul(w, 0) # 1
      <4>1. w \in Int
        BY ClsCanon
      <4>2. w * 0 = 0
        BY <4>1
      <4> QED  BY <4>2, ClsConstants DEF FMul, Cls
    <3>2. i = 0
      BY <1>2, <2>2, <3>1 DEF FInv
    <3> QED  BY <2>2, <3>2, ClsConstants
  <2> QED  BY <2>1, <2>2
<1>5. i \in Int
  BY <1>4, ClsCanon
<1>6. PICK q : q = FDiv(x, y)
  OBVIOUS
<1>7. q \in Canon /\ Cls(q) = Cls(x * i)
  BY <1>1, <1>3, <1>5, <1>6, ClsField
<1>8. q \in Int
  BY <1>7, ClsCanon
<1>9. CASE y # 0
  <2>1. Cls(i * y) = Cls(1)
    BY <1>1, <1>4, <1>5, <1>9, ClsField
  <2>2. Shift(q * y, (x * i) * y, y, q, x * i)
    BY <1>1, <1>5, <1>8 DEF Shift
  <2>3. Cls(q * y) = Cls((x * i) * y)
    BY <1>1, <1>5, <1>7, <1>8, <2>2, Combination
  <2>4. Shift((x * i) * y, x, x, i * y, 1)
    BY <1>1, <1>5 DEF Shift
  <2>5. Cls((x * i) * y) = Cls(x)
    BY <1>1, <1>5, <2>1, <2>4, Combination
  <2> QED  BY <1>6, <1>7, <1>9, <2>3, <2>5
<1>10. CASE y = 0
  <2>1. x * i = 0
    BY <1>1, <1>4, <1>10
  <2>2. q = 0
    BY <1>7, <2>1, ClsCanon, ClsConstants
  <2> QED  BY <1>6, <1>7, <1>10, <2>2
<1> QED  BY <1>9, <1>10

(***************************************************************************)
(* The points of the curve and of its twist.                                *)
(***************************************************************************)

(* The right-hand side of the curve's equation, unreduced. *)
Cubic(x) == x * x * x + CurveA * x * x + x

(* The two coefficients are invertible. *)
LEMMA CoefficientSpec ==
  ASSUME NEW b \in Coefficients
  PROVE  b \in Canon /\ b \in Int /\ Cls(b) # Cls(0)
<1>1. NonSquare \in Canon /\ \A y \in Canon : FMul(y, y) # NonSquare
  BY CurveAssumption DEF NonSquare
<1>2. NonSquare # 0
  <2>1. 0 * 0 = 0
    OBVIOUS
  <2>2. FMul(0, 0) = 0
    BY <2>1, ClsConstants DEF FMul, Cls
  <2> QED  BY <1>1, <2>2, ClsConstants
<1>3. b \in Canon /\ b # 0
  BY <1>1, <1>2, ClsConstants DEF Coefficients
<1> QED  BY <1>3, ClsCanon, ClsConstants

(* What it is for an (x, y) to be on the curve. *)
LEMMA AboveSpec ==
  ASSUME NEW b \in Coefficients, NEW x \in Canon, NEW y \in Canon
  PROVE  Above(b, x, y) <=> Cls(b * (y * y)) = Cls(Cubic(x))
<1>1. b \in Int /\ x \in Int /\ y \in Int /\ CurveA \in Int
  BY CoefficientSpec, ClsCanon, ClsConstants
<1>2. PICK s \in Canon : s = FMul(y, y) /\ Cls(s) = Cls(y * y)
  BY <1>1, ClsField
<1>3. s \in Int
  BY ClsCanon
<1>4. FMul(b, s) \in Canon /\ Cls(FMul(b, s)) = Cls(b * s)
  BY <1>1, <1>3, ClsField
<1>5. Shift(b * s, b * (y * y), b, s, y * y)
  BY <1>1, <1>3 DEF Shift
<1>6. Cls(b * s) = Cls(b * (y * y))
  BY <1>1, <1>2, <1>3, <1>5, Combination
<1>7. Cubic(x) \in Int
  BY <1>1 DEF Cubic
<1>8. RightSide(x) = Cubic(x) % P
  BY DEF RightSide, Cubic
<1>9. RightSide(x) \in Canon /\ Cls(RightSide(x)) = Cls(Cubic(x))
  BY <1>7, <1>8, ClsMod
<1>10. FMul(b, s) = RightSide(x) <=> Cls(FMul(b, s)) = Cls(RightSide(x))
  BY <1>4, <1>9, ClsCanon
<1> QED  BY <1>2, <1>4, <1>6, <1>9, <1>10 DEF Above

(* An affine point. *)
LEMMA AffineSpec ==
  ASSUME NEW b \in Coefficients, NEW p \in Affine(b)
  PROVE  /\ p = <<p[1], p[2]>> /\ p # Infinity
         /\ p[1] \in Canon /\ p[2] \in Canon /\ p[1] \in Int /\ p[2] \in Int
         /\ Cls(b * (p[2] * p[2])) = Cls(Cubic(p[1]))
<1>1. p \in Canon \X Canon /\ Above(b, p[1], p[2])
  BY DEF Affine
<1>2. p = <<p[1], p[2]>> /\ p[1] \in Canon /\ p[2] \in Canon
  BY <1>1
<1>3. p # Infinity
  BY <1>2 DEF Infinity
<1> QED  BY <1>1, <1>2, <1>3, AboveSpec, ClsCanon

(* The negative of an affine point. *)
Negative(p) == <<p[1], FSub(0, p[2])>>

(* It lies on the same curve; its y is in the class of the negative. *)
LEMMA NegativeSpec ==
  ASSUME NEW b \in Coefficients, NEW p \in Affine(b)
  PROVE  /\ Negative(p) \in Affine(b)
         /\ Negative(p)[1] = p[1] /\ Cls(Negative(p)[2]) = Cls(0 - p[2])
<1>1. /\ b \in Int /\ p[1] \in Canon /\ p[2] \in Int
      /\ Cls(b * (p[2] * p[2])) = Cls(Cubic(p[1]))
  BY CoefficientSpec, AffineSpec
<1>2. PICK y \in Int, m \in Int : y = p[2] /\ m = 0 - y
  BY <1>1
<1>3. FSub(0, y) \in Canon /\ Cls(FSub(0, y)) = Cls(0 - y)
  <2>1. 0 \in Int /\ y \in Int
    OBVIOUS
  <2> QED  BY <2>1, ClsField, Zenon
<1>4. PICK n \in Canon : n = FSub(0, p[2]) /\ Cls(n) = Cls(m)
  BY <1>2, <1>3
<1>5. n \in Int
  BY ClsCanon
<1>6. Cls(b * (n * n)) = Cls(b * (y * y))
  <2>0. b \in Int /\ n \in Int /\ m = 0 - y
    BY <1>1, <1>2, <1>5
  <2>1. Shift(b * (n * n), b * (y * y), b * (n - y), n, m)
    BY <2>0 DEF Shift
  <2>2. /\ b * (n * n) \in Int /\ b * (y * y) \in Int /\ b * (n - y) \in Int
        /\ Cls(n) = Cls(m) /\ n \in Int /\ m \in Int
    BY <1>1, <1>4, <1>5
  <2> QED  BY <2>1, <2>2, Combination
<1>7. Above(b, p[1], n)
  BY <1>1, <1>2, <1>6, AboveSpec
<1>8. Negative(p) = <<p[1], n>>
  BY <1>4 DEF Negative
<1>9. <<p[1], n>> \in Canon \X Canon /\ <<p[1], n>>[1] = p[1] /\ <<p[1], n>>[2] = n
  BY <1>1
<1>10. Negative(p) \in Affine(b)
  BY <1>7, <1>8, <1>9 DEF Affine
<1> QED  BY <1>2, <1>4, <1>8, <1>9, <1>10

(* Opposite says that the second coordinates cancel. *)
LEMMA OppositeSpec ==
  ASSUME NEW b \in Coefficients, NEW p \in Affine(b), NEW q \in Affine(b)
  PROVE  Opposite(p, q) <=> p[1] = q[1] /\ Cls(p[2] + q[2]) = Cls(0)
<1>1. p[2] \in Int /\ q[2] \in Int
  BY AffineSpec
<1>2. FAdd(p[2], q[2]) \in Canon /\ Cls(FAdd(p[2], q[2])) = Cls(p[2] + q[2])
  BY <1>1, ClsField
<1>3. FAdd(p[2], q[2]) = 0 <=> Cls(p[2] + q[2]) = Cls(0)
  BY <1>2, ClsCanon, ClsConstants
<1> QED  BY <1>3 DEF Opposite

(* Two points with one x are equal or opposite. *)
LEMMA SameX ==
  ASSUME NEW b \in Coefficients, NEW p \in Affine(b), NEW q \in Affine(b), p[1] = q[1]
  PROVE  p = q \/ Opposite(p, q)
<1>1. PICK y \in Canon, v \in Canon : y = p[2] /\ v = q[2]
  BY AffineSpec
<1>2. /\ b \in Int /\ y \in Int /\ v \in Int /\ Cls(b) # Cls(0)
      /\ Cls(b * (y * y)) = Cls(b * (v * v))
  BY <1>1, CoefficientSpec, AffineSpec
<1>3. Cls(y * y) = Cls(v * v)
  BY <1>2, Cancel
<1>4. Shift((y - v) * (y + v), 0, 1, y * y, v * v)
  BY <1>2 DEF Shift
<1>5. Cls((y - v) * (y + v)) = Cls(0)
  BY <1>2, <1>3, <1>4, Combination
<1>6. CASE Cls(y - v) = Cls(0)
  <2>1. Shift(y, v, 1, y - v, 0)
    BY <1>2 DEF Shift
  <2>2. Cls(y) = Cls(v)
    BY <1>2, <1>6, <2>1, Combination
  <2>3. p[2] = q[2]
    BY <1>1, <2>2, ClsCanon
  <2> QED  BY <2>3, AffineSpec
<1>7. CASE Cls(y - v) # Cls(0)
  <2>1. Cls(y + v) = Cls(0)
    BY <1>2, <1>5, <1>7, ZeroProduct
  <2> QED  BY <1>1, <2>1, OppositeSpec
<1> QED  BY <1>6, <1>7

(* A point and its negative are opposite. *)
LEMMA NegativeOpposite ==
  ASSUME NEW b \in Coefficients, NEW p \in Affine(b)
  PROVE  Opposite(p, Negative(p))
<1>1. /\ Negative(p) \in Affine(b)
      /\ Negative(p)[1] = p[1] /\ Cls(Negative(p)[2]) = Cls(0 - p[2])
  BY NegativeSpec
<1>2. PICK y \in Int, n \in Int : y = p[2] /\ n = Negative(p)[2]
  BY <1>1, AffineSpec
<1>3. Shift(y + n, 0, 1, n, 0 - y)
  BY DEF Shift
<1>4. Cls(y + n) = Cls(0)
  BY <1>1, <1>2, <1>3, Combination
<1> QED  BY <1>1, <1>2, <1>4, OppositeSpec

(***************************************************************************)
(* Chord-and-tangent addition, without its slope.                           *)
(***************************************************************************)

(* The x-coordinate of the reflected third intersection. *)
LEMMA ReflectedSpec ==
  ASSUME NEW b \in Int, NEW m \in Canon, NEW p, NEW q,
         NEW a \in Int, a = p[1], NEW c \in Int, c = q[1]
  PROVE  /\ Reflected(b, m, p, q) # Infinity
         /\ Reflected(b, m, p, q)[1] \in Canon
         /\ Cls(Reflected(b, m, p, q)[1]) = Cls(b * m * m - CurveA - a - c)
<1>1. m \in Int /\ CurveA \in Int
  BY ClsCanon, ClsConstants
<1>2. PICK e \in Int : e = b * m * m - CurveA - a - c
  BY <1>1
<1>3. PICK x \in Canon : x = e % P /\ Cls(x) = Cls(e)
  BY ClsMod
<1>4. x = (b * m * m - CurveA - p[1] - q[1]) % P
  BY <1>2, <1>3
<1>5. Reflected(b, m, p, q) = <<x, FSub(FMul(m, FSub(p[1], x)), p[2])>>
  BY <1>4 DEF Reflected
<1>6. Reflected(b, m, p, q) # Infinity /\ Reflected(b, m, p, q)[1] = x
  BY <1>5 DEF Infinity
<1> QED  BY <1>2, <1>3, <1>6

(* The slope of a chord, cleared of its denominator. *)
LEMMA ChordSlope ==
  ASSUME NEW a \in Canon, NEW c \in Canon, NEW y \in Canon, NEW d \in Canon, a # c
  PROVE  /\ FDiv(FSub(d, y), FSub(c, a)) \in Canon
         /\ Cls(FDiv(FSub(d, y), FSub(c, a)) * (c - a)) = Cls(d - y)
         /\ Cls(c - a) # Cls(0)
<1>1. a \in Int /\ c \in Int /\ y \in Int /\ d \in Int
  BY ClsCanon
<1>2. PICK n \in Canon, e \in Canon :
        n = FSub(d, y) /\ e = FSub(c, a) /\ Cls(n) = Cls(d - y) /\ Cls(e) = Cls(c - a)
  <2>1. FSub(d, y) \in Canon /\ Cls(FSub(d, y)) = Cls(d - y)
    BY <1>1, ClsField, Zenon
  <2>2. FSub(c, a) \in Canon /\ Cls(FSub(c, a)) = Cls(c - a)
    BY <1>1, ClsField, Zenon
  <2> QED  BY <2>1, <2>2, Zenon
<1>3. Cls(c - a) # Cls(0)
  <2>1. SUFFICES ASSUME Cls(c - a) = Cls(0) PROVE FALSE
    OBVIOUS
  <2>2. Shift(c, a, 1, c - a, 0)
    BY <1>1 DEF Shift
  <2>3. Cls(c) = Cls(a)
    BY <1>1, <2>1, <2>2, Combination
  <2> QED  BY <2>3, ClsCanon
<1>4. e # 0 /\ n \in Int /\ e \in Int
  BY <1>2, <1>3, ClsCanon, ClsConstants
<1>5. PICK m \in Canon : m = FDiv(n, e) /\ Cls(m * e) = Cls(n)
  BY <1>4, FDivSpec
<1>6. m \in Int
  BY ClsCanon
<1>7. Shift(m * (c - a), m * e, m, c - a, e)
  BY <1>1, <1>4, <1>6 DEF Shift
<1>8. Cls(m * (c - a)) = Cls(m * e)
  <2>1. /\ m * (c - a) \in Int /\ m * e \in Int /\ m \in Int /\ c - a \in Int /\ e \in Int
        /\ Cls(c - a) = Cls(e)
    BY <1>1, <1>2, <1>4, <1>6
  <2> QED  BY <1>7, <2>1, Combination
<1> QED  BY <1>2, <1>3, <1>5, <1>8

(* The cross term of the sum of two points with different x-coordinates. *)
Cross(a, c) == (a + c) * (a * c + 1) + 2 * CurveA * a * c

(***************************************************************************)
(* The x-coordinate of the sum of two points with different ones, times the *)
(* square of their difference.                                              *)
(***************************************************************************)
LEMMA Chord ==
  ASSUME NEW b \in Coefficients, NEW p \in Affine(b), NEW q \in Affine(b),
         NEW a \in Int, a = p[1], NEW y \in Int, y = p[2],
         NEW c \in Int, c = q[1], NEW d \in Int, d = q[2], a # c
  PROVE  /\ PointAdd(b, p, q) # Infinity /\ PointAdd(b, p, q)[1] \in Canon
         /\ Cls(PointAdd(b, p, q)[1] * ((c - a) * (c - a))) = Cls(Cross(a, c) - 2 * (b * y * d))
         /\ Cls(c - a) # Cls(0)
<1>1. /\ p # Infinity /\ q # Infinity /\ p # q /\ ~Opposite(p, q)
      /\ a \in Canon /\ y \in Canon /\ c \in Canon /\ d \in Canon
  BY AffineSpec DEF Opposite
<1>2. b \in Int /\ CurveA \in Int
  BY CoefficientSpec, ClsConstants
<1>3. PICK m \in Canon : /\ m = FDiv(FSub(d, y), FSub(c, a))
                         /\ Cls(m * (c - a)) = Cls(d - y) /\ Cls(c - a) # Cls(0)
  <2>1. /\ FDiv(FSub(d, y), FSub(c, a)) \in Canon
        /\ Cls(FDiv(FSub(d, y), FSub(c, a)) * (c - a)) = Cls(d - y)
        /\ Cls(c - a) # Cls(0)
    BY <1>1, ChordSlope
  <2> QED  BY <2>1, Zenon
<1>4. m \in Int
  BY ClsCanon
<1>5. PointAdd(b, p, q) = Reflected(b, m, p, q)
  BY <1>1, <1>3 DEF PointAdd, Slope
<1>6. PICK x \in Canon : /\ x = PointAdd(b, p, q)[1] /\ PointAdd(b, p, q) # Infinity
                         /\ Cls(x) = Cls(b * m * m - CurveA - a - c)
  BY <1>2, <1>5, ReflectedSpec
<1>7. x \in Int
  BY ClsCanon
<1>8. PICK D \in Int, w \in Int, v \in Int, e \in Int :
        D = (c - a) * (c - a) /\ w = m * (c - a) /\ v = d - y /\ e = b * m * m - CurveA - a - c
  <2>1. /\ (c - a) * (c - a) \in Int /\ m * (c - a) \in Int /\ d - y \in Int
        /\ b * m * m - CurveA - a - c \in Int
    BY <1>2, <1>4
  <2> QED  BY <2>1, Zenon
<1>9. Cls(x * D) = Cls(e * D)
  <2>1. Shift(x * D, e * D, D, x, e)
    BY <1>7 DEF Shift
  <2>2. x * D \in Int /\ e * D \in Int /\ Cls(x) = Cls(e)
    BY <1>6, <1>7, <1>8
  <2> QED  BY <1>7, <2>1, <2>2, Combination
<1>10. Cls(e * D) = Cls(b * (v * v) - (CurveA + a + c) * D)
  <2>1. e * D = b * (w * w) - (CurveA + a + c) * D
    BY <1>2, <1>4, <1>8
  <2>2. Shift(b * (w * w) - (CurveA + a + c) * D, b * (v * v) - (CurveA + a + c) * D, b * (w + v), w, v)
    BY <1>2 DEF Shift
  <2>3. Cls(w) = Cls(v)
    BY <1>3, <1>8
  <2>4. Cls(b * (w * w) - (CurveA + a + c) * D) = Cls(b * (v * v) - (CurveA + a + c) * D)
    <3>1. /\ b * (w * w) - (CurveA + a + c) * D \in Int /\ b * (v * v) - (CurveA + a + c) * D \in Int
          /\ b * (w + v) \in Int
      BY <1>2
    <3> QED  BY <2>2, <2>3, <3>1, Combination
  <2> QED  BY <2>1, <2>4
<1>11. PICK S \in Int, T \in Int, F \in Int, G \in Int :
         S = b * (y * y) /\ T = b * (d * d) /\ F = Cubic(a) /\ G = Cubic(c)
  <2>1. b * (y * y) \in Int /\ b * (d * d) \in Int /\ Cubic(a) \in Int /\ Cubic(c) \in Int
    BY <1>2 DEF Cubic
  <2> QED  BY <2>1, Zenon
<1>12. Cls(S) = Cls(F) /\ Cls(T) = Cls(G)
  BY <1>11, AffineSpec
<1>13. b * (v * v) = S + T - 2 * (b * y * d)
  BY <1>2, <1>8, <1>11
<1>14. F + G - (CurveA + a + c) * D = Cross(a, c)
  BY <1>2, <1>8, <1>11 DEF Cubic, Cross
<1>15. Cls(b * (v * v) - (CurveA + a + c) * D) = Cls(Cross(a, c) - 2 * (b * y * d))
  <2>1. PICK h \in Int, k \in Int : h = (CurveA + a + c) * D /\ k = 2 * (b * y * d)
    BY <1>2
  <2>2. b * (v * v) - h = S + T - k - h
    BY <1>13, <2>1
  <2>3. Shift(S + T - k - h, F + T - k - h, 1, S, F) /\ Shift(F + T - k - h, F + G - k - h, 1, T, G)
    BY <2>1 DEF Shift
  <2>4. Cls(S + T - k - h) = Cls(F + T - k - h) /\ Cls(F + T - k - h) = Cls(F + G - k - h)
    BY <1>12, <2>3, Combination
  <2>5. F + G - k - h = Cross(a, c) - k
    BY <1>14, <2>1
  <2> QED  BY <2>1, <2>2, <2>4, <2>5
<1> QED  BY <1>3, <1>6, <1>8, <1>9, <1>10, <1>15

(* The same for the difference of the two points. *)
LEMMA ChordMinus ==
  ASSUME NEW b \in Coefficients, NEW p \in Affine(b), NEW q \in Affine(b),
         NEW a \in Int, a = p[1], NEW y \in Int, y = p[2],
         NEW c \in Int, c = q[1], NEW d \in Int, d = q[2], a # c
  PROVE  /\ PointAdd(b, q, Negative(p)) # Infinity
         /\ PointAdd(b, q, Negative(p))[1] \in Canon
         /\ Cls(PointAdd(b, q, Negative(p))[1] * ((c - a) * (c - a)))
              = Cls(Cross(a, c) + 2 * (b * y * d))
<1>1. b \in Int /\ CurveA \in Int
  BY CoefficientSpec, ClsConstants
<1>2. /\ Negative(p) \in Affine(b) /\ Negative(p)[1] = a /\ Negative(p)[2] \in Int
      /\ Cls(Negative(p)[2]) = Cls(0 - y)
  BY NegativeSpec, AffineSpec
<1>3. PICK n \in Int : n = Negative(p)[2] /\ Cls(n) = Cls(0 - y)
  BY <1>2
<1>4. /\ PointAdd(b, q, Negative(p)) # Infinity /\ PointAdd(b, q, Negative(p))[1] \in Canon
      /\ Cls(PointAdd(b, q, Negative(p))[1] * ((a - c) * (a - c)))
           = Cls(Cross(c, a) - 2 * (b * d * n))
  BY <1>2, <1>3, Chord
<1>5. (a - c) * (a - c) = (c - a) * (c - a)
  OBVIOUS
<1>6. PICK K \in Int, h \in Int, k \in Int, m \in Int :
        K = Cross(a, c) /\ h = 2 * (b * d * n) /\ k = 2 * (b * y * d) /\ m = 0 - y
  <2>1. Cross(a, c) \in Int /\ 2 * (b * d * n) \in Int /\ 2 * (b * y * d) \in Int /\ 0 - y \in Int
    BY <1>1 DEF Cross
  <2> QED  BY <2>1, Zenon
<1>7. Cross(c, a) = Cross(a, c)
  BY <1>1 DEF Cross
<1>8. Shift(K - h, K + k, -2 * (b * d), n, m)
  BY <1>1, <1>6 DEF Shift
<1>9. Cls(K - h) = Cls(K + k)
  <2>1. K - h \in Int /\ K + k \in Int /\ -2 * (b * d) \in Int /\ Cls(n) = Cls(m)
    BY <1>1, <1>3, <1>6
  <2> QED  BY <1>8, <2>1, Combination
<1> QED  BY <1>4, <1>5, <1>6, <1>7, <1>9

(* The square of the cross term. *)
LEMMA CrossIdentity ==
  ASSUME NEW a \in Int, NEW c \in Int
  PROVE  Cross(a, c) * Cross(a, c) - 4 * (Cubic(a) * Cubic(c))
           = ((c - a) * (c - a)) * ((a * c - 1) * (a * c - 1))
  BY ClsConstants DEF Cross, Cubic

(***************************************************************************)
(* The identity of Montgomery's differential addition: the x-coordinates of *)
(* the sum and of the difference of two points multiply to the square of    *)
(* (a c - 1) / (c - a).                                                     *)
(***************************************************************************)
LEMMA ChordPair ==
  ASSUME NEW b \in Coefficients, NEW p \in Affine(b), NEW q \in Affine(b),
         NEW a \in Int, a = p[1], NEW c \in Int, c = q[1], a # c
  PROVE  /\ PointAdd(b, p, q) # Infinity /\ PointAdd(b, q, Negative(p)) # Infinity
         /\ PointAdd(b, p, q)[1] \in Canon /\ PointAdd(b, q, Negative(p))[1] \in Canon
         /\ Cls(PointAdd(b, p, q)[1] * PointAdd(b, q, Negative(p))[1] * ((c - a) * (c - a)))
              = Cls((a * c - 1) * (a * c - 1))
<1>1. /\ b \in Int /\ CurveA \in Int
      /\ Cls(b * (p[2] * p[2])) = Cls(Cubic(a)) /\ Cls(b * (q[2] * q[2])) = Cls(Cubic(c))
  BY CoefficientSpec, ClsConstants, AffineSpec
<1>2. PICK y \in Int, d \in Int : y = p[2] /\ d = q[2]
  BY AffineSpec
<1>3. /\ PointAdd(b, p, q) # Infinity /\ PointAdd(b, p, q)[1] \in Canon
      /\ Cls(PointAdd(b, p, q)[1] * ((c - a) * (c - a))) = Cls(Cross(a, c) - 2 * (b * y * d))
      /\ Cls(c - a) # Cls(0)
  BY <1>2, Chord
<1>4. /\ PointAdd(b, q, Negative(p)) # Infinity
      /\ PointAdd(b, q, Negative(p))[1] \in Canon
      /\ Cls(PointAdd(b, q, Negative(p))[1] * ((c - a) * (c - a)))
           = Cls(Cross(a, c) + 2 * (b * y * d))
  BY <1>2, ChordMinus
<1>5. PICK r \in Int, s \in Int :
        r = PointAdd(b, p, q)[1] /\ s = PointAdd(b, q, Negative(p))[1]
  BY <1>3, <1>4, ClsCanon
<1>6. PICK D \in Int, K \in Int, G \in Int, H \in Int :
        D = (c - a) * (c - a) /\ K = Cross(a, c) /\ G = b * y * d /\ H = (a * c - 1) * (a * c - 1)
  <2>1. (c - a) * (c - a) \in Int /\ Cross(a, c) \in Int /\ b * y * d \in Int
        /\ (a * c - 1) * (a * c - 1) \in Int
    BY <1>1, <1>2 DEF Cross
  <2> QED  BY <2>1, Zenon
<1>7. Cls(r * D) = Cls(K - 2 * G) /\ Cls(s * D) = Cls(K + 2 * G)
  BY <1>3, <1>4, <1>5, <1>6
<1>8. Cls((r * D) * (s * D)) = Cls((K - 2 * G) * (K + 2 * G))
  <2>1. /\ r * D \in Int /\ s * D \in Int /\ K - 2 * G \in Int /\ K + 2 * G \in Int
         /\ (r * D) * (s * D) \in Int /\ (K - 2 * G) * (K + 2 * G) \in Int
    OBVIOUS
  <2>2. Products((r * D) * (s * D), (K - 2 * G) * (K + 2 * G), r * D, K - 2 * G, s * D, K + 2 * G)
    BY DEF Products
  <2> QED  BY <1>7, <2>1, <2>2, ClsProduct
<1>9. PICK S \in Int, T \in Int, E \in Int, F \in Int :
        S = b * (y * y) /\ T = b * (d * d) /\ E = Cubic(a) /\ F = Cubic(c)
  <2>1. b * (y * y) \in Int /\ b * (d * d) \in Int /\ Cubic(a) \in Int /\ Cubic(c) \in Int
    BY <1>1, <1>2 DEF Cubic
  <2> QED  BY <2>1, Zenon
<1>10. Cls(S * T) = Cls(E * F)
  <2>1. Cls(S) = Cls(E) /\ Cls(T) = Cls(F)
    BY <1>1, <1>2, <1>9
  <2>2. S * T \in Int /\ E * F \in Int /\ Products(S * T, E * F, S, E, T, F)
    BY DEF Products
  <2> QED  BY <2>1, <2>2, ClsProduct
<1>11. (K - 2 * G) * (K + 2 * G) = K * K - 4 * (S * T)
  <2>1. G = b * y * d /\ S = b * (y * y) /\ T = b * (d * d) /\ b \in Int
    BY <1>1, <1>6, <1>9
  <2>2. G * G = S * T
    BY <2>1
  <2>3. (K - 2 * G) * (K + 2 * G) = K * K - 4 * (G * G)
    OBVIOUS
  <2> QED  BY <2>2, <2>3
<1>12. K * K - 4 * (E * F) = D * H
  <2>1. Cross(a, c) * Cross(a, c) - 4 * (Cubic(a) * Cubic(c))
          = ((c - a) * (c - a)) * ((a * c - 1) * (a * c - 1))
    BY CrossIdentity
  <2>2. /\ K = Cross(a, c) /\ E = Cubic(a) /\ F = Cubic(c)
        /\ D = (c - a) * (c - a) /\ H = (a * c - 1) * (a * c - 1)
    BY <1>6, <1>9
  <2> QED  BY <2>1, <2>2, Zenon
<1>13. Cls(K * K - 4 * (S * T)) = Cls(D * H)
  <2>1. Shift(K * K - 4 * (S * T), D * H, -4, S * T, E * F)
    BY <1>12 DEF Shift
  <2>2. K * K - 4 * (S * T) \in Int /\ D * H \in Int /\ S * T \in Int /\ E * F \in Int /\ -4 \in Int
    OBVIOUS
  <2> QED  BY <1>10, <2>1, <2>2, Combination
<1>14. (r * D) * (s * D) = D * (r * s * D)
  OBVIOUS
<1>15. Cls(D * (r * s * D)) = Cls(D * H)
  BY <1>8, <1>11, <1>13, <1>14
<1>16. Cls(D) # Cls(0)
  <2>1. c - a \in Int
    OBVIOUS
  <2> QED  BY <1>3, <1>6, <2>1, NonZeroProduct
<1>17. Cls(r * s * D) = Cls(H)
  <2>1. r * s * D \in Int
    OBVIOUS
  <2> QED  BY <1>15, <1>16, <2>1, Cancel
<1> QED  BY <1>3, <1>4, <1>5, <1>6, <1>17

(* 2 and 4 are not 0. *)
LEMMA ClsTwo == Cls(2) # Cls(0)
  BY PrimeAssumption, ClsConstants DEF Cls

(* Nor is a non-zero class times 2 or 4. *)
LEMMA NonZeroFour ==
  ASSUME NEW c \in Int, Cls(c) # Cls(0)
  PROVE  Cls(2 * c) # Cls(0) /\ Cls(4 * c) # Cls(0)
<1>1. PICK d \in Int : d = 2 * c
  OBVIOUS
<1>2. Cls(d) # Cls(0)
  BY <1>1, ClsTwo, NonZeroProduct
<1>3. Cls(2 * d) # Cls(0)
  BY <1>2, ClsTwo, NonZeroProduct
<1>4. 2 * d = 4 * c
  BY <1>1
<1> QED  BY <1>1, <1>2, <1>3, <1>4

(* The sum of a point and itself, where its tangent is vertical. *)
LEMMA VerticalTangent ==
  ASSUME NEW b \in Coefficients, NEW p \in Affine(b), Cls(p[2]) = Cls(0)
  PROVE  PointAdd(b, p, p) = Infinity /\ Cls(Cubic(p[1])) = Cls(0)
<1>1. /\ p # Infinity /\ p[2] \in Int /\ b \in Int
      /\ Cls(b * (p[2] * p[2])) = Cls(Cubic(p[1]))
  BY CoefficientSpec, AffineSpec
<1>2. PICK y \in Int : y = p[2]
  BY <1>1
<1>3. Shift(y + y, 0, 2, y, 0) /\ Shift(b * (y * y), 0, b * y, y, 0)
  BY <1>1 DEF Shift
<1>4. Cls(y + y) = Cls(0) /\ Cls(b * (y * y)) = Cls(0)
  <2>1. y + y \in Int /\ b * (y * y) \in Int /\ b * y \in Int /\ Cls(y) = Cls(0)
    BY <1>1, <1>2
  <2> QED  BY <1>3, <2>1, Combination
<1>5. Opposite(p, p)
  BY <1>2, <1>4, OppositeSpec
<1> QED  BY <1>1, <1>2, <1>4, <1>5 DEF PointAdd

(* The slope of a tangent that is not vertical, cleared of its denominator. *)
LEMMA TangentSlope ==
  ASSUME NEW n \in Int, NEW w \in Int, Cls(w) # Cls(0)
  PROVE  FDiv(n % P, w % P) \in Canon /\ Cls(FDiv(n % P, w % P) * w) = Cls(n)
<1>1. PICK v \in Canon : v = n % P /\ Cls(v) = Cls(n)
  BY ClsMod
<1>2. PICK e \in Canon : e = w % P /\ Cls(e) = Cls(w)
  BY ClsMod
<1>3. e # 0 /\ e \in Int
  BY <1>2, ClsCanon
<1>4. PICK t \in Canon : t = FDiv(v, e) /\ Cls(t * e) = Cls(v)
  BY <1>3, FDivSpec
<1>5. t \in Int
  BY ClsCanon
<1>6. Shift(t * w, t * e, t, w, e)
  BY <1>3, <1>5 DEF Shift
<1>7. Cls(t * w) = Cls(t * e)
  <2>1. t * w \in Int /\ t * e \in Int /\ Cls(w) = Cls(e)
    BY <1>2, <1>3, <1>5
  <2> QED  BY <1>3, <1>5, <1>6, <2>1, Combination
<1> QED  BY <1>1, <1>2, <1>4, <1>7

(* The numerator of a tangent's slope. *)
Rise(a) == 3 * a * a + 2 * CurveA * a + 1

(* The tangent's identity between integers. *)
LEMMA TangentIdentity ==
  ASSUME NEW a \in Int
  PROVE  Rise(a) * Rise(a) - (CurveA + 2 * a) * (4 * Cubic(a)) = (a * a - 1) * (a * a - 1)
  BY ClsConstants DEF Rise, Cubic

(***************************************************************************)
(* The x-coordinate of twice a point, the identity of Montgomery's doubling.*)
(***************************************************************************)
LEMMA Tangent ==
  ASSUME NEW b \in Coefficients, NEW p \in Affine(b), NEW a \in Int, a = p[1],
         Cls(p[2]) # Cls(0)
  PROVE  /\ PointAdd(b, p, p) # Infinity /\ PointAdd(b, p, p)[1] \in Canon
         /\ Cls(PointAdd(b, p, p)[1] * (4 * Cubic(a))) = Cls((a * a - 1) * (a * a - 1))
<1>1. /\ p # Infinity /\ p[2] \in Int /\ b \in Int /\ CurveA \in Int /\ Cls(b) # Cls(0)
      /\ Cls(b * (p[2] * p[2])) = Cls(Cubic(p[1]))
  BY CoefficientSpec, AffineSpec, ClsConstants
<1>2. PICK y \in Int : y = p[2] /\ Cls(y) # Cls(0)
  BY <1>1
<1>3. Cls(2 * y) # Cls(0)
  BY <1>2, NonZeroFour
<1>4. ~Opposite(p, p)
  <2>1. y + y = 2 * y
    OBVIOUS
  <2> QED  BY <1>2, <1>3, <2>1, OppositeSpec
<1>5. PICK w \in Int : w = 2 * b * y
  BY <1>1
<1>6. Cls(w) # Cls(0)
  <2>1. Cls(b * (2 * y)) # Cls(0)
    <3>1. 2 * y \in Int
      OBVIOUS
    <3> QED  BY <1>1, <1>3, <3>1, NonZeroProduct
  <2>2. w = b * (2 * y)
    BY <1>1, <1>5
  <2> QED  BY <2>1, <2>2
<1>7. PICK n \in Int : n = Rise(a)
  BY <1>1 DEF Rise
<1>8. PICK t \in Canon : t = FDiv(n % P, w % P) /\ Cls(t * w) = Cls(n)
  BY <1>6, TangentSlope
<1>9. t \in Int
  BY ClsCanon
<1>10. Slope(b, p, p) = t
  BY <1>2, <1>5, <1>7, <1>8 DEF Slope, Rise
<1>11. PointAdd(b, p, p) = Reflected(b, t, p, p)
  BY <1>1, <1>4, <1>10 DEF PointAdd
<1>12. PICK x \in Canon : /\ x = PointAdd(b, p, p)[1] /\ PointAdd(b, p, p) # Infinity
                          /\ Cls(x) = Cls(b * t * t - CurveA - a - a)
  BY <1>1, <1>11, ReflectedSpec
<1>13. x \in Int
  BY ClsCanon
<1>14. PICK e \in Int : e = b * t * t - CurveA - a - a
  BY <1>1, <1>9
<1>15. PICK S \in Int : S = b * (y * y)
  BY <1>1
<1>16. PICK F \in Int : F = Cubic(a)
  BY <1>1 DEF Cubic
<1>17. Cls(S) = Cls(F)
  BY <1>1, <1>2, <1>15, <1>16
<1>18. Cls(x * (4 * F)) = Cls(x * (4 * S))
  <2>1. Shift(x * (4 * F), x * (4 * S), 4 * x, F, S)
    BY <1>13 DEF Shift
  <2>2. x * (4 * F) \in Int /\ x * (4 * S) \in Int /\ 4 * x \in Int
    BY <1>13
  <2> QED  BY <1>17, <2>1, <2>2, Combination
<1>19. Cls(x * (4 * S)) = Cls(e * (4 * S))
  <2>1. Shift(x * (4 * S), e * (4 * S), 4 * S, x, e)
    BY <1>13 DEF Shift
  <2>2. x * (4 * S) \in Int /\ e * (4 * S) \in Int /\ 4 * S \in Int /\ Cls(x) = Cls(e)
    BY <1>12, <1>13, <1>14
  <2> QED  BY <1>13, <2>1, <2>2, Combination
<1>20. PICK v \in Int : v = t * w
  BY <1>9
<1>21. PICK g \in Int : g = CurveA + 2 * a
  BY <1>1
<1>22. e * (4 * S) = v * v - g * (4 * S)
  <2>1. e = b * (t * t) - g
    BY <1>1, <1>9, <1>14, <1>21
  <2>2. b * (t * t) * (4 * S) = v * v
    BY <1>1, <1>5, <1>9, <1>15, <1>20
  <2>3. PICK u \in Int : u = b * (t * t)
    BY <1>1, <1>9
  <2>4. e * (4 * S) = u * (4 * S) - g * (4 * S)
    BY <2>1, <2>3
  <2> QED  BY <2>2, <2>3, <2>4
<1>23. Cls(v * v - g * (4 * S)) = Cls(n * n - g * (4 * S))
  <2>1. Shift(v * v - g * (4 * S), n * n - g * (4 * S), v + n, v, n)
    BY DEF Shift
  <2>2. /\ v * v - g * (4 * S) \in Int /\ n * n - g * (4 * S) \in Int /\ v + n \in Int
        /\ Cls(v) = Cls(n)
    BY <1>8, <1>20
  <2> QED  BY <2>1, <2>2, Combination
<1>24. Cls(n * n - g * (4 * S)) = Cls(n * n - g * (4 * F))
  <2>1. Shift(n * n - g * (4 * S), n * n - g * (4 * F), -4 * g, S, F)
    BY DEF Shift
  <2>2. n * n - g * (4 * S) \in Int /\ n * n - g * (4 * F) \in Int /\ -4 * g \in Int
    OBVIOUS
  <2> QED  BY <1>17, <2>1, <2>2, Combination
<1>25. n * n - g * (4 * F) = (a * a - 1) * (a * a - 1)
  <2>1. Rise(a) * Rise(a) - (CurveA + 2 * a) * (4 * Cubic(a)) = (a * a - 1) * (a * a - 1)
    BY TangentIdentity
  <2> QED  BY <1>7, <1>16, <1>21, <2>1, Zenon
<1> QED  BY <1>12, <1>16, <1>18, <1>19, <1>22, <1>23, <1>24, <1>25

(***************************************************************************)
(* The curve is not singular: where the tangent is vertical, a^2 is not 1.  *)
(***************************************************************************)
LEMMA Nonsingular ==
  ASSUME NEW a \in Int, Cls(Cubic(a)) = Cls(0)
  PROVE  Cls((a * a - 1) * (a * a - 1)) # Cls(0)
<1>1. PICK s \in Int : s = a * a - 1
  OBVIOUS
<1>2. SUFFICES ASSUME Cls(s) = Cls(0) PROVE FALSE
  BY <1>1, ZeroSquare
<1>3. CurveA \in Int /\ A24 \in Int /\ CurveA = 4 * A24 + 2
  BY ClsConstants, Constants DEF CurveA
<1>4. PICK F \in Int : F = Cubic(a)
  BY <1>3 DEF Cubic
<1>5. PICK h \in Int : h = CurveA * a + 2
  BY <1>3
<1>6. Cls(h) = Cls(0)
  <2>1. PICK g \in Int : g = a * F
    OBVIOUS
  <2>2. Shift(g, 0, a, F, 0)
    BY <2>1 DEF Shift
  <2>3. Cls(g) = Cls(0)
    BY <1>4, <2>2, Combination
  <2>4. PICK k \in Int : k = -(3 + s + CurveA * a)
    BY <1>3
  <2>5. Shift(h, g, k, s, 0)
    BY <1>1, <1>3, <1>4, <1>5, <2>1, <2>4 DEF Shift, Cubic
  <2>6. Cls(h) = Cls(g)
    BY <1>2, <2>5, Combination
  <2> QED  BY <2>3, <2>6
<1>7. PICK l \in Int : l = CurveA * CurveA - 4
  BY <1>3
<1>8. Cls(l) = Cls(0)
  <2>1. PICK k \in Int : k = CurveA * a - 2
    BY <1>3
  <2>2. PICK m \in Int : m = -(CurveA * CurveA)
    BY <1>3
  <2>3. PICK g \in Int : g = k * h
    OBVIOUS
  <2>4. Shift(l, g, m, s, 0)
    BY <1>1, <1>3, <1>5, <1>7, <2>1, <2>2, <2>3 DEF Shift
  <2>5. Shift(g, 0, k, h, 0)
    BY <2>3 DEF Shift
  <2>6. Cls(l) = Cls(g) /\ Cls(g) = Cls(0)
    BY <1>2, <1>6, <2>4, <2>5, Combination
  <2> QED  BY <2>6
<1>9. Cls(A24) # Cls(0) /\ Cls(A24 + 1) # Cls(0)
  BY CurveAssumption, ClsConstants DEF Cls
<1>10. Cls(A24 * (A24 + 1)) # Cls(0)
  BY <1>3, <1>9, NonZeroProduct
<1>11. PICK c \in Int : c = A24 * (A24 + 1)
  BY <1>3
<1>12. PICK d \in Int : d = 4 * c
  OBVIOUS
<1>13. Cls(d) # Cls(0)
  BY <1>10, <1>11, <1>12, NonZeroFour
<1>14. Cls(4 * d) # Cls(0)
  BY <1>13, NonZeroFour
<1>15. l = 4 * d
  BY <1>3, <1>7, <1>11, <1>12
<1> QED  BY <1>8, <1>14, <1>15

(***************************************************************************)
(* (x : z) represents q: x / z is its x-coordinate, and the point at        *)
(* infinity has z = 0 and x # 0.                                            *)
(***************************************************************************)
Rep(q, x, z) ==
  IF q = Infinity THEN Cls(z) = Cls(0) /\ Cls(x) # Cls(0)
                  ELSE Cls(z) # Cls(0) /\ Cls(q[1] * z) = Cls(x)

(* What a doubling makes of (x : z). *)
DoubleX(x, z) == (x * x - z * z) * (x * x - z * z)
DoubleZ(x, z) == 4 * (x * z * (x * x + CurveA * (x * z) + z * z))

(* On a representation (X : Z) of a, up to the factor Z^4, they are the quotient a doubling has. *)
LEMMA DoubleScaled ==
  ASSUME NEW a \in Int, NEW X \in Int, NEW Z \in Int, Cls(a * Z) = Cls(X)
  PROVE  \E w \in Int :
           /\ w = Z * Z * (Z * Z)
           /\ Cls(DoubleX(X, Z)) = Cls(w * ((a * a - 1) * (a * a - 1)))
           /\ Cls(DoubleZ(X, Z)) = Cls(w * (4 * Cubic(a)))
<1>1. CurveA \in Int
  BY ClsConstants
<1>2. PICK Y \in Int : Y = a * Z /\ Cls(X) = Cls(Y)
  OBVIOUS
<1>3. PICK w \in Int : w = Z * Z * (Z * Z)
  OBVIOUS
<1>4. PICK k \in Int : k = (X + Y) * (X * X + Y * Y - 2 * (Z * Z))
  OBVIOUS
<1>5. PICK l \in Int : l = 4 * (Z * (X * X + X * Y + Y * Y + CurveA * (Z * (X + Y)) + Z * Z))
  BY <1>1
<1>6. DoubleX(X, Z) \in Int /\ DoubleX(Y, Z) \in Int /\ DoubleZ(X, Z) \in Int /\ DoubleZ(Y, Z) \in Int
  BY <1>1 DEF DoubleX, DoubleZ
<1>7. Shift(DoubleX(X, Z), DoubleX(Y, Z), k, X, Y)
  BY <1>4 DEF Shift, DoubleX
<1>8. Shift(DoubleZ(X, Z), DoubleZ(Y, Z), l, X, Y)
  BY <1>1, <1>5 DEF Shift, DoubleZ
<1>9. Cls(DoubleX(X, Z)) = Cls(DoubleX(Y, Z)) /\ Cls(DoubleZ(X, Z)) = Cls(DoubleZ(Y, Z))
  BY <1>2, <1>6, <1>7, <1>8, Combination
<1>10. DoubleX(Y, Z) = w * ((a * a - 1) * (a * a - 1))
  BY <1>2, <1>3 DEF DoubleX
<1>11. DoubleZ(Y, Z) = w * (4 * Cubic(a))
  BY <1>1, <1>2, <1>3 DEF DoubleZ, Cubic
<1> QED  BY <1>3, <1>9, <1>10, <1>11

(* The sum with the point at infinity. *)
LEMMA AddInfinity ==
  ASSUME NEW b \in Coefficients, NEW p \in Points(b)
  PROVE  /\ PointAdd(b, p, Infinity) = p /\ PointAdd(b, Infinity, p) = p
         /\ p = Infinity \/ p \in Affine(b)
  BY DEF PointAdd, Points

(* Opposite points add to infinity. *)
LEMMA AddOpposite ==
  ASSUME NEW b \in Coefficients, NEW p \in Affine(b), NEW q \in Affine(b), Opposite(p, q)
  PROVE  PointAdd(b, p, q) = Infinity
  BY AffineSpec DEF PointAdd

(***************************************************************************)
(* Doubling, in quotients.                                                  *)
(***************************************************************************)
LEMMA DoublePoint ==
  ASSUME NEW b \in Coefficients, NEW q \in Points(b), NEW X, NEW Z, NEW U, NEW V,
         X \in Int, Z \in Int, Rep(q, X, Z), Is(U, DoubleX(X, Z)), Is(V, DoubleZ(X, Z))
  PROVE  Rep(PointAdd(b, q, q), U, V)
<1>0. U \in Int /\ V \in Int /\ Cls(U) = Cls(DoubleX(X, Z)) /\ Cls(V) = Cls(DoubleZ(X, Z))
  BY DEF Is
<1> USE <1>0
<1>1. CurveA \in Int /\ b \in Int /\ Cls(b) # Cls(0)
  BY ClsConstants, CoefficientSpec
<1>2. CASE q = Infinity
  <2>1. Cls(Z) = Cls(0) /\ Cls(X) # Cls(0)
    BY <1>2 DEF Rep
  <2>2. PICK k \in Int : k = Z * Z * Z - 2 * (Z * (X * X))
    OBVIOUS
  <2>3. PICK g \in Int : g = X * X * (X * X)
    OBVIOUS
  <2>4. PICK l \in Int : l = 4 * (X * (X * X + CurveA * (X * Z) + Z * Z))
    BY <1>1
  <2>5. DoubleX(X, Z) \in Int /\ DoubleZ(X, Z) \in Int
    BY <1>1 DEF DoubleX, DoubleZ
  <2>6. Shift(DoubleX(X, Z), g, k, Z, 0)
    BY <2>2, <2>3 DEF Shift, DoubleX
  <2>7. Shift(DoubleZ(X, Z), 0, l, Z, 0)
    BY <1>1, <2>4 DEF Shift, DoubleZ
  <2>8. Cls(DoubleX(X, Z)) = Cls(g) /\ Cls(DoubleZ(X, Z)) = Cls(0)
    BY <2>1, <2>5, <2>6, <2>7, Combination
  <2>9. Cls(g) # Cls(0)
    <3>1. Cls(X * X) # Cls(0) /\ X * X \in Int
      BY <2>1, NonZeroProduct
    <3> QED  BY <2>3, <3>1, NonZeroProduct
  <2>10. PointAdd(b, q, q) = Infinity
    BY <1>2 DEF PointAdd
  <2> QED  BY <2>8, <2>9, <2>10 DEF Rep
<1>3. CASE q # Infinity
  <2>1. q \in Affine(b)
    BY <1>3 DEF Points
  <2>2. PICK a \in Int : a = q[1]
    BY <2>1, AffineSpec
  <2>3. Cls(Z) # Cls(0) /\ Cls(a * Z) = Cls(X)
    BY <1>3, <2>2 DEF Rep
  <2>4. PICK w \in Int :
          /\ w = Z * Z * (Z * Z)
          /\ Cls(DoubleX(X, Z)) = Cls(w * ((a * a - 1) * (a * a - 1)))
          /\ Cls(DoubleZ(X, Z)) = Cls(w * (4 * Cubic(a)))
    BY <2>3, DoubleScaled
  <2>5. Cls(w) # Cls(0)
    <3>1. Cls(Z * Z) # Cls(0) /\ Z * Z \in Int
      BY <2>3, NonZeroProduct
    <3> QED  BY <2>4, <3>1, NonZeroProduct
  <2>6. PICK F \in Int, H \in Int : F = 4 * Cubic(a) /\ H = (a * a - 1) * (a * a - 1)
    <3>1. 4 * Cubic(a) \in Int /\ (a * a - 1) * (a * a - 1) \in Int
      BY <1>1 DEF Cubic
    <3> QED  BY <3>1, Zenon
  <2>7. Cls(U) = Cls(w * H) /\ Cls(V) = Cls(w * F)
    BY <2>4, <2>6
  <2>8. q[2] \in Int /\ Cls(b * (q[2] * q[2])) = Cls(Cubic(a)) /\ Cubic(a) \in Int
    BY <1>1, <2>1, <2>2, AffineSpec DEF Cubic
  <2>9. CASE Cls(q[2]) = Cls(0)
    <3>1. PointAdd(b, q, q) = Infinity /\ Cls(Cubic(a)) = Cls(0)
      BY <2>1, <2>2, <2>9, VerticalTangent
    <3>2. Cls(H) # Cls(0)
      BY <2>6, <3>1, Nonsingular
    <3>3. Cls(w * H) # Cls(0)
      BY <2>5, <3>2, NonZeroProduct
    <3>4. PICK c \in Int : c = Cubic(a)
      BY <2>8
    <3>5. Shift(w * F, 0, 4 * w, c, 0)
      BY <2>6, <3>4 DEF Shift
    <3>6. Cls(w * F) = Cls(0)
      <4>1. w * F \in Int /\ 4 * w \in Int /\ Cls(c) = Cls(0)
        BY <3>1, <3>4
      <4> QED  BY <3>5, <4>1, Combination
    <3> QED  BY <2>7, <3>1, <3>3, <3>6 DEF Rep
  <2>10. CASE Cls(q[2]) # Cls(0)
    <3>1. PICK r \in Canon : /\ r = PointAdd(b, q, q)[1] /\ PointAdd(b, q, q) # Infinity
                             /\ Cls(r * F) = Cls(H)
      BY <2>1, <2>2, <2>6, <2>10, Tangent
    <3>2. r \in Int
      BY ClsCanon
    <3>3. Cls(F) # Cls(0)
      <4>1. PICK y \in Int : y = q[2] /\ Cls(y) # Cls(0)
        BY <2>8, <2>10
      <4>2. y * y \in Int /\ Cls(y * y) # Cls(0)
        <5>1. y * y \in Int
          OBVIOUS
        <5>2. Cls(y * y) # Cls(0)
          BY <4>1, ZeroSquare
        <5> QED  BY <5>1, <5>2
      <4>3. Cls(b * (y * y)) # Cls(0)
        BY <1>1, <4>2, NonZeroProduct
      <4>4. PICK c \in Int : c = Cubic(a) /\ Cls(c) # Cls(0)
        BY <2>8, <4>1, <4>3
      <4>5. F = 4 * c
        BY <2>6, <4>4
      <4> QED  BY <4>4, <4>5, NonZeroFour
    <3>4. Cls(w * F) # Cls(0)
      BY <2>5, <3>3, NonZeroProduct
    <3>5. Cls(r * V) = Cls(U)
      <4>1. PICK f \in Int, h \in Int, g \in Int : f = w * F /\ h = w * H /\ g = r * F
        BY <3>2
      <4>2. Shift(r * V, r * f, r, V, f) /\ Shift(r * f, h, w, g, H)
        BY <3>2, <4>1 DEF Shift
      <4>3. Cls(r * V) = Cls(r * f)
        <5>1. r * V \in Int /\ r * f \in Int /\ Cls(V) = Cls(f)
          BY <2>7, <3>2, <4>1
        <5> QED  BY <3>2, <4>2, <5>1, Combination
      <4>4. Cls(r * f) = Cls(h)
        <5>1. r * f \in Int /\ Cls(g) = Cls(H)
          BY <3>1, <3>2, <4>1
        <5> QED  BY <4>2, <5>1, Combination
      <4> QED  BY <2>7, <4>1, <4>3, <4>4
    <3> QED  BY <2>7, <3>1, <3>4, <3>5 DEF Rep
  <2> QED  BY <2>9, <2>10
<1> QED  BY <1>2, <1>3

(* What a differential addition makes of (x : z) and (v : w). *)
SumX(x, z, v, w) == 4 * ((x * v - z * w) * (x * v - z * w))
SumZ(u, x, z, v, w) == u * (4 * ((v * z - x * w) * (v * z - x * w)))

(* The outputs only depend on the classes of the quotients.                 *)
LEMMA SumScaled ==
  ASSUME NEW a \in Int, NEW X \in Int, NEW Z \in Int, Cls(a * Z) = Cls(X),
         NEW c \in Int, NEW V \in Int, NEW O \in Int, Cls(c * O) = Cls(V), NEW u \in Int
  PROVE  \E w \in Int :
           /\ w = 4 * ((Z * O) * (Z * O))
           /\ Cls(SumX(X, Z, V, O)) = Cls(w * ((a * c - 1) * (a * c - 1)))
           /\ Cls(SumZ(u, X, Z, V, O)) = Cls(u * (w * ((c - a) * (c - a))))
<1>1. PICK Y \in Int : Y = a * Z /\ Cls(X) = Cls(Y)
  OBVIOUS
<1>2. PICK G \in Int : G = c * O /\ Cls(V) = Cls(G)
  OBVIOUS
<1>3. PICK w \in Int : w = 4 * ((Z * O) * (Z * O))
  OBVIOUS
<1>4. PICK r \in Int, s \in Int, t \in Int :
        r = X * V - Z * O /\ s = Y * V - Z * O /\ t = Y * G - Z * O
  <2>1. X * V - Z * O \in Int /\ Y * V - Z * O \in Int /\ Y * G - Z * O \in Int
    OBVIOUS
  <2> QED  BY <2>1, Zenon
<1>5. PICK f \in Int, g \in Int, h \in Int :
        f = V * Z - X * O /\ g = G * Z - X * O /\ h = G * Z - Y * O
  <2>1. V * Z - X * O \in Int /\ G * Z - X * O \in Int /\ G * Z - Y * O \in Int
    OBVIOUS
  <2> QED  BY <2>1, Zenon
<1>6. Cls(r) = Cls(t)
  <2>1. Shift(r, s, V, X, Y) /\ Shift(s, t, Y, V, G)
    BY <1>4 DEF Shift
  <2>2. Cls(r) = Cls(s) /\ Cls(s) = Cls(t)
    BY <1>1, <1>2, <2>1, Combination
  <2> QED  BY <2>2
<1>7. Cls(f) = Cls(h)
  <2>1. Shift(f, g, Z, V, G) /\ Shift(g, h, -O, X, Y)
    BY <1>5 DEF Shift
  <2>2. -O \in Int
    OBVIOUS
  <2>3. Cls(f) = Cls(g) /\ Cls(g) = Cls(h)
    BY <1>1, <1>2, <2>1, <2>2, Combination
  <2> QED  BY <2>3
<1>8. Cls(4 * (r * r)) = Cls(4 * (t * t))
  <2>1. Shift(4 * (r * r), 4 * (t * t), 4 * (r + t), r, t)
    BY DEF Shift
  <2>2. 4 * (r * r) \in Int /\ 4 * (t * t) \in Int /\ 4 * (r + t) \in Int
    OBVIOUS
  <2> QED  BY <1>6, <2>1, <2>2, Combination
<1>9. Cls(u * (4 * (f * f))) = Cls(u * (4 * (h * h)))
  <2>1. Shift(u * (4 * (f * f)), u * (4 * (h * h)), u * (4 * (f + h)), f, h)
    BY DEF Shift
  <2>2. u * (4 * (f * f)) \in Int /\ u * (4 * (h * h)) \in Int /\ u * (4 * (f + h)) \in Int
    OBVIOUS
  <2> QED  BY <1>7, <2>1, <2>2, Combination
<1>10. SumX(X, Z, V, O) = 4 * (r * r) /\ SumZ(u, X, Z, V, O) = u * (4 * (f * f))
  BY <1>4, <1>5 DEF SumX, SumZ
<1>11. 4 * (t * t) = w * ((a * c - 1) * (a * c - 1))
  <2>1. t = (Z * O) * (a * c - 1)
    BY <1>1, <1>2, <1>4
  <2> QED  BY <1>3, <2>1
<1>12. u * (4 * (h * h)) = u * (w * ((c - a) * (c - a)))
  <2>1. h = (Z * O) * (c - a)
    BY <1>1, <1>2, <1>5
  <2> QED  BY <1>3, <2>1
<1> QED  BY <1>3, <1>8, <1>9, <1>10, <1>11, <1>12

(* The two points may be exchanged.                                         *)
LEMMA SumSymmetric ==
  ASSUME NEW u \in Int, NEW X \in Int, NEW Z \in Int, NEW V \in Int, NEW O \in Int
  PROVE  SumX(V, O, X, Z) = SumX(X, Z, V, O) /\ SumZ(u, V, O, X, Z) = SumZ(u, X, Z, V, O)
  BY DEF SumX, SumZ

SumOf(u, x, z, v, w, s, t, m, n) ==
  /\ u \in Int /\ x \in Int /\ z \in Int /\ v \in Int /\ w \in Int
  /\ s \in Int /\ t \in Int /\ m \in Int /\ n \in Int
  /\ s = SumX(x, z, v, w) /\ t = SumZ(u, x, z, v, w) /\ m = u * z /\ n = u * t

(* (v : w) at infinity and (x : z) of the x-coordinate u: so is the output. *)
LEMMA SumWithInfinity ==
  ASSUME NEW u, NEW X, NEW Z, NEW V, NEW O, NEW k, NEW z, NEW i, NEW n,
         SumOf(u, X, Z, V, O, k, z, i, n),
         Cls(u) # Cls(0), Cls(Z) # Cls(0), Cls(i) = Cls(X), Cls(O) = Cls(0), Cls(V) # Cls(0)
  PROVE  Cls(z) # Cls(0) /\ Cls(n) = Cls(k)
<1>0. /\ u \in Int /\ X \in Int /\ Z \in Int /\ V \in Int /\ O \in Int
      /\ k \in Int /\ z \in Int /\ i \in Int /\ n \in Int
  BY DEF SumOf
<1> USE <1>0
<1>1. PICK l \in Int : l = V * Z
  OBVIOUS
<1>2. PICK f \in Int : f = V * Z - X * O
  OBVIOUS
<1>3. PICK r \in Int : r = X * V - Z * O
  OBVIOUS
<1>4. Cls(f) = Cls(l)
  <2>1. Shift(f, l, -X, O, 0)
    BY <1>1, <1>2 DEF Shift
  <2>2. -X \in Int
    OBVIOUS
  <2> QED  BY <2>1, <2>2, Combination
<1>5. Cls(f) # Cls(0)
  BY <1>1, <1>4, NonZeroProduct
<1>6. z = u * (4 * (f * f)) /\ k = 4 * (r * r) /\ i = u * Z /\ n = u * z
  BY <1>2, <1>3 DEF SumX, SumZ, SumOf
<1>7. Cls(z) # Cls(0)
  <2>1. PICK g \in Int : g = f * f
    OBVIOUS
  <2>2. Cls(g) # Cls(0)
    BY <1>5, <2>1, NonZeroProduct
  <2>3. PICK h \in Int : h = 4 * g
    OBVIOUS
  <2>4. Cls(h) # Cls(0)
    BY <2>2, <2>3, NonZeroFour
  <2>5. z = u * h
    BY <1>6, <2>1, <2>3
  <2> QED  BY <2>4, <2>5, NonZeroProduct
<1>8. PICK e \in Int : e = u * f
  OBVIOUS
<1>9. Cls(e) = Cls(r)
  <2>1. PICK g \in Int, h \in Int : g = u * l /\ h = X * V
    <3>1. u * l \in Int /\ X * V \in Int
      OBVIOUS
    <3> QED  BY <3>1, Zenon
  <2>3. Shift(e, g, u, f, l) /\ Shift(g, h, V, i, X) /\ Shift(r, h, -Z, O, 0)
    BY <1>1, <1>2, <1>3, <1>6, <1>8, <2>1 DEF Shift
  <2>4. -Z \in Int /\ Cls(i) = Cls(X)
    OBVIOUS
  <2>5. Cls(e) = Cls(g)
    <3>1. Shift(e, g, u, f, l)
      BY <2>3
    <3> QED  BY <1>4, <3>1, Combination
  <2>6. Cls(g) = Cls(h)
    <3>1. Shift(g, h, V, i, X)
      BY <2>3
    <3> QED  BY <3>1, Combination
  <2>7. Cls(r) = Cls(h)
    <3>1. Shift(r, h, -Z, O, 0) /\ -Z \in Int
      BY <2>3
    <3> QED  BY <3>1, Combination
  <2> QED  BY <2>5, <2>6, <2>7
<1>10. Cls(4 * (e * e)) = Cls(4 * (r * r))
  <2>1. Shift(4 * (e * e), 4 * (r * r), 4 * (e + r), e, r)
    BY DEF Shift
  <2>2. 4 * (e * e) \in Int /\ 4 * (r * r) \in Int /\ 4 * (e + r) \in Int
    OBVIOUS
  <2> QED  BY <1>9, <2>1, <2>2, Combination
<1>11. n = 4 * (e * e)
  BY <1>6, <1>8
<1> QED  BY <1>6, <1>7, <1>10, <1>11

(* Addition on a curve is associative, and stays on it. *)
LEMMA Associative ==
  ASSUME NEW b \in Coefficients, NEW p \in Points(b), NEW q \in Points(b), NEW r \in Points(b)
  PROVE  /\ PointAdd(b, p, q) \in Points(b)
         /\ PointAdd(b, PointAdd(b, p, q), r) = PointAdd(b, p, PointAdd(b, q, r))
  BY GroupLaw

(* A point and the base point: q = Q + p for affine points of one x.        *)
LEMMA SumOpposite ==
  ASSUME NEW b \in Coefficients, NEW Q \in Affine(b), NEW p \in Affine(b), NEW q \in Affine(b),
         q = PointAdd(b, Q, p), p[1] = q[1]
  PROVE  PointAdd(b, p, q) = Infinity /\ PointAdd(b, q, q) = Q
<1>1. Q \in Points(b) /\ p \in Points(b) /\ q \in Points(b)
  BY DEF Points
<1>2. p # q
  <2>1. SUFFICES ASSUME p = q PROVE FALSE
    OBVIOUS
  <2>2. PICK n \in Affine(b) : Opposite(p, n)
    BY NegativeSpec, NegativeOpposite
  <2>3. n \in Points(b) /\ PointAdd(b, p, n) = Infinity
    BY <2>2, AddOpposite DEF Points
  <2>4. PointAdd(b, PointAdd(b, Q, p), n) = PointAdd(b, Q, PointAdd(b, p, n))
    BY <1>1, <2>3, Associative
  <2>5. Infinity = Q
    BY <1>1, <2>1, <2>3, <2>4, AddInfinity
  <2> QED  BY <2>5, AffineSpec
<1>3. PointAdd(b, p, q) = Infinity
  BY <1>2, SameX, AddOpposite
<1>4. PointAdd(b, PointAdd(b, Q, p), q) = PointAdd(b, Q, PointAdd(b, p, q))
  BY <1>1, Associative
<1>5. PointAdd(b, q, q) = Q
  BY <1>1, <1>3, <1>4, AddInfinity
<1> QED  BY <1>3, <1>5

(* The difference of q = Q + p and p is Q.                                  *)
LEMMA Difference ==
  ASSUME NEW b \in Coefficients, NEW Q \in Affine(b), NEW p \in Affine(b), NEW q,
         q = PointAdd(b, Q, p)
  PROVE  PointAdd(b, q, Negative(p)) = Q
<1>1. Q \in Points(b) /\ p \in Points(b) /\ Negative(p) \in Affine(b) /\ Negative(p) \in Points(b)
  BY NegativeSpec DEF Points
<1>2. PointAdd(b, p, Negative(p)) = Infinity
  BY <1>1, NegativeOpposite, AddOpposite
<1>3. PointAdd(b, PointAdd(b, Q, p), Negative(p)) = PointAdd(b, Q, PointAdd(b, p, Negative(p)))
  BY <1>1, Associative
<1> QED  BY <1>1, <1>2, <1>3, AddInfinity

(***************************************************************************)
(* Differential addition, in quotients: q is p plus the base point Q, whose *)
(* x-coordinate u is not 0.                                                 *)
(***************************************************************************)
LEMMA AddPoints ==
  ASSUME NEW b \in Coefficients, NEW Q \in Affine(b), NEW p \in Points(b), NEW q \in Points(b),
         NEW u, NEW X, NEW Z, NEW V, NEW O, NEW S, NEW T,
         u \in Int, X \in Int, Z \in Int, V \in Int, O \in Int,
         XOf(Q) = u, Cls(u) # Cls(0), q = PointAdd(b, Q, p), Rep(p, X, Z), Rep(q, V, O),
         Is(S, SumX(X, Z, V, O)), Is(T, SumZ(u, X, Z, V, O))
  PROVE  Rep(PointAdd(b, p, q), S, T)
<1>0. /\ Q \in Points(b) /\ Q # Infinity /\ Q[1] = u
      /\ S \in Int /\ T \in Int
      /\ Cls(S) = Cls(SumX(X, Z, V, O)) /\ Cls(T) = Cls(SumZ(u, X, Z, V, O))
  BY AffineSpec DEF Points, XOf, Is
<1>1. PICK k \in Int, l \in Int : k = SumX(X, Z, V, O) /\ l = SumZ(u, X, Z, V, O)
  <2>1. SumX(X, Z, V, O) \in Int /\ SumZ(u, X, Z, V, O) \in Int
    BY DEF SumX, SumZ
  <2> QED  BY <2>1, Zenon
<1>2. Cls(S) = Cls(k) /\ Cls(T) = Cls(l) /\ S \in Int /\ T \in Int
  BY <1>0, <1>1
<1>3. ASSUME NEW r, r = PointAdd(b, p, q), r # Infinity, NEW c \in Int, c = r[1],
             Cls(l) # Cls(0), Cls(c * l) = Cls(k)
      PROVE  Rep(PointAdd(b, p, q), S, T)
  <2>1. Shift(c * T, c * l, c, T, l)
    BY <1>2, <1>3 DEF Shift
  <2>2. Cls(c * T) = Cls(c * l)
    <3>1. c * T \in Int /\ c * l \in Int /\ Cls(T) = Cls(l)
      BY <1>2
    <3> QED  BY <2>1, <3>1, Combination
  <2> QED  BY <1>2, <1>3, <2>2 DEF Rep
<1>4. CASE p = Infinity
  <2>1. q = Q /\ PointAdd(b, p, q) = Q
    BY <1>0, <1>4, AddInfinity
  <2>2. /\ Cls(Z) = Cls(0) /\ Cls(X) # Cls(0)
        /\ Cls(O) # Cls(0) /\ Cls(u * O) = Cls(V)
    BY <1>0, <1>4, <2>1 DEF Rep
  <2>3. Cls(l) # Cls(0) /\ Cls(u * l) = Cls(k)
    <3>1. PICK m \in Int, n \in Int : m = u * O /\ n = u * l
      <4>1. u * O \in Int /\ u * l \in Int
        OBVIOUS
      <4> QED  BY <4>1, Zenon
    <3>2. SumOf(u, V, O, X, Z, k, l, m, n)
      <4>1. k = SumX(V, O, X, Z) /\ l = SumZ(u, V, O, X, Z)
        BY <1>1, SumSymmetric
      <4> QED  BY <3>1, <4>1 DEF SumOf
    <3>3. Cls(m) = Cls(V) /\ Cls(O) # Cls(0) /\ Cls(Z) = Cls(0) /\ Cls(X) # Cls(0)
      BY <2>2, <3>1
    <3>4. Cls(l) # Cls(0) /\ Cls(n) = Cls(k)
      BY <3>2, <3>3, SumWithInfinity
    <3> QED  BY <3>1, <3>4
  <2> QED  BY <1>0, <1>3, <2>1, <2>3
<1>5. CASE p # Infinity /\ q = Infinity
  <2>1. p \in Affine(b) /\ PointAdd(b, p, q) = p
    BY <1>5, AddInfinity
  <2>2. Q[1] = p[1]
    <3>1. SUFFICES ASSUME Q[1] # p[1] PROVE FALSE
      OBVIOUS
    <3>2. PICK a \in Int, c \in Int : a = Q[1] /\ c = p[1] /\ a # c
      BY <2>1, <3>1, AffineSpec
    <3>3. PointAdd(b, Q, p) # Infinity
      BY <2>1, <3>2, ChordPair
    <3> QED  BY <1>5, <3>3
  <2>3. /\ Cls(O) = Cls(0) /\ Cls(V) # Cls(0)
        /\ Cls(Z) # Cls(0) /\ Cls(u * Z) = Cls(X)
    BY <1>0, <1>5, <2>2 DEF Rep
  <2>4. Cls(l) # Cls(0) /\ Cls(u * l) = Cls(k)
    <3>1. PICK m \in Int, n \in Int : m = u * Z /\ n = u * l
      <4>1. u * Z \in Int /\ u * l \in Int
        OBVIOUS
      <4> QED  BY <4>1, Zenon
    <3>2. SumOf(u, X, Z, V, O, k, l, m, n)
      BY <1>1, <3>1 DEF SumOf
    <3>3. Cls(m) = Cls(X) /\ Cls(Z) # Cls(0) /\ Cls(O) = Cls(0) /\ Cls(V) # Cls(0)
      BY <2>3, <3>1
    <3>4. Cls(l) # Cls(0) /\ Cls(n) = Cls(k)
      BY <3>2, <3>3, SumWithInfinity
    <3> QED  BY <3>1, <3>4
  <2> QED  BY <1>0, <1>3, <1>5, <2>1, <2>2, <2>4
<1>6. CASE p # Infinity /\ q # Infinity
  <2>1. p \in Affine(b) /\ q \in Affine(b)
    BY <1>6, AddInfinity
  <2>2. PICK a \in Int, c \in Int : a = p[1] /\ c = q[1]
    BY <2>1, AffineSpec
  <2>3. Cls(Z) # Cls(0) /\ Cls(a * Z) = Cls(X) /\ Cls(O) # Cls(0) /\ Cls(c * O) = Cls(V)
    BY <1>6, <2>2 DEF Rep
  <2>4. PICK w \in Int :
          /\ w = 4 * ((Z * O) * (Z * O))
          /\ Cls(k) = Cls(w * ((a * c - 1) * (a * c - 1)))
          /\ Cls(l) = Cls(u * (w * ((c - a) * (c - a))))
    BY <1>1, <2>3, SumScaled
  <2>5. Cls(w) # Cls(0)
    <3>1. PICK g \in Int : g = Z * O
      OBVIOUS
    <3>2. Cls(g) # Cls(0)
      BY <2>3, <3>1, NonZeroProduct
    <3>3. PICK h \in Int : h = g * g
      OBVIOUS
    <3>4. Cls(h) # Cls(0)
      BY <3>2, <3>3, NonZeroProduct
    <3>5. w = 4 * h
      BY <2>4, <3>1, <3>3
    <3> QED  BY <3>4, <3>5, NonZeroFour
  <2>6. PICK H \in Int, D \in Int : H = (a * c - 1) * (a * c - 1) /\ D = (c - a) * (c - a)
    <3>1. (a * c - 1) * (a * c - 1) \in Int /\ (c - a) * (c - a) \in Int
      OBVIOUS
    <3> QED  BY <3>1, Zenon
  <2>7. Cls(k) = Cls(w * H) /\ Cls(l) = Cls(u * (w * D))
    BY <2>4, <2>6
  <2>8. CASE a = c
    <3>1. PointAdd(b, p, q) = Infinity /\ PointAdd(b, q, q) = Q
      <4>1. p[1] = q[1]
        BY <2>2, <2>8
      <4> QED  BY <2>1, <4>1, SumOpposite
    <3>2. Cls(q[2]) # Cls(0)
      BY <1>0, <2>1, <3>1, VerticalTangent
    <3>3. Cls(u * (4 * Cubic(c))) = Cls((c * c - 1) * (c * c - 1))
      BY <1>0, <2>1, <2>2, <3>1, <3>2, Tangent
    <3>4. Cls(H) # Cls(0)
      <4>1. PICK F \in Int : F = Cubic(c)
        BY ClsConstants DEF Cubic
      <4>2. CASE Cls(F) = Cls(0)
        BY <2>6, <2>8, <4>1, <4>2, Nonsingular
      <4>3. CASE Cls(F) # Cls(0)
        <5>1. PICK f \in Int : f = 4 * F
          OBVIOUS
        <5>2. Cls(f) # Cls(0)
          BY <4>3, <5>1, NonZeroFour
        <5>3. Cls(u * f) # Cls(0)
          BY <5>2, NonZeroProduct
        <5> QED  BY <2>6, <2>8, <3>3, <4>1, <5>1, <5>3
      <4> QED  BY <4>2, <4>3
    <3>5. Cls(k) # Cls(0)
      BY <2>5, <2>7, <3>4, NonZeroProduct
    <3>6. Cls(l) = Cls(0)
      <4>1. u * (w * D) = 0
        <5>1. D = 0
          BY <2>6, <2>8
        <5> QED  BY <5>1
      <4> QED  BY <2>7, <4>1
    <3> QED  BY <1>2, <3>1, <3>5, <3>6 DEF Rep
  <2>9. CASE a # c
    <3>1. PointAdd(b, q, Negative(p)) = Q
      BY <2>1, Difference
    <3>2. /\ PointAdd(b, p, q) # Infinity /\ PointAdd(b, p, q)[1] \in Canon
          /\ Cls(PointAdd(b, p, q)[1] * u * D) = Cls(H)
      BY <1>0, <2>1, <2>2, <2>6, <2>9, <3>1, ChordPair
    <3>3. PICK r \in Int : r = PointAdd(b, p, q)[1] /\ Cls(r * u * D) = Cls(H)
      BY <3>2, ClsCanon
    <3>4. Cls(D) # Cls(0)
      <4>1. PICK e \in Int : e = c - a
        OBVIOUS
      <4>2. Cls(e) # Cls(0)
        <5>1. SUFFICES ASSUME Cls(e) = Cls(0) PROVE FALSE
          OBVIOUS
        <5>2. Shift(c, a, 1, e, 0)
          BY <4>1 DEF Shift
        <5>3. Cls(c) = Cls(a)
          BY <5>1, <5>2, Combination
        <5>4. a \in Canon /\ c \in Canon
          BY <2>1, <2>2, AffineSpec
        <5> QED  BY <2>9, <5>3, <5>4, ClsCanon
      <4> QED  BY <2>6, <4>1, <4>2, NonZeroProduct
    <3>5. PICK g \in Int, m \in Int : g = w * D /\ m = u * g
      <4>1. w * D \in Int /\ u * (w * D) \in Int
        OBVIOUS
      <4> QED  BY <4>1
    <3>6. Cls(l) = Cls(m) /\ Cls(m) # Cls(0)
      <4>1. Cls(g) # Cls(0)
        BY <2>5, <3>4, <3>5, NonZeroProduct
      <4>2. Cls(m) # Cls(0)
        BY <3>5, <4>1, NonZeroProduct
      <4> QED  BY <2>7, <3>5, <4>2
    <3>7. Cls(r * l) = Cls(k)
      <4>1. PICK e \in Int, f \in Int, h \in Int : e = r * l /\ f = r * m /\ h = w * H
        <5>1. r * l \in Int /\ r * m \in Int /\ w * H \in Int
          OBVIOUS
        <5> QED  BY <5>1, Zenon
      <4>2. PICK n \in Int : n = r * u * D
        OBVIOUS
      <4>3. Shift(e, f, r, l, m) /\ Shift(f, h, w, n, H)
        BY <3>5, <4>1, <4>2 DEF Shift
      <4>4. Cls(e) = Cls(f)
        <5>1. Shift(e, f, r, l, m)
          BY <4>3
        <5> QED  BY <3>6, <5>1, Combination
      <4>5. Cls(f) = Cls(h)
        <5>1. Shift(f, h, w, n, H)
          BY <4>3
        <5>2. Cls(n) = Cls(H)
          BY <3>3, <4>2
        <5> QED  BY <5>1, <5>2, Combination
      <4> QED  BY <2>7, <4>1, <4>4, <4>5
    <3>8. Cls(l) # Cls(0)
      BY <3>6
    <3> QED  BY <1>3, <3>2, <3>3, <3>7, <3>8
  <2> QED  BY <2>8, <2>9
<1> QED  BY <1>4, <1>5, <1>6

(***************************************************************************)
(* The ladder step, as classes.                                             *)
(***************************************************************************)

(* A field operation on members of two classes is in the class of the result. *)
LEMMA FieldClass ==
  ASSUME NEW a, NEW b, NEW e, NEW f, Is(a, e), Is(b, f)
  PROVE  /\ FAdd(a, b) \in Canon /\ Is(FAdd(a, b), e + f)
         /\ FSub(a, b) \in Canon /\ Is(FSub(a, b), e - f)
         /\ FMul(a, b) \in Canon /\ Is(FMul(a, b), e * f)
<1>1. PICK k \in Int, l \in Int, m \in Int, n \in Int :
        k = a /\ l = b /\ m = e /\ n = f /\ Cls(k) = Cls(m) /\ Cls(l) = Cls(n)
  BY DEF Is
<1>2. FAdd(k, l) \in Canon /\ Cls(FAdd(k, l)) = Cls(m + n)
  <2>1. PICK s \in Int, t \in Int, v \in Int : s = k + l /\ t = k + n /\ v = m + n
    OBVIOUS
  <2>2. Shift(s, t, 1, l, n) /\ Shift(t, v, 1, k, m)
    BY <2>1 DEF Shift
  <2>3. Cls(s) = Cls(t) /\ Cls(t) = Cls(v)
    BY <1>1, <2>2, Combination
  <2> QED  BY <2>1, <2>3, ClsField
<1>3. FSub(k, l) \in Canon /\ Cls(FSub(k, l)) = Cls(m - n)
  <2>1. PICK s \in Int, t \in Int, v \in Int : s = k - l /\ t = k - n /\ v = m - n
    OBVIOUS
  <2>2. Shift(s, t, -1, l, n) /\ Shift(t, v, 1, k, m)
    BY <2>1 DEF Shift
  <2>3. Cls(s) = Cls(t) /\ Cls(t) = Cls(v)
    BY <1>1, <2>2, Combination
  <2> QED  BY <2>1, <2>3, ClsField
<1>4. FMul(k, l) \in Canon /\ Cls(FMul(k, l)) = Cls(m * n)
  <2>1. PICK s \in Int, v \in Int : s = k * l /\ v = m * n
    <3>1. k * l \in Int /\ m * n \in Int
      OBVIOUS
    <3> QED  BY <3>1, Zenon
  <2>2. Products(s, v, k, m, l, n)
    BY <2>1 DEF Products
  <2>3. Cls(s) = Cls(v)
    BY <1>1, <2>2, ClsProduct
  <2> QED  BY <2>1, <2>3, ClsField
<1>5. /\ FAdd(k, l) \in Int /\ FSub(k, l) \in Int /\ FMul(k, l) \in Int
      /\ m + n \in Int /\ m - n \in Int /\ m * n \in Int
  BY <1>2, <1>3, <1>4, ClsCanon
<1> QED  BY <1>1, <1>2, <1>3, <1>4, <1>5 DEF Is

(* The four coordinates a ladder step leaves. *)
Stepped(u, x, z, v, w, Xd, Zd, Xs, Zs) ==
  LET A  == FAdd(x, z)
      M  == FSub(x, z)
      AA == FMul(A, A)
      BB == FMul(M, M)
      E  == FSub(AA, BB)
      DA == FMul(FSub(v, w), A)
      CB == FMul(FAdd(v, w), M)
      S  == FAdd(DA, CB)
      D  == FSub(DA, CB)
  IN  /\ Xs = FMul(S, S) /\ Zs = FMul(u, FMul(D, D))
      /\ Xd = FMul(AA, BB) /\ Zd = FMul(E, FAdd(AA, FMul(A24 % P, E)))

(* They are canonical, and in the classes of the doubling and the differential addition. *)
LEMMA StepClasses ==
  ASSUME NEW u \in Canon, NEW x \in Canon, NEW z \in Canon, NEW v \in Canon, NEW w \in Canon,
         NEW Xd, NEW Zd, NEW Xs, NEW Zs, Stepped(u, x, z, v, w, Xd, Zd, Xs, Zs)
  PROVE  /\ Xd \in Canon /\ Zd \in Canon /\ Xs \in Canon /\ Zs \in Canon
         /\ Is(Xd, DoubleX(x, z)) /\ Is(Zd, DoubleZ(x, z))
         /\ Is(Xs, SumX(x, z, v, w)) /\ Is(Zs, SumZ(u, x, z, v, w))
<1>0. /\ u \in Int /\ x \in Int /\ z \in Int /\ v \in Int /\ w \in Int
      /\ Is(u, u) /\ Is(x, x) /\ Is(z, z) /\ Is(v, v) /\ Is(w, w)
  BY ClsCanon DEF Is
<1>1. Is(A24 % P, A24) /\ CurveA = 4 * A24 + 2 /\ A24 \in Int
  <2>1. A24 \in Int
    BY Constants
  <2>2. A24 % P \in Canon /\ Cls(A24 % P) = Cls(A24)
    BY <2>1, ClsMod
  <2> QED  BY <2>1, <2>2, ClsCanon DEF Is, CurveA
<1>2. PICK A, M : A = FAdd(x, z) /\ M = FSub(x, z)
  OBVIOUS
<1>3. PICK AA, BB : AA = FMul(A, A) /\ BB = FMul(M, M)
  OBVIOUS
<1>4. PICK E : E = FSub(AA, BB)
  OBVIOUS
<1>5. PICK F, G : F = FMul(A24 % P, E) /\ G = FAdd(AA, F)
  OBVIOUS
<1>6. PICK DA, CB : DA = FMul(FSub(v, w), A) /\ CB = FMul(FAdd(v, w), M)
  OBVIOUS
<1>7. PICK S, D : S = FAdd(DA, CB) /\ D = FSub(DA, CB)
  OBVIOUS
<1>8. PICK DD : DD = FMul(D, D)
  OBVIOUS
<1>9. /\ Xs = FMul(S, S) /\ Zs = FMul(u, DD)
      /\ Xd = FMul(AA, BB) /\ Zd = FMul(E, G)
  BY <1>2, <1>3, <1>4, <1>5, <1>6, <1>7, <1>8 DEF Stepped
<1>10. Is(A, x + z) /\ Is(M, x - z)
  BY <1>0, <1>2, FieldClass, Zenon
<1>11. Is(AA, (x + z) * (x + z)) /\ Is(BB, (x - z) * (x - z))
  BY <1>3, <1>10, FieldClass, Zenon
<1>12. Is(E, (x + z) * (x + z) - (x - z) * (x - z))
  BY <1>4, <1>11, FieldClass, Zenon
<1>13. Is(F, A24 * ((x + z) * (x + z) - (x - z) * (x - z)))
  BY <1>1, <1>5, <1>12, FieldClass, Zenon
<1>14. Is(G, (x + z) * (x + z) + A24 * ((x + z) * (x + z) - (x - z) * (x - z)))
  BY <1>5, <1>11, <1>13, FieldClass, Zenon
<1>15. Xd \in Canon /\ Is(Xd, ((x + z) * (x + z)) * ((x - z) * (x - z)))
  BY <1>9, <1>11, FieldClass, Zenon
<1>16. Zd \in Canon /\ Is(Zd, ((x + z) * (x + z) - (x - z) * (x - z))
                  * ((x + z) * (x + z) + A24 * ((x + z) * (x + z) - (x - z) * (x - z))))
  BY <1>9, <1>12, <1>14, FieldClass, Zenon
<1>17. Is(FSub(v, w), v - w) /\ Is(FAdd(v, w), v + w)
  BY <1>0, FieldClass, Zenon
<1>18. Is(DA, (v - w) * (x + z)) /\ Is(CB, (v + w) * (x - z))
  BY <1>6, <1>10, <1>17, FieldClass, Zenon
<1>19. /\ Is(S, (v - w) * (x + z) + (v + w) * (x - z))
       /\ Is(D, (v - w) * (x + z) - (v + w) * (x - z))
  BY <1>7, <1>18, FieldClass, Zenon
<1>20. Xs \in Canon /\ Is(Xs, ((v - w) * (x + z) + (v + w) * (x - z)) * ((v - w) * (x + z) + (v + w) * (x - z)))
  BY <1>9, <1>19, FieldClass, Zenon
<1>21. Is(DD, ((v - w) * (x + z) - (v + w) * (x - z)) * ((v - w) * (x + z) - (v + w) * (x - z)))
  BY <1>8, <1>19, FieldClass, Zenon
<1>22. Zs \in Canon /\ Is(Zs, u * (((v - w) * (x + z) - (v + w) * (x - z)) * ((v - w) * (x + z) - (v + w) * (x - z))))
  BY <1>0, <1>9, <1>21, FieldClass, Zenon
<1>23. ((x + z) * (x + z)) * ((x - z) * (x - z)) = DoubleX(x, z)
  BY <1>0 DEF DoubleX
<1>24. ((x + z) * (x + z) - (x - z) * (x - z))
         * ((x + z) * (x + z) + A24 * ((x + z) * (x + z) - (x - z) * (x - z))) = DoubleZ(x, z)
  <2>1. (x + z) * (x + z) - (x - z) * (x - z) = 4 * (x * z)
    BY <1>0
  <2>2. (x + z) * (x + z) + A24 * (4 * (x * z)) = x * x + CurveA * (x * z) + z * z
    BY <1>0, <1>1
  <2>3. PICK g \in Int, h \in Int : g = x * z /\ h = x * x + CurveA * (x * z) + z * z
    <3>1. x * z \in Int /\ x * x + CurveA * (x * z) + z * z \in Int
      BY <1>0, <1>1
    <3> QED  BY <3>1, Zenon
  <2>4. DoubleZ(x, z) = 4 * (g * h)
    BY <2>3 DEF DoubleZ
  <2>5. (4 * g) * h = 4 * (g * h)
    OBVIOUS
  <2> QED  BY <2>1, <2>2, <2>3, <2>4, <2>5
<1>25. ((v - w) * (x + z) + (v + w) * (x - z)) * ((v - w) * (x + z) + (v + w) * (x - z))
         = SumX(x, z, v, w)
  <2>1. (v - w) * (x + z) + (v + w) * (x - z) = 2 * (x * v - z * w)
    BY <1>0
  <2> QED  BY <1>0, <2>1 DEF SumX
<1>26. u * (((v - w) * (x + z) - (v + w) * (x - z)) * ((v - w) * (x + z) - (v + w) * (x - z)))
         = SumZ(u, x, z, v, w)
  <2>1. (v - w) * (x + z) - (v + w) * (x - z) = 2 * (v * z - x * w)
    BY <1>0
  <2> QED  BY <1>0, <2>1 DEF SumZ
<1> QED  BY <1>15, <1>16, <1>20, <1>22, <1>23, <1>24, <1>25, <1>26

(***************************************************************************)
(* Recursion over the naturals: the definition of a recursive function has  *)
(* a solution.                                                              *)
(***************************************************************************)
Solves(f, g, base, n) == f[0] = base /\ \A k \in 0 .. n - 1 : f[k + 1] = g[k + 1][f[k]]

(* Up to every n, by induction. *)
LEMMA PartialSolution ==
  ASSUME NEW S, NEW base \in S, NEW g \in [Nat -> [S -> S]], NEW m \in Nat
  PROVE  \E f \in [0 .. m -> S] : Solves(f, g, base, m)
<1> DEFINE T == {n \in Nat : \E f \in [0 .. n -> S] : Solves(f, g, base, n)}
<1>1. 0 \in T
  <2>1. PICK f : f = [k \in 0 .. 0 |-> base]
    OBVIOUS
  <2>2. f \in [0 .. 0 -> S] /\ f[0] = base
    BY <2>1
  <2>3. Solves(f, g, base, 0)
    BY <2>2 DEF Solves
  <2> QED  BY <2>2, <2>3
<1>2. ASSUME NEW n \in T PROVE n + 1 \in T
  <2>1. PICK f \in [0 .. n -> S] : Solves(f, g, base, n)
    OBVIOUS
  <2>2. n \in Nat /\ f[n] \in S /\ f[0] = base /\ \A k \in 0 .. n - 1 : f[k + 1] = g[k + 1][f[k]]
    BY <2>1 DEF Solves
  <2>3. PICK v \in S : v = g[n + 1][f[n]]
    BY <2>2
  <2>4. PICK h : h = [k \in 0 .. n + 1 |-> IF k = n + 1 THEN v ELSE f[k]]
    OBVIOUS
  <2>5. h \in [0 .. n + 1 -> S]
    BY <2>2, <2>4
  <2>6. h[0] = base
    BY <2>2, <2>4
  <2>7. ASSUME NEW k \in 0 .. n
        PROVE  h[k + 1] = g[k + 1][h[k]]
    <3>1. h[k] = f[k]
      BY <2>2, <2>4
    <3>2. CASE k = n
      <4>1. h[k + 1] = v
        BY <2>2, <2>4, <3>2
      <4> QED  BY <2>3, <3>1, <3>2, <4>1
    <3>3. CASE k \in 0 .. n - 1
      <4>1. h[k + 1] = f[k + 1]
        BY <2>2, <2>4, <3>3
      <4> QED  BY <2>2, <3>1, <3>3, <4>1
    <3> QED  BY <2>2, <3>2, <3>3
  <2>8. Solves(h, g, base, n + 1)
    <3>1. (n + 1) - 1 = n
      BY <2>2
    <3> QED  BY <2>6, <2>7, <3>1 DEF Solves
  <2> QED  BY <2>2, <2>5, <2>8
<1>3. T = Nat
  <2> HIDE DEF T
  <2>1. T \in SUBSET Nat
    BY DEF T
  <2> QED  BY <1>1, <1>2, <2>1, SetInduction
<1> QED  BY <1>3

(* Two of them agree where both are defined. *)
LEMMA SameSolutions ==
  ASSUME NEW g, NEW base, NEW m \in Nat, NEW f, NEW h,
         Solves(f, g, base, m), Solves(h, g, base, m)
  PROVE  \A n \in 0 .. m : f[n] = h[n]
<1> DEFINE T == {n \in Nat : f[n] = h[n]}
<1>1. 0 \in T
  BY DEF Solves
<1>2. ASSUME NEW n \in 0 .. m - 1, n \in T PROVE n + 1 \in T
  <2>1. f[n + 1] = g[n + 1][f[n]] /\ h[n + 1] = g[n + 1][h[n]]
    BY DEF Solves
  <2> QED  BY <1>2, <2>1
<1>3. \A n \in 0 .. m : n \in T
  <2> HIDE DEF T
  <2> QED  BY <1>1, <1>2, BoundedInduction
<1> QED  BY <1>3

Recursed(f, g, base) == f[0] = base /\ \A n \in Nat : f[n + 1] = g[n + 1][f[n]]

(* Hence a solution on all naturals. *)
LEMMA Recursion ==
  ASSUME NEW S, NEW base, base \in S, NEW g, g \in [Nat -> [S -> S]]
  PROVE  \E f \in [Nat -> S] : Recursed(f, g, base)
<1> DEFINE Part(n) == CHOOSE f \in [0 .. n -> S] : Solves(f, g, base, n)
<1>1. ASSUME NEW n \in Nat
      PROVE  Part(n) \in [0 .. n -> S] /\ Solves(Part(n), g, base, n)
  BY PartialSolution
<1> HIDE DEF Part
<1>2. PICK f : f = [n \in Nat |-> Part(n)[n]]
  OBVIOUS
<1>3. f \in [Nat -> S]
  <2>1. ASSUME NEW n \in Nat PROVE Part(n)[n] \in S
    <3>1. n \in 0 .. n
      OBVIOUS
    <3> QED  BY <1>1, <3>1
  <2> QED  BY <1>2, <2>1
<1>4. f[0] = base
  BY <1>1, <1>2 DEF Solves
<1>5. ASSUME NEW n \in Nat PROVE f[n + 1] = g[n + 1][f[n]]
  <2>1. PICK h \in [0 .. n + 1 -> S] : h = Part(n + 1) /\ Solves(h, g, base, n + 1)
    BY <1>1
  <2>2. PICK e \in [0 .. n -> S] : e = Part(n) /\ Solves(e, g, base, n)
    BY <1>1
  <2>3. h[0] = base /\ \A k \in 0 .. n : h[k + 1] = g[k + 1][h[k]]
    <3>1. (n + 1) - 1 = n
      OBVIOUS
    <3> QED  BY <2>1, <3>1 DEF Solves
  <2>4. Solves(h, g, base, n)
    BY <2>3 DEF Solves
  <2>5. e[n] = h[n]
    BY <2>2, <2>4, SameSolutions
  <2>6. h[n + 1] = g[n + 1][h[n]]
    BY <2>3
  <2>7. f[n + 1] = h[n + 1] /\ f[n] = e[n]
    BY <1>2, <2>1, <2>2
  <2> QED  BY <2>5, <2>6, <2>7
<1> QED  BY <1>3, <1>4, <1>5 DEF Recursed

(***************************************************************************)
(* The bits read so far.                                                    *)
(***************************************************************************)
BitValue(k, n) == IF k[LadderTop + 1 - n] THEN 1 ELSE 0

(* Reading bit t doubles what the bits above it spell, and adds it. *)
LEMMA BitsSpec ==
  ASSUME NEW k
  PROVE  /\ LadderTop \in Nat /\ BitsFrom(k, LadderTop + 1) = 0
         /\ \A t \in 0 .. LadderTop :
              /\ BitsFrom(k, t + 1) \in Nat
              /\ BitsFrom(k, t) = 2 * BitsFrom(k, t + 1) + (IF k[t] THEN 1 ELSE 0)
<1>1. LadderTop \in Nat
  <2>1. W \in Nat /\ NB \in Nat /\ W >= 2 /\ NB >= 1
    BY GeometryAssumption
  <2>2. W * NB >= W
    BY <2>1
  <2> QED  BY <2>1, <2>2 DEF LadderTop
<1> DEFINE g == [n \in Nat |-> [v \in Nat |-> 2 * v + BitValue(k, n)]]
           Sol(v) == v = [n \in Nat |-> IF n = 0 THEN 0 ELSE 2 * v[n - 1] + (IF k[LadderTop + 1 - n] THEN 1 ELSE 0)]
<1>2. g \in [Nat -> [Nat -> Nat]]
  BY DEF BitValue
<1>3. PICK f \in [Nat -> Nat] : f[0] = 0 /\ \A n \in Nat : f[n + 1] = g[n + 1][f[n]]
  <2>1. 0 \in Nat
    OBVIOUS
  <2> HIDE DEF g
  <2>2. \E f \in [Nat -> Nat] : Recursed(f, g, 0)
    BY <1>2, <2>1, Recursion
  <2> QED  BY <2>2 DEF Recursed
<1>4. ASSUME NEW n \in Nat PROVE f[n + 1] = 2 * f[n] + BitValue(k, n + 1)
  <2>1. n + 1 \in Nat /\ f[n] \in Nat
    BY <1>3
  <2> QED  BY <1>3, <2>1
<1>5. Sol(f)
  <2>1. ASSUME NEW n \in Nat
        PROVE  f[n] = IF n = 0 THEN 0 ELSE 2 * f[n - 1] + (IF k[LadderTop + 1 - n] THEN 1 ELSE 0)
    <3>1. CASE n = 0
      BY <1>3, <3>1
    <3>2. CASE n # 0
      <4>1. PICK p \in Nat : p = n - 1 /\ n = p + 1
        BY <3>2
      <4>2. f[n] = 2 * f[n - 1] + BitValue(k, n)
        BY <1>4, <4>1
      <4> QED  BY <3>2, <4>2 DEF BitValue
    <3> QED  BY <3>1, <3>2
  <2>2. f = [n \in Nat |-> f[n]]
    BY <1>3
  <2> QED  BY <2>1, <2>2
<1>6. PICK v : /\ v = CHOOSE h : Sol(h)
               /\ Sol(v)
  BY <1>5
<1>7. \A t \in Int : BitsFrom(k, t) = v[LadderTop + 1 - t]
  BY <1>6 DEF BitsFrom
<1>8. v[0] = 0 /\ \A n \in Nat : v[n + 1] = 2 * v[n] + BitValue(k, n + 1)
  <2>1. \A n \in Nat : v[n] = IF n = 0 THEN 0 ELSE 2 * v[n - 1] + (IF k[LadderTop + 1 - n] THEN 1 ELSE 0)
    BY <1>6
  <2>2. v[0] = 0
    BY <2>1
  <2>3. ASSUME NEW n \in Nat PROVE v[n + 1] = 2 * v[n] + BitValue(k, n + 1)
    <3>1. PICK p \in Nat : p = n + 1 /\ p # 0 /\ p - 1 = n
      OBVIOUS
    <3>2. v[p] = 2 * v[p - 1] + BitValue(k, p)
      BY <2>1, <3>1 DEF BitValue
    <3> QED  BY <3>1, <3>2
  <2> QED  BY <2>2, <2>3
<1> HIDE DEF Sol, g
<1>9. \A n \in Nat : v[n] \in Nat
  <2> DEFINE T == {n \in Nat : v[n] \in Nat}
  <2>1. 0 \in T /\ \A n \in T : n + 1 \in T
    BY <1>8 DEF BitValue
  <2>2. T = Nat
    <3> HIDE DEF T
    <3>1. T \in SUBSET Nat
      BY DEF T
    <3> QED  BY <2>1, <3>1, SetInduction
  <2> QED  BY <2>2
<1>10. BitsFrom(k, LadderTop + 1) = 0
  BY <1>1, <1>7, <1>8
<1>11. ASSUME NEW t \in 0 .. LadderTop
       PROVE  /\ BitsFrom(k, t + 1) \in Nat
              /\ BitsFrom(k, t) = 2 * BitsFrom(k, t + 1) + (IF k[t] THEN 1 ELSE 0)
  <2>1. PICK n \in Nat : n = LadderTop - t
    BY <1>1
  <2>2. LadderTop + 1 - (t + 1) = n /\ LadderTop + 1 - t = n + 1 /\ LadderTop + 1 - (n + 1) = t
    BY <1>1, <2>1
  <2>3. BitsFrom(k, t + 1) = v[n] /\ BitsFrom(k, t) = v[n + 1]
    BY <1>1, <1>7, <2>2
  <2>4. BitValue(k, n + 1) = IF k[t] THEN 1 ELSE 0
    BY <2>2 DEF BitValue
  <2> QED  BY <1>8, <1>9, <2>3, <2>4
<1> QED  BY <1>1, <1>10, <1>11

(***************************************************************************)
(* The multiples of a point.                                                *)
(***************************************************************************)
LEMMA MultiplesSpec ==
  ASSUME NEW b \in Coefficients, NEW Q \in Points(b)
  PROVE  /\ Multiples(b, Q)[0] = Infinity
         /\ \A n \in Nat : /\ Multiples(b, Q)[n] \in Points(b)
                           /\ Multiples(b, Q)[n + 1] = PointAdd(b, Q, Multiples(b, Q)[n])
<1> DEFINE g == [n \in Nat |-> [p \in Points(b) |-> PointAdd(b, Q, p)]]
           Sol(m) == m = [n \in Nat |-> IF n = 0 THEN Infinity ELSE PointAdd(b, Q, m[n - 1])]
<1>1. Infinity \in Points(b) /\ \A p \in Points(b) : PointAdd(b, Q, p) \in Points(b)
  BY Associative DEF Points
<1>2. g \in [Nat -> [Points(b) -> Points(b)]]
  BY <1>1
<1>3. PICK f \in [Nat -> Points(b)] : f[0] = Infinity /\ \A n \in Nat : f[n + 1] = g[n + 1][f[n]]
  <2> HIDE DEF g
  <2>1. \E f \in [Nat -> Points(b)] : Recursed(f, g, Infinity)
    BY <1>1, <1>2, Recursion
  <2> QED  BY <2>1 DEF Recursed
<1>4. ASSUME NEW n \in Nat PROVE f[n + 1] = PointAdd(b, Q, f[n])
  <2>1. n + 1 \in Nat /\ f[n] \in Points(b)
    BY <1>3
  <2> QED  BY <1>3, <2>1
<1>5. Sol(f)
  <2>1. ASSUME NEW n \in Nat
        PROVE  f[n] = IF n = 0 THEN Infinity ELSE PointAdd(b, Q, f[n - 1])
    <3>1. CASE n = 0
      BY <1>3, <3>1
    <3>2. CASE n # 0
      <4>1. PICK p \in Nat : p = n - 1 /\ n = p + 1
        BY <3>2
      <4> QED  BY <1>4, <3>2, <4>1
    <3> QED  BY <3>1, <3>2
  <2>2. f = [n \in Nat |-> f[n]]
    BY <1>3
  <2> QED  BY <2>1, <2>2
<1>6. PICK m : m = (CHOOSE h : Sol(h)) /\ Sol(m)
  BY <1>5
<1>7. Multiples(b, Q) = m
  BY <1>6 DEF Multiples
<1>8. m[0] = Infinity /\ \A n \in Nat : m[n + 1] = PointAdd(b, Q, m[n])
  <2>1. \A n \in Nat : m[n] = IF n = 0 THEN Infinity ELSE PointAdd(b, Q, m[n - 1])
    BY <1>6
  <2>2. m[0] = Infinity
    BY <2>1
  <2>3. ASSUME NEW n \in Nat PROVE m[n + 1] = PointAdd(b, Q, m[n])
    <3>1. PICK p \in Nat : p = n + 1 /\ p # 0 /\ p - 1 = n
      OBVIOUS
    <3>2. m[p] = PointAdd(b, Q, m[p - 1])
      BY <2>1, <3>1
    <3> QED  BY <3>1, <3>2
  <2> QED  BY <2>2, <2>3
<1> HIDE DEF Sol, g
<1>9. \A n \in Nat : m[n] \in Points(b)
  <2> DEFINE T == {n \in Nat : m[n] \in Points(b)}
  <2>1. 0 \in T /\ \A n \in T : n + 1 \in T
    BY <1>1, <1>8
  <2>2. T = Nat
    <3> HIDE DEF T
    <3>1. T \in SUBSET Nat
      BY DEF T
    <3> QED  BY <2>1, <3>1, SetInduction
  <2> QED  BY <2>2
<1> QED  BY <1>7, <1>8, <1>9

(* [n]Q + [k]Q is [n + k]Q. *)
LEMMA MultiplesAdd ==
  ASSUME NEW b \in Coefficients, NEW Q \in Points(b), NEW k \in Nat
  PROVE  \A n \in Nat :
           PointAdd(b, Multiples(b, Q)[n], Multiples(b, Q)[k]) = Multiples(b, Q)[n + k]
<1>1. PICK m : m = Multiples(b, Q)
  OBVIOUS
<1>2. /\ m[0] = Infinity
      /\ \A n \in Nat : m[n] \in Points(b) /\ m[n + 1] = PointAdd(b, Q, m[n])
  BY <1>1, MultiplesSpec
<1> DEFINE T == {n \in Nat : PointAdd(b, m[n], m[k]) = m[n + k]}
<1>3. 0 \in T
  <2>1. 0 + k = k /\ m[k] \in Points(b)
    BY <1>2
  <2> QED  BY <1>2, <2>1, AddInfinity
<1>4. ASSUME NEW n \in T PROVE n + 1 \in T
  <2>1. n \in Nat /\ PointAdd(b, m[n], m[k]) = m[n + k] /\ m[n] \in Points(b) /\ m[k] \in Points(b)
    BY <1>2
  <2>2. PointAdd(b, PointAdd(b, Q, m[n]), m[k]) = PointAdd(b, Q, PointAdd(b, m[n], m[k]))
    BY <2>1, Associative
  <2>3. (n + k) \in Nat /\ (n + k) + 1 = (n + 1) + k
    BY <2>1
  <2>4. m[(n + k) + 1] = PointAdd(b, Q, m[n + k])
    BY <1>2, <2>3
  <2>5. PointAdd(b, m[n + 1], m[k]) = m[(n + 1) + k]
    BY <1>2, <2>1, <2>2, <2>3, <2>4
  <2> QED  BY <2>1, <2>5
<1>5. T = Nat
  <2> HIDE DEF T
  <2>1. T \in SUBSET Nat
    BY DEF T
  <2> QED  BY <1>3, <1>4, <2>1, SetInduction
<1> QED  BY <1>1, <1>5

(* The point above u = 0 is its own negative. *)
LEMMA MultiplesOfZero ==
  ASSUME NEW b \in Coefficients, NEW Q \in Affine(b), Q[1] = 0
  PROVE  \A n \in Nat : XOf(Multiples(b, Q)[n]) = 0
<1>1. PICK m : m = Multiples(b, Q)
  OBVIOUS
<1>2. Q \in Points(b) /\ Infinity \in Points(b) /\ Q # Infinity
  BY AffineSpec DEF Points
<1>3. /\ m[0] = Infinity
      /\ \A n \in Nat : m[n + 1] = PointAdd(b, Q, m[n])
  BY <1>1, <1>2, MultiplesSpec
<1>4. PointAdd(b, Q, Q) = Infinity
  <2>1. /\ b \in Int /\ Cls(b) # Cls(0) /\ Q[2] \in Int
        /\ Cls(b * (Q[2] * Q[2])) = Cls(Cubic(0))
    BY AffineSpec, CoefficientSpec
  <2>2. PICK y \in Int : y = Q[2]
    BY <2>1
  <2>3. Cubic(0) = 0
    BY ClsConstants DEF Cubic
  <2>4. PICK s \in Int : s = y * y
    OBVIOUS
  <2>5. Cls(b * s) = Cls(0)
    BY <2>1, <2>2, <2>3, <2>4
  <2>6. Cls(s) = Cls(0)
    BY <2>1, <2>5, ZeroProduct
  <2>7. Cls(y) = Cls(0)
    BY <2>4, <2>6, ZeroSquare
  <2> QED  BY <2>2, <2>7, VerticalTangent
<1> DEFINE T == {n \in Nat : m[n] \in {Infinity, Q}}
<1>5. 0 \in T /\ \A n \in T : n + 1 \in T
  BY <1>2, <1>3, <1>4, AddInfinity
<1>6. T = Nat
  <2> HIDE DEF T
  <2>1. T \in SUBSET Nat
    BY DEF T
  <2> QED  BY <1>5, <2>1, SetInduction
<1> QED  BY <1>1, <1>2, <1>6 DEF XOf

(* The point above an x. *)
LEMMA LiftSpec ==
  ASSUME NEW x \in Canon
  PROVE  \E b \in Coefficients : \E Q \in Affine(b) :
           Q[1] = x /\ Multiple[x] = Multiples(b, Q)
<1>1. PICK b \in Coefficients, y \in Canon : Above(b, x, y)
  BY CurveAssumption
<1>2. PICK c : c = Lift[x]
  OBVIOUS
<1>3. c \in Coefficients \X Canon /\ Above(c[1], x, c[2])
  <2>1. <<b, y>> \in Coefficients \X Canon /\ <<b, y>>[1] = b /\ <<b, y>>[2] = y
    OBVIOUS
  <2>2. \E d \in Coefficients \X Canon : Above(d[1], x, d[2])
    BY <1>1, <2>1
  <2>3. c = CHOOSE d \in Coefficients \X Canon : Above(d[1], x, d[2])
    BY <1>2 DEF Lift
  <2> QED  BY <2>2, <2>3
<1>4. PICK Q : Q = <<x, c[2]>>
  OBVIOUS
<1>5. c[1] \in Coefficients /\ Q[1] = x /\ Q[2] = c[2] /\ Q \in Canon \X Canon
  BY <1>3, <1>4
<1>6. Q \in Affine(c[1])
  BY <1>3, <1>5 DEF Affine
<1>7. Multiple[x] = Multiples(c[1], Q)
  BY <1>2, <1>4 DEF Multiple
<1> QED  BY <1>5, <1>6, <1>7

(***************************************************************************)
(* (x : z) stands for q.  For u = 0, whose multiples all have the           *)
(* x-coordinate 0, only x = 0 or z = 0 is kept.                             *)
(***************************************************************************)
Stands(u, q, x, z) == IF u = 0 THEN x = 0 \/ z = 0 ELSE Rep(q, x, z)

(* The two pairs of coordinates stand for [m]Q and [m + 1]Q, exchanged      *)
(* while s is set.                                                          *)
Pair(u, m, s, x, z, v, w) ==
  IF s THEN Stands(u, Multiple[u][m], v, w) /\ Stands(u, Multiple[u][m + 1], x, z)
       ELSE Stands(u, Multiple[u][m], x, z) /\ Stands(u, Multiple[u][m + 1], v, w)

(* The multiples of the point above u that a step works on.                 *)
LEMMA StepMultiples ==
  ASSUME NEW u \in Canon, NEW m \in Nat
  PROVE  \E b \in Coefficients : \E Q \in Affine(b) :
           /\ XOf(Q) = u
           /\ Multiple[u][m] \in Points(b) /\ Multiple[u][m + 1] \in Points(b)
           /\ Multiple[u][m + 1] = PointAdd(b, Q, Multiple[u][m])
           /\ PointAdd(b, Multiple[u][m], Multiple[u][m]) = Multiple[u][2 * m]
           /\ PointAdd(b, Multiple[u][m], Multiple[u][m + 1]) = Multiple[u][2 * m + 1]
           /\ PointAdd(b, Multiple[u][m + 1], Multiple[u][m + 1]) = Multiple[u][2 * m + 2]
<1>1. PICK b \in Coefficients : \E Q \in Affine(b) : Q[1] = u /\ Multiple[u] = Multiples(b, Q)
  BY LiftSpec
<1>2. PICK Q \in Affine(b) : Q[1] = u /\ Multiple[u] = Multiples(b, Q)
  BY <1>1
<1>3. Q \in Points(b) /\ XOf(Q) = u
  BY <1>2, AffineSpec DEF Points, XOf
<1>4. PICK M : M = Multiple[u] /\ M = Multiples(b, Q)
  BY <1>2
<1>5. m + 1 \in Nat /\ m + m = 2 * m /\ m + (m + 1) = 2 * m + 1 /\ (m + 1) + (m + 1) = 2 * m + 2
  OBVIOUS
<1>6. M[m] \in Points(b) /\ M[m + 1] \in Points(b) /\ M[m + 1] = PointAdd(b, Q, M[m])
  BY <1>3, <1>4, <1>5, MultiplesSpec
<1>7. PointAdd(b, M[m], M[m]) = M[m + m]
  BY <1>3, <1>4, MultiplesAdd
<1>8. PointAdd(b, M[m], M[m + 1]) = M[m + (m + 1)]
  BY <1>3, <1>4, <1>5, MultiplesAdd
<1>9. PointAdd(b, M[m + 1], M[m + 1]) = M[(m + 1) + (m + 1)]
  BY <1>3, <1>4, <1>5, MultiplesAdd
<1> QED  BY <1>3, <1>4, <1>5, <1>6, <1>7, <1>8, <1>9

(***************************************************************************)
(* A ladder step takes [m]Q and [m + 1]Q to the multiples that one more bit *)
(* makes of m.                                                              *)
(***************************************************************************)
LEMMA StepPair ==
  ASSUME NEW u \in Canon, NEW x \in Canon, NEW z \in Canon, NEW v \in Canon, NEW w \in Canon,
         NEW Xd, NEW Zd, NEW Xs, NEW Zs, NEW m \in Nat, NEW s \in BOOLEAN,
         Stepped(u, x, z, v, w, Xd, Zd, Xs, Zs), Pair(u, m, s, x, z, v, w)
  PROVE  Pair(u, 2 * m + (IF s THEN 1 ELSE 0), s, Xd, Zd, Xs, Zs)
<1>0. u \in Int /\ x \in Int /\ z \in Int /\ v \in Int /\ w \in Int
  BY ClsCanon
<1>1. /\ Zd \in Canon /\ Zs \in Canon
      /\ Is(Xd, DoubleX(x, z)) /\ Is(Zd, DoubleZ(x, z))
      /\ Is(Xs, SumX(x, z, v, w)) /\ Is(Zs, SumZ(u, x, z, v, w))
  BY StepClasses
<1>2. CASE u = 0
  <2>1. (x = 0 \/ z = 0) /\ (v = 0 \/ w = 0)
    BY <1>2 DEF Pair, Stands
  <2>2. DoubleZ(x, z) = 0
    <3>1. x * z = 0
      BY <1>0, <2>1
    <3>2. PICK h \in Int : h = x * x + CurveA * (x * z) + z * z
      BY <1>0, ClsConstants
    <3> QED  BY <3>1, <3>2 DEF DoubleZ
  <2>3. SumZ(u, x, z, v, w) = 0
    <3>1. PICK h \in Int : h = 4 * ((v * z - x * w) * (v * z - x * w))
      BY <1>0
    <3> QED  BY <1>2, <3>1 DEF SumZ
  <2>4. Zd = 0 /\ Zs = 0
    BY <1>1, <2>2, <2>3, ClsCanon, ClsConstants DEF Is
  <2> QED  BY <1>2, <2>4 DEF Pair, Stands
<1>3. CASE u # 0
  <2>1. Cls(u) # Cls(0)
    BY <1>3, ClsCanon, ClsConstants
  <2>2. PICK b \in Coefficients :
          \E Q \in Affine(b) :
            /\ XOf(Q) = u
            /\ Multiple[u][m] \in Points(b) /\ Multiple[u][m + 1] \in Points(b)
            /\ Multiple[u][m + 1] = PointAdd(b, Q, Multiple[u][m])
            /\ PointAdd(b, Multiple[u][m], Multiple[u][m]) = Multiple[u][2 * m]
            /\ PointAdd(b, Multiple[u][m], Multiple[u][m + 1]) = Multiple[u][2 * m + 1]
            /\ PointAdd(b, Multiple[u][m + 1], Multiple[u][m + 1]) = Multiple[u][2 * m + 2]
    BY StepMultiples
  <2>3. PICK p \in Points(b), q \in Points(b) : p = Multiple[u][m] /\ q = Multiple[u][m + 1]
    BY <2>2
  <2>4. PICK Q \in Affine(b) :
          /\ XOf(Q) = u /\ q = PointAdd(b, Q, p)
          /\ PointAdd(b, p, p) = Multiple[u][2 * m]
          /\ PointAdd(b, p, q) = Multiple[u][2 * m + 1]
          /\ PointAdd(b, q, q) = Multiple[u][2 * m + 2]
    BY <2>2, <2>3
  <2>5. CASE ~s
    <3>1. Rep(p, x, z) /\ Rep(q, v, w)
      BY <1>3, <2>3, <2>5 DEF Pair, Stands
    <3>2. Rep(PointAdd(b, p, p), Xd, Zd)
      BY <1>0, <1>1, <3>1, DoublePoint
    <3>3. Rep(PointAdd(b, p, q), Xs, Zs)
      BY <1>0, <1>1, <2>1, <2>4, <3>1, AddPoints
    <3>4. 2 * m + (IF s THEN 1 ELSE 0) = 2 * m
      BY <2>5
    <3> QED  BY <1>3, <2>4, <2>5, <3>2, <3>3, <3>4 DEF Pair, Stands
  <2>6. CASE s
    <3>1. Rep(p, v, w) /\ Rep(q, x, z)
      BY <1>3, <2>3, <2>6 DEF Pair, Stands
    <3>2. Rep(PointAdd(b, q, q), Xd, Zd)
      BY <1>0, <1>1, <3>1, DoublePoint
    <3>3. Is(Xs, SumX(v, w, x, z)) /\ Is(Zs, SumZ(u, v, w, x, z))
      BY <1>0, <1>1, SumSymmetric
    <3>4. Rep(PointAdd(b, p, q), Xs, Zs)
      BY <1>0, <2>1, <2>4, <3>1, <3>3, AddPoints
    <3>5. 2 * m + (IF s THEN 1 ELSE 0) = 2 * m + 1 /\ (2 * m + 1) + 1 = 2 * m + 2
      BY <2>6
    <3> QED  BY <1>3, <2>4, <2>6, <3>2, <3>4, <3>5 DEF Pair, Stands
  <2> QED  BY <2>5, <2>6
<1> QED  BY <1>2, <1>3

(* The ladder starts with [0]Q and [1]Q. *)
LEMMA StartPair ==
  ASSUME NEW u \in Canon
  PROVE  Pair(u, 0, FALSE, 1, 0, u, 1)
<1>1. PICK b \in Coefficients : \E Q \in Affine(b) : Q[1] = u /\ Multiple[u] = Multiples(b, Q)
  BY LiftSpec
<1>2. PICK Q \in Affine(b) : Q[1] = u /\ Multiple[u] = Multiples(b, Q)
  BY <1>1
<1>3. Q \in Points(b) /\ Q # Infinity /\ u \in Int
  BY <1>2, AffineSpec DEF Points
<1>4. Multiple[u][0] = Infinity /\ Multiple[u][0 + 1] = PointAdd(b, Q, Infinity)
  BY <1>2, <1>3, MultiplesSpec
<1>5. Multiple[u][0 + 1] = Q
  BY <1>3, <1>4, AddInfinity
<1>6. Cls(1) # Cls(0) /\ u * 1 = u
  BY <1>3, ClsConstants
<1> QED  BY <1>2, <1>3, <1>4, <1>5, <1>6 DEF Pair, Stands, Rep

(* Dividing the coordinates gives the x-coordinate. *)
LEMMA StandsMeans ==
  ASSUME NEW u \in Canon, NEW m \in Nat, NEW x \in Canon, NEW z \in Canon,
         Stands(u, Multiple[u][m], x, z)
  PROVE  /\ FDiv(x, z) = XOf(Multiple[u][m])
         /\ u # 0 => /\ z = 0 <=> Multiple[u][m] = Infinity
                     /\ z = 0 => x # 0
<1>1. PICK b \in Coefficients : \E Q \in Affine(b) : Q[1] = u /\ Multiple[u] = Multiples(b, Q)
  BY LiftSpec
<1>2. PICK Q \in Affine(b) : Q[1] = u /\ Multiple[u] = Multiples(b, Q)
  BY <1>1
<1>3. PICK p \in Points(b) : p = Multiple[u][m]
  <2>1. Q \in Points(b)
    BY DEF Points
  <2> QED  BY <1>2, <2>1, MultiplesSpec
<1>4. x \in Int /\ z \in Int
  BY ClsCanon
<1>5. PICK d \in Canon : d = FDiv(x, z) /\ (z # 0 => Cls(d * z) = Cls(x)) /\ (z = 0 => d = 0)
  BY FDivSpec
<1>6. d \in Int
  BY ClsCanon
<1>7. CASE u = 0
  <2>1. XOf(p) = 0
    BY <1>2, <1>3, <1>7, MultiplesOfZero
  <2>2. d = 0
    <3>1. CASE z = 0
      BY <1>5, <3>1
    <3>2. CASE z # 0
      <4>1. x = 0 /\ Cls(d * z) = Cls(0) /\ Cls(z) # Cls(0)
        BY <1>5, <1>7, <3>2, ClsCanon, ClsConstants DEF Stands
      <4>2. z * d = d * z
        BY <1>4, <1>6
      <4>3. Cls(z * d) = Cls(0)
        BY <4>1, <4>2
      <4>4. Cls(d) = Cls(0)
        BY <1>4, <1>6, <4>1, <4>3, ZeroProduct
      <4> QED  BY <1>5, <4>4, ClsCanon, ClsConstants
    <3> QED  BY <3>1, <3>2
  <2> QED  BY <1>3, <1>5, <1>7, <2>1, <2>2
<1>8. CASE u # 0
  <2>1. Rep(p, x, z)
    BY <1>3, <1>8 DEF Stands
  <2>2. CASE p = Infinity
    <3>1. z = 0 /\ x # 0
      BY <2>1, <2>2, ClsCanon, ClsConstants DEF Rep
    <3> QED  BY <1>3, <1>5, <2>2, <3>1 DEF XOf
  <2>3. CASE p # Infinity
    <3>1. p \in Affine(b)
      BY <2>3 DEF Points
    <3>2. PICK a \in Canon : a = p[1] /\ a \in Int
      BY <3>1, AffineSpec
    <3>3. Cls(z) # Cls(0) /\ Cls(a * z) = Cls(x)
      BY <2>1, <2>3, <3>2 DEF Rep
    <3>4. z # 0
      BY <3>3
    <3>5. Cls(z * d) = Cls(z * a)
      <4>1. z * d = d * z /\ z * a = a * z
        BY <1>4, <1>6, <3>2
      <4> QED  BY <1>5, <3>3, <3>4, <4>1
    <3>6. Cls(d) = Cls(a)
      <4>1. d \in Int /\ a \in Int /\ z \in Int /\ Cls(z) # Cls(0)
        BY <1>4, <1>6, <3>2, <3>3
      <4> QED  BY <3>5, <4>1, Cancel
    <3>7. d = a
      BY <3>6, ClsCanon
    <3> QED  BY <1>3, <1>5, <2>3, <3>2, <3>4, <3>7 DEF XOf
  <2> QED  BY <2>2, <2>3
<1> QED  BY <1>7, <1>8

(***************************************************************************)
(* The ladder's invariant, over the mapped state.  IdealT is the bit the    *)
(* loop is at; before its iteration the coordinates stand for the multiples *)
(* that the bits above it spell, after it the bit is in.                    *)
(***************************************************************************)
Stand(m) == Pair(Residue("x1"), m, prevBit, IdealX2, IdealZ2, IdealX3, IdealZ3)

LadderTypes ==
  /\ IdealK \in [0 .. LadderTop -> BOOLEAN] /\ IdealU \in Canon
  /\ Residue("x1") \in Canon
  /\ IdealX2 \in Canon /\ IdealZ2 \in Canon /\ IdealX3 \in Canon /\ IdealZ3 \in Canon
  /\ prevBit \in BOOLEAN /\ IdealT \in 0 .. LadderTop

LadderInv ==
  /\ LadderTypes
  /\ IdealPhase \in {"swap", "step", "next", "final", "divide"} => Residue("x1") = IdealU
  /\ IdealPhase = "swap" => Stand(BitsFrom(IdealK, IdealT + 1))
  /\ IdealPhase = "step" => /\ Stand(BitsFrom(IdealK, IdealT + 1))
                            /\ prevBit = IdealK[IdealT]
  /\ IdealPhase = "next" => Stand(BitsFrom(IdealK, IdealT))
  /\ IdealPhase = "final" => Stand(BitsFrom(IdealK, 0))
  /\ IdealPhase = "divide" =>
       Stands(Residue("x1"), Multiple[Residue("x1")][BitsFrom(IdealK, 0)], IdealX2, IdealZ2)
  /\ IdealPhase = "done" => IdealOut = XOf(Multiple[IdealU][BitsFrom(IdealK, 0)])

(* The initial states of the ladder. *)
LEMMA LadderInit == Ideal!AbsInit => LadderInv
  BY IdealField DEF Ideal!AbsInit, Ideal!AbsScalar, LadderInv, LadderTypes

(* The caller's inputs, and the return, leave nothing to show. *)
LEMMA InputsInv ==
  ASSUME LadderInv, Ideal!SetInputs
  PROVE  LadderInv'
<1>1. /\ IdealPhase = "idle" /\ IdealPhase' = "idle"
      /\ IdealK' \in [0 .. LadderTop -> BOOLEAN] /\ IdealU' \in Canon
      /\ UNCHANGED <<Residue("x1"), IdealX2, IdealZ2, IdealX3, IdealZ3, prevBit, IdealT, IdealOut>>
  BY IdealField DEF Ideal!SetInputs, Ideal!AbsScalar
<1>2. LadderTypes'
  BY <1>1 DEF LadderInv, LadderTypes, LadderTop
<1> QED  BY <1>1, <1>2 DEF LadderInv

(* A call starts with [0]Q and [1]Q, no bit read. *)
LEMMA StartInv ==
  ASSUME LadderInv, Ideal!Start
  PROVE  LadderInv'
<1>1. /\ IdealPhase' = "swap" /\ Residue("x1")' = IdealU
      /\ IdealX2' = 1 /\ IdealZ2' = 0 /\ IdealX3' = IdealU /\ IdealZ3' = 1
      /\ prevBit' = FALSE /\ IdealT' = LadderTop
      /\ UNCHANGED <<IdealK, IdealU>>
  BY DEF Ideal!Start
<1>2. /\ LadderTop \in 0 .. LadderTop /\ LadderTop' = LadderTop
      /\ BitsFrom(IdealK, LadderTop + 1) = 0
  BY BitsSpec DEF LadderTop
<1>3. LadderTypes'
  BY <1>1, <1>2, SmallConstants DEF LadderInv, LadderTypes
<1>4. Stand(BitsFrom(IdealK, IdealT + 1))'
  <2>1. Pair(IdealU, 0, FALSE, 1, 0, IdealU, 1)
    BY StartPair DEF LadderInv, LadderTypes
  <2>2. BitsFrom(IdealK, IdealT + 1)' = 0
    BY <1>1, <1>2
  <2> QED  BY <1>1, <2>1, <2>2 DEF Stand
<1> QED  BY <1>1, <1>3, <1>4 DEF LadderInv

(* The conditional swap exchanges the pairs exactly when the roles change. *)
LEMMA SwapInv ==
  ASSUME LadderInv, Ideal!CSwap
  PROVE  LadderInv'
<1>1. /\ IdealPhase = "swap" /\ IdealPhase' = "step"
      /\ IF IdealK[IdealT] # prevBit
           THEN IdealX2' = IdealX3 /\ IdealX3' = IdealX2 /\ IdealZ2' = IdealZ3 /\ IdealZ3' = IdealZ2
           ELSE UNCHANGED <<IdealX2, IdealX3, IdealZ2, IdealZ3>>
      /\ prevBit' = IdealK[IdealT]
      /\ UNCHANGED <<IdealK, IdealU, Residue("x1"), IdealT>>
  BY DEF Ideal!CSwap
<1>2. IdealK[IdealT] \in BOOLEAN
  BY DEF LadderInv, LadderTypes
<1>3. LadderTypes'
  BY <1>1, <1>2 DEF LadderInv, LadderTypes, LadderTop
<1>4. Stand(BitsFrom(IdealK, IdealT + 1))'
  <2>1. BitsFrom(IdealK, IdealT + 1)' = BitsFrom(IdealK, IdealT + 1)
    BY <1>1
  <2>2. PICK u, m : u = Residue("x1") /\ m = BitsFrom(IdealK, IdealT + 1)
    OBVIOUS
  <2>3. PICK x, z, v, w, s : x = IdealX2 /\ z = IdealZ2 /\ v = IdealX3 /\ w = IdealZ3 /\ s = prevBit
    OBVIOUS
  <2>4. Pair(u, m, s, x, z, v, w) /\ s \in BOOLEAN
    BY <1>1, <2>2, <2>3 DEF LadderInv, LadderTypes, Stand
  <2>5. CASE IdealK[IdealT] # s
    <3>1. Pair(u, m, IdealK[IdealT], v, w, x, z)
      BY <1>2, <2>4, <2>5 DEF Pair
    <3> QED  BY <1>1, <2>1, <2>2, <2>3, <2>5, <3>1 DEF Stand
  <2>6. CASE IdealK[IdealT] = s
    BY <1>1, <2>1, <2>2, <2>3, <2>4, <2>6 DEF Stand
  <2> QED  BY <2>5, <2>6
<1> QED  BY <1>1, <1>3, <1>4 DEF LadderInv

(* The step doubles m and adds the bit. *)
LEMMA StepInv ==
  ASSUME LadderInv, Ideal!LadderStep
  PROVE  LadderInv'
<1>1. /\ IdealPhase = "step" /\ IdealPhase' = "next"
      /\ UNCHANGED <<IdealK, IdealU, Residue("x1"), prevBit, IdealT>>
  BY DEF Ideal!LadderStep
<1>2. Stepped(Residue("x1"), IdealX2, IdealZ2, IdealX3, IdealZ3, IdealX2', IdealZ2', IdealX3', IdealZ3')
  BY IdealField DEF Ideal!LadderStep, Stepped
<1>3. PICK u \in Canon, x \in Canon, z \in Canon, v \in Canon, w \in Canon :
        u = Residue("x1") /\ x = IdealX2 /\ z = IdealZ2 /\ v = IdealX3 /\ w = IdealZ3
  BY DEF LadderInv, LadderTypes
<1>4. PICK xx, zz, vv, ww : xx = IdealX2' /\ zz = IdealZ2' /\ vv = IdealX3' /\ ww = IdealZ3'
  OBVIOUS
<1>5. Stepped(u, x, z, v, w, xx, zz, vv, ww)
  BY <1>2, <1>3, <1>4
<1>6. xx \in Canon /\ zz \in Canon /\ vv \in Canon /\ ww \in Canon
  BY <1>5, StepClasses
<1>7. LadderTypes'
  BY <1>1, <1>4, <1>6 DEF LadderInv, LadderTypes, LadderTop
<1>8. Stand(BitsFrom(IdealK, IdealT))'
  <2>1. PICK m \in Nat : m = BitsFrom(IdealK, IdealT + 1)
    BY BitsSpec DEF LadderInv, LadderTypes
  <2>2. PICK s \in BOOLEAN : s = prevBit
    BY DEF LadderInv, LadderTypes
  <2>3. BitsFrom(IdealK, IdealT)' = 2 * m + (IF s THEN 1 ELSE 0)
    BY <1>1, <2>1, <2>2, BitsSpec DEF LadderInv, LadderTypes
  <2>4. Pair(u, m, s, x, z, v, w)
    BY <1>1, <1>3, <2>1, <2>2 DEF LadderInv, Stand
  <2>5. Pair(u, 2 * m + (IF s THEN 1 ELSE 0), s, xx, zz, vv, ww)
    BY <1>5, <2>4, StepPair
  <2> QED  BY <1>1, <1>3, <1>4, <2>2, <2>3, <2>5 DEF Stand
<1> QED  BY <1>1, <1>7, <1>8 DEF LadderInv

(* The cursor moves on; after bit 0 the loop is left. *)
LEMMA NextBitInv ==
  ASSUME LadderInv, Ideal!NextBit
  PROVE  LadderInv'
<1>1. /\ IdealPhase = "next"
      /\ IF IdealT > 0 THEN IdealPhase' = "swap" /\ IdealT' = IdealT - 1
                       ELSE IdealPhase' = "final" /\ IdealT' = 0
      /\ UNCHANGED <<IdealK, IdealU, Residue("x1"), IdealX2, IdealZ2, IdealX3, IdealZ3, prevBit>>
  BY DEF Ideal!NextBit
<1>2. IdealT \in 0 .. LadderTop /\ LadderTop \in Nat /\ LadderTop' = LadderTop
  BY BitsSpec DEF LadderInv, LadderTypes, LadderTop
<1>3. LadderTypes'
  <2>1. IdealT' \in 0 .. LadderTop
    BY <1>1, <1>2
  <2> QED  BY <1>1, <1>2, <2>1 DEF LadderInv, LadderTypes
<1>4. PICK m : m = BitsFrom(IdealK, IdealT) /\ Stand(m) /\ Stand(m)'
  BY <1>1 DEF LadderInv, Stand
<1>5. CASE IdealT > 0
  <2>1. IdealT' + 1 = IdealT
    BY <1>1, <1>2, <1>5
  <2>2. BitsFrom(IdealK, IdealT + 1)' = m
    BY <1>1, <1>4, <2>1
  <2> QED  BY <1>1, <1>3, <1>4, <1>5, <2>2 DEF LadderInv, Stand
<1>6. CASE ~(IdealT > 0)
  <2>1. IdealT = 0
    BY <1>2, <1>6
  <2>2. BitsFrom(IdealK, 0)' = m
    BY <1>1, <1>4, <2>1
  <2> QED  BY <1>1, <1>3, <1>4, <1>6, <2>2 DEF LadderInv, Stand
<1> QED  BY <1>5, <1>6

(* The last swap puts [k]Q into (x_2 : z_2). *)
LEMMA FinalSwapInv ==
  ASSUME LadderInv, Ideal!FinalSwap
  PROVE  LadderInv'
<1>1. /\ IdealPhase = "final" /\ IdealPhase' = "divide"
      /\ IF prevBit
           THEN IdealX2' = IdealX3 /\ IdealX3' = IdealX2 /\ IdealZ2' = IdealZ3 /\ IdealZ3' = IdealZ2
           ELSE UNCHANGED <<IdealX2, IdealX3, IdealZ2, IdealZ3>>
      /\ UNCHANGED <<IdealK, IdealU, Residue("x1"), prevBit, IdealT>>
  BY DEF Ideal!FinalSwap
<1>2. LadderTypes'
  BY <1>1 DEF LadderInv, LadderTypes, LadderTop
<1>3. Stands(Residue("x1"), Multiple[Residue("x1")][BitsFrom(IdealK, 0)], IdealX2, IdealZ2)'
  BY <1>1 DEF LadderInv, Stand, Pair
<1> QED  BY <1>1, <1>2, <1>3 DEF LadderInv

(* The division gives the x-coordinate of [k]Q. *)
LEMMA DivideInv ==
  ASSUME LadderInv, Ideal!Divide
  PROVE  LadderInv'
<1>1. /\ IdealPhase = "divide" /\ IdealPhase' = "done"
      /\ IdealOut' = FMul(IdealX2, FInv(IdealZ2))
      /\ UNCHANGED <<IdealK, IdealU, Residue("x1"), IdealX2, IdealZ2, IdealX3, IdealZ3, prevBit, IdealT>>
  BY IdealField DEF Ideal!Divide
<1>2. LadderTypes'
  BY <1>1 DEF LadderInv, LadderTypes, LadderTop
<1>3. IdealOut' = XOf(Multiple[IdealU][BitsFrom(IdealK, 0)])
  <2>1. PICK m \in Nat : m = BitsFrom(IdealK, 0)
    <3>1. 0 \in 0 .. LadderTop
      BY BitsSpec
    <3>2. PICK h \in Nat : BitsFrom(IdealK, 0) = 2 * h + (IF IdealK[0] THEN 1 ELSE 0)
      BY <3>1, BitsSpec
    <3> QED  BY <3>2
  <2>2. PICK u \in Canon, x \in Canon, z \in Canon : u = Residue("x1") /\ x = IdealX2 /\ z = IdealZ2
    BY DEF LadderInv, LadderTypes
  <2>3. Stands(u, Multiple[u][m], x, z) /\ u = IdealU
    BY <1>1, <2>1, <2>2 DEF LadderInv
  <2>4. FDiv(x, z) = XOf(Multiple[u][m])
    BY <2>3, StandsMeans
  <2>5. FMul(x, FInv(z)) = FDiv(x, z)
    BY DEF FDiv, Inverses
  <2> QED  BY <1>1, <2>1, <2>2, <2>3, <2>4, <2>5
<1> QED  BY <1>1, <1>2, <1>3 DEF LadderInv

(* The caller takes the result. *)
LEMMA ReturnInv ==
  ASSUME LadderInv, Ideal!Return
  PROVE  LadderInv'
<1>1. /\ IdealPhase' = "idle"
      /\ UNCHANGED <<IdealK, IdealU, Residue("x1"), IdealX2, IdealZ2, IdealX3, IdealZ3, prevBit, IdealT>>
  BY DEF Ideal!Return
<1>2. LadderTypes'
  BY <1>1 DEF LadderInv, LadderTypes, LadderTop
<1> QED  BY <1>1, <1>2 DEF LadderInv

(* A step of the code that is none of the ladder. *)
LEMMA StutterInv ==
  ASSUME LadderInv, UNCHANGED Ideal!absVars
  PROVE  LadderInv'
<1>1. UNCHANGED <<IdealPhase, IdealK, IdealU, Residue("x1"), IdealX2, IdealZ2, IdealX3, IdealZ3,
                  prevBit, IdealT, IdealOut>>
  BY DEF Ideal!absVars
<1>2. LadderTypes'
  BY <1>1 DEF LadderInv, LadderTypes, LadderTop
<1> QED  BY <1>1, <1>2 DEF LadderInv, Stand

(* The invariant holds of the ladder, and so of the code that implements it. *)
LEMMA LadderInvariance == Spec => []LadderInv
<1>1. LadderInv /\ [Ideal!AbsNext]_(Ideal!absVars) => LadderInv'
  BY InputsInv, StartInv, SwapInv, StepInv, NextBitInv, FinalSwapInv, DivideInv, ReturnInv,
     StutterInv DEF Ideal!AbsNext
<1>2. Ideal!AbsSpec => []LadderInv
  BY <1>1, LadderInit, PTL DEF Ideal!AbsSpec
<1> QED  BY <1>2, Implementation, PTL DEF ImplementsLadder

(* Dividing the coordinates that stand for a multiple. *)
LEMMA StandsRepresents ==
  ASSUME LadderTypes, NEW m \in Nat, NEW x \in Canon, NEW z \in Canon,
         Stands(Residue("x1"), Multiple[Residue("x1")][m], x, z)
  PROVE  Represents(x, z, Multiple[Residue("x1")][m])
<1>1. PICK u \in Canon : u = Residue("x1")
  BY DEF LadderTypes
<1>2. Stands(u, Multiple[u][m], x, z)
  BY <1>1
<1> QED  BY <1>1, <1>2, StandsMeans DEF Represents

(* At @bit_loop the mapped coordinates are the buffers' residues. *)
LEMMA LoopStanding ==
  ASSUME LadderInv, RInv
  PROVE  LoopInvariant
<1> SUFFICES ASSUME pc = "swap"
             PROVE  LoopInvariant
  BY DEF LoopInvariant
<1>1. IdealPhase = "swap" /\ ~Committed
  BY DEF IdealPhase, Committed
<1>2. /\ IdealX2 = Residue("x2") /\ IdealZ2 = Residue("z2")
      /\ IdealX3 = Residue("x3") /\ IdealZ3 = Residue("z3")
  BY <1>1, Uncommitted
<1>3. IdealT = W * byteIdx + bitPos /\ IdealT \in 0 .. LadderTop
  BY CursorBit DEF RInv
<1>4. PICK m \in Nat : m = BitsFrom(IdealK, IdealT + 1)
  BY <1>3, BitsSpec
<1>5. Stand(m) /\ LadderTypes
  BY <1>1, <1>4 DEF LadderInv
<1>6. m + 1 \in Nat
  OBVIOUS
<1>7. PICK x \in Canon, z \in Canon, v \in Canon, w \in Canon :
        x = Residue("x2") /\ z = Residue("z2") /\ v = Residue("x3") /\ w = Residue("z3")
  BY <1>2, <1>5 DEF LadderTypes
<1>8. PICK M : M = Multiple[Residue("x1")]
  OBVIOUS
<1>9. CASE prevBit
  <2>1. Stands(Residue("x1"), M[m], v, w) /\ Stands(Residue("x1"), M[m + 1], x, z)
    BY <1>2, <1>5, <1>7, <1>8, <1>9 DEF Stand, Pair
  <2>2. Represents(v, w, M[m]) /\ Represents(x, z, M[m + 1])
    BY <1>5, <1>6, <1>8, <2>1, StandsRepresents
  <2> QED  BY <1>3, <1>4, <1>7, <1>8, <1>9, <2>2 DEF LoopInvariant
<1>10. CASE ~prevBit
  <2>1. Stands(Residue("x1"), M[m], x, z) /\ Stands(Residue("x1"), M[m + 1], v, w)
    BY <1>2, <1>5, <1>7, <1>8, <1>10 DEF Stand, Pair
  <2>2. Represents(x, z, M[m]) /\ Represents(v, w, M[m + 1])
    BY <1>5, <1>6, <1>8, <2>1, StandsRepresents
  <2> QED  BY <1>3, <1>4, <1>7, <1>8, <1>10, <2>2 DEF LoopInvariant
<1> QED  BY <1>9, <1>10

(***************************************************************************)
(* The loop invariant of x25519_scalarmult: at every @bit_loop, for every   *)
(* input, (x_2 : z_2) and (x_3 : z_3) are [m]Q and [m + 1]Q, in the order   *)
(* x25_prev_bit says, m being the bits read so far.                         *)
(***************************************************************************)
THEOREM LadderInvariant == Spec => []LoopInvariant
<1>1. LadderInv /\ RInv => LoopInvariant
  BY LoopStanding
<1> QED  BY <1>1, LadderInvariance, RInvariance, PTL

(***************************************************************************)
(* x25519_scalarmult computes X25519: for every scalar and every 32-byte    *)
(* u, x25_result is the x-coordinate of the scalar times the point above    *)
(* u, in canonical form.                                                    *)
(***************************************************************************)
THEOREM ScalarMultCorrect == Spec => []ResultCorrect
<1>1. LadderInv => ResultCorrect
  <2> SUFFICES ASSUME LadderInv, pc = "done"
               PROVE  ResultCorrect
    BY DEF ResultCorrect
  <2>1. IdealPhase = "done" /\ IdealOut = reg["result"]
    BY DEF IdealPhase, IdealOut
  <2> QED  BY <2>1 DEF LadderInv, ResultCorrect, IdealU
<1> QED  BY <1>1, LadderInvariance, PTL

===============================================================================
