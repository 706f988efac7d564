-------------------------------- MODULE X25519 --------------------------------
(***************************************************************************)
(* The public entry points of src/src/x25519.s: x25519_clamp, x25519_base   *)
(* and x25519_scalarmult with its x25519_ladder_step, one action for each   *)
(* field operation the code calls, over the library's own buffers.          *)
(*                                                                          *)
(* A buffer holds a 32-byte value (FieldOps!Word).  Products are left       *)
(* unreduced wherever the code leaves out fe25519_reduce_final (the         *)
(* "pairwise pruning" of the ladder), so that what the operands of each     *)
(* fe25519_add and fe25519_sub need is a property to check and not a        *)
(* feature of the model.                                                    *)
(*                                                                          *)
(* A scalar byte is the set of its bits.  x25_bit_mask, which has one bit   *)
(* set, is represented by that bit's number.                                *)
(***************************************************************************)
EXTENDS FieldOps

CONSTANTS
  NB,          \* bytes of a scalar                                      (32)
  W,           \* bits of a byte                                         (8)
  Cofactor,    \* low bits that clamping clears                          (3)
  BasePoint,   \* the u-coordinate of the base point                     (9)
  InputU,      \* the values callers put into x25_u
  InputScalar, \* the values callers put into x25_scalar
  Leftover     \* what the working buffers may hold before the first call

ByteBits == SUBSET (0 .. W - 1)
Scalar == [0 .. NB - 1 -> ByteBits]

ASSUME GeometryAssumption ==
  /\ NB \in Nat \ {0} /\ W \in Nat /\ W >= 2 /\ Cofactor \in 0 .. W - 2

ASSUME InputAssumption ==
  /\ BasePoint \in Word
  /\ InputU \subseteq Word /\ InputScalar \subseteq Scalar /\ Leftover \subseteq Word

VARIABLES
  pc,          \* where the call is
  op,          \* within the ladder step: the number of the next operation
  reg,         \* the field buffers
  scalar,      \* x25_scalar
  prevBit,     \* x25_prev_bit, TRUE for the mask $FF
  byteIdx,     \* x25_byte_idx
  bitPos       \* the bit x25_bit_mask selects

vars == <<pc, op, reg, scalar, prevBit, byteIdx, bitPos>>

Temps == {"a", "b", "da", "cb", "tmp1", "tmp2", "tmp3"}

Regs == Temps \cup {"u", "x1", "x2", "z2", "x3", "z3", "e", "tmp4", "result"}

Init ==
  /\ pc = "idle" /\ op = 1
  /\ \E u \in InputU, v \in Leftover : reg = [r \in Regs |-> IF r = "u" THEN u ELSE v]
  /\ scalar \in InputScalar
  /\ prevBit \in BOOLEAN
  /\ byteIdx = NB - 1 /\ bitPos = W - 2

(***************************************************************************)
(* Entry points.                                                            *)
(***************************************************************************)

(* x25519_clamp: clear the low bits and the top bit, set the one below it.  *)
Clamped(s) ==
  LET low == [s EXCEPT ![0] = @ \ (0 .. Cofactor - 1)]
  IN  [low EXCEPT ![NB - 1] = (@ \ {W - 1}) \cup {W - 2}]

Clamp ==
  /\ pc = "idle"
  /\ scalar' = Clamped(scalar)
  /\ UNCHANGED <<pc, op, reg, prevBit, byteIdx, bitPos>>

(* x25519_base: the base point into x25_u, clamp, then x25519_scalarmult. *)
Base ==
  /\ pc = "idle"
  /\ reg' = [reg EXCEPT !["u"] = BasePoint]
  /\ scalar' = Clamped(scalar)
  /\ pc' = "setup"
  /\ UNCHANGED <<op, prevBit, byteIdx, bitPos>>

ScalarMult ==
  /\ pc = "idle"
  /\ pc' = "setup"
  /\ UNCHANGED <<op, reg, scalar, prevBit, byteIdx, bitPos>>

(***************************************************************************)
(* x25519_scalarmult up to @bit_loop.  The top bit of u is masked on the    *)
(* working copy; x_1 is a copy of that; x25_u keeps what the caller wrote.  *)
(***************************************************************************)
Decoded(v) == v % Half

(* Faulty: only x_1 is masked; x_3 starts from the caller's x25_u. *)
LoadUnmasked(r) ==
  [r EXCEPT !["x2"] = 1, !["z2"] = 0, !["x3"] = r["u"], !["x1"] = Decoded(r["u"]),
            !["z3"] = 1]

LoadWorking(r) ==
  [r EXCEPT !["x2"] = 1, !["z2"] = 0,
            !["x3"] = Decoded(r["u"]), !["x1"] = Decoded(r["u"]),
            !["z3"] = 1]

Setup ==
  /\ pc = "setup"
  /\ reg' = LoadWorking(reg)
  /\ prevBit' = FALSE
  /\ byteIdx' = NB - 1
  /\ bitPos' = W - 2
  /\ pc' = "swap"
  /\ UNCHANGED <<op, scalar>>

(* @bit_loop: the swap mask is k_t XOR prev_bit; prev_bit becomes k_t. *)
CSwapRegs(r, mask) ==
  IF mask
    THEN [r EXCEPT !["x2"] = r["x3"], !["x3"] = r["x2"],
                   !["z2"] = r["z3"], !["z3"] = r["z2"]]
    ELSE r

ScalarBit == bitPos \in scalar[byteIdx]

(* Faulty: the swap mask is k_t alone. *)
SwapByBit ==
  /\ pc = "swap"
  /\ reg' = CSwapRegs(reg, ScalarBit)
  /\ prevBit' = ScalarBit
  /\ pc' = "step" /\ op' = 1
  /\ UNCHANGED <<scalar, byteIdx, bitPos>>

Swap ==
  /\ pc = "swap"
  /\ reg' = CSwapRegs(reg, ScalarBit # prevBit)
  /\ prevBit' = ScalarBit
  /\ pc' = "step"
  /\ op' = 1
  /\ UNCHANGED <<scalar, byteIdx, bitPos>>

(***************************************************************************)
(* x25519_ladder_step: the n-th operation writes v to buffer d.             *)
(***************************************************************************)
Operation(n, d, v) ==
  /\ pc = "step" /\ op = n
  /\ reg' = [reg EXCEPT ![d] = v]
  /\ op' = n + 1
  /\ UNCHANGED <<pc, scalar, prevBit, byteIdx, bitPos>>

StepA     == Operation(1, "a", Add(reg["x2"], reg["z2"]))
StepB     == Operation(2, "b", Sub(reg["x2"], reg["z2"]))
StepAA    == Operation(3, "tmp3", Sqr(reg["a"]))
StepBB    == Operation(4, "tmp4", ReduceFinal(Sqr(reg["b"])))
StepE     == Operation(5, "e", Sub(reg["tmp3"], reg["tmp4"]))
StepC     == Operation(6, "tmp1", Add(reg["x3"], reg["z3"]))
StepD     == Operation(7, "tmp2", Sub(reg["x3"], reg["z3"]))
StepDA    == Operation(8, "da", Mul(reg["tmp2"], reg["a"]))
StepCB    == Operation(9, "cb", ReduceFinal(Mul(reg["tmp1"], reg["b"])))
StepSum   == Operation(10, "x3", Add(reg["da"], reg["cb"]))
StepX3    == Operation(11, "x3", Sqr(reg["x3"]))
StepDiff  == Operation(12, "z3", Sub(reg["da"], reg["cb"]))
StepDiff2 == Operation(13, "z3", Sqr(reg["z3"]))
(* Faulty: z_3 needs no fe25519_reduce_final, the next product takes any value. *)
StepZ3Lazy == Operation(14, "z3", Mul(reg["x1"], reg["z3"]))

StepZ3    == Operation(14, "z3", ReduceFinal(Mul(reg["x1"], reg["z3"])))
StepX2    == Operation(15, "x2", Mul(reg["tmp3"], reg["tmp4"]))
StepA24E  == Operation(16, "tmp1", MulA24(reg["e"]))
StepAA24E == Operation(17, "tmp1", Add(reg["tmp3"], reg["tmp1"]))
StepZ2    == Operation(18, "z2", ReduceFinal(Mul(reg["e"], reg["tmp1"])))

LadderStep ==
  \/ StepA \/ StepB \/ StepAA \/ StepBB \/ StepE \/ StepC \/ StepD
  \/ StepDA \/ StepCB \/ StepSum \/ StepX3 \/ StepDiff \/ StepDiff2
  \/ StepZ3 \/ StepX2 \/ StepA24E \/ StepAA24E \/ StepZ2

(* Faulty: the sign of x25_byte_idx is tested before it is decremented. *)
NextBitLate ==
  /\ pc = "step" /\ op = 19
  /\ bitPos' = (bitPos - 1) % W
  /\ byteIdx' = IF bitPos > 0 THEN byteIdx ELSE byteIdx - 1
  /\ pc' = IF bitPos > 0 \/ byteIdx >= 0 THEN "swap" ELSE "final"
  /\ UNCHANGED <<op, reg, scalar, prevBit>>

(* Faulty: x25_byte_idx is not decremented. *)
NextBitStuck ==
  /\ pc = "step" /\ op = 19
  /\ bitPos' = (bitPos - 1) % W
  /\ pc' = IF bitPos > 0 \/ byteIdx >= 0 THEN "swap" ELSE "final"
  /\ UNCHANGED <<op, reg, scalar, prevBit, byteIdx>>

(* lsr x25_bit_mask / bne; else mask $80, dec x25_byte_idx / bpl. *)
NextBit ==
  /\ pc = "step" /\ op = 19
  /\ IF bitPos > 0
       THEN bitPos' = bitPos - 1 /\ pc' = "swap" /\ UNCHANGED byteIdx
       ELSE /\ bitPos' = W - 1
            /\ byteIdx' = byteIdx - 1
            /\ pc' = IF byteIdx - 1 >= 0 THEN "swap" ELSE "final"
  /\ UNCHANGED <<op, reg, scalar, prevBit>>

(* Faulty: no swap after the loop; a clamped scalar never needs it. *)
FinalSwapDropped ==
  /\ pc = "final"
  /\ pc' = "invert"
  /\ UNCHANGED <<op, reg, scalar, prevBit, byteIdx, bitPos>>

(* The swap after the loop, with prev_bit itself as the mask. *)
FinalSwap ==
  /\ pc = "final"
  /\ reg' = CSwapRegs(reg, prevBit)
  /\ pc' = "invert"
  /\ UNCHANGED <<op, scalar, prevBit, byteIdx, bitPos>>

(* fe25519_inv(z_2) into x25_result; its chain uses the working buffers. *)
Invert ==
  /\ pc = "invert"
  /\ \E v \in Leftover :
       reg' = [r \in Regs |-> IF r = "result" THEN Inv(reg["z2"])
                              ELSE IF r \in Temps THEN v ELSE reg[r]]
  /\ pc' = "multiply"
  /\ UNCHANGED <<op, scalar, prevBit, byteIdx, bitPos>>

Multiply ==
  /\ pc = "multiply"
  /\ reg' = [reg EXCEPT !["result"] = ReduceFinal(Mul(reg["x2"], reg["result"]))]
  /\ pc' = "done"
  /\ UNCHANGED <<op, scalar, prevBit, byteIdx, bitPos>>

(* The caller reads x25_result and may call again. *)
Return ==
  /\ pc = "done"
  /\ pc' = "idle"
  /\ UNCHANGED <<op, reg, scalar, prevBit, byteIdx, bitPos>>

Call == Clamp \/ Base \/ ScalarMult

Compute ==
  \/ Setup \/ Swap \/ LadderStep \/ NextBit \/ FinalSwap \/ Invert \/ Multiply

Next == Call \/ Compute \/ Return

Spec == Init /\ [][Next]_vars

(* The processor runs what it has been handed: a call, once made, goes on.  *)
FairSpec == Spec /\ WF_vars(Compute)

(***************************************************************************)
(* Properties.                                                              *)
(***************************************************************************)

(* The buffers hold 32-byte values and the cursor stays inside the scalar.  *)
TypeOK ==
  /\ pc \in {"idle", "setup", "swap", "step", "final", "invert", "multiply", "done"}
  /\ op \in 1 .. 19
  /\ reg \in [Regs -> Word]
  /\ scalar \in Scalar
  /\ prevBit \in BOOLEAN
  /\ byteIdx \in -1 .. NB - 1
  /\ bitPos \in 0 .. W - 1
  /\ pc \in {"swap", "step"} => byteIdx >= 0

(***************************************************************************)
(* The operand contract of fe25519_add and fe25519_sub, at every call the   *)
(* ladder makes: src2 is canonical (src1 may be any 32-byte value).  Every  *)
(* fe25519_reduce_final the code leaves out puts this at risk, in the same  *)
(* iteration or in the next one, where the conditional swap has moved the   *)
(* buffers.                                                                 *)
(***************************************************************************)
OperandContract ==
  pc = "step" =>
    /\ op \in {1, 2}   => reg["z2"] \in Canon
    /\ op = 5          => reg["tmp4"] \in Canon
    /\ op \in {6, 7}   => reg["z3"] \in Canon
    /\ op \in {10, 12} => reg["cb"] \in Canon
    /\ op = 17         => reg["tmp1"] \in Canon

(***************************************************************************)
(* The refinement mapping.  x25519_ladder_step is the ideal step at the     *)
(* moment it first overwrites a ladder coordinate (operation 10).  From     *)
(* there on the ideal coordinate is what the remaining operations will make *)
(* of the temporaries; before, it is the buffer's residue.                  *)
(***************************************************************************)
Residue(r) == reg[r] % P

Committed == pc = "step" /\ op > 10

IdealX3 ==
  IF Committed /\ op = 11 THEN FMul(Residue("x3"), Residue("x3")) ELSE Residue("x3")

IdealZ3 ==
  LET D == FSub(Residue("da"), Residue("cb"))
  IN  CASE Committed /\ op \in {11, 12} -> FMul(Residue("x1"), FMul(D, D))
        [] Committed /\ op = 13 -> FMul(Residue("x1"), FMul(Residue("z3"), Residue("z3")))
        [] Committed /\ op = 14 -> FMul(Residue("x1"), Residue("z3"))
        [] OTHER -> Residue("z3")

IdealX2 ==
  IF Committed /\ op <= 15 THEN FMul(Residue("tmp3"), Residue("tmp4")) ELSE Residue("x2")

IdealZ2 ==
  LET E == Residue("e")
  IN  CASE Committed /\ op <= 16 -> FMul(E, FAdd(Residue("tmp3"), FMul(A24 % P, E)))
        [] Committed /\ op = 17 -> FMul(E, FAdd(Residue("tmp3"), Residue("tmp1")))
        [] Committed /\ op = 18 -> FMul(E, Residue("tmp1"))
        [] OTHER -> Residue("z2")

IdealPhase ==
  CASE pc \in {"idle", "setup"}       -> "idle"
    [] pc = "step" /\ ~Committed      -> "step"
    [] pc = "step" /\ Committed       -> "next"
    [] pc \in {"invert", "multiply"}  -> "divide"
    [] OTHER                          -> pc

LadderTop == W * NB - 2

IdealK   == [i \in 0 .. LadderTop |-> i % W \in scalar[i \div W]]

IdealU   == Decoded(reg["u"]) % P

IdealT   == IF byteIdx >= 0 THEN W * byteIdx + bitPos ELSE 0

IdealOut == IF pc \in {"idle", "done", "setup"} THEN reg["result"] ELSE 0

Ideal == INSTANCE MontgomeryLadder WITH
  TopBit <- LadderTop,
  phase  <- IdealPhase,
  k      <- IdealK,
  u      <- IdealU,
  x1     <- Residue("x1"),
  x2     <- IdealX2,
  z2     <- IdealZ2,
  x3     <- IdealX3,
  z3     <- IdealZ3,
  swap   <- prevBit,
  t      <- IdealT,
  out    <- IdealOut

(***************************************************************************)
(* The scalar multiplication implements the RFC 7748 ladder over the field, *)
(* bit by bit: lazily reduced representatives, reused temporaries and the   *)
(* byte/mask cursor change nothing, and the result handed to the caller is  *)
(* the canonical one.                                                       *)
(***************************************************************************)
ImplementsLadder == Ideal!AbsSpec

(* A call that was made returns. *)
CallReturns == pc = "setup" ~> pc = "done"

===============================================================================
