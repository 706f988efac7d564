--------------------------- MODULE MontgomeryLadder ---------------------------
(***************************************************************************)
(* What x25519_scalarmult promises: the Montgomery ladder of RFC 7748,      *)
(* section 5, over exact field elements, one loop iteration at a time.      *)
(*                                                                          *)
(* Nothing of the implementation is left here: no 32-byte representatives,  *)
(* no order of field operations inside an iteration, no temporaries, no     *)
(* byte and bit-mask cursor.  X25519 implements this module under a         *)
(* refinement mapping.                                                      *)
(***************************************************************************)
EXTENDS FieldOps

CONSTANT TopBit      \* the highest scalar bit the ladder looks at (254)

VARIABLES
  phase,             \* "idle", "swap", "step", "next", "final", "divide", "done"
  k, u,              \* the inputs: the scalar's bits and the decoded u-coordinate
  x1, x2, z2, x3, z3,
  swap,              \* the previous scalar bit
  t,                 \* the bit the loop is at
  out                \* the result of the last call; 0 while a call runs

absVars == <<phase, k, u, x1, x2, z2, x3, z3, swap, t, out>>

AbsScalar == [0 .. TopBit -> BOOLEAN]

AbsInit ==
  /\ phase = "idle"
  /\ k \in AbsScalar /\ u \in Canon
  /\ x1 \in Canon /\ x2 \in Canon /\ z2 \in Canon /\ x3 \in Canon /\ z3 \in Canon
  /\ swap \in BOOLEAN /\ t \in 0 .. TopBit /\ out \in Word

(* Between calls the caller sets the inputs. *)
SetInputs ==
  /\ phase = "idle"
  /\ k' \in AbsScalar /\ u' \in Canon
  /\ UNCHANGED <<phase, x1, x2, z2, x3, z3, swap, t, out>>

(* x_1 = u, x_2 = 1, z_2 = 0, x_3 = u, z_3 = 1, swap = 0 *)
Start ==
  /\ phase = "idle"
  /\ phase' = "swap"
  /\ x1' = u /\ x2' = 1 /\ z2' = 0 /\ x3' = u /\ z3' = 1
  /\ swap' = FALSE /\ t' = TopBit
  /\ out' = 0
  /\ UNCHANGED <<k, u>>

(* swap ^= k_t; cswap(swap, x_2, x_3); cswap(swap, z_2, z_3); swap = k_t *)
CSwap ==
  /\ phase = "swap"
  /\ phase' = "step"
  /\ IF k[t] # swap
       THEN x2' = x3 /\ x3' = x2 /\ z2' = z3 /\ z3' = z2
       ELSE UNCHANGED <<x2, x3, z2, z3>>
  /\ swap' = k[t]
  /\ UNCHANGED <<k, u, x1, t, out>>

(* The body of the loop: A, B, AA, BB, E, C, D, DA and CB of the RFC. *)
LadderStep ==
  LET A  == FAdd(x2, z2)
      B  == FSub(x2, z2)
      AA == FMul(A, A)
      BB == FMul(B, B)
      E  == FSub(AA, BB)
      DA == FMul(FSub(x3, z3), A)
      CB == FMul(FAdd(x3, z3), B)
      S  == FAdd(DA, CB)
      D  == FSub(DA, CB)
  IN  /\ phase = "step"
      /\ phase' = "next"
      /\ x3' = FMul(S, S)
      /\ z3' = FMul(x1, FMul(D, D))
      /\ x2' = FMul(AA, BB)
      /\ z2' = FMul(E, FAdd(AA, FMul(A24 % P, E)))
      /\ UNCHANGED <<k, u, x1, swap, t, out>>

NextBit ==
  /\ phase = "next"
  /\ IF t > 0
       THEN phase' = "swap" /\ t' = t - 1
       ELSE phase' = "final" /\ t' = 0
  /\ UNCHANGED <<k, u, x1, x2, z2, x3, z3, swap, out>>

(* The conditional swap after the loop. *)
FinalSwap ==
  /\ phase = "final"
  /\ phase' = "divide"
  /\ IF swap
       THEN x2' = x3 /\ x3' = x2 /\ z2' = z3 /\ z3' = z2
       ELSE UNCHANGED <<x2, x3, z2, z3>>
  /\ UNCHANGED <<k, u, x1, swap, t, out>>

(* Return x_2 * (z_2^(p - 2)). *)
Divide ==
  /\ phase = "divide"
  /\ phase' = "done"
  /\ out' = FMul(x2, FInv(z2))
  /\ UNCHANGED <<k, u, x1, x2, z2, x3, z3, swap, t>>

Return ==
  /\ phase = "done"
  /\ phase' = "idle"
  /\ UNCHANGED <<k, u, x1, x2, z2, x3, z3, swap, t, out>>

AbsNext ==
  \/ SetInputs \/ Start \/ CSwap \/ LadderStep \/ NextBit \/ FinalSwap
  \/ Divide \/ Return

AbsSpec == AbsInit /\ [][AbsNext]_absVars

===============================================================================
