----------------------------- MODULE X25519Curve -----------------------------
(***************************************************************************)
(* What X25519 is to compute, stated without a ladder: a u-coordinate is    *)
(* lifted to a point (x, y) of B y^2 = x^3 + A x^2 + x, on the curve        *)
(* (B = 1) or on its twist (B a non-square), and multiplied by repeated     *)
(* chord-and-tangent addition.  A is 4 A24 + 2, from the one curve constant *)
(* the code has.                                                            *)
(***************************************************************************)
EXTENDS X25519

CurveA == 4 * A24 + 2

NonSquare == CHOOSE d \in Canon : \A y \in Canon : FMul(y, y) # d

Inverses == [x \in Canon |-> FInv(x)]

FDiv(x, y) == FMul(x, Inverses[y])

Infinity == <<>>

RightSide(x) == (x * x * x + CurveA * x * x + x) % P

Coefficients == {1, NonSquare}

Above(b, x, y) == FMul(b, FMul(y, y)) = RightSide(x)

Affine(b) == {p \in Canon \X Canon : Above(b, p[1], p[2])}

Points(b) == {Infinity} \cup Affine(b)

(* The slope of the line through p and q, the tangent's where p = q. *)
Slope(b, p, q) ==
  IF p = q THEN FDiv((3 * p[1] * p[1] + 2 * CurveA * p[1] + 1) % P, (2 * b * p[2]) % P)
           ELSE FDiv(FSub(q[2], p[2]), FSub(q[1], p[1]))

(* The third intersection of the line of slope m through p and q, reflected.*)
Reflected(b, m, p, q) ==
  LET x == (b * m * m - CurveA - p[1] - q[1]) % P
  IN  <<x, FSub(FMul(m, FSub(p[1], x)), p[2])>>

Opposite(p, q) == p[1] = q[1] /\ FAdd(p[2], q[2]) = 0

PointAdd(b, p, q) ==
  IF p = Infinity THEN q
  ELSE IF q = Infinity THEN p
  ELSE IF Opposite(p, q) THEN Infinity
  ELSE Reflected(b, Slope(b, p, q), p, q)

(* The curve coefficient and a y for each x: every x is on one of the two.  *)
Lift == [x \in Canon |-> CHOOSE c \in Coefficients \X Canon : Above(c[1], x, c[2])]

(* The multiples [n]Q of a point, and those of the point above each x. *)
Multiples(b, Q) ==
  LET m[n \in Nat] == IF n = 0 THEN Infinity ELSE PointAdd(b, Q, m[n - 1])
  IN  m

Multiple == [x \in Canon |-> Multiples(Lift[x][1], <<x, Lift[x][2]>>)]

XOf(p) == IF p = Infinity THEN 0 ELSE p[1]

(* The number that the scalar's bits k from `from` upward spell.  They are  *)
(* read from the top.                                                       *)
BitsFrom(k, from) ==
  LET v[n \in Nat] ==
        IF n = 0 THEN 0 ELSE 2 * v[n - 1] + (IF k[LadderTop + 1 - n] THEN 1 ELSE 0)
  IN  v[LadderTop + 1 - from]

(***************************************************************************)
(* The mathematics the ladder relies on, as facts about P and A24: P is an  *)
(* odd prime, the curve is not singular, every x is on the curve or on its  *)
(* twist, and on each of the two chord-and-tangent addition is an           *)
(* associative operation on the points.                                     *)
(***************************************************************************)
ASSUME PrimeAssumption ==
  /\ 2 % P # 0
  /\ \A x \in Canon \ {0} : \E w \in Canon : FMul(w, x) = 1

ASSUME CurveAssumption ==
  /\ A24 % P # 0 /\ (A24 + 1) % P # 0
  /\ \E d \in Canon : \A y \in Canon : FMul(y, y) # d
  /\ \A x \in Canon : \E b \in Coefficients, y \in Canon : Above(b, x, y)

ASSUME GroupLaw ==
  \A b \in Coefficients : \A p, q \in Points(b) :
    /\ PointAdd(b, p, q) \in Points(b)
    /\ \A r \in Points(b) :
         PointAdd(b, PointAdd(b, p, q), r) = PointAdd(b, p, PointAdd(b, q, r))

(***************************************************************************)
(* x25519_scalarmult computes X25519: the x-coordinate of the scalar times  *)
(* the point above the decoded input (0 for the point at infinity), as a    *)
(* canonical value, whether the u-coordinate is canonical or not, has its   *)
(* top bit set or not, is on the curve or on its twist, and whether the     *)
(* scalar was clamped or not.  What a previous call left in the buffers     *)
(* does not matter.                                                         *)
(***************************************************************************)
ResultCorrect ==
  pc = "done" =>
    reg["result"] = XOf(Multiple[Decoded(reg["u"]) % P][BitsFrom(IdealK, 0)])

(***************************************************************************)
(* The loop invariant of the ladder.  At @bit_loop, once the pending swap   *)
(* is undone, (x_2 : z_2) and (x_3 : z_3) are [m]Q and [m + 1]Q, m being    *)
(* the bits read so far; the point at infinity has z = 0 and x # 0.  (For   *)
(* u = 0 the formulas only keep the quotients.)                             *)
(***************************************************************************)
Represents(x, z, q) ==
  /\ FDiv(x, z) = XOf(q)
  /\ Residue("x1") # 0 => /\ z = 0 <=> q = Infinity
                          /\ z = 0 => x # 0

LoopInvariant ==
  pc = "swap" =>
    LET m  == BitsFrom(IdealK, W * byteIdx + bitPos + 1)
        mQ == Multiple[Residue("x1")][m]
        nQ == Multiple[Residue("x1")][m + 1]
    IN  IF prevBit
          THEN /\ Represents(Residue("x3"), Residue("z3"), mQ)
               /\ Represents(Residue("x2"), Residue("z2"), nQ)
          ELSE /\ Represents(Residue("x2"), Residue("z2"), mQ)
               /\ Represents(Residue("x3"), Residue("z3"), nQ)

===============================================================================
