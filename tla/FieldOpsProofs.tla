---------------------------- MODULE FieldOpsProofs ----------------------------
(***************************************************************************)
(* What the field routines of FieldOps compute, for every P, C and A24 the  *)
(* assumption allows: the result fits 32 bytes and has the right residue    *)
(* modulo P, given the operand contract each routine states.                *)
(***************************************************************************)
EXTENDS WideBytes, FiniteSetTheorems, TLAPS

(***************************************************************************)
(* Arithmetic modulo n.                                                     *)
(***************************************************************************)

(* Division with remainder. *)
LEMMA DivMod ==
  ASSUME NEW a \in Int, NEW n \in Nat \ {0}
  PROVE  /\ a % n \in 0 .. n - 1
         /\ a \div n \in Int
         /\ a = n * (a \div n) + (a % n)
  OBVIOUS

(* Quotient and remainder are the only pair with that property. *)
LEMMA DivModUnique ==
  ASSUME NEW n \in Nat \ {0}, NEW q \in Int, NEW r \in 0 .. n - 1
  PROVE  /\ (n * q + r) % n = r
         /\ (n * q + r) \div n = q
  OBVIOUS

(* A number below the modulus is its own remainder. *)
LEMMA ModSmall ==
  ASSUME NEW n \in Nat \ {0}, NEW r \in 0 .. n - 1
  PROVE  r % n = r /\ r \div n = 0
  OBVIOUS

(* Adding a multiple of the modulus leaves the remainder alone. *)
LEMMA ModShift ==
  ASSUME NEW n \in Nat \ {0}, NEW a \in Int, NEW k \in Int
  PROVE  (a + (n * k)) % n = a % n
<1>1. PICK q \in Int, r \in 0 .. n - 1 : r = a % n /\ a = n * q + r
  BY DivMod
<1>2. PICK s \in Int : s = q + k
  OBVIOUS
<1>3. a + (n * k) = n * s + r
  BY <1>1, <1>2
<1>4. (n * s + r) % n = r
  BY DivModUnique
<1> QED  BY <1>1, <1>3, <1>4

(* Two numbers that differ by a multiple of the modulus have one remainder. *)
LEMMA ModEqual ==
  ASSUME NEW n \in Nat \ {0}, NEW a \in Int, NEW b \in Int, NEW k \in Int,
         a = b + (n * k)
  PROVE  a % n = b % n
  BY ModShift

(* Remainders may be taken of the operands of a sum first. *)
LEMMA ModAdd ==
  ASSUME NEW n \in Nat \ {0}, NEW a \in Int, NEW b \in Int
  PROVE  (a + b) % n = ((a % n) + (b % n)) % n
<1> DEFINE q == a \div n  r == a % n  s == b \div n  t == b % n
<1>1. /\ q \in Int /\ r \in Int /\ a = n * q + r
      /\ s \in Int /\ t \in Int /\ b = n * s + t
  BY DivMod
<1> HIDE DEF q, r, s, t
<1> DEFINE u == a + b  v == r + t  k == q + s
<1>2. u = v + (n * k) /\ u \in Int /\ v \in Int /\ k \in Int
  BY <1>1
<1> HIDE DEF u, v, k
<1>3. u % n = v % n
  BY <1>2, ModEqual
<1> QED  BY <1>3 DEF u, v, r, t

(* The same for a difference. *)
LEMMA ModSub ==
  ASSUME NEW n \in Nat \ {0}, NEW a \in Int, NEW b \in Int
  PROVE  (a - b) % n = ((a % n) - (b % n)) % n
<1> DEFINE q == a \div n  r == a % n  s == b \div n  t == b % n
<1>1. /\ q \in Int /\ r \in Int /\ a = n * q + r
      /\ s \in Int /\ t \in Int /\ b = n * s + t
  BY DivMod
<1> HIDE DEF q, r, s, t
<1> DEFINE u == a - b  v == r - t  k == q - s
<1>2. u = v + (n * k) /\ u \in Int /\ v \in Int /\ k \in Int
  BY <1>1
<1> HIDE DEF u, v, k
<1>3. u % n = v % n
  BY <1>2, ModEqual
<1> QED  BY <1>3 DEF u, v, r, t

(* The same for a product. *)
LEMMA ModMul ==
  ASSUME NEW n \in Nat \ {0}, NEW a \in Int, NEW b \in Int
  PROVE  (a * b) % n = ((a % n) * (b % n)) % n
<1> DEFINE q == a \div n  r == a % n  s == b \div n  t == b % n
<1>1. /\ q \in Int /\ r \in Int /\ a = n * q + r
      /\ s \in Int /\ t \in Int /\ b = n * s + t
  BY DivMod
<1> HIDE DEF q, r, s, t
<1> DEFINE u == a * b  v == r * t  k == (q * b) + (r * s)
<1>2. u = v + (n * k) /\ u \in Int /\ v \in Int /\ k \in Int
  <2>1. u = (n * q) * b + r * b
    BY <1>1
  <2>2. r * b = n * (r * s) + r * t
    BY <1>1
  <2> QED  BY <1>1, <2>1, <2>2
<1> HIDE DEF u, v, k
<1>3. u % n = v % n
  BY <1>2, ModEqual
<1> QED  BY <1>3 DEF u, v, r, t

(***************************************************************************)
(* The field routines.                                                      *)
(***************************************************************************)
(* R is 2P + Fold: what makes folding at R preserve residues. *)
LEMMA Constants ==
  /\ P \in Nat \ {0} /\ R \in Nat \ {0} /\ Fold \in Nat \ {0} /\ A24 \in Nat
  /\ R = (P * 2) + Fold
  /\ Fold < P
  BY FieldAssumption DEF Half, R, Fold

(* Taking the modulus off, or adding it, once. *)
LEMMA ModOnce ==
  ASSUME NEW n \in Nat \ {0}, NEW v \in Int
  PROVE  /\ (v - n) % n = v % n
         /\ (v + n) % n = v % n
<1>1. PICK q \in Int, r \in 0 .. n - 1 : r = v % n /\ v = n * q + r
  BY DivMod
<1> DEFINE s == q - 1  t == q + 1
<1>2. /\ s \in Int /\ v - n = n * s + r
      /\ t \in Int /\ v + n = n * t + r
  BY <1>1
<1> HIDE DEF s, t
<1>3. (n * s + r) % n = r /\ (n * t + r) % n = r
  BY <1>2, DivModUnique
<1> QED  BY <1>1, <1>2, <1>3

USE DEF Word, Canon

(***************************************************************************)
(* The tail of fe25519_add on the exact sum v: the masked subtraction is    *)
(* performed exactly when the sum reaches P, and never wraps.               *)
(***************************************************************************)
LEMMA MaskedSubtract ==
  ASSUME NEW v \in Nat, v < R + P
  PROVE  (IF v >= R \/ v % R >= P THEN ((v % R) - P) % R ELSE v % R)
           = SubPIfGe(v)
<1> USE Constants DEF SubPIfGe
<1>1. CASE v < P
  BY <1>1, ModSmall
<1>2. CASE P <= v /\ v < R
  <2> DEFINE w == v - P
  <2>1. v % R = v
    BY <1>2, ModSmall
  <2>2. w % R = w
    <3>1. w \in 0 .. R - 1
      BY <1>2
    <3> QED  BY <3>1, ModSmall
  <2> QED  BY <1>2, <2>1, <2>2
<1>3. CASE R <= v
  <2> DEFINE d == v - R  w == v - P
  <2>1. d \in 0 .. R - 1 /\ w \in 0 .. R - 1 /\ d - P = w - R
    BY <1>3
  <2>2. d % R = d /\ w % R = w
    <3> HIDE DEF d, w
    <3> QED  BY <2>1, ModSmall
  <2>3. v % R = d
    <3>1. R \in Nat \ {0} /\ v \in Int
      OBVIOUS
    <3>2. (v - R) % R = v % R
      BY <3>1, ModOnce
    <3> QED  BY <2>2, <3>2
  <2>4. (d - P) % R = w
    <3>1. (w - R) % R = w % R
      <4>1. w \in Int
        BY <2>1
      <4> HIDE DEF w
      <4> QED  BY <4>1, ModOnce
    <3> QED  BY <2>1, <2>2, <3>1
  <2> QED  BY <1>3, <2>3, <2>4
<1> QED  BY <1>1, <1>2, <1>3

(* A conditional subtraction of P leaves the residue alone. *)
LEMMA SubPResidue ==
  ASSUME NEW v \in Nat
  PROVE  SubPIfGe(v) \in Nat /\ SubPIfGe(v) % P = v % P
<1>1. P \in Nat \ {0} /\ v \in Int
  BY Constants
<1>2. (v - P) % P = v % P
  BY <1>1, ModOnce
<1> QED  BY <1>1, <1>2 DEF SubPIfGe

(***************************************************************************)
(* fe25519_add: with any 32-byte value on src1 and a canonical src2, the    *)
(* one masked subtraction is enough: the sum fits 32 bytes and has the      *)
(* right residue.                                                           *)
(***************************************************************************)
THEOREM AddCorrect ==
  ASSUME NEW a \in Word, NEW b \in Canon
  PROVE  /\ Add(a, b) \in Word
         /\ Add(a, b) % P = FAdd(a % P, b % P)
<1> DEFINE v == a + b
<1>1. /\ P \in Nat \ {0} /\ a \in Int /\ b \in Int
      /\ v \in Nat /\ v < R + P
  BY Constants
<1>2. Add(a, b) = SubPIfGe(v)
  <2>1. (IF v >= R \/ v % R >= P THEN ((v % R) - P) % R ELSE v % R) = SubPIfGe(v)
    <3> HIDE DEF v
    <3> QED  BY <1>1, MaskedSubtract
  <2> QED  BY <2>1 DEF Add
<1>3. SubPIfGe(v) \in Word
  BY <1>1, Constants DEF SubPIfGe
<1>4. v % P = FAdd(a % P, b % P)
  BY <1>1, ModAdd DEF FAdd
<1>5. SubPIfGe(v) % P = v % P
  <2> HIDE DEF v
  <2> QED  BY <1>1, SubPResidue
<1> QED  BY <1>2, <1>3, <1>4, <1>5

(***************************************************************************)
(* fe25519_sub: with any 32-byte value on src1 and a canonical src2, the    *)
(* one masked addition is enough.                                           *)
(***************************************************************************)
THEOREM SubCorrect ==
  ASSUME NEW a \in Word, NEW b \in Canon
  PROVE  /\ Sub(a, b) \in Word
         /\ Sub(a, b) % P = FSub(a % P, b % P)
<1> DEFINE v == a - b
<1>1. /\ P \in Nat \ {0} /\ R \in Nat \ {0} /\ P < R
      /\ a \in Int /\ b \in Int /\ v \in Int /\ v < R /\ 0 < v + P
  BY Constants
<1>2. v % P = FSub(a % P, b % P)
  BY <1>1, ModSub DEF FSub
<1>3. CASE a < b
  <2> DEFINE w == v + P  d == v + R
  <2>1. w \in 0 .. R - 1 /\ d \in 0 .. R - 1 /\ d + P = w + R /\ w \in Int
    BY <1>1, <1>3
  <2>2. d % R = v % R
    <3> HIDE DEF v
    <3> QED  BY <1>1, ModOnce
  <2>3. (w + R) % R = w % R
    <3> HIDE DEF w
    <3> QED  BY <1>1, <2>1, ModOnce
  <2>4. w % R = w /\ d % R = d
    <3> HIDE DEF w, d
    <3> QED  BY <1>1, <2>1, ModSmall
  <2>5. Sub(a, b) = w
    BY <1>3, <2>1, <2>2, <2>3, <2>4 DEF Sub
  <2>6. w % P = v % P
    <3> HIDE DEF v
    <3> QED  BY <1>1, ModOnce
  <2> QED  BY <1>2, <2>1, <2>5, <2>6
<1>4. CASE ~(a < b)
  <2>1. v \in 0 .. R - 1
    BY <1>1, <1>4
  <2>2. v % R = v
    <3> HIDE DEF v
    <3> QED  BY <1>1, <2>1, ModSmall
  <2> QED  BY <1>2, <1>4, <2>1, <2>2 DEF Sub
<1> QED  BY <1>3, <1>4

(***************************************************************************)
(* fe25519_reduce_final: two conditional subtractions make any 32-byte      *)
(* value canonical.                                                         *)
(***************************************************************************)
THEOREM ReduceFinalCorrect ==
  ASSUME NEW v \in Word
  PROVE  /\ ReduceFinal(v) \in Canon
         /\ ReduceFinal(v) = v % P
<1> DEFINE w == ReduceFinal(v)
<1>1. P \in Nat \ {0} /\ R \in Nat /\ R < 3 * P /\ v \in Nat /\ v < R
  BY Constants
<1>2. w \in 0 .. P - 1
  <2>1. SubPIfGe(v) \in Nat /\ SubPIfGe(v) < 2 * P
    BY <1>1 DEF SubPIfGe
  <2> QED  BY <1>1, <2>1 DEF ReduceFinal, SubPIfGe
<1>3. w % P = v % P
  BY <1>1, SubPResidue DEF ReduceFinal
<1>4. w % P = w
  <2> HIDE DEF w
  <2> QED  BY <1>1, <1>2, ModSmall
<1> QED  BY <1>2, <1>3, <1>4

(* The quotient by R of a number below R * k is below k. *)
LEMMA QuotientBound ==
  ASSUME NEW w \in Nat, NEW k \in Nat, w < R * k
  PROVE  w \div R \in Nat /\ w \div R < k
<1> DEFINE h == w \div R  l == w % R
<1>1. R \in Nat \ {0}
  BY Constants
<1>2. h \in Int /\ l \in 0 .. R - 1 /\ w = R * h + l
  BY <1>1, DivMod
<1> HIDE DEF h, l
<1>3. h < k
  <2> SUFFICES ASSUME h >= k PROVE FALSE
    BY <1>2
  <2>1. R * h >= R * k
    BY <1>1, <1>2
  <2> QED  BY <1>1, <1>2, <2>1
<1>4. h >= 0
  <2> SUFFICES ASSUME h <= -1 PROVE FALSE
    BY <1>2
  <2>1. R * h <= R * (-1)
    BY <1>1, <1>2
  <2> QED  BY <1>1, <1>2, <2>1
<1> QED  BY <1>2, <1>3, <1>4 DEF h

(* One fold at R: the low half plus Fold times the high half. *)
LEMMA FoldOnceCorrect ==
  ASSUME NEW w \in Nat, NEW k \in Nat, w < R * (k + 1)
  PROVE  /\ FoldOnce(w) \in Nat
         /\ FoldOnce(w) < R + Fold * k
         /\ FoldOnce(w) % P = w % P
<1> DEFINE h == w \div R  l == w % R
<1>0. R \in Nat \ {0} /\ w \in Int
  BY Constants
<1>1. P \in Nat \ {0} /\ Fold \in Nat /\ R = (P * 2) + Fold
  BY Constants
<1>2. h \in Int /\ l \in 0 .. R - 1 /\ w = R * h + l
  BY <1>0, DivMod
<1>3. h \in Nat /\ h <= k
  BY QuotientBound
<1>4. FoldOnce(w) = l + Fold * h
  BY DEF FoldOnce
<1> HIDE DEF h, l
<1>5. Fold * h \in Nat /\ Fold * h <= Fold * k
  BY <1>1, <1>3
<1> DEFINE f == l + Fold * h  m == 2 * h
<1>6. w = f + (P * m) /\ f \in Int /\ m \in Int /\ w \in Int
  BY <1>0, <1>1, <1>2, <1>3
<1> HIDE DEF f, m
<1>7. w % P = f % P
  BY <1>1, <1>6, ModEqual
<1> QED  BY <1>0, <1>1, <1>2, <1>4, <1>5, <1>7 DEF f

(***************************************************************************)
(* The last fold: with a carry of at most one and little above it, nothing  *)
(* is left to carry, so dropping the final carry loses nothing.             *)
(***************************************************************************)
LEMMA LastFold ==
  ASSUME NEW w \in Nat, NEW small \in Nat, w < R + small, small + Fold <= R
  PROVE  /\ FoldOnce(w) \in Word
         /\ FoldOnce(w) % R = FoldOnce(w)
         /\ FoldOnce(w) % P = w % P
<1>1. R \in Nat \ {0} /\ Fold \in Nat
  BY Constants
<1>2. FoldOnce(w) \in Nat /\ FoldOnce(w) % P = w % P
  <2>1. w < R * (1 + 1)
    BY <1>1
  <2> QED  BY <2>1, FoldOnceCorrect
<1>3. FoldOnce(w) < R
  <2>1. CASE w < R
    <3>1. w % R = w /\ w \div R = 0
      BY <1>1, <2>1, ModSmall
    <3> QED  BY <1>1, <2>1, <3>1 DEF FoldOnce
  <2>2. CASE w >= R
    <3> DEFINE l == w - R
    <3>1. l \in 0 .. R - 1 /\ w = R * 1 + l /\ l < small
      BY <1>1, <2>2
    <3> HIDE DEF l
    <3>2. w % R = l /\ w \div R = 1
      BY <1>1, <3>1, DivModUnique
    <3> QED  BY <1>1, <3>1, <3>2 DEF FoldOnce
  <2> QED  BY <1>1, <2>1, <2>2
<1> DEFINE f == FoldOnce(w)
<1>4. f \in 0 .. R - 1
  BY <1>1, <1>2, <1>3
<1>5. f % R = f
  <2> HIDE DEF f
  <2> QED  BY <1>1, <1>4, ModSmall
<1> QED  BY <1>2, <1>4, <1>5

(* Three folds leave nothing to carry. *)
LEMMA ThreeFolds ==
  ASSUME NEW w \in Nat, w <= (R - 1) * (R - 1)
  PROVE  /\ FoldOnce(FoldOnce(FoldOnce(w))) \in Word
         /\ ReduceWide(w) = FoldOnce(FoldOnce(FoldOnce(w)))
         /\ ReduceWide(w) % P = w % P
<1>1. R \in Nat \ {0} /\ Fold \in Nat /\ Fold * Fold + Fold <= R
  BY FieldAssumption, Constants
<1> DEFINE x == FoldOnce(w)  y == FoldOnce(x)  k == R - 1
<1>2. x \in Nat /\ x < R + Fold * (R - 1) /\ x % P = w % P
  <2>1. k \in Nat /\ w < R * (k + 1)
    BY <1>1
  <2> HIDE DEF k
  <2>2. FoldOnce(w) \in Nat /\ FoldOnce(w) < R + Fold * k /\ FoldOnce(w) % P = w % P
    BY <2>1, FoldOnceCorrect
  <2> QED  BY <2>2 DEF k
<1>3. x < R * (Fold + 1)
  BY <1>1, <1>2
<1> HIDE DEF x
<1>4. y \in Nat /\ y < R + Fold * Fold /\ y % P = x % P
  BY <1>1, <1>2, <1>3, FoldOnceCorrect
<1> HIDE DEF y
<1> DEFINE small == Fold * Fold
<1>5. small \in Nat /\ y < R + small /\ small + Fold <= R
  BY <1>1, <1>4
<1> HIDE DEF small
<1>6. /\ FoldOnce(y) \in Word /\ FoldOnce(y) % R = FoldOnce(y)
      /\ FoldOnce(y) % P = y % P
  BY <1>4, <1>5, LastFold
<1> QED  BY <1>2, <1>4, <1>6 DEF ReduceWide, x, y

(***************************************************************************)
(* fe_reduce_wide: three folds bring any product of two 32-byte values into *)
(* 32 bytes, with its residue, and the carry cascade 2 drops is 0.          *)
(***************************************************************************)
THEOREM ReduceWideCorrect ==
  ASSUME NEW w \in Nat, w <= (R - 1) * (R - 1)
  PROVE  ReduceWide(w) \in Word /\ ReduceWide(w) % P = w % P
<1> QED  BY ThreeFolds

(* fe25519_mul: any two 32-byte operands; a 32-byte result, not canonical. *)
THEOREM MulCorrect ==
  ASSUME NEW a \in Word, NEW b \in Word
  PROVE  Mul(a, b) \in Word /\ Mul(a, b) % P = FMul(a % P, b % P)
<1> DEFINE w == a * b
<1>1. P \in Nat \ {0} /\ R \in Nat \ {0} /\ a \in Int /\ b \in Int
  BY Constants
<1>2. w \in Nat /\ w <= (R - 1) * (R - 1)
  BY <1>1
<1>3. w % P = FMul(a % P, b % P)
  BY <1>1, ModMul DEF FMul
<1>4. ReduceWide(w) \in Word /\ ReduceWide(w) % P = w % P
  <2> HIDE DEF w
  <2> QED  BY <1>2, ReduceWideCorrect
<1> QED  BY <1>3, <1>4 DEF Mul

(* fe25519_sqr: the square, with the same contract. *)
THEOREM SqrCorrect ==
  ASSUME NEW a \in Word
  PROVE  Sqr(a) \in Word /\ Sqr(a) % P = FMul(a % P, a % P)
  BY MulCorrect DEF Mul, Sqr

(***************************************************************************)
(* fe25519_mul_a24: for any 32-byte operand, the canonical representative   *)
(* of A24 times it; the carry out of byte 31 is folded and not lost.        *)
(***************************************************************************)
THEOREM MulA24Correct ==
  ASSUME NEW a \in Word
  PROVE  /\ MulA24(a) \in Canon
         /\ MulA24(a) = FMul(A24 % P, a % P)
<1> DEFINE w == A24 * a  x == FoldOnce(w)  y == FoldOnce(x)
<1>1. P \in Nat \ {0} /\ R \in Nat \ {0} /\ Fold \in Nat /\ A24 \in Nat /\ a \in Nat
      /\ a <= R - 1
  BY Constants
<1>2. w \in Nat /\ w <= A24 * (R - 1)
  BY <1>1
<1>3. w < R * (A24 + 1)
  BY <1>1, <1>2
<1>4. w % P = FMul(A24 % P, a % P)
  <2>1. A24 \in Int /\ a \in Int
    BY <1>1
  <2> QED  BY <1>1, <2>1, ModMul DEF FMul
<1> HIDE DEF w
<1> DEFINE small == Fold * A24
<1>5. small \in Nat /\ small + Fold <= R
  BY <1>1, FieldAssumption
<1>6. x \in Nat /\ x < R + small /\ x % P = w % P
  BY <1>1, <1>2, <1>3, FoldOnceCorrect
<1> HIDE DEF small, x
<1>7. y \in Word /\ y % R = y /\ y % P = x % P
  BY <1>5, <1>6, LastFold
<1> HIDE DEF y
<1>8. ReduceFinal(y) \in Canon /\ ReduceFinal(y) = y % P
  BY <1>7, ReduceFinalCorrect
<1>9. MulA24(a) = ReduceFinal(y)
  BY <1>7 DEF MulA24, w, x, y
<1> QED  BY <1>4, <1>6, <1>7, <1>8, <1>9

(***************************************************************************)
(* A product or square followed by fe25519_reduce_final is canonical.       *)
(***************************************************************************)
COROLLARY MulReducedCorrect ==
  ASSUME NEW a \in Word, NEW b \in Word
  PROVE  /\ ReduceFinal(Mul(a, b)) \in Canon
         /\ ReduceFinal(Mul(a, b)) = FMul(a % P, b % P)
  BY MulCorrect, ReduceFinalCorrect

(* The field's operations stay among the canonical representatives. *)
LEMMA FieldClosed ==
  ASSUME NEW x \in Int, NEW y \in Int
  PROVE  FAdd(x, y) \in Canon /\ FSub(x, y) \in Canon /\ FMul(x, y) \in Canon
<1>1. P \in Nat \ {0} /\ x + y \in Int /\ x - y \in Int /\ x * y \in Int
  BY Constants
<1> QED  BY <1>1, DivMod DEF FAdd, FSub, FMul

(* A canonical value is its own residue. *)
LEMMA CanonResidue ==
  ASSUME NEW x \in Canon
  PROVE  x \in Word /\ x % P = x
<1>1. P \in Nat \ {0} /\ R \in Nat /\ P < R
  BY Constants
<1> QED  BY <1>1, ModSmall

(* The residue of a 32-byte value is canonical. *)
LEMMA WordResidue ==
  ASSUME NEW x \in Word
  PROVE  x % P \in Canon /\ x \in Int
<1>1. P \in Nat \ {0} /\ R \in Nat /\ x \in Int
  BY Constants
<1> QED  BY <1>1, DivMod

(***************************************************************************)
(* Numbers in bytes.                                                        *)
(***************************************************************************)

(***************************************************************************)
(* Induction on the naturals as a fact about sets, from finite cardinals: a *)
(* set that has 0 and is closed under the successor has every number.  Were *)
(* n outside it, the successor would map what it has up to n, a finite set, *)
(* one to one into itself without reaching 0.                               *)
(***************************************************************************)
LEMMA SetInduction ==
  ASSUME NEW T \in SUBSET Nat, 0 \in T, \A n \in T : n + 1 \in T
  PROVE  T = Nat
<1> SUFFICES ASSUME NEW n \in Nat, n \notin T PROVE FALSE
  OBVIOUS
<1> DEFINE U == T \cap (0 .. n)
           f == [m \in U |-> m + 1]
<1>1. IsFiniteSet(U)
  <2>1. IsFiniteSet(0 .. n)
    BY FS_Interval
  <2> QED  BY <2>1, FS_Subset
<1>2. f \in [U -> U]
  <2>1. ASSUME NEW m \in U PROVE m + 1 \in U
    BY m # n
  <2> QED  BY <2>1
<1>3. f \in Injection(U, U)
  <2>1. \A a, b \in U : f[a] = f[b] => a = b
    OBVIOUS
  <2> QED  BY <1>2, <2>1 DEF Injection, IsInjective
<1>4. f \in Surjection(U, U)
  <2> HIDE DEF f, U
  <2> QED  BY <1>1, <1>3, FS_Injection DEF Bijection
<1>5. 0 \in U /\ \A m \in U : f[m] # 0
  OBVIOUS
<1> QED  BY <1>4, <1>5 DEF Surjection

(* The same for a set of numbers up to m. *)
LEMMA BoundedInduction ==
  ASSUME NEW m \in Nat, NEW T, 0 \in T, \A n \in 0 .. m - 1 : n \in T => n + 1 \in T
  PROVE  \A n \in 0 .. m : n \in T
<1> DEFINE U == {n \in Nat : n <= m => n \in T}
<1>1. 0 \in U
  OBVIOUS
<1>2. ASSUME NEW n \in U PROVE n + 1 \in U
  OBVIOUS
<1>3. U = Nat
  <2> HIDE DEF U
  <2>1. U \in SUBSET Nat
    BY DEF U
  <2> QED  BY <1>1, <1>2, <2>1, SetInduction
<1> QED  BY <1>3

(***************************************************************************)
(* The weights.  The recursive definition has a solution, so it is one.     *)
(***************************************************************************)
LEMMA WeightExists ==
  ASSUME B \in Nat, NEW m \in Nat
  PROVE  \E w : w = [k \in 0 .. m |-> IF k = 0 THEN 1 ELSE B * w[k - 1]]
<1> DEFINE T == {n \in Nat : \E w : w = [k \in 0 .. n |-> IF k = 0 THEN 1 ELSE B * w[k - 1]]}
<1>1. 0 \in T
  <2> DEFINE w == [k \in 0 .. 0 |-> 1]
  <2>1. w = [k \in 0 .. 0 |-> IF k = 0 THEN 1 ELSE B * w[k - 1]]
    OBVIOUS
  <2> QED  BY <2>1
<1>2. ASSUME NEW n \in T PROVE n + 1 \in T
  <2>1. PICK w : w = [k \in 0 .. n |-> IF k = 0 THEN 1 ELSE B * w[k - 1]]
    OBVIOUS
  <2> DEFINE v == [k \in 0 .. n + 1 |-> IF k = n + 1 THEN B * w[n] ELSE w[k]]
  <2>2. ASSUME NEW k \in 0 .. n + 1
        PROVE  v[k] = IF k = 0 THEN 1 ELSE B * v[k - 1]
    <3>1. CASE k = n + 1
      BY <3>1
    <3>2. CASE k \in 0 .. n
      <4>1. w[k] = IF k = 0 THEN 1 ELSE B * w[k - 1]
        BY <2>1, <3>2
      <4> QED  BY <3>2, <4>1
    <3> QED  BY <3>1, <3>2
  <2>3. v = [k \in 0 .. n + 1 |-> IF k = 0 THEN 1 ELSE B * v[k - 1]]
    BY <2>2
  <2> HIDE DEF v
  <2>4. n + 1 \in Nat
    OBVIOUS
  <2> QED  BY <2>3, <2>4
<1>3. T = Nat
  <2> HIDE DEF T
  <2>1. T \in SUBSET Nat
    BY DEF T
  <2> QED  BY <1>1, <1>2, <2>1, SetInduction
<1> QED  BY <1>3

LEMMA WeightDef ==
  ASSUME B \in Nat, N \in Nat
  PROVE  /\ Weight[0] = 1
         /\ \A k \in 0 .. 2 * N + 1 : Weight[k + 1] = B * Weight[k]
<1> DEFINE m == 2 * N + 2
           Solves(w) == w = [k \in 0 .. m |-> IF k = 0 THEN 1 ELSE B * w[k - 1]]
<1>1. \E w : Solves(w)
  <2>1. m \in Nat
    OBVIOUS
  <2> HIDE DEF m
  <2> QED  BY <2>1, WeightExists
<1>2. Weight = CHOOSE w : Solves(w)
  BY DEF Weight
<1>3. Solves(Weight)
  BY <1>1, <1>2
<1>4. \A k \in 0 .. m : Weight[k] = IF k = 0 THEN 1 ELSE B * Weight[k - 1]
  BY <1>3
<1> QED  BY <1>4

LEMMA WeightPositive ==
  ASSUME B \in Nat \ {0}, N \in Nat
  PROVE  \A k \in 0 .. 2 * N + 2 : Weight[k] \in Nat \ {0}
<1> DEFINE m == 2 * N + 2
           T == {k \in 0 .. m : Weight[k] \in Nat \ {0}}
<1>1. 0 \in T
  BY WeightDef
<1>2. ASSUME NEW k \in 0 .. m - 1, k \in T PROVE k + 1 \in T
  <2>1. Weight[k + 1] = B * Weight[k]
    BY WeightDef
  <2> QED  BY <1>2, <2>1
<1>3. \A k \in 0 .. m : k \in T
  <2>1. m \in Nat
    OBVIOUS
  <2> HIDE DEF m, T
  <2> QED  BY <1>1, <1>2, <2>1, BoundedInduction
<1> QED  BY <1>3

(* What the instances assert, with the weights as numbers. *)
LEMMA Radix ==
  ASSUME RadixFits
  PROVE  /\ B \in Nat \ {0} /\ B > 2 /\ N \in Nat \ {0} /\ Fold < B
         /\ Weight[0] = 1 /\ Weight[N] = R
         /\ \A k \in 0 .. 2 * N + 1 : Weight[k + 1] = B * Weight[k]
         /\ \A k \in 0 .. 2 * N + 2 : Weight[k] \in Nat \ {0}
<1>1. B \in Nat \ {0} /\ B > 2 /\ N \in Nat \ {0}
  BY FieldAssumption DEF RadixFits, Fold
<1> QED  BY <1>1, WeightDef, WeightPositive DEF RadixFits

(***************************************************************************)
(* The value of bytes.  Its recursion has a solution, and only one.         *)
(***************************************************************************)
ValueFunction(v, w, from, to) ==
  v = [k \in from .. to + 1 |-> IF k = to + 1 THEN 0 ELSE w[k] + B * v[k + 1]]

LEMMA ValueExists ==
  ASSUME NEW w, NEW from \in Int, NEW to \in Int, from <= to + 1
  PROVE  \E v : ValueFunction(v, w, from, to)
<1> DEFINE T == {n \in Nat : \E v : ValueFunction(v, w, to + 1 - n, to)}
<1>1. 0 \in T
  <2> DEFINE v == [k \in to + 1 - 0 .. to + 1 |-> 0]
  <2>1. \A k \in to + 1 - 0 .. to + 1 : k = to + 1
    OBVIOUS
  <2>2. ValueFunction(v, w, to + 1 - 0, to)
    BY <2>1 DEF ValueFunction
  <2> HIDE DEF v
  <2> QED  BY <2>2
<1>2. ASSUME NEW n \in T PROVE n + 1 \in T
  <2>1. PICK v : ValueFunction(v, w, to + 1 - n, to)
    OBVIOUS
  <2> DEFINE low == to + 1 - (n + 1)
             u == [k \in low .. to + 1 |-> IF k = low THEN w[k] + B * v[k + 1] ELSE v[k]]
  <2>2. ASSUME NEW k \in low .. to + 1
        PROVE  u[k] = IF k = to + 1 THEN 0 ELSE w[k] + B * u[k + 1]
    <3>1. CASE k = low
      BY <3>1
    <3>2. CASE k \in to + 1 - n .. to + 1
      <4>1. v[k] = IF k = to + 1 THEN 0 ELSE w[k] + B * v[k + 1]
        BY <2>1, <3>2 DEF ValueFunction
      <4> QED  BY <3>2, <4>1
    <3> QED  BY <3>1, <3>2
  <2>3. ValueFunction(u, w, low, to)
    BY <2>2 DEF ValueFunction
  <2> HIDE DEF u
  <2>4. n + 1 \in Nat
    OBVIOUS
  <2> QED  BY <2>3, <2>4
<1>3. T = Nat
  <2> HIDE DEF T
  <2>1. T \in SUBSET Nat
    BY DEF T
  <2> QED  BY <1>1, <1>2, <2>1, SetInduction
<1>4. to + 1 - from \in Nat /\ to + 1 - (to + 1 - from) = from
  OBVIOUS
<1> QED  BY <1>3, <1>4

Solution(v, w, from, to) ==
  /\ v[to + 1] = 0
  /\ \A k \in from .. to : v[k] = w[k] + B * v[k + 1]

LEMMA ValueSolution ==
  ASSUME NEW w, NEW from \in Int, NEW to \in Int, from <= to + 1
  PROVE  \E v : Solution(v, w, from, to) /\ Value(w, from, to) = v[from]
<1> DEFINE v == CHOOSE u : ValueFunction(u, w, from, to)
<1>1. \E u : ValueFunction(u, w, from, to)
  BY ValueExists
<1>2. ValueFunction(v, w, from, to)
  BY <1>1
<1>3. Value(w, from, to) = v[from]
  BY DEF Value, ValueFunction
<1>4. \A k \in from .. to + 1 : v[k] = IF k = to + 1 THEN 0 ELSE w[k] + B * v[k + 1]
  BY <1>2 DEF ValueFunction
<1> HIDE DEF v
<1>5. Solution(v, w, from, to)
  BY <1>4 DEF Solution
<1> QED  BY <1>3, <1>5

LEMMA SameSolution ==
  ASSUME NEW w, NEW from \in Int, NEW to \in Int, from <= to + 1,
         NEW u, NEW v, Solution(u, w, from, to), Solution(v, w, from, to)
  PROVE  \A k \in from .. to + 1 : u[k] = v[k]
<1> DEFINE m == to + 1 - from
           T == {n \in 0 .. m : u[to + 1 - n] = v[to + 1 - n]}
<1>1. 0 \in T
  BY DEF Solution
<1>2. ASSUME NEW n \in 0 .. m - 1, n \in T PROVE n + 1 \in T
  <2> DEFINE k == to - n
  <2>1. k \in from .. to /\ k + 1 = to + 1 - n /\ k = to + 1 - (n + 1)
    OBVIOUS
  <2>2. u[k] = w[k] + B * u[k + 1] /\ v[k] = w[k] + B * v[k + 1]
    BY <2>1 DEF Solution
  <2>3. u[k] = v[k]
    BY <1>2, <2>1, <2>2
  <2> QED  BY <2>1, <2>3
<1>3. \A n \in 0 .. m : n \in T
  <2>1. m \in Nat
    OBVIOUS
  <2> HIDE DEF m, T
  <2> QED  BY <1>1, <1>2, <2>1, BoundedInduction
<1>4. ASSUME NEW k \in from .. to + 1 PROVE u[k] = v[k]
  <2>1. to + 1 - k \in 0 .. m /\ to + 1 - (to + 1 - k) = k
    OBVIOUS
  <2> QED  BY <1>3, <2>1
<1> QED  BY <1>4

LEMMA ValueSolved ==
  ASSUME NEW w, NEW from \in Int, NEW to \in Int, from <= to + 1,
         NEW v, Solution(v, w, from, to)
  PROVE  \A k \in from .. to + 1 : v[k] = Value(w, k, to)
<1> TAKE k \in from .. to + 1
<1>1. k \in Int /\ k <= to + 1 /\ k \in k .. to + 1
  OBVIOUS
<1>2. PICK u : Solution(u, w, k, to) /\ Value(w, k, to) = u[k]
  BY <1>1, ValueSolution
<1>3. Solution(v, w, k, to)
  BY DEF Solution
<1>4. \A n \in k .. to + 1 : u[n] = v[n]
  BY <1>1, <1>2, <1>3, SameSolution
<1> QED  BY <1>1, <1>2, <1>4

(* The value byte by byte. *)
LEMMA ValueEmpty ==
  ASSUME NEW w, NEW from \in Int
  PROVE  Value(w, from, from - 1) = 0
<1> DEFINE to == from - 1
<1>1. to \in Int /\ from <= to + 1 /\ to + 1 = from
  OBVIOUS
<1> HIDE DEF to
<1>2. PICK v : Solution(v, w, from, to) /\ Value(w, from, to) = v[from]
  BY <1>1, ValueSolution
<1>3. Value(w, from, to) = 0
  BY <1>1, <1>2 DEF Solution
<1> QED  BY <1>3 DEF to

LEMMA ValueStep ==
  ASSUME NEW w, NEW from \in Int, NEW to \in Int, from <= to
  PROVE  Value(w, from, to) = w[from] + B * Value(w, from + 1, to)
<1>1. PICK v : Solution(v, w, from, to) /\ Value(w, from, to) = v[from]
  BY ValueSolution
<1>2. \A k \in from .. to + 1 : v[k] = Value(w, k, to)
  BY <1>1, ValueSolved
<1>3. from \in from .. to /\ from + 1 \in from .. to + 1
  OBVIOUS
<1> QED  BY <1>1, <1>2, <1>3 DEF Solution

(* It depends on these bytes only. *)
LEMMA ValueSame ==
  ASSUME NEW w, NEW u, NEW from \in Int, NEW to \in Int, from <= to + 1,
         \A k \in from .. to : w[k] = u[k]
  PROVE  Value(w, from, to) = Value(u, from, to)
<1>1. PICK v : Solution(v, w, from, to) /\ Value(w, from, to) = v[from]
  BY ValueSolution
<1>2. Solution(v, u, from, to)
  BY <1>1 DEF Solution
<1>3. from \in from .. to + 1
  OBVIOUS
<1>4. v[from] = Value(u, from, to)
  BY <1>2, <1>3, ValueSolved
<1> QED  BY <1>1, <1>4

(* Bytes from .. to can be split before any of them. *)
LEMMA ValueSplit ==
  ASSUME RadixFits, NEW w, NEW from \in Int, NEW to \in Int, NEW mid \in from .. to + 1,
         mid - from <= 2 * N + 2,
         \A k \in from .. to : w[k] \in Int
  PROVE  /\ Value(w, from, to) \in Int
         /\ Value(w, from, mid - 1) \in Int /\ Value(w, mid, to) \in Int
         /\ Value(w, from, to) = Value(w, from, mid - 1) + Weight[mid - from] * Value(w, mid, to)
<1>0. /\ B \in Int /\ N \in Nat /\ Weight[0] = 1
      /\ \A k \in 0 .. 2 * N + 1 : Weight[k + 1] = B * Weight[k]
      /\ \A k \in 0 .. 2 * N + 2 : Weight[k] \in Int
  BY Radix
<1>1. \A last \in Int : last <= to =>
        \A first \in from .. last + 1 : Value(w, first, last) \in Int
  <2> SUFFICES ASSUME NEW last \in Int, last <= to, from <= last + 1
               PROVE  \A first \in from .. last + 1 : Value(w, first, last) \in Int
    OBVIOUS
  <2> DEFINE m == last + 1 - from
             T == {n \in 0 .. m : Value(w, last + 1 - n, last) \in Int}
  <2>1. 0 \in T
    <3>1. Value(w, last + 1, (last + 1) - 1) = 0
      BY ValueEmpty
    <3>2. (last + 1) - 1 = last /\ last + 1 - 0 = last + 1 /\ 0 \in 0 .. m
      OBVIOUS
    <3> QED  BY <3>1, <3>2
  <2>2. ASSUME NEW n \in 0 .. m - 1, n \in T PROVE n + 1 \in T
    <3>1. PICK k \in from .. last : k = last - n
      OBVIOUS
    <3>2. Value(w, k, last) = w[k] + B * Value(w, k + 1, last)
      BY ValueStep
    <3>3. Value(w, k + 1, last) \in Int
      <4>1. k + 1 = last + 1 - n
        BY <3>1
      <4> QED  BY <2>2, <4>1
    <3>4. Value(w, k, last) \in Int
      BY <1>0, <3>2, <3>3
    <3>5. k = last + 1 - (n + 1) /\ n + 1 \in 0 .. m
      BY <3>1
    <3> QED  BY <3>4, <3>5
  <2>3. \A n \in 0 .. m : n \in T
    <3>1. m \in Nat
      OBVIOUS
    <3> HIDE DEF m, T
    <3> QED  BY <2>1, <2>2, <3>1, BoundedInduction
  <2>4. ASSUME NEW first \in from .. last + 1 PROVE Value(w, first, last) \in Int
    <3>1. last + 1 - first \in 0 .. m /\ last + 1 - (last + 1 - first) = first
      OBVIOUS
    <3> QED  BY <2>3, <3>1
  <2> QED  BY <2>4
<1>2. PICK V \in Int : V = Value(w, mid, to)
  BY <1>1
<1> DEFINE m == mid - from
           T == {n \in 0 .. m : Value(w, mid - n, to) = Value(w, mid - n, mid - 1) + Weight[n] * V}
<1>3. 0 \in T
  <2>1. Value(w, mid, mid - 1) = 0
    BY ValueEmpty
  <2>2. mid - 0 = mid /\ 0 \in 0 .. m
    OBVIOUS
  <2>3. Value(w, mid, to) = Value(w, mid, mid - 1) + Weight[0] * V
    BY <1>0, <1>2, <2>1
  <2> QED  BY <2>2, <2>3
<1>4. ASSUME NEW n \in 0 .. m - 1, n \in T PROVE n + 1 \in T
  <2>1. PICK k \in from .. mid - 1 : k = mid - (n + 1)
    OBVIOUS
  <2>2. k + 1 = mid - n /\ k \in Int /\ k <= to /\ k <= mid - 1 /\ mid - 1 \in Int
    BY <2>1
  <2>3. /\ Value(w, k, to) = w[k] + B * Value(w, k + 1, to)
        /\ Value(w, k, mid - 1) = w[k] + B * Value(w, k + 1, mid - 1)
    BY <2>2, ValueStep
  <2>4. Value(w, k + 1, to) = Value(w, k + 1, mid - 1) + Weight[n] * V
    BY <1>4, <2>2
  <2>5. Weight[n + 1] = B * Weight[n] /\ Weight[n] \in Int
    <3>1. n \in 0 .. 2 * N + 1
      BY <1>0
    <3> QED  BY <1>0, <3>1
  <2>6. /\ Value(w, k + 1, mid - 1) \in Int /\ w[k] \in Int
    BY <1>1, <2>2
  <2>7. Value(w, k, to) = Value(w, k, mid - 1) + Weight[n + 1] * V
    <3>1. PICK a \in Int, b \in Int, c \in Int :
             a = w[k] /\ b = Value(w, k + 1, mid - 1) /\ c = Weight[n]
      BY <2>5, <2>6
    <3>2. a + B * (b + c * V) = (a + B * b) + (B * c) * V
      BY <1>0
    <3> QED  BY <2>3, <2>4, <2>5, <3>1, <3>2
  <2> QED  BY <2>1, <2>7
<1>5. \A n \in 0 .. m : n \in T
  <2>1. m \in Nat
    OBVIOUS
  <2> HIDE DEF m, T
  <2> QED  BY <1>3, <1>4, <2>1, BoundedInduction
<1>6. Value(w, from, to) = Value(w, from, mid - 1) + Weight[mid - from] * V
  <2>1. mid - from \in 0 .. m /\ mid - (mid - from) = from
    OBVIOUS
  <2> QED  BY <1>5, <2>1
<1>7. Value(w, from, to) \in Int /\ Value(w, from, mid - 1) \in Int
  <2>1. from \in from .. to + 1 /\ from \in from .. (mid - 1) + 1 /\ mid - 1 \in Int /\ mid - 1 <= to
    OBVIOUS
  <2> QED  BY <1>1, <2>1
<1> QED  BY <1>2, <1>6, <1>7

(* One byte more at the top. *)
LEMMA ValueTop ==
  ASSUME RadixFits, NEW w, NEW n \in 0 .. 2 * N, \A k \in 0 .. n : w[k] \in Int
  PROVE  /\ Value(w, 0, n) \in Int /\ Value(w, 0, n - 1) \in Int
         /\ Value(w, 0, n) = Value(w, 0, n - 1) + Weight[n] * w[n]
<1>0. N \in Nat /\ B \in Int /\ n \in Int
  BY Radix
<1>1. /\ Value(w, 0, n) \in Int /\ Value(w, 0, n - 1) \in Int
      /\ Value(w, 0, n) = Value(w, 0, n - 1) + Weight[n - 0] * Value(w, n, n)
  <2>1. 0 \in Int /\ n \in 0 .. n + 1 /\ n - 0 <= 2 * N + 2
    BY <1>0
  <2> QED  BY <1>0, <2>1, ValueSplit
<1>2. Value(w, n, n) = w[n]
  <2>1. Value(w, n, n) = w[n] + B * Value(w, n + 1, n)
    BY <1>0, ValueStep
  <2>2. Value(w, n + 1, (n + 1) - 1) = 0
    BY <1>0, ValueEmpty
  <2>3. (n + 1) - 1 = n
    BY <1>0
  <2> QED  BY <1>0, <2>1, <2>2, <2>3
<1>3. n - 0 = n
  BY <1>0
<1> QED  BY <1>1, <1>2, <1>3

(* A byte that is overwritten changes the number by its weight. *)
LEMMA ValueUpdate ==
  ASSUME RadixFits, NEW last \in 0 .. 2 * N - 1, NEW w \in [0 .. last -> Int],
         NEW y \in 0 .. last, NEW b \in Int
  PROVE  Value([w EXCEPT ![y] = b], 0, last) = Value(w, 0, last) + Weight[y] * (b - w[y])
<1>0. N \in Nat /\ B \in Int /\ y \in Int /\ last \in Int /\ Weight[y] \in Int
  BY Radix
<1> DEFINE u == [w EXCEPT ![y] = b]
<1>1. u \in [0 .. last -> Int] /\ u[y] = b /\ \A k \in 0 .. last : k # y => u[k] = w[k]
  OBVIOUS
<1> HIDE DEF u
<1>2. ASSUME NEW f \in [0 .. last -> Int]
      PROVE  /\ Value(f, 0, y - 1) \in Int /\ Value(f, y + 1, last) \in Int
             /\ Value(f, 0, last)
                  = Value(f, 0, y - 1) + Weight[y] * (f[y] + B * Value(f, y + 1, last))
  <2>1. /\ 0 \in Int /\ y \in 0 .. last + 1 /\ y - 0 <= 2 * N + 2 /\ y - 0 = y
        /\ \A k \in 0 .. last : f[k] \in Int
    BY <1>0
  <2>2. /\ Value(f, 0, y - 1) \in Int
        /\ Value(f, 0, last) = Value(f, 0, y - 1) + Weight[y - 0] * Value(f, y, last)
    BY <1>0, <2>1, ValueSplit
  <2>3. Value(f, y, last) = f[y] + B * Value(f, y + 1, last)
    <3>1. y <= last
      OBVIOUS
    <3> QED  BY <1>0, <3>1, ValueStep
  <2>4. Value(f, y + 1, last) \in Int
    <3>1. /\ y + 1 \in 0 .. last + 1 /\ (y + 1) - 0 <= 2 * N + 2
      BY <1>0
    <3> QED  BY <1>0, <2>1, <3>1, ValueSplit
  <2> QED  BY <2>1, <2>2, <2>3, <2>4
<1>3. Value(u, 0, y - 1) = Value(w, 0, y - 1)
  <2>1. 0 \in Int /\ y - 1 \in Int /\ 0 <= (y - 1) + 1 /\ \A k \in 0 .. y - 1 : u[k] = w[k]
    BY <1>0, <1>1
  <2> QED  BY <2>1, ValueSame
<1>4. Value(u, y + 1, last) = Value(w, y + 1, last)
  <2>1. y + 1 \in Int /\ y + 1 <= last + 1 /\ \A k \in y + 1 .. last : u[k] = w[k]
    BY <1>0, <1>1
  <2> QED  BY <1>0, <2>1, ValueSame
<1>5. PICK a \in Int, c \in Int, d \in Int, t \in Int :
         /\ a = Value(w, 0, y - 1) /\ c = Value(w, y + 1, last)
         /\ d = w[y] /\ t = Weight[y]
  BY <1>0, <1>2
<1>6. Value(u, 0, last) = a + t * (b + B * c)
  BY <1>1, <1>2, <1>3, <1>4, <1>5
<1>7. Value(w, 0, last) = a + t * (d + B * c)
  BY <1>2, <1>5
<1>8. a + t * (b + B * c) = (a + t * (d + B * c)) + t * (b - d)
  BY <1>0
<1> QED  BY <1>5, <1>6, <1>7, <1>8 DEF u

(* Bytes make a number below the weight of the byte after them. *)
LEMMA ValueBound ==
  ASSUME RadixFits, NEW w, NEW n \in 0 .. 2 * N, \A k \in 0 .. n - 1 : w[k] \in Byte
  PROVE  Value(w, 0, n - 1) \in 0 .. Weight[n] - 1
<1>0. /\ N \in Nat /\ B \in Nat \ {0} /\ Weight[0] = 1
      /\ \A k \in 0 .. 2 * N + 1 : Weight[k + 1] = B * Weight[k]
      /\ \A k \in 0 .. 2 * N + 2 : Weight[k] \in Nat \ {0}
  BY Radix
<1> DEFINE T == {m \in 0 .. n : Value(w, 0, m - 1) \in 0 .. Weight[m] - 1}
<1>1. 0 \in T
  <2>1. Value(w, 0, 0 - 1) = 0
    BY ValueEmpty
  <2> QED  BY <1>0, <2>1
<1>2. ASSUME NEW m \in 0 .. n - 1, m \in T PROVE m + 1 \in T
  <2>1. m \in 0 .. 2 * N /\ m \in 0 .. 2 * N + 1 /\ (m + 1) - 1 = m
    BY <1>0
  <2>2. \A k \in 0 .. m : w[k] \in Int
    BY <1>0 DEF Byte
  <2>3. Value(w, 0, m) = Value(w, 0, m - 1) + Weight[m] * w[m]
    BY <2>1, <2>2, ValueTop
  <2>4. PICK a \in Int, t \in Int, x \in Int :
           a = Value(w, 0, m - 1) /\ t = Weight[m] /\ x = w[m]
    BY <1>0, <1>2, <2>1, <2>2
  <2>5. 0 <= a /\ a < t /\ 0 <= x /\ x <= B - 1 /\ Weight[m + 1] = B * t
    BY <1>0, <1>2, <2>1, <2>4 DEF Byte
  <2>6. t * x >= 0 /\ t * x <= t * (B - 1)
    BY <1>0, <2>5
  <2>7. a + t * x \in 0 .. B * t - 1
    BY <1>0, <2>5, <2>6
  <2> QED  BY <1>0, <2>1, <2>3, <2>4, <2>5, <2>7
<1>3. \A m \in 0 .. n : m \in T
  <2>1. n \in Nat
    BY <1>0
  <2> HIDE DEF T
  <2> QED  BY <1>1, <1>2, <2>1, BoundedInduction
<1> QED  BY <1>0, <1>3

(* The digits of a number make it up again. *)
LEMMA DivDiv ==
  ASSUME NEW a \in Nat, NEW m \in Nat \ {0}, NEW n \in Nat \ {0}
  PROVE  a \div (n * m) = (a \div m) \div n
<1> DEFINE q == a \div m  r == a % m  s == q \div n  t == q % n
<1>1. /\ q \in Int /\ r \in 0 .. m - 1 /\ a = m * q + r
  BY DivMod
<1>2. /\ s \in Int /\ t \in 0 .. n - 1 /\ q = n * s + t
  <2> HIDE DEF q
  <2> QED  BY <1>1, DivMod DEF q
<1> HIDE DEF q, r, s, t
<1> DEFINE k == n * m  u == m * t + r
<1>3. m * t \in Int /\ m * t >= 0 /\ m * t <= m * (n - 1)
  BY <1>2
<1>4. u \in 0 .. k - 1
  BY <1>1, <1>3
<1>5. a = k * s + u
  <2>1. a = m * (n * s + t) + r
    BY <1>1, <1>2
  <2>2. m * (n * s + t) = (n * m) * s + m * t
    BY <1>2
  <2> QED  BY <1>1, <1>2, <2>1, <2>2
<1>6. k \in Nat \ {0}
  OBVIOUS
<1> HIDE DEF k, u
<1>7. (k * s + u) \div k = s
  BY <1>2, <1>4, <1>6, DivModUnique
<1> QED  BY <1>5, <1>7 DEF k, s, q

LEMMA ValueOfDigits ==
  ASSUME RadixFits, NEW v \in 0 .. R - 1, NEW w,
         \A k \in 0 .. N - 1 : w[k] = (v \div Weight[k]) % B
  PROVE  Value(w, 0, N - 1) = v
<1>0. /\ N \in Nat \ {0} /\ B \in Nat \ {0} /\ Weight[0] = 1 /\ Weight[N] = R
      /\ \A k \in 0 .. 2 * N + 1 : Weight[k + 1] = B * Weight[k]
      /\ \A k \in 0 .. 2 * N + 2 : Weight[k] \in Nat \ {0}
      /\ R \in Nat \ {0} /\ v \in Nat
  BY Radix, Constants
<1> DEFINE u == [k \in 0 .. N |-> v \div Weight[k]]
<1>1. u[N] = 0
  BY <1>0, ModSmall
<1>2. ASSUME NEW k \in 0 .. N - 1 PROVE u[k] = w[k] + B * u[k + 1]
  <2>0. k \in 0 .. 2 * N + 1 /\ k \in 0 .. 2 * N + 2 /\ k \in 0 .. N /\ k + 1 \in 0 .. N
    BY <1>0
  <2>1. PICK m \in Nat \ {0} : m = Weight[k] /\ Weight[k + 1] = B * m
    BY <1>0, <2>0
  <2>2. B \in Nat \ {0} /\ v \in Nat /\ v \in Int
    BY <1>0
  <2>3. v \div (B * m) = (v \div m) \div B
    BY <2>2, DivDiv
  <2>4. v \div m \in Int
    BY <2>2, DivMod
  <2>5. PICK q \in Int : q = v \div m
    BY <2>4
  <2>6. q = B * (q \div B) + (q % B)
    BY <2>2, DivMod
  <2>7. q \div B \in Int /\ q % B \in Int
    BY <2>2, DivMod
  <2>8. u[k] = q
    BY <2>0, <2>1, <2>5
  <2>9. u[k + 1] = q \div B
    BY <2>0, <2>1, <2>3, <2>5
  <2>10. w[k] = q % B
    BY <2>1, <2>5
  <2>11. B * (q \div B) + (q % B) = (q % B) + B * (q \div B)
    BY <2>2, <2>7
  <2> QED  BY <2>6, <2>8, <2>9, <2>10, <2>11
<1>3. u[0] = v
  BY <1>0
<1> HIDE DEF u
<1>4. /\ 0 \in Int /\ N - 1 \in Int /\ 0 <= (N - 1) + 1 /\ (N - 1) + 1 = N
      /\ 0 \in 0 .. (N - 1) + 1
  BY <1>0
<1>5. Solution(u, w, 0, N - 1)
  BY <1>1, <1>2, <1>4 DEF Solution
<1>6. u[0] = Value(w, 0, N - 1)
  BY <1>4, <1>5, ValueSolved
<1> QED  BY <1>3, <1>6

(***************************************************************************)
(* Weights multiply as powers do.                                           *)
(***************************************************************************)
LEMMA WeightAdd ==
  ASSUME RadixFits, NEW m \in Nat, NEW n \in Nat, m + n <= 2 * N + 2
  PROVE  Weight[m + n] = Weight[m] * Weight[n]
<1>0. /\ N \in Nat /\ B \in Int /\ Weight[0] = 1
      /\ \A k \in 0 .. 2 * N + 1 : Weight[k + 1] = B * Weight[k]
      /\ \A k \in 0 .. 2 * N + 2 : Weight[k] \in Nat \ {0}
  BY Radix
<1>1. PICK t \in Int : t = Weight[m]
  <2>1. m \in 0 .. 2 * N + 2
    BY <1>0
  <2> QED  BY <1>0, <2>1
<1> DEFINE T == {k \in 0 .. n : Weight[m + k] = t * Weight[k]}
<1>2. 0 \in T
  BY <1>0, <1>1
<1>3. ASSUME NEW k \in 0 .. n - 1, k \in T PROVE k + 1 \in T
  <2>1. k \in 0 .. 2 * N + 1 /\ m + k \in 0 .. 2 * N + 1 /\ k \in 0 .. 2 * N + 2
    BY <1>0
  <2>2. PICK u \in Int : u = Weight[k]
    BY <1>0, <2>1
  <2>3. Weight[k + 1] = B * u /\ Weight[(m + k) + 1] = B * (t * u)
    BY <1>0, <1>3, <2>1, <2>2
  <2>4. B * (t * u) = t * (B * u) /\ (m + k) + 1 = m + (k + 1) /\ k + 1 \in 0 .. n
    BY <1>0
  <2> QED  BY <2>3, <2>4
<1>4. \A k \in 0 .. n : k \in T
  <2> HIDE DEF T
  <2> QED  BY <1>2, <1>3, BoundedInduction
<1> QED  BY <1>1, <1>4

(***************************************************************************)
(* Buffers of 2N bytes: cleared, or with a few bytes stored.                *)
(***************************************************************************)
Wide == [0 .. 2 * N - 1 -> Byte]

LEMMA WideInts ==
  ASSUME RadixFits, NEW w \in Wide
  PROVE  /\ w \in [0 .. 2 * N - 1 -> Int]
         /\ \A k \in 0 .. 2 * N - 1 : w[k] \in Byte /\ w[k] \in Int
<1>1. \A k \in 0 .. 2 * N - 1 : w[k] \in Byte
  BY DEF Wide
<1>2. \A k \in 0 .. 2 * N - 1 : w[k] \in Int
  BY <1>1, Radix DEF Byte
<1>3. w = [k \in 0 .. 2 * N - 1 |-> w[k]]
  BY DEF Wide
<1> QED  BY <1>1, <1>2, <1>3

LEMMA ValueZero ==
  ASSUME RadixFits, NEW w, NEW n \in 0 .. 2 * N, \A k \in 0 .. n - 1 : w[k] = 0
  PROVE  Value(w, 0, n - 1) = 0
<1>0. /\ N \in Nat /\ n \in Nat
      /\ \A k \in 0 .. 2 * N + 2 : Weight[k] \in Nat \ {0}
  BY Radix
<1> DEFINE T == {m \in 0 .. n : Value(w, 0, m - 1) = 0}
<1>1. 0 \in T
  <2>1. Value(w, 0, 0 - 1) = 0
    BY ValueEmpty
  <2> QED  BY <1>0, <2>1
<1>2. ASSUME NEW m \in 0 .. n - 1, m \in T PROVE m + 1 \in T
  <2>1. /\ m \in 0 .. 2 * N /\ m \in 0 .. 2 * N + 2 /\ (m + 1) - 1 = m /\ m + 1 \in 0 .. n
        /\ \A k \in 0 .. m : w[k] = 0
    BY <1>0
  <2>2. \A k \in 0 .. m : w[k] \in Int
    BY <2>1
  <2>3. Value(w, 0, m) = Value(w, 0, m - 1) + Weight[m] * w[m]
    BY <2>1, <2>2, ValueTop
  <2>4. Value(w, 0, m) = 0
    BY <1>0, <1>2, <2>1, <2>3
  <2> QED  BY <2>1, <2>4
<1>3. \A m \in 0 .. n : m \in T
  <2> HIDE DEF T
  <2> QED  BY <1>0, <1>1, <1>2, BoundedInduction
<1> QED  BY <1>0, <1>3

(* A byte, two or three. *)
LEMMA ByteStored ==
  ASSUME RadixFits, NEW w \in Wide, NEW last \in 0 .. 2 * N - 1, NEW k \in 0 .. 2 * N - 1,
         NEW b \in Byte
  PROVE  /\ [w EXCEPT ![k] = b] \in Wide
         /\ Value([w EXCEPT ![k] = b], 0, last)
              = IF k <= last THEN Value(w, 0, last) + Weight[k] * (b - w[k]) ELSE Value(w, 0, last)
<1> DEFINE u == [w EXCEPT ![k] = b]
<1>1. u \in Wide
  BY DEF Wide
<1>2. CASE k <= last
  <2> DEFINE f == [n \in 0 .. last |-> w[n]]
             g == [f EXCEPT ![k] = b]
  <2>1. last \in Int /\ k \in Int /\ 0 \in Int /\ k \in 0 .. last /\ b \in Int /\ 0 <= last + 1
    BY <1>2, Radix DEF Byte
  <2>2. \A n \in 0 .. last : n \in 0 .. 2 * N - 1
    BY Radix
  <2>3. f \in [0 .. last -> Int]
    BY <2>2, WideInts
  <2>4. Value(g, 0, last) = Value(f, 0, last) + Weight[k] * (b - f[k])
    <3> HIDE DEF f
    <3> QED  BY <2>1, <2>3, ValueUpdate
  <2>5. \A n \in 0 .. last : f[n] = w[n] /\ g[n] = u[n]
    BY <2>1, <2>2 DEF Wide
  <2>6. Value(f, 0, last) = Value(w, 0, last)
    <3> HIDE DEF f
    <3> QED  BY <2>1, <2>5, ValueSame
  <2>7. Value(g, 0, last) = Value(u, 0, last)
    <3> HIDE DEF f, g, u
    <3> QED  BY <2>1, <2>5, ValueSame
  <2> QED  BY <1>1, <1>2, <2>1, <2>4, <2>5, <2>6, <2>7
<1>3. CASE ~(k <= last)
  <2>1. 0 \in Int /\ last \in Int /\ 0 <= last + 1 /\ \A n \in 0 .. last : u[n] = w[n]
    BY <1>3, Radix DEF Wide
  <2>2. Value(u, 0, last) = Value(w, 0, last)
    <3> HIDE DEF u
    <3> QED  BY <2>1, ValueSame
  <2> QED  BY <1>1, <1>3, <2>2
<1> QED  BY <1>2, <1>3


(***************************************************************************)
(* The carry ripple.  Its recursion runs upwards, as that of the weights    *)
(* does.                                                                    *)
(***************************************************************************)
CarryFunction(c, w, from, last, v) ==
  c = [k \in from .. last |-> IF k = from THEN v ELSE (w[k - 1] + c[k - 1]) \div B]

LEMMA CarriesExist ==
  ASSUME NEW w, NEW v, NEW from \in Int, NEW m \in Nat
  PROVE  \E c : CarryFunction(c, w, from, from + m, v)
<1> DEFINE T == {n \in Nat : \E c : CarryFunction(c, w, from, from + n, v)}
<1>1. 0 \in T
  <2> DEFINE c == [k \in from .. from + 0 |-> v]
  <2>1. \A k \in from .. from + 0 : k = from
    OBVIOUS
  <2>2. CarryFunction(c, w, from, from + 0, v)
    BY <2>1 DEF CarryFunction
  <2> HIDE DEF c
  <2> QED  BY <2>2
<1>2. ASSUME NEW n \in T PROVE n + 1 \in T
  <2>1. PICK c : CarryFunction(c, w, from, from + n, v)
    OBVIOUS
  <2> DEFINE top == from + (n + 1)
             d == [k \in from .. top |-> IF k = top THEN (w[k - 1] + c[k - 1]) \div B ELSE c[k]]
  <2>2. ASSUME NEW k \in from .. top
        PROVE  d[k] = IF k = from THEN v ELSE (w[k - 1] + d[k - 1]) \div B
    <3>1. CASE k = top
      BY <3>1
    <3>2. CASE k \in from .. from + n
      <4>1. c[k] = IF k = from THEN v ELSE (w[k - 1] + c[k - 1]) \div B
        BY <2>1, <3>2 DEF CarryFunction
      <4> QED  BY <3>2, <4>1
    <3> QED  BY <3>1, <3>2
  <2>3. CarryFunction(d, w, from, top, v)
    BY <2>2 DEF CarryFunction
  <2> HIDE DEF d
  <2>4. n + 1 \in Nat
    OBVIOUS
  <2> QED  BY <2>3, <2>4
<1>3. T = Nat
  <2> HIDE DEF T
  <2>1. T \in SUBSET Nat
    BY DEF T
  <2> QED  BY <1>1, <1>2, <2>1, SetInduction
<1> QED  BY <1>3

LEMMA CarriesDef ==
  ASSUME N \in Nat, NEW w, NEW v, NEW from \in 0 .. 2 * N
  PROVE  /\ Carries(w, from, v)[from] = v
         /\ \A k \in from .. 2 * N - 1 :
              Carries(w, from, v)[k + 1] = (w[k] + Carries(w, from, v)[k]) \div B
<1> DEFINE c == CHOOSE d : CarryFunction(d, w, from, 2 * N, v)
<1>1. \E d : CarryFunction(d, w, from, 2 * N, v)
  <2>1. 2 * N - from \in Nat /\ from + (2 * N - from) = 2 * N /\ from \in Int
    OBVIOUS
  <2>2. \E d : CarryFunction(d, w, from, from + (2 * N - from), v)
    BY <2>1, CarriesExist
  <2> QED  BY <2>1, <2>2
<1>2. CarryFunction(c, w, from, 2 * N, v)
  BY <1>1
<1>3. Carries(w, from, v) = c
  BY DEF Carries, CarryFunction
<1>4. \A k \in from .. 2 * N : c[k] = IF k = from THEN v ELSE (w[k - 1] + c[k - 1]) \div B
  BY <1>2 DEF CarryFunction
<1> HIDE DEF c
<1>5. ASSUME NEW k \in from .. 2 * N - 1 PROVE c[k + 1] = (w[k] + c[k]) \div B
  <2>1. k + 1 \in from .. 2 * N /\ k + 1 # from /\ (k + 1) - 1 = k
    OBVIOUS
  <2> QED  BY <1>4, <2>1
<1>6. from \in from .. 2 * N
  OBVIOUS
<1>7. c[from] = v
  BY <1>4, <1>6
<1> QED  BY <1>3, <1>5, <1>7

LEMMA NatDivides ==
  ASSUME NEW n \in Nat \ {0}, NEW a \in Nat
  PROVE  /\ a \div n \in Nat /\ a % n \in 0 .. n - 1 /\ a = n * (a \div n) + (a % n)
         /\ \A q \in Nat : a < n * (q + 1) => a \div n <= q
<1>1. PICK q \in Int, r \in 0 .. n - 1 : a \div n = q /\ a % n = r /\ a = n * q + r
  BY DivMod
<1>2. ASSUME q < 0 PROVE FALSE
  <2>1. PICK d \in Nat : q = -1 - d
    BY <1>2
  <2>2. n * q = -n - n * d /\ n * d \in Nat
    BY <2>1
  <2> QED  BY <1>1, <2>2
<1>3. ASSUME NEW p \in Nat, a < n * (p + 1), p < q PROVE FALSE
  <2>1. PICK d \in Nat : q = (p + 1) + d
    BY <1>3
  <2>2. n * q = n * (p + 1) + n * d /\ n * d \in Nat /\ n * (p + 1) \in Nat
    BY <2>1
  <2> QED  BY <1>1, <1>3, <2>2
<1>4. q \in Nat
  BY <1>2
<1> QED  BY <1>1, <1>3, <1>4

(* A carry is a number, and one bit when what comes in is one. *)
LEMMA CarriesNat ==
  ASSUME RadixFits, NEW w \in Wide, NEW v \in Nat, NEW from \in 0 .. 2 * N
  PROVE  /\ \A k \in from .. 2 * N : Carries(w, from, v)[k] \in Nat
         /\ v <= 1 => \A k \in from .. 2 * N : Carries(w, from, v)[k] \in {0, 1}
<1> DEFINE m == 2 * N - from
           c == Carries(w, from, v)
           T == {n \in 0 .. m : c[from + n] \in Nat /\ (v <= 1 => c[from + n] \in {0, 1})}
<1>1. /\ N \in Nat /\ B \in Nat \ {0} /\ m \in Nat /\ from + 0 = from
  BY Radix
<1>2. /\ c[from] = v
      /\ \A k \in from .. 2 * N - 1 : c[k + 1] = (w[k] + c[k]) \div B
  BY <1>1, CarriesDef
<1> HIDE DEF c
<1>3. 0 \in T
  BY <1>1, <1>2
<1>4. ASSUME NEW n \in 0 .. m - 1, n \in T PROVE n + 1 \in T
  <2>1. /\ from + n \in from .. 2 * N - 1 /\ from + n \in 0 .. 2 * N - 1
        /\ from + (n + 1) = (from + n) + 1 /\ n + 1 \in 0 .. m
    BY <1>1
  <2>2. PICK a \in Byte, d \in Nat : a = w[from + n] /\ d = c[from + n] /\ (v <= 1 => d <= 1)
    BY <1>4, <2>1, WideInts
  <2>3. a \in Nat /\ a + d \in Nat /\ (d <= 1 => a + d < B * (1 + 1))
    BY <1>1 DEF Byte
  <2>4. (a + d) \div B \in Nat /\ (d <= 1 => (a + d) \div B <= 1)
    BY <1>1, <2>3, NatDivides
  <2>5. c[from + (n + 1)] = (a + d) \div B
    BY <1>2, <2>1, <2>2
  <2> QED  BY <2>1, <2>2, <2>4, <2>5
<1>5. \A n \in 0 .. m : n \in T
  <2> HIDE DEF m, T
  <2> QED  BY <1>1, <1>3, <1>4, BoundedInduction
<1>6. \A k \in from .. 2 * N : k - from \in 0 .. m /\ from + (k - from) = k
  BY <1>1
<1>7. \A k \in from .. 2 * N : c[k] \in Nat /\ (v <= 1 => c[k] \in {0, 1})
  BY <1>5, <1>6
<1> QED  BY <1>7 DEF c

LEMMA CarryStep ==
  ASSUME NEW b \in Int, NEW t \in Int, NEW m \in Int, NEW q \in Int, NEW r \in Int,
         m = b * q + r
  PROVE  t * r + q * (b * t) = t * m
<1>1. PICK e \in Int : e = b * q
  OBVIOUS
<1>2. r = m - e
  BY <1>1
<1>3. t * (m - e) = t * m - t * e
  BY <1>1
<1>4. t * (b * q) = q * (b * t)
  OBVIOUS
<1>5. t * e = q * (b * t)
  BY <1>1, <1>4
<1>6. t * m \in Int /\ t * e \in Int
  BY <1>1
<1> QED  BY <1>2, <1>3, <1>5, <1>6

(***************************************************************************)
(* What a ripple is: the addition of v at byte `from`, up to the carry that *)
(* leaves byte `to`.                                                        *)
(***************************************************************************)
LEMMA RippleExact ==
  ASSUME RadixFits, NEW w \in Wide, NEW v \in Nat, NEW from \in 0 .. 2 * N - 1,
         NEW to \in 0 .. 2 * N - 1, from <= to + 1
  PROVE  /\ Rippled(w, from, to, v) \in Wide
         /\ \A k \in 0 .. 2 * N - 1 : k \notin from .. to => Rippled(w, from, to, v)[k] = w[k]
         /\ Value(Rippled(w, from, to, v), 0, to) + Carries(w, from, v)[to + 1] * Weight[to + 1]
              = Value(w, 0, to) + v * Weight[from]
<1> DEFINE c == Carries(w, from, v)
           r == Rippled(w, from, to, v)
           m == to + 1 - from
           T == {n \in 0 .. m : Value(r, 0, (from + n) - 1) + c[from + n] * Weight[from + n]
                                  = Value(w, 0, (from + n) - 1) + v * Weight[from]}
<1>0. /\ N \in Nat /\ B \in Nat \ {0} /\ m \in Nat /\ from + 0 = from /\ from + m = to + 1
      /\ from \in 0 .. 2 * N /\ from \in Int /\ 0 \in Int
      /\ \A k \in 0 .. 2 * N + 1 : Weight[k + 1] = B * Weight[k]
      /\ \A k \in 0 .. 2 * N + 2 : Weight[k] \in Nat \ {0}
  BY Radix
<1>1. /\ c[from] = v
      /\ \A k \in from .. 2 * N - 1 : c[k + 1] = (w[k] + c[k]) \div B
  BY <1>0, CarriesDef
<1>2. \A k \in from .. 2 * N : c[k] \in Nat
  BY <1>0, CarriesNat
<1>3. r = [k \in 0 .. 2 * N - 1 |-> IF k \in from .. to THEN (w[k] + c[k]) % B ELSE w[k]]
  BY DEF Rippled, Wide
<1> HIDE DEF c, r
<1>4. \A k \in 0 .. 2 * N - 1 : w[k] \in Byte /\ w[k] \in Nat
  BY <1>0, WideInts DEF Byte
<1>5. ASSUME NEW k \in 0 .. 2 * N - 1 PROVE r[k] \in Byte
  <2>1. CASE k \in from .. to
    <3>1. k \in from .. 2 * N
      BY <1>0, <2>1
    <3>2. PICK s \in Nat : s = w[k] + c[k]
      BY <1>2, <1>4, <3>1
    <3>3. s % B \in 0 .. B - 1
      BY <1>0, NatDivides
    <3> QED  BY <1>3, <2>1, <3>2, <3>3 DEF Byte
  <2> QED  BY <1>3, <1>4, <2>1
<1>6. r \in Wide
  BY <1>3, <1>5 DEF Wide
<1>7. \A k \in 0 .. 2 * N - 1 : k \notin from .. to => r[k] = w[k]
  BY <1>3
<1>8. 0 \in T
  <2>1. \A k \in 0 .. from - 1 : k \in 0 .. 2 * N - 1 /\ k \notin from .. to
    BY <1>0
  <2>2. \A k \in 0 .. from - 1 : r[k] = w[k]
    BY <1>7, <2>1
  <2>3. from - 1 \in Int /\ 0 <= (from - 1) + 1
    BY <1>0
  <2>4. Value(r, 0, from - 1) = Value(w, 0, from - 1)
    BY <1>0, <2>2, <2>3, ValueSame
  <2> QED  BY <1>0, <1>1, <2>4
<1>9. ASSUME NEW n \in 0 .. m - 1, n \in T PROVE n + 1 \in T
  <2> DEFINE k == from + n
  <2>1. /\ k \in from .. to /\ k \in from .. 2 * N - 1 /\ k \in from .. 2 * N
        /\ k \in 0 .. 2 * N - 1 /\ k \in 0 .. 2 * N /\ k \in 0 .. 2 * N + 1 /\ k \in 0 .. 2 * N + 2
        /\ from + (n + 1) = k + 1 /\ (k + 1) - 1 = k /\ n + 1 \in 0 .. m
        /\ \A j \in 0 .. k : j \in 0 .. 2 * N - 1
    BY <1>0
  <2>2. /\ \A j \in 0 .. k : r[j] \in Int
        /\ \A j \in 0 .. k : w[j] \in Int
    BY <1>6, <2>1, WideInts
  <2>3. Value(r, 0, k - 1) + c[k] * Weight[k] = Value(w, 0, k - 1) + v * Weight[from]
    BY <1>9
  <2> HIDE DEF k
  <2>4. /\ Value(r, 0, k - 1) \in Int /\ Value(r, 0, k) = Value(r, 0, k - 1) + Weight[k] * r[k]
        /\ Value(w, 0, k - 1) \in Int /\ Value(w, 0, k) = Value(w, 0, k - 1) + Weight[k] * w[k]
    BY <2>1, <2>2, ValueTop
  <2>5. PICK t \in Int, a \in Nat, d \in Nat : t = Weight[k] /\ a = w[k] /\ d = c[k]
    BY <1>0, <1>2, <1>4, <2>1
  <2>6. PICK q \in Int, s \in Int : /\ q = (a + d) \div B /\ s = (a + d) % B
                                  /\ a + d = B * q + s
    <3>1. PICK u \in Nat : u = a + d
      OBVIOUS
    <3>2. /\ u \div B \in Nat /\ u % B \in 0 .. B - 1 /\ u = B * (u \div B) + (u % B)
      BY <1>0, NatDivides
    <3>3. u \div B \in Int /\ u % B \in Int
      BY <1>0, <3>2
    <3> QED  BY <3>1, <3>2, <3>3
  <2>7. t * s + q * (B * t) = t * (a + d)
    <3>1. PICK u \in Int : u = a + d
      OBVIOUS
    <3>2. t \in Int /\ q \in Int /\ s \in Int /\ B \in Int /\ u = B * q + s
      BY <1>0, <2>6, <3>1
    <3>3. t * s + q * (B * t) = t * u
      BY <3>2, CarryStep
    <3> QED  BY <3>1, <3>3
  <2>8. t * (a + d) = t * a + d * t /\ t * a \in Int /\ d * t \in Int
    OBVIOUS
  <2>9. /\ r[k] = s /\ c[k + 1] = q /\ Weight[k + 1] = B * t
    BY <1>0, <1>1, <1>3, <2>1, <2>5, <2>6
  <2>10. PICK added \in Int : added = v * Weight[from]
    <3>1. from \in 0 .. 2 * N + 2
      BY <1>0
    <3> QED  BY <1>0, <3>1
  <2>11. t * s \in Int /\ q * (B * t) \in Int
    BY <1>0
  <2>12. PICK e \in Int, f \in Int, g \in Int, h \in Int :
           /\ e = t * s /\ f = q * (B * t) /\ g = t * a /\ h = d * t
    BY <2>8, <2>11
  <2>13. e + f = g + h
    BY <2>7, <2>8, <2>12
  <2>14. /\ Value(r, 0, k) = Value(r, 0, k - 1) + e
         /\ Value(w, 0, k) = Value(w, 0, k - 1) + g
         /\ c[k + 1] * Weight[k + 1] = f /\ c[k] * Weight[k] = h
    BY <2>4, <2>5, <2>9, <2>12
  <2>15. Value(r, 0, k) + c[k + 1] * Weight[k + 1] = Value(w, 0, k) + v * Weight[from]
    BY <2>3, <2>4, <2>10, <2>13, <2>14
  <2> QED  BY <2>1, <2>15
<1>10. \A n \in 0 .. m : n \in T
  <2> HIDE DEF m, T
  <2> QED  BY <1>0, <1>8, <1>9, BoundedInduction
<1>11. Value(r, 0, to) + c[to + 1] * Weight[to + 1] = Value(w, 0, to) + v * Weight[from]
  <2>1. m \in 0 .. m /\ (to + 1) - 1 = to
    BY <1>0
  <2>2. m \in T
    BY <1>10, <2>1
  <2>3. from + m = to + 1
    BY <1>0
  <2> QED  BY <2>1, <2>2, <2>3
<1> QED  BY <1>6, <1>7, <1>11 DEF c, r

\* As a buffer and the carry that leaves it.
Ripples(r, out, w, from, to, v) ==
  r = Rippled(w, from, to, v) /\ out = Carries(w, from, v)[to + 1]

LEMMA RippleStored ==
  ASSUME RadixFits, NEW w \in Wide, NEW v \in Nat, NEW from \in 0 .. 2 * N - 1,
         NEW to \in 0 .. 2 * N - 1, from <= to + 1, NEW r, NEW out,
         Ripples(r, out, w, from, to, v)
  PROVE  /\ r \in Wide
         /\ \A k \in 0 .. 2 * N - 1 : k \notin from .. to => r[k] = w[k]
         /\ out \in Nat /\ (v <= 1 => out \in {0, 1})
         /\ Value(r, 0, to) + out * Weight[to + 1] = Value(w, 0, to) + v * Weight[from]
<1>1. from \in 0 .. 2 * N /\ to + 1 \in from .. 2 * N
  BY Radix
<1>2. out \in Nat /\ (v <= 1 => out \in {0, 1})
  BY <1>1, CarriesNat DEF Ripples
<1>3. Rippled(w, from, to, v) \in Wide
  BY RippleExact
<1>4. \A k \in 0 .. 2 * N - 1 : k \notin from .. to => Rippled(w, from, to, v)[k] = w[k]
  BY RippleExact
<1>5. Value(Rippled(w, from, to, v), 0, to) + Carries(w, from, v)[to + 1] * Weight[to + 1]
              = Value(w, 0, to) + v * Weight[from]
  BY RippleExact
<1> QED  BY <1>2, <1>3, <1>4, <1>5 DEF Ripples

(***************************************************************************)
(* The number the bytes below k make up.                                    *)
(***************************************************************************)
Low(f, k) == Value(f, 0, k - 1)

Bytes == 0 .. N - 1

(* The size of the instance, and what a byte counts for. *)
LEMMA Sizes ==
  ASSUME RadixFits
  PROVE  /\ B \in Nat \ {0} /\ B > 2 /\ N \in Nat \ {0} /\ R \in Nat \ {0}
         /\ Weight[0] = 1 /\ Weight[N] = R
         /\ \A k \in Bytes : Weight[k] \in Nat \ {0} /\ Weight[k + 1] = B * Weight[k]
         /\ \A k \in 0 .. N : Weight[k] \in Nat \ {0}
<1>1. /\ Bytes \subseteq 0 .. 2 * N + 1 /\ Bytes \subseteq 0 .. 2 * N + 2
      /\ 0 .. N \subseteq 0 .. 2 * N + 2
  BY DEF Bytes, RadixFits
<1> QED  BY <1>1, Radix, Constants

LEMMA LowEmpty ==
  ASSUME NEW f
  PROVE  Low(f, 0) = 0
<1>1. Value(f, 0, 0 - 1) = 0
  BY ValueEmpty
<1> QED  BY <1>1 DEF Low

LEMMA LowRange ==
  ASSUME RadixFits, NEW f \in Elements, NEW k \in 0 .. N
  PROVE  Low(f, k) \in 0 .. Weight[k] - 1
<1>1. k \in 0 .. 2 * N /\ \A n \in 0 .. k - 1 : f[n] \in Byte
  BY Sizes DEF Elements
<1> QED  BY <1>1, ValueBound DEF Low

LEMMA LowStep ==
  ASSUME RadixFits, NEW f \in Elements, NEW k \in Bytes
  PROVE  Low(f, k + 1) = Low(f, k) + Weight[k] * f[k]
<1>1. k \in 0 .. 2 * N /\ \A n \in 0 .. k : n \in 0 .. N - 1 /\ f[n] \in Int
  <2>1. k \in 0 .. 2 * N /\ \A n \in 0 .. k : n \in 0 .. N - 1
    BY Sizes DEF Bytes
  <2>2. \A n \in 0 .. N - 1 : f[n] \in Int
    BY Sizes DEF Elements, Byte
  <2> QED  BY <2>1, <2>2
<1>2. Value(f, 0, k) = Value(f, 0, k - 1) + Weight[k] * f[k]
  BY <1>1, ValueTop
<1>3. (k + 1) - 1 = k
  BY <1>1, Sizes
<1> QED  BY <1>2, <1>3 DEF Low

(* Only the bytes below k matter. *)
LEMMA LowSame ==
  ASSUME RadixFits, NEW f, NEW g, NEW k \in 0 .. N, \A n \in 0 .. k - 1 : f[n] = g[n]
  PROVE  Low(f, k) = Low(g, k)
<1>1. 0 \in Int /\ k - 1 \in Int /\ 0 <= (k - 1) + 1
  BY Sizes
<1> QED  BY <1>1, ValueSame DEF Low

===============================================================================
