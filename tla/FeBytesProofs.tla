----------------------------- MODULE FeBytesProofs -----------------------------
(***************************************************************************)
(* The byte loops of fe25519.s.  Part 1: the buffer fe_wide, what           *)
(* fe25519_mul and fe25519_sqr add up in it, and what fe_reduce_wide leaves *)
(* of it (modules WideProduct and WideSquare).  Part 2: the masked          *)
(* operations (module MaskedOps).  Part 3: fe25519_mul_a24 (module          *)
(* A24Product).  Part 4: fe25519_inv (module FeInv).  The lemmas about      *)
(* bytes, weights and the carry ripple are in FieldOpsProofs.               *)
(***************************************************************************)
EXTENDS WideSquare, MaskedOps, A24Product, FeInv, FieldOpsProofs

(***************************************************************************)
(* Bytes stored side by side.                                               *)
(***************************************************************************)
\* The two sums of a body.
Sums(low, high, w, k, k1, pl, ph) == low = w[k] + pl /\ high = w[k1] + ph + (low \div B)

Stored2(u, w, k, k1, m, n)        == u = [w EXCEPT ![k] = m, ![k1] = n]
Stored3(u, w, k, k1, k2, m, n, q) == u = [w EXCEPT ![k] = m, ![k1] = n, ![k2] = q]

LEMMA TwoStored ==
  ASSUME RadixFits, NEW w \in Wide, NEW last \in 0 .. 2 * N - 1, NEW k \in 0 .. last - 1,
         NEW m \in Byte, NEW n \in Byte, NEW k1 \in Int, k1 = k + 1,
         NEW u, Stored2(u, w, k, k1, m, n)
  PROVE  /\ u \in Wide
         /\ \A j \in 0 .. 2 * N - 1 : j # k /\ j # k1 => u[j] = w[j]
         /\ Value(u, 0, last)
              = Value(w, 0, last) + Weight[k] * (m - w[k]) + Weight[k1] * (n - w[k1])
<1> DEFINE f == [w EXCEPT ![k] = m]
<1>1. /\ N \in Nat \ {0} /\ k \in 0 .. 2 * N - 1 /\ k1 \in 0 .. 2 * N - 1 /\ k # k1
      /\ k <= last /\ k1 <= last
  BY Radix
<1>2. f \in Wide /\ Value(f, 0, last) = Value(w, 0, last) + Weight[k] * (m - w[k])
  BY <1>1, ByteStored
<1>3. /\ \A j \in 0 .. 2 * N - 1 : f[j] = IF j = k THEN m ELSE w[j]
      /\ u = [f EXCEPT ![k1] = n]
  BY DEF Wide, Stored2
<1> HIDE DEF f
<1>4. u \in Wide /\ Value(u, 0, last) = Value(f, 0, last) + Weight[k1] * (n - f[k1])
  BY <1>1, <1>2, <1>3, ByteStored
<1>5. \A j \in 0 .. 2 * N - 1 : j # k /\ j # k1 => u[j] = w[j]
  BY <1>2, <1>3 DEF Wide
<1>6. f[k1] = w[k1]
  BY <1>1, <1>3
<1>7. Value(u, 0, last)
        = Value(w, 0, last) + Weight[k] * (m - w[k]) + Weight[k1] * (n - w[k1])
  BY <1>2, <1>4, <1>6
<1> QED  BY <1>4, <1>5, <1>7

LEMMA ThreeStored ==
  ASSUME RadixFits, NEW w \in Wide, NEW last \in 0 .. 2 * N - 1, NEW k \in 0 .. last - 2,
         NEW m \in Byte, NEW n \in Byte, NEW q \in Byte, NEW k1 \in Int, k1 = k + 1,
         NEW k2 \in Int, k2 = k + 2, NEW u, Stored3(u, w, k, k1, k2, m, n, q)
  PROVE  /\ u \in Wide
         /\ Value(u, 0, last)
              = Value(w, 0, last) + Weight[k] * (m - w[k]) + Weight[k1] * (n - w[k1])
                  + Weight[k2] * (q - w[k2])
<1> DEFINE f == [w EXCEPT ![k] = m, ![k1] = n]
<1>1. /\ N \in Nat \ {0} /\ k \in 0 .. last - 1 /\ k2 \in 0 .. 2 * N - 1 /\ k2 # k /\ k2 # k1
      /\ k2 <= last
  BY Radix
<1>2. Stored2(f, w, k, k1, m, n)
  BY DEF Stored2
<1>3. u = [f EXCEPT ![k2] = q]
  BY DEF Stored3
<1> HIDE DEF f
<1>4. /\ f \in Wide
      /\ \A j \in 0 .. 2 * N - 1 : j # k /\ j # k1 => f[j] = w[j]
      /\ Value(f, 0, last)
              = Value(w, 0, last) + Weight[k] * (m - w[k]) + Weight[k1] * (n - w[k1])
  BY <1>1, <1>2, TwoStored
<1>5. u \in Wide /\ Value(u, 0, last) = Value(f, 0, last) + Weight[k2] * (q - f[k2])
  BY <1>1, <1>3, <1>4, ByteStored
<1>6. f[k2] = w[k2]
  BY <1>1, <1>4
<1> QED  BY <1>4, <1>5, <1>6

(***************************************************************************)
(* One body of the inner loop, in numbers: a product of two bytes added to  *)
(* two bytes of the buffer, and what goes to the third.                     *)
(***************************************************************************)
LEMMA ProductOfBytes ==
  ASSUME RadixFits, NEW m \in Byte, NEW n \in Byte
  PROVE  /\ m * n \in Nat
         /\ (m * n) % B \in Byte /\ (m * n) \div B \in 0 .. B - 2
         /\ m * n = B * ((m * n) \div B) + ((m * n) % B)
<1>1. B \in Nat \ {0} /\ B > 2 /\ m \in Nat /\ n \in Nat /\ m <= B - 1 /\ n <= B - 1
  BY Radix DEF Byte
<1>2. m * n \in Nat /\ m * n <= (B - 1) * (B - 1)
  <2>1. m * n <= m * (B - 1) /\ m * (B - 1) <= (B - 1) * (B - 1)
    BY <1>1
  <2> QED  BY <1>1, <2>1
<1>3. PICK p \in Nat : p = m * n
  BY <1>2
<1>4. p < B * ((B - 2) + 1) /\ B - 2 \in Nat
  <2>1. (B - 1) * (B - 1) = B * ((B - 2) + 1) - (B - 1)
    BY <1>1
  <2> QED  BY <1>1, <1>2, <1>3, <2>1
<1>5. p \div B \in Nat /\ p % B \in 0 .. B - 1 /\ p = B * (p \div B) + (p % B) /\ p \div B <= B - 2
  BY <1>1, <1>4, NatDivides
<1> QED  BY <1>1, <1>3, <1>5 DEF Byte

\* What leaves two bytes and what a third receives.
LEMMA OneCarry ==
  ASSUME RadixFits, NEW v \in Nat, v < B * 2
  PROVE  v \div B \in {0, 1} /\ v % B \in Byte /\ v = B * (v \div B) + (v % B)
<1>1. B \in Nat \ {0} /\ v < B * (1 + 1)
  BY Radix
<1>2. v \div B \in Nat /\ v \div B <= 1 /\ v % B \in 0 .. B - 1 /\ v = B * (v \div B) + (v % B)
  BY <1>1, NatDivides
<1> QED  BY <1>2 DEF Byte

LEMMA BodyWeight ==
  ASSUME NEW b \in Int, NEW t \in Int, NEW a \in Int, NEW d \in Int, NEW p \in Int,
         NEW ph \in Int, NEW pl \in Int, NEW l \in Int, NEW l0 \in Int, NEW h \in Int,
         NEW h0 \in Int,
         p = b * ph + pl, a + pl = b * l + l0, d + ph + l = b * h + h0
  PROVE  t * (l0 - a) + (b * t) * (h0 - d) + h * (b * (b * t)) = t * p
<1>1. PICK s \in Int, e \in Int, f \in Int, g \in Int :
         s = b * t /\ e = b * l /\ f = b * h /\ g = b * ph
  OBVIOUS
<1>2. l0 - a = pl - e /\ h0 - d = (ph + l) - f
  BY <1>1
<1>3. t * (pl - e) = t * pl - t * e /\ s * ((ph + l) - f) = s * ph + s * l - s * f
  BY <1>1
<1>4. t * (b * l) = (b * t) * l /\ (b * t) * (b * h) = h * (b * (b * t))
      /\ t * (b * ph) = (b * t) * ph
  OBVIOUS
<1>5. t * e = s * l /\ s * f = h * (b * s) /\ t * g = s * ph
  BY <1>1, <1>4
<1>6. t * (g + pl) = t * g + t * pl /\ p = g + pl
  BY <1>1
<1>7. /\ t * pl \in Int /\ t * e \in Int /\ s * ph \in Int /\ s * l \in Int /\ s * f \in Int
      /\ h * (b * s) \in Int /\ t * g \in Int
  BY <1>1
<1> QED  BY <1>1, <1>2, <1>3, <1>5, <1>6, <1>7

(***************************************************************************)
(* A body of either inner loop.  A product, of at most 17 bits, is added at *)
(* byte k: its low bytes to two bytes of the buffer; the carry of those,    *)
(* its top bit and the pending carry are left over, or added to the third.  *)
(***************************************************************************)
LEMMA BodyAdded ==
  ASSUME RadixFits, NEW w \in Wide, NEW k \in 0 .. 2 * N - 2, NEW k1 \in Int, k1 = k + 1,
         NEW pl \in Byte, NEW ph \in Byte, NEW p \in Nat, p = B * ph + pl,
         NEW low, NEW high, Sums(low, high, w, k, k1, pl, ph),
         NEW u, Stored2(u, w, k, k1, low % B, high % B)
  PROVE  /\ low % B \in Byte /\ high % B \in Byte /\ high \div B \in {0, 1}
         /\ u \in Wide
         /\ \A j \in 0 .. 2 * N - 1 : j # k /\ j # k1 => u[j] = w[j]
         /\ Value(u, 0, 2 * N - 1) + (high \div B) * Weight[k + 2]
              = Value(w, 0, 2 * N - 1) + Weight[k] * p
<1>1. /\ N \in Nat \ {0} /\ B \in Nat \ {0} /\ B > 2
      /\ k \in 0 .. 2 * N - 1 /\ k1 \in 0 .. 2 * N - 1 /\ k \in 0 .. 2 * N + 1
      /\ k1 \in 0 .. 2 * N + 1 /\ k \in 0 .. 2 * N + 2 /\ k + 2 = k1 + 1 /\ k1 = k + 1
      /\ 2 * N - 1 \in 0 .. 2 * N - 1 /\ k \in 0 .. (2 * N - 1) - 1
      /\ \A j \in 0 .. 2 * N + 1 : Weight[j + 1] = B * Weight[j]
      /\ \A j \in 0 .. 2 * N + 2 : Weight[j] \in Nat \ {0}
  BY Radix
<1>2. PICK a \in Nat, d \in Nat, b \in Nat, t \in Nat :
        /\ a = w[k] /\ d = w[k1] /\ b = B /\ t = Weight[k] /\ a <= b - 1 /\ d <= b - 1
        /\ pl \in Nat /\ pl <= b - 1 /\ ph \in Nat /\ ph <= b - 1
  <2>1. w[k] \in Byte /\ w[k1] \in Byte
    BY <1>1, WideInts
  <2>2. Weight[k] \in Nat /\ B \in Nat
    BY <1>1
  <2>3. /\ w[k] \in Nat /\ w[k] <= B - 1 /\ w[k1] \in Nat /\ w[k1] <= B - 1
        /\ pl \in Nat /\ pl <= B - 1 /\ ph \in Nat /\ ph <= B - 1
    BY <1>1, <2>1 DEF Byte
  <2> QED  BY <2>2, <2>3
<1>3. PICK l \in {0, 1}, l0 \in Byte : l = low \div B /\ l0 = low % B /\ a + pl = B * l + l0
  <2>1. low = a + pl /\ low \in Nat /\ low < B * 2
    BY <1>1, <1>2 DEF Sums
  <2> QED  BY <2>1, OneCarry
<1>4. PICK h \in {0, 1}, h0 \in Byte : h = high \div B /\ h0 = high % B /\ d + ph + l = B * h + h0
  <2>1. high = d + ph + l
    BY <1>2, <1>3 DEF Sums
  <2>2. d + ph + l \in Nat /\ d + ph + l < B * 2
    BY <1>1, <1>2
  <2> QED  BY <2>1, <2>2, OneCarry
<1>5. /\ u \in Wide
      /\ \A j \in 0 .. 2 * N - 1 : j # k /\ j # k1 => u[j] = w[j]
      /\ Value(u, 0, 2 * N - 1)
           = Value(w, 0, 2 * N - 1) + Weight[k] * (l0 - a) + Weight[k1] * (h0 - d)
  <2>1. Stored2(u, w, k, k1, l0, h0)
    BY <1>3, <1>4
  <2> QED  BY <1>1, <1>2, <2>1, TwoStored
<1>6. t * (l0 - a) + (b * t) * (h0 - d) + h * (b * (b * t)) = t * p
  <2>1. /\ b \in Int /\ t \in Int /\ a \in Int /\ d \in Int /\ p \in Int /\ ph \in Int
        /\ pl \in Int /\ l \in Int /\ l0 \in Int /\ h \in Int /\ h0 \in Int
    BY <1>1, <1>2 DEF Byte
  <2>2. p = b * ph + pl /\ a + pl = b * l + l0 /\ d + ph + l = b * h + h0
    BY <1>2, <1>3, <1>4
  <2> QED  BY <2>1, <2>2, BodyWeight
<1>7. PICK v \in Int, e \in Int, f \in Int, g \in Int :
         /\ v = Value(w, 0, 2 * N - 1) /\ e = t * (l0 - a) /\ f = (b * t) * (h0 - d)
         /\ g = h * (b * (b * t))
  <2>1. Value(w, 0, 2 * N - 1) \in Int
    <3>1. 2 * N - 1 \in 0 .. 2 * N /\ \A j \in 0 .. 2 * N - 1 : w[j] \in Int
      BY <1>1, WideInts
    <3> QED  BY <3>1, ValueTop
  <2>2. l0 \in Int /\ h0 \in Int /\ h \in Int
    BY <1>1 DEF Byte
  <2> QED  BY <2>1, <2>2
<1>8. Weight[k1] = b * t /\ Weight[k + 2] = b * (b * t)
  BY <1>1, <1>2
<1>9. Value(u, 0, 2 * N - 1) = (v + e) + f
  BY <1>2, <1>5, <1>7, <1>8
<1>10. (high \div B) * Weight[k + 2] = g /\ Weight[k] * p = t * p /\ (e + f) + g = t * p
  BY <1>2, <1>4, <1>6, <1>7, <1>8
<1>11. ((v + e) + f) + g = v + ((e + f) + g)
  OBVIOUS
<1> QED  BY <1>3, <1>4, <1>5, <1>7, <1>9, <1>10, <1>11

\* What the third byte is to receive, at its weight.
LEMMA BodyLeft ==
  ASSUME RadixFits, NEW w \in Wide, NEW k \in 0 .. 2 * N - 2, NEW k1 \in Int, k1 = k + 1,
         NEW pl \in Byte, NEW ph \in Byte, NEW th \in {0, 1}, NEW whole \in Nat,
         whole = B * (B * th + ph) + pl, NEW q \in {0, 1},
         NEW low, NEW high, Sums(low, high, w, k, k1, pl, ph),
         NEW left, left = (high \div B) + th + q,
         NEW u, Stored2(u, w, k, k1, low % B, high % B)
  PROVE  /\ left \in 0 .. 3
         /\ Value(u, 0, 2 * N - 1) + left * Weight[k + 2]
              = (Value(w, 0, 2 * N - 1) + q * Weight[k + 2]) + Weight[k] * whole
<1>1. /\ B \in Nat \ {0} /\ k \in 0 .. 2 * N + 1 /\ k + 1 \in 0 .. 2 * N + 1
      /\ k \in 0 .. 2 * N + 2 /\ k + 2 = (k + 1) + 1
      /\ \A j \in 0 .. 2 * N + 1 : Weight[j + 1] = B * Weight[j]
      /\ \A j \in 0 .. 2 * N + 2 : Weight[j] \in Nat \ {0}
  BY Radix
<1>2. PICK b \in Nat, t \in Nat, p \in Nat :
         b = B /\ t = Weight[k] /\ p = b * ph + pl /\ Weight[k + 2] = b * (b * t)
  <2>1. Weight[k] \in Nat /\ Weight[k + 2] = B * (B * Weight[k])
    BY <1>1
  <2>2. B * ph + pl \in Nat
    BY <1>1 DEF Byte
  <2> QED  BY <1>1, <2>1, <2>2
<1>3. /\ high \div B \in {0, 1} /\ u \in Wide
      /\ Value(u, 0, 2 * N - 1) + (high \div B) * Weight[k + 2]
           = Value(w, 0, 2 * N - 1) + Weight[k] * p
  BY <1>2, BodyAdded
<1>4. PICK h \in {0, 1}, v \in Int, m \in Int : /\ h = high \div B /\ v = Value(w, 0, 2 * N - 1)
                                   /\ m = Value(u, 0, 2 * N - 1)
  <2>1. 2 * N - 1 \in 0 .. 2 * N
    BY Radix
  <2>2. \A j \in 0 .. 2 * N - 1 : w[j] \in Int /\ u[j] \in Int
    BY <1>3, WideInts
  <2>3. Value(w, 0, 2 * N - 1) \in Int /\ Value(u, 0, 2 * N - 1) \in Int
    BY <2>1, <2>2, ValueTop
  <2> QED  BY <1>3, <2>3
<1>5. PICK z \in Int, s \in Int : z = b * (b * t) /\ s = t * p
  OBVIOUS
<1>6. m + h * z = v + s
  BY <1>2, <1>3, <1>4, <1>5
<1>7. t * whole = s + th * z
  <2>1. whole = p + b * (b * th)
    <3>1. b * (b * th + ph) = b * (b * th) + b * ph
      BY <1>1 DEF Byte
    <3> QED  BY <1>1, <1>2, <3>1 DEF Byte
  <2>2. t * (p + b * (b * th)) = t * p + t * (b * (b * th))
    <3>1. PICK e \in Int : e = b * (b * th)
      OBVIOUS
    <3>2. t * (p + e) = t * p + t * e
      OBVIOUS
    <3> QED  BY <3>1, <3>2
  <2>3. t * (b * (b * th)) = th * (b * (b * t))
    <3>1. CASE th = 0
      BY <3>1
    <3>2. CASE th = 1
      <4>1. t * (b * b) = b * (b * t)
        OBVIOUS
      <4> QED  BY <3>2, <4>1
    <3> QED  BY <3>1, <3>2
  <2> QED  BY <1>5, <2>1, <2>2, <2>3
<1>8. (h + th + q) * z = h * z + th * z + q * z
  OBVIOUS
<1>9. h * z \in Int /\ th * z \in Int /\ q * z \in Int
  OBVIOUS
<1>10. m + (h + th + q) * z = (v + q * z) + t * whole
  BY <1>6, <1>7, <1>8, <1>9
<1>11. left = h + th + q /\ h + th + q \in 0 .. 3
  BY <1>4
<1> QED  BY <1>2, <1>4, <1>5, <1>10, <1>11

\* The third byte receives it, and passes one bit on.
LEMMA BodyChained ==
  ASSUME RadixFits, NEW w \in Wide, NEW k \in 0 .. 2 * N - 3, NEW k1 \in Int, k1 = k + 1,
         NEW k2 \in Int, k2 = k + 2,
         NEW pl \in Byte, NEW ph \in Byte, NEW th \in {0, 1}, NEW whole \in Nat,
         whole = B * (B * th + ph) + pl, NEW q \in {0, 1},
         NEW low, NEW high, Sums(low, high, w, k, k1, pl, ph),
         NEW left, left = (high \div B) + th + q, NEW sum, sum = w[k2] + left,
         NEW u, Stored3(u, w, k, k1, k2, low % B, high % B, sum % B)
  PROVE  /\ u \in Wide /\ sum \div B \in {0, 1}
         /\ Value(u, 0, 2 * N - 1) + (sum \div B) * Weight[k2 + 1]
              = (Value(w, 0, 2 * N - 1) + q * Weight[k2]) + Weight[k] * whole
<1>1. /\ N \in Nat \ {0} /\ B \in Nat \ {0} /\ B > 2 /\ k \in 0 .. 2 * N - 2
      /\ k2 \in 0 .. 2 * N - 1 /\ k2 \in 0 .. 2 * N + 1 /\ k2 \in 0 .. 2 * N + 2 /\ k2 <= 2 * N - 1
      /\ 2 * N - 1 \in 0 .. 2 * N - 1 /\ k2 # k /\ k2 # k1
      /\ \A j \in 0 .. 2 * N + 1 : Weight[j + 1] = B * Weight[j]
      /\ \A j \in 0 .. 2 * N + 2 : Weight[j] \in Nat \ {0}
  BY Radix
<1>2. PICK f : Stored2(f, w, k, k1, low % B, high % B)
  BY DEF Stored2
<1>3. f \in Wide /\ \A j \in 0 .. 2 * N - 1 : j # k /\ j # k1 => f[j] = w[j]
  <2>1. PICK p \in Nat : p = B * ph + pl
    BY <1>1 DEF Byte
  <2> QED  BY <1>1, <1>2, <2>1, BodyAdded
<1>4. /\ left \in 0 .. 3
      /\ Value(f, 0, 2 * N - 1) + left * Weight[k + 2]
              = (Value(w, 0, 2 * N - 1) + q * Weight[k + 2]) + Weight[k] * whole
  BY <1>1, <1>2, BodyLeft
<1>5. PICK c \in Nat, b \in Nat, s \in Byte, d \in {0, 1} :
         /\ c = w[k2] /\ b = B /\ d = sum \div B /\ s = sum % B /\ c + left = b * d + s
  <2>1. w[k2] \in Byte
    BY <1>1, WideInts
  <2>2. sum \in Nat /\ sum < B * 2
    BY <1>1, <1>4, <2>1 DEF Byte
  <2>3. w[k2] \in Nat /\ B \in Nat
    BY <1>1, <2>1 DEF Byte
  <2>4. sum \div B \in {0, 1} /\ sum % B \in Byte /\ sum = B * (sum \div B) + (sum % B)
    BY <2>2, OneCarry
  <2> QED  BY <2>3, <2>4
<1>6. u \in Wide /\ Value(u, 0, 2 * N - 1) = Value(f, 0, 2 * N - 1) + Weight[k2] * (s - c)
  <2>1. u = [f EXCEPT ![k2] = s]
    BY <1>2, <1>5 DEF Stored2, Stored3
  <2>2. f[k2] = c
    BY <1>1, <1>3, <1>5
  <2> QED  BY <1>1, <1>3, <2>1, <2>2, ByteStored
<1>7. PICK v \in Int, m \in Int, t \in Int, e \in Int : /\ v = Value(w, 0, 2 * N - 1) /\ t = Weight[k2]
                                   /\ m = Value(f, 0, 2 * N - 1) /\ e = Weight[k] * whole
  <2>1. 2 * N - 1 \in 0 .. 2 * N
    BY <1>1
  <2>2. \A j \in 0 .. 2 * N - 1 : w[j] \in Int /\ f[j] \in Int
    BY <1>3, WideInts
  <2>3. Value(w, 0, 2 * N - 1) \in Int /\ Value(f, 0, 2 * N - 1) \in Int
    BY <2>1, <2>2, ValueTop
  <2>4. Weight[k2] \in Int /\ Weight[k] \in Int
    BY <1>1
  <2>5. Weight[k] * whole \in Int
    BY <2>4
  <2> QED  BY <2>3, <2>4, <2>5
<1>8. m + left * t = (v + q * t) + e
  BY <1>4, <1>7
<1>9. (m + t * (s - c)) + d * (b * t) = (v + q * t) + e
  <2>1. s \in Int /\ d \in Int /\ left \in Int /\ q \in Int
    BY <1>1, <1>4 DEF Byte
  <2>2. t * s + d * (b * t) = t * (c + left)
    <3>1. PICK g \in Int : g = c + left /\ g = b * d + s
      BY <1>5, <2>1
    <3>2. t * s + d * (b * t) = t * g
      BY <2>1, <3>1, CarryStep
    <3> QED  BY <3>1, <3>2
  <2>3. t * (c + left) = t * c + left * t /\ t * (s - c) = t * s - t * c
    BY <2>1
  <2>4. /\ t * s \in Int /\ d * (b * t) \in Int /\ t * c \in Int /\ left * t \in Int /\ q * t \in Int
    BY <2>1
  <2> QED  BY <1>8, <2>2, <2>3, <2>4
<1>10. Weight[k2 + 1] = b * t
  BY <1>1, <1>5, <1>7
<1> QED  BY <1>5, <1>6, <1>7, <1>9, <1>10

(***************************************************************************)
(* The operands, and the sum of the rows.                                   *)
(***************************************************************************)
Placed ==
  /\ src1 \in Elements /\ src2 \in Elements /\ wide \in Wide

Inside == i \in 0 .. N - 1 /\ x \in 0 .. N - 1

Done == Value(src1, 0, i - 1) * Value2
Part == src1[i] * Weight[i] * Value(src2, 0, x - 1)

LEMMA ElementBytes ==
  ASSUME RadixFits, NEW v \in Elements
  PROVE  /\ \A k \in 0 .. N - 1 : v[k] \in Byte /\ v[k] \in Nat
         /\ \A k \in 0 .. N : Value(v, 0, k - 1) \in 0 .. Weight[k] - 1
         /\ \A k \in 0 .. N - 1 : Value(v, 0, k) = Value(v, 0, k - 1) + Weight[k] * v[k]
<1>1. N \in Nat \ {0} /\ B \in Nat \ {0}
  BY Radix
<1>2. \A k \in 0 .. N - 1 : v[k] \in Byte
  BY DEF Elements
<1>3. \A k \in 0 .. N - 1 : v[k] \in Nat
  BY <1>1, <1>2 DEF Byte
<1>4. ASSUME NEW k \in 0 .. N PROVE Value(v, 0, k - 1) \in 0 .. Weight[k] - 1
  <2>1. k \in 0 .. 2 * N /\ \A j \in 0 .. k - 1 : v[j] \in Byte
    BY <1>1, <1>2
  <2> QED  BY <2>1, ValueBound
<1>5. ASSUME NEW k \in 0 .. N - 1
      PROVE  Value(v, 0, k) = Value(v, 0, k - 1) + Weight[k] * v[k]
  <2>1. k \in 0 .. 2 * N /\ \A j \in 0 .. k : v[j] \in Int
    BY <1>1, <1>3
  <2> QED  BY <2>1, ValueTop
<1> QED  BY <1>2, <1>3, <1>4, <1>5

(* The invariant of the loop names no row before the first. *)
LEMMA RowsForm ==
  ASSUME RadixFits, Placed, i \in 0 .. N - 1, x \in 0 .. N
  PROVE  /\ Done \in Nat /\ Part \in Nat
         /\ Done = IF i = 0 THEN 0 ELSE Value(src1, 0, i - 1) * Value2
         /\ Part = IF x = 0 THEN 0 ELSE src1[i] * Weight[i] * Value(src2, 0, x - 1)
<1>1. /\ N \in Nat \ {0} /\ i \in 0 .. N /\ N \in 0 .. N
      /\ \A k \in 0 .. 2 * N + 2 : Weight[k] \in Nat \ {0}
  BY Radix
<1>2. /\ Value(src1, 0, i - 1) \in 0 .. Weight[i] - 1 /\ src1[i] \in Nat
      /\ Value(src2, 0, x - 1) \in 0 .. Weight[x] - 1 /\ Value2 \in 0 .. Weight[N] - 1
  BY <1>1, ElementBytes DEF Placed, Value2
<1>3. Value(src1, 0, i - 1) \in Nat /\ Value(src2, 0, x - 1) \in Nat /\ Value2 \in Nat
      /\ Weight[i] \in Nat
  <2>1. i \in 0 .. 2 * N + 2 /\ x \in 0 .. 2 * N + 2 /\ N \in 0 .. 2 * N + 2
    BY <1>1
  <2>2. Weight[i] \in Nat /\ Weight[x] \in Nat /\ Weight[N] \in Nat
    BY <1>1, <2>1
  <2> QED  BY <1>2, <2>2
<1>4. Value(src1, 0, 0 - 1) = 0 /\ Value(src2, 0, 0 - 1) = 0
  BY ValueEmpty
<1>5. PICK a \in Nat, c \in Nat, d \in Nat, e \in Nat, f \in Nat :
        /\ a = Value(src1, 0, i - 1) /\ c = Value2 /\ d = src1[i] /\ e = Weight[i]
        /\ f = Value(src2, 0, x - 1) /\ (i = 0 => a = 0) /\ (x = 0 => f = 0)
  BY <1>2, <1>3, <1>4
<1>6. a * c \in Nat /\ (d * e) * f \in Nat
  <2>1. d * e \in Nat
    OBVIOUS
  <2> QED  BY <2>1
<1>7. (i = 0 => a * c = 0) /\ (x = 0 => (d * e) * f = 0)
  <2>1. ASSUME i = 0 PROVE a * c = 0
    BY <1>5, <2>1
  <2>2. ASSUME x = 0 PROVE (d * e) * f = 0
    <3>1. d * e \in Nat /\ f = 0
      BY <1>5, <2>2
    <3> QED  BY <3>1
  <2> QED  BY <2>1, <2>2
<1> QED  BY <1>5, <1>6, <1>7 DEF Done, Part

(* The parts of a row, and the rows, add up. *)
LEMMA PartStep ==
  ASSUME RadixFits, Placed, Inside
  PROVE  src1[i] * Weight[i] * Value(src2, 0, x) = Part + Weight[i + x] * Product
<1>1. /\ N \in Nat \ {0} /\ i + x \in 0 .. 2 * N + 2 /\ i \in Nat /\ x \in Nat
      /\ i \in 0 .. 2 * N + 2 /\ x \in 0 .. 2 * N + 2 /\ x \in 0 .. N /\ i + x <= 2 * N + 2
      /\ \A k \in 0 .. 2 * N + 2 : Weight[k] \in Nat \ {0}
  BY Radix DEF Inside
<1>2. Weight[i + x] = Weight[i] * Weight[x]
  BY <1>1, WeightAdd
<1>3. /\ src1[i] \in Nat /\ src2[x] \in Nat /\ Value(src2, 0, x - 1) \in 0 .. Weight[x] - 1
      /\ Value(src2, 0, x) = Value(src2, 0, x - 1) + Weight[x] * src2[x]
  BY <1>1, ElementBytes DEF Placed, Inside
<1>4. PICK a \in Int, c \in Int, d \in Int, e \in Int, f \in Int :
        /\ a = src1[i] /\ c = src2[x] /\ d = Weight[i] /\ e = Weight[x]
        /\ f = Value(src2, 0, x - 1)
  <2>1. Weight[i] \in Int /\ Weight[x] \in Int
    BY <1>1
  <2>2. src1[i] \in Int /\ src2[x] \in Int /\ Value(src2, 0, x - 1) \in Int
    BY <1>3, <2>1
  <2> QED  BY <2>1, <2>2
<1>5. (a * d) * (f + e * c) = (a * d) * f + (d * e) * (a * c)
  <2>1. (a * d) * (f + e * c) = (a * d) * f + (a * d) * (e * c)
    <3>1. PICK g \in Int, h \in Int : g = a * d /\ h = e * c
      OBVIOUS
    <3>2. g * (f + h) = g * f + g * h
      OBVIOUS
    <3> QED  BY <3>1, <3>2
  <2>2. (a * d) * (e * c) = (d * e) * (a * c)
    OBVIOUS
  <2> QED  BY <2>1, <2>2
<1> QED  BY <1>2, <1>3, <1>4, <1>5 DEF Part, Product

LEMMA RowStep ==
  ASSUME RadixFits, Placed, i \in 0 .. N - 1
  PROVE  /\ Value(src1, 0, i - 1) * Value2 + src1[i] * Weight[i] * Value2
              = Value(src1, 0, i) * Value2
         /\ Value(src1, 0, i) * Value2 \in 0 .. Weight[i + 1 + N] - 1
<1>1. /\ N \in Nat \ {0} /\ i \in 0 .. N /\ N \in 0 .. N /\ i + 1 \in 0 .. N
      /\ i + 1 \in Nat /\ (i + 1) + N <= 2 * N + 2 /\ (i + 1) - 1 = i
      /\ i \in 0 .. 2 * N + 2 /\ i + 1 \in 0 .. 2 * N + 2 /\ N \in 0 .. 2 * N + 2
      /\ \A k \in 0 .. 2 * N + 2 : Weight[k] \in Nat \ {0}
  BY Radix
<1>2. Weight[i + 1 + N] = Weight[i + 1] * Weight[N]
  BY <1>1, WeightAdd
<1>3. /\ Value(src1, 0, i - 1) \in 0 .. Weight[i] - 1 /\ src1[i] \in Nat
      /\ Value(src1, 0, i) \in 0 .. Weight[i + 1] - 1
      /\ Value(src1, 0, i) = Value(src1, 0, i - 1) + Weight[i] * src1[i]
      /\ Value2 \in 0 .. Weight[N] - 1
  BY <1>1, ElementBytes DEF Placed, Value2
<1>4. PICK a \in Int, c \in Nat, d \in Int, e \in Int, f \in Nat, g \in Nat, h \in Nat :
        /\ a = Value(src1, 0, i - 1) /\ c = Value2 /\ d = src1[i] /\ e = Weight[i]
        /\ f = Value(src1, 0, i) /\ g = Weight[i + 1] /\ h = Weight[N]
        /\ f < g /\ c < h
  <2>1. Weight[i] \in Nat /\ Weight[i + 1] \in Nat /\ Weight[N] \in Nat
    BY <1>1
  <2>2. /\ Value(src1, 0, i - 1) \in Int /\ src1[i] \in Int
        /\ Value(src1, 0, i) \in Nat /\ Value(src1, 0, i) < Weight[i + 1]
        /\ Value2 \in Nat /\ Value2 < Weight[N]
    BY <1>3, <2>1
  <2>3. Weight[i] \in Int
    BY <2>1
  <2> QED  BY <2>1, <2>2, <2>3
<1>5. a * c + (d * e) * c = (a + e * d) * c
  <2>1. PICK m \in Int : m = d * e
    OBVIOUS
  <2>2. a * c + m * c = (a + m) * c
    OBVIOUS
  <2> QED  BY <2>1, <2>2
<1>6. f * c \in Nat /\ f * c <= g * h - 1
  <2>1. PICK m \in Nat, n \in Nat : g = f + 1 + m /\ h = c + 1 + n
    <3>1. g - f - 1 \in Nat /\ g = f + 1 + (g - f - 1) /\ h - c - 1 \in Nat /\ h = c + 1 + (h - c - 1)
      BY <1>4
    <3> QED  BY <3>1
  <2>2. f * h = f * c + f * (1 + n) /\ f * (1 + n) \in Nat /\ f * c \in Nat
    BY <2>1
  <2>3. g * h = f * h + (1 + m) * h /\ (1 + m) * h = h + m * h /\ m * h \in Nat
    BY <2>1
  <2> QED  BY <2>1, <2>2, <2>3
<1> QED  BY <1>2, <1>3, <1>4, <1>5, <1>6

(***************************************************************************)
(* The body that asks: only the very last one of the product skips.         *)
(***************************************************************************)
LEMMA PhantomLast ==
  ASSUME RadixFits, UnrollFits, Inside
  PROVE  /\ Phantom <=> i = N - 1 /\ x = N - 1
         /\ ~Phantom => Target < 2 * N
<1>1. N \in Nat \ {0} /\ Unroll \in Nat \ {0} /\ N % Unroll = 0 /\ i \in 0 .. N - 1 /\ x \in 0 .. N - 1
  BY Radix DEF UnrollFits, Inside
<1>2. (N - 1) % Unroll = Unroll - 1
  <2>1. PICK q \in Int : N = Unroll * q
    <3>1. N \div Unroll \in Int /\ N = Unroll * (N \div Unroll) + (N % Unroll)
      BY <1>1, DivMod
    <3>2. N = Unroll * (N \div Unroll)
      BY <1>1, <3>1
    <3> QED  BY <3>1, <3>2
  <2>2. Unroll * (q - 1) = Unroll * q - Unroll /\ q - 1 \in Int /\ Unroll - 1 \in 0 .. Unroll - 1
    BY <1>1
  <2>3. N - 1 = Unroll * (q - 1) + (Unroll - 1)
    BY <1>1, <2>1, <2>2
  <2> QED  BY <1>1, <2>2, <2>3, DivModUnique
<1>3. Phantom <=> i = N - 1 /\ x = N - 1
  <2>1. ASSUME Phantom PROVE i = N - 1 /\ x = N - 1
    <3>1. x + 1 >= 2 * N - 1 - i
      BY <2>1 DEF Phantom
    <3> QED  BY <1>1, <3>1
  <2>2. ASSUME i = N - 1, x = N - 1 PROVE Phantom
    <3>1. x + 1 >= 2 * N - 1 - i
      BY <1>1, <2>2
    <3> QED  BY <1>2, <2>2, <3>1 DEF Phantom
  <2> QED  BY <2>1, <2>2
<1> HIDE DEF Phantom
<1> QED  BY <1>1, <1>3 DEF Target

(***************************************************************************)
(* Where the code drops a carry there is none.                              *)
(***************************************************************************)
RowsSum == Value(wide, 0, 2 * N - 1) + pending * Weight[Target] = Done + Part

LEMMA WideValue ==
  ASSUME RadixFits, NEW w \in Wide
  PROVE  Value(w, 0, 2 * N - 1) \in 0 .. Weight[2 * N] - 1
<1>1. N \in Nat \ {0} /\ 2 * N \in 0 .. 2 * N
  BY Radix
<1>2. \A k \in 0 .. 2 * N - 1 : w[k] \in Byte
  BY WideInts
<1> QED  BY <1>1, <1>2, ValueBound

LEMMA Overflows ==
  ASSUME NEW v \in Nat, NEW c \in Nat, NEW t \in Nat, NEW s \in Nat, v + c * t = s, s < t
  PROVE  c = 0
<1>1. ASSUME c # 0 PROVE FALSE
  <2>1. PICK d \in Nat : c = 1 + d
    <3>1. c - 1 \in Nat /\ c = 1 + (c - 1)
      BY <1>1
    <3> QED  BY <3>1
  <2>2. c * t = t + d * t /\ d * t \in Nat
    BY <2>1
  <2> QED  BY <2>2
<1> QED  BY <1>1

\* The end of a row.
LEMMA RowEnd ==
  ASSUME RadixFits, Placed, i \in 0 .. N - 1, x = N, pending \in {0, 1}, RowsSum
  PROVE  pending = 0 /\ Value(wide, 0, 2 * N - 1) = Value(src1, 0, i) * Value2
<1>1. /\ N \in Nat \ {0} /\ B \in Nat \ {0} /\ x \in 0 .. N
      /\ i + 1 + N \in 0 .. 2 * N + 1 /\ i + 1 + N \in 0 .. 2 * N + 2
      /\ Target = (i + 1 + N) + 1 /\ Target \in 0 .. 2 * N + 2 /\ 2 * N \in 0 .. 2 * N + 2
      /\ \A k \in 0 .. 2 * N + 1 : Weight[k + 1] = B * Weight[k]
      /\ \A k \in 0 .. 2 * N + 2 : Weight[k] \in Nat \ {0}
  BY Radix DEF Target
<1>2. /\ Done + Part = Value(src1, 0, i) * Value2
      /\ Value(src1, 0, i) * Value2 \in 0 .. Weight[i + 1 + N] - 1
  BY RowStep DEF Done, Part, Value2
<1>3. PICK v \in Nat, s \in Nat, t \in Nat \ {0} :
         /\ v = Value(wide, 0, 2 * N - 1) /\ s = Done + Part /\ t = Weight[i + 1 + N] /\ s < t
  <2>1. Weight[i + 1 + N] \in Nat \ {0} /\ Weight[2 * N] \in Nat
    BY <1>1
  <2>2. Value(wide, 0, 2 * N - 1) \in Nat
    BY <2>1, WideValue DEF Placed
  <2>3. Done + Part \in Nat /\ Done + Part < Weight[i + 1 + N]
    BY <1>2, <2>1
  <2> QED  BY <2>1, <2>2, <2>3
<1>4. PICK top \in Nat : top = Weight[Target] /\ s < top
  <2>1. Weight[Target] = B * t
    BY <1>1, <1>3
  <2>2. B * t \in Nat /\ t <= B * t
    BY <1>1
  <2> QED  BY <1>3, <2>1, <2>2
<1>5. v + pending * top = s /\ pending \in Nat
  BY <1>3, <1>4 DEF RowsSum
<1>6. pending = 0
  BY <1>4, <1>5, Overflows
<1> QED  BY <1>2, <1>3, <1>5, <1>6

\* What the bytes of a product are, in the terms of BodyLeft and BodyChained.
LEMMA ProductBytes ==
  ASSUME RadixFits, Placed, Inside
  PROVE  /\ Product \in Nat /\ Product % B \in Byte /\ Product \div B \in Byte
         /\ Product = B * (B * 0 + (Product \div B)) + (Product % B)
         /\ Weight[i + x] * Product \in Nat
         /\ i + x \in 0 .. 2 * N - 2 /\ i + x + 1 \in Int /\ i + x + 1 = (i + x) + 1
         /\ Target = (i + x) + 2 /\ Target \in Int /\ Target \in 0 .. 2 * N + 2 /\ wide \in Wide
<1>1. /\ B \in Nat \ {0} /\ i + x \in 0 .. 2 * N + 2 /\ N \in Nat /\ i \in 0 .. N - 1 /\ x \in 0 .. N - 1
      /\ \A j \in 0 .. 2 * N + 2 : Weight[j] \in Nat \ {0}
  BY Radix DEF Inside
<1>2. src1[i] \in Byte /\ src2[x] \in Byte
  BY ElementBytes DEF Placed, Inside
<1>3. /\ Product \in Nat /\ Product % B \in Byte /\ Product \div B \in 0 .. B - 2
      /\ Product = B * (Product \div B) + (Product % B)
  BY <1>2, ProductOfBytes DEF Product
<1>4. Product \div B \in Byte /\ B * 0 + (Product \div B) = Product \div B
  BY <1>1, <1>3 DEF Byte
<1>5. Weight[i + x] * Product \in Nat
  <2>1. Weight[i + x] \in Nat
    BY <1>1
  <2> QED  BY <1>3, <2>1
<1> QED  BY <1>1, <1>3, <1>4, <1>5 DEF Target, Placed

LEMMA MulLeft ==
  ASSUME RadixFits, Placed, Inside, pending \in {0, 1},
         NEW u, Stored2(u, wide, i + x, i + x + 1, LowSum % B, HighSum % B)
  PROVE  /\ u \in Wide /\ CarryOut \in 0 .. 3
         /\ Value(u, 0, 2 * N - 1) + CarryOut * Weight[Target]
              = (Value(wide, 0, 2 * N - 1) + pending * Weight[Target]) + Weight[i + x] * Product
<1>1. PICK k \in 0 .. 2 * N - 2, k1 \in Int, pl \in Byte, ph \in Byte, p \in Nat, th \in {0, 1},
           q \in {0, 1}, w \in Wide :
        /\ k = i + x /\ k1 = i + x + 1 /\ k1 = k + 1 /\ k + 2 = Target
        /\ pl = Product % B /\ ph = Product \div B /\ p = Product
        /\ th = 0 /\ p = B * (B * th + ph) + pl /\ q = pending /\ w = wide
  BY ProductBytes
<1>2. PICK low, high : low = LowSum /\ high = HighSum /\ Sums(low, high, w, k, k1, pl, ph)
  BY <1>1 DEF LowSum, HighSum, Sums
<1>3. Stored2(u, w, k, k1, low % B, high % B)
  BY <1>1, <1>2
<1>4. p = B * ph + pl /\ k1 = k + 1
  BY <1>1, Radix DEF Byte
<1>5. u \in Wide /\ high \div B \in {0, 1}
  BY <1>2, <1>3, <1>4, BodyAdded
<1>6. PICK left : left = (high \div B) + th + q /\ left = CarryOut
  BY <1>1, <1>2, <1>5 DEF CarryOut
<1>7. /\ left \in 0 .. 3
      /\ Value(u, 0, 2 * N - 1) + left * Weight[k + 2]
              = (Value(w, 0, 2 * N - 1) + q * Weight[k + 2]) + Weight[k] * p
  BY <1>1, <1>2, <1>3, <1>6, BodyLeft
<1> QED  BY <1>1, <1>5, <1>6, <1>7

\* The last body: what it does not hand on.
LEMMA BodyEnd ==
  ASSUME RadixFits, UnrollFits, Placed, Inside, pending \in {0, 1}, RowsSum, Phantom
  PROVE  CarryOut = 0
<1>1. /\ N \in Nat \ {0} /\ i = N - 1 /\ x = N - 1 /\ i \in 0 .. N - 1 /\ x \in 0 .. N
      /\ i + 1 + N = 2 * N /\ Target = 2 * N /\ 2 * N \in 0 .. 2 * N + 2
      /\ \A k \in 0 .. 2 * N + 2 : Weight[k] \in Nat \ {0}
  BY Radix, PhantomLast DEF Target, Inside
<1>2. PICK u : Stored2(u, wide, i + x, i + x + 1, LowSum % B, HighSum % B)
  BY DEF Stored2
<1>3. /\ u \in Wide /\ CarryOut \in 0 .. 3
      /\ Value(u, 0, 2 * N - 1) + CarryOut * Weight[2 * N] = (Done + Part) + Weight[i + x] * Product
  BY <1>1, <1>2, MulLeft DEF RowsSum
<1>4. (Done + Part) + Weight[i + x] * Product \in 0 .. Weight[2 * N] - 1
  <2>1. src1[i] * Weight[i] * Value2 = Part + Weight[i + x] * Product
    BY <1>1, PartStep DEF Value2
  <2>2. Done + (Part + Weight[i + x] * Product) \in 0 .. Weight[2 * N] - 1
    BY <1>1, <2>1, RowStep DEF Done
  <2>3. Done \in Nat /\ Part \in Nat /\ Weight[i + x] * Product \in Nat
    BY <1>1, RowsForm, ProductBytes
  <2>4. Done + (Part + Weight[i + x] * Product) = (Done + Part) + Weight[i + x] * Product
    BY <2>3
  <2> QED  BY <2>2, <2>4
<1>5. PICK v \in Nat, t \in Nat, c \in Nat, s \in Nat :
         /\ v = Value(u, 0, 2 * N - 1) /\ t = Weight[2 * N] /\ c = CarryOut
         /\ s = (Done + Part) + Weight[i + x] * Product /\ s < t
  <2>1. Weight[2 * N] \in Nat
    BY <1>1
  <2>2. Value(u, 0, 2 * N - 1) \in Nat
    BY <1>3, <2>1, WideValue
  <2>3. /\ CarryOut \in Nat /\ (Done + Part) + Weight[i + x] * Product \in Nat
        /\ (Done + Part) + Weight[i + x] * Product < Weight[2 * N]
    BY <1>3, <1>4, <2>1
  <2> QED  BY <2>1, <2>2, <2>3
<1>6. v + c * t = s
  BY <1>3, <1>5
<1> QED  BY <1>5, <1>6, Overflows

\* What a body adds to the rows.
LEMMA RowsGrow ==
  ASSUME RadixFits, Placed, Inside, i' = i, x' = x + 1, src1' = src1, src2' = src2
  PROVE  Done' + Part' = (Done + Part) + Weight[i + x] * Product
<1>1. (x + 1) - 1 = x /\ i \in 0 .. N - 1 /\ x \in 0 .. N
  BY Radix DEF Inside
<1>2. Done' = Done
  BY DEF Done, Value2
<1>3. Part' = Part + Weight[i + x] * Product
  <2>1. Part' = src1[i] * Weight[i] * Value(src2, 0, x)
    BY <1>1 DEF Part
  <2> QED  BY <2>1, PartStep
<1>4. Done \in Nat /\ Part \in Nat /\ Weight[i + x] * Product \in Nat
  BY <1>1, RowsForm, ProductBytes
<1> QED  BY <1>2, <1>3, <1>4

(***************************************************************************)
(* The two kinds of body, and the ripple at the end of a row.               *)
(***************************************************************************)
LEMMA ChainRows ==
  ASSUME RadixFits, UnrollFits, Placed, Inside, pending \in {0, 1}, RowsSum, Chain
  PROVE  wide' \in Wide /\ pending' \in {0, 1} /\ RowsSum'
<1>1. /\ N \in Nat \ {0} /\ B \in Nat \ {0} /\ Target < 2 * N /\ i + x \in 0 .. 2 * N - 3
  <2>1. Target < 2 * N
    BY PhantomLast DEF Chain
  <2> QED  BY <2>1, Radix DEF Inside, Target
<1>2. PICK k \in 0 .. 2 * N - 3, k1 \in Int, k2 \in Int, pl \in Byte, ph \in Byte, p \in Nat,
           th \in {0, 1}, q \in {0, 1}, w \in Wide :
        /\ k = i + x /\ k1 = i + x + 1 /\ k1 = k + 1 /\ k2 = Target /\ k2 = k + 2
        /\ pl = Product % B /\ ph = Product \div B /\ p = Product
        /\ th = 0 /\ p = B * (B * th + ph) + pl /\ q = pending /\ w = wide
  BY <1>1, ProductBytes
<1>3. PICK low, high : low = LowSum /\ high = HighSum /\ Sums(low, high, w, k, k1, pl, ph)
  BY <1>2 DEF LowSum, HighSum, Sums
<1>4. PICK left, sum : /\ left = (high \div B) + th + q /\ left = CarryOut
                       /\ sum = w[k2] + left
  <2>1. (high \div B) + th + q = CarryOut
    <3>1. high \div B \in {0, 1}
      <4>1. PICK u : Stored2(u, w, k, k1, low % B, high % B)
        BY DEF Stored2
      <4>2. p = B * ph + pl /\ k1 = k + 1
        BY <1>2, Radix DEF Byte
      <4>3. k \in 0 .. 2 * N - 2
        BY <1>1
      <4> QED  BY <1>3, <4>1, <4>2, <4>3, BodyAdded
    <3> QED  BY <1>2, <1>3, <3>1 DEF CarryOut
  <2> QED  BY <2>1
<1>5. pending' = sum \div B /\ Stored3(wide', w, k, k1, k2, low % B, high % B, sum % B)
  BY <1>2, <1>3, <1>4 DEF Chain, Stored3
<1>6. /\ wide' \in Wide /\ sum \div B \in {0, 1}
      /\ Value(wide', 0, 2 * N - 1) + (sum \div B) * Weight[k2 + 1]
           = (Value(w, 0, 2 * N - 1) + q * Weight[k2]) + Weight[k] * p
  <2>1. PICK u : u = wide'
    OBVIOUS
  <2>2. /\ u \in Wide /\ sum \div B \in {0, 1}
        /\ Value(u, 0, 2 * N - 1) + (sum \div B) * Weight[k2 + 1]
             = (Value(w, 0, 2 * N - 1) + q * Weight[k2]) + Weight[k] * p
    BY <1>2, <1>3, <1>4, <1>5, <2>1, BodyChained
  <2> QED  BY <2>1, <2>2
<1>7. i' = i /\ x' = x + 1 /\ src1' = src1 /\ src2' = src2 /\ Target' = Target + 1
  BY DEF Chain, NextBody, Target, Inside
<1>8. Value(wide', 0, 2 * N - 1) + pending' * Weight[Target']
        = (Done + Part) + Weight[i + x] * Product
  BY <1>2, <1>5, <1>6, <1>7 DEF RowsSum
<1>9. Done' + Part' = (Done + Part) + Weight[i + x] * Product
  BY <1>7, RowsGrow
<1> QED  BY <1>5, <1>6, <1>8, <1>9 DEF RowsSum

LEMMA SkipRows ==
  ASSUME RadixFits, UnrollFits, Placed, Inside, pending \in {0, 1}, RowsSum, ChainSkip
  PROVE  wide' \in Wide /\ pending' = 0 /\ RowsSum'
<1>1. /\ Phantom /\ pending' = 0 /\ i' = i /\ x' = x + 1 /\ src1' = src1 /\ src2' = src2
      /\ wide' = [wide EXCEPT ![i + x] = LowSum % B, ![i + x + 1] = HighSum % B]
  BY DEF ChainSkip, NextBody
<1>2. /\ wide' \in Wide
      /\ Value(wide', 0, 2 * N - 1) + CarryOut * Weight[Target]
           = (Done + Part) + Weight[i + x] * Product
  <2>1. PICK u : u = wide' /\ Stored2(u, wide, i + x, i + x + 1, LowSum % B, HighSum % B)
    BY <1>1 DEF Stored2
  <2> QED  BY <2>1, MulLeft DEF RowsSum
<1>3. CarryOut = 0
  BY <1>1, BodyEnd
<1>4. /\ Weight[Target] \in Nat /\ Weight[Target'] \in Nat /\ Value(wide', 0, 2 * N - 1) \in Nat
  <2>1. /\ Target \in 0 .. 2 * N + 2 /\ Target' \in 0 .. 2 * N + 2 /\ 2 * N \in 0 .. 2 * N + 2
        /\ \A k \in 0 .. 2 * N + 2 : Weight[k] \in Nat \ {0}
    BY <1>1, Radix DEF Inside, Target
  <2>2. Weight[Target] \in Nat /\ Weight[Target'] \in Nat /\ Weight[2 * N] \in Nat
    BY <2>1
  <2> QED  BY <1>2, <2>2, WideValue
<1>5. Value(wide', 0, 2 * N - 1) + 0 * Weight[Target'] = (Done + Part) + Weight[i + x] * Product
  BY <1>2, <1>3, <1>4
<1>6. Done' + Part' = (Done + Part) + Weight[i + x] * Product
  BY <1>1, RowsGrow
<1> QED  BY <1>1, <1>2, <1>5, <1>6 DEF RowsSum

(* A ripple through the rest of the buffer loses nothing if the sum fits. *)
LEMMA RippleFits ==
  ASSUME RadixFits, NEW w \in Wide, NEW v \in Nat, NEW from \in 0 .. 2 * N - 1,
         NEW r, r = Rippled(w, from, 2 * N - 1, v),
         Value(w, 0, 2 * N - 1) + v * Weight[from] < Weight[2 * N]
  PROVE  r \in Wide /\ Value(r, 0, 2 * N - 1) = Value(w, 0, 2 * N - 1) + v * Weight[from]
<1>1. /\ N \in Nat \ {0} /\ 2 * N \in 0 .. 2 * N + 2 /\ from \in 0 .. 2 * N + 2
      /\ 2 * N - 1 \in 0 .. 2 * N - 1 /\ (2 * N - 1) + 1 = 2 * N
      /\ \A k \in 0 .. 2 * N + 2 : Weight[k] \in Nat \ {0}
  BY Radix
<1>2. PICK to \in 0 .. 2 * N - 1 : to = 2 * N - 1 /\ from <= to + 1 /\ to + 1 = 2 * N
  BY <1>1
<1>3. PICK c : Ripples(r, c, w, from, to, v)
  BY <1>2 DEF Ripples
<1>4. /\ r \in Wide /\ c \in Nat
      /\ Value(r, 0, to) + c * Weight[to + 1] = Value(w, 0, to) + v * Weight[from]
  BY <1>2, <1>3, RippleStored
<1>5. PICK m \in Nat, t \in Nat, s \in Nat :
        /\ m = Value(r, 0, 2 * N - 1) /\ t = Weight[2 * N]
        /\ s = Value(w, 0, 2 * N - 1) + v * Weight[from] /\ s < t
  <2>1. Weight[2 * N] \in Nat /\ Weight[from] \in Nat
    BY <1>1
  <2>2. Value(r, 0, 2 * N - 1) \in Nat /\ Value(w, 0, 2 * N - 1) \in Nat
    BY <1>4, <2>1, WideValue
  <2>3. v * Weight[from] \in Nat
    BY <2>1
  <2>4. Value(w, 0, 2 * N - 1) + v * Weight[from] \in Nat
    BY <2>2, <2>3
  <2> QED  BY <2>1, <2>2, <2>4
<1>6. m + c * t = s
  BY <1>2, <1>4, <1>5
<1>7. c = 0
  BY <1>4, <1>5, <1>6, Overflows
<1> QED  BY <1>4, <1>5, <1>6, <1>7

LEMMA RippleRows ==
  ASSUME RadixFits, Placed, i \in 0 .. N - 1, x = N, pending \in {0, 1}, RowsSum, Ripple
  PROVE  /\ wide' \in Wide
         /\ Value(wide', 0, 2 * N - 1) = Value(src1, 0, i) * Value2
         /\ i + 1 < N => RowsSum'
<1>1. pending = 0 /\ Value(wide, 0, 2 * N - 1) = Value(src1, 0, i) * Value2
  BY RowEnd
<1>2. /\ N \in Nat \ {0} /\ 2 * N \in 0 .. 2 * N + 2
      /\ wide \in Wide /\ \A k \in 0 .. 2 * N + 2 : Weight[k] \in Nat \ {0}
  BY Radix DEF Placed
<1>3. wide' \in Wide /\ Value(wide', 0, 2 * N - 1) = Value(wide, 0, 2 * N - 1)
  <2>1. CASE i + 1 + x < 2 * N
    <3> DEFINE r == wide'
    <3>1. PICK from \in 0 .. 2 * N - 1, none \in Nat, w \in Wide :
             from = i + 1 + x /\ none = 0 /\ w = wide
      <4>1. i + 1 + x \in 0 .. 2 * N - 1 /\ 0 \in Nat
        BY <1>2, <2>1
      <4> QED  BY <1>2, <4>1
    <3>2. r = Rippled(w, from, 2 * N - 1, none)
      BY <1>1, <2>1, <3>1 DEF Ripple
    <3>3. PICK v \in Nat : v = Value(w, 0, 2 * N - 1) /\ v < Weight[2 * N]
      <4>1. Weight[2 * N] \in Nat
        BY <1>2
      <4> QED  BY <4>1, WideValue
    <3>4. none * Weight[from] = 0
      <4>1. Weight[from] \in Nat
        <5>1. from \in 0 .. 2 * N + 2
          BY <1>2
        <5> QED  BY <1>2, <5>1
      <4> QED  BY <3>1, <4>1
    <3>5. Value(w, 0, 2 * N - 1) + none * Weight[from] < Weight[2 * N]
      BY <3>3, <3>4
    <3> HIDE DEF r
    <3>6. r \in Wide /\ Value(r, 0, 2 * N - 1) = Value(w, 0, 2 * N - 1) + none * Weight[from]
      BY <3>2, <3>5, RippleFits
    <3> USE DEF r
    <3> QED  BY <3>1, <3>3, <3>4, <3>6
  <2>2. CASE ~(i + 1 + x < 2 * N)
    BY <1>2, <2>2 DEF Ripple
  <2> QED  BY <2>1, <2>2
<1>4. ASSUME i + 1 < N PROVE RowsSum'
  <2>1. /\ i' = i + 1 /\ x' = 0 /\ pending' = 0 /\ src1' = src1 /\ src2' = src2
        /\ (i + 1) - 1 = i
    BY DEF Ripple
  <2>2. Done' = Value(src1, 0, i) * Value2
    BY <2>1 DEF Done, Value2
  <2>3. Part' = 0
    <3>1. src1[i + 1] \in Nat /\ Weight[i + 1] \in Nat
      <4>1. i + 1 \in 0 .. N - 1 /\ i + 1 \in 0 .. 2 * N + 2
        BY <1>2, <1>4
      <4> QED  BY <1>2, <4>1, ElementBytes DEF Placed
    <3>2. Value(src2, 0, 0 - 1) = 0
      BY ValueEmpty
    <3>3. Part' = src1[i + 1] * Weight[i + 1] * 0
      BY <2>1, <3>2 DEF Part
    <3>4. PICK m \in Nat : m = src1[i + 1] * Weight[i + 1]
      BY <3>1
    <3> QED  BY <3>3, <3>4
  <2>4. Weight[Target'] \in Nat
    <3>1. Target' \in 0 .. 2 * N + 2
      BY <1>2, <1>4, <2>1 DEF Target
    <3> QED  BY <1>2, <3>1
  <2>5. Value(src1, 0, i) * Value2 \in Nat
    <3>1. Weight[2 * N] \in Nat
      BY <1>2
    <3> QED  BY <1>1, <3>1, WideValue DEF Placed
  <2>6. Value(wide', 0, 2 * N - 1) + 0 * Weight[Target'] = Done' + Part'
    BY <1>1, <1>3, <2>2, <2>3, <2>4, <2>5
  <2> QED  BY <2>1, <2>6 DEF RowsSum
<1> QED  BY <1>1, <1>3, <1>4

(***************************************************************************)
(* fe_reduce_wide.  The halves of the buffer are the remainder and the      *)
(* quotient of the number it holds.                                         *)
(***************************************************************************)
LEMMA Halves ==
  ASSUME RadixFits, NEW w \in Wide
  PROVE  /\ Value(w, 0, N - 1) \in 0 .. R - 1 /\ Value(w, N, 2 * N - 1) \in Int
         /\ Value(w, 0, 2 * N - 1) = Value(w, 0, N - 1) + R * Value(w, N, 2 * N - 1)
<1>1. /\ N \in Nat \ {0} /\ Weight[N] = R /\ N \in 0 .. (2 * N - 1) + 1 /\ N - 0 <= 2 * N + 2
      /\ N - 0 = N /\ 0 \in Int /\ 2 * N - 1 \in Int /\ N \in 0 .. 2 * N
  BY Radix
<1>2. /\ \A k \in 0 .. 2 * N - 1 : w[k] \in Int
      /\ \A k \in 0 .. N - 1 : w[k] \in Byte
  BY <1>1, WideInts
<1>3. Value(w, 0, N - 1) \in 0 .. Weight[N] - 1
  BY <1>1, <1>2, ValueBound
<1>4. /\ Value(w, N, 2 * N - 1) \in Int
      /\ Value(w, 0, 2 * N - 1)
           = Value(w, 0, N - 1) + Weight[N - 0] * Value(w, N, 2 * N - 1)
  BY <1>1, <1>2, ValueSplit
<1> QED  BY <1>1, <1>3, <1>4

LEMMA HalvesOf ==
  ASSUME RadixFits, NEW w \in Wide, NEW s \in Int, Value(w, 0, 2 * N - 1) = s
  PROVE  Value(w, N, 2 * N - 1) = s \div R /\ Value(w, 0, N - 1) = s % R
<1>1. PICK low \in 0 .. R - 1, high \in Int :
         low = Value(w, 0, N - 1) /\ high = Value(w, N, 2 * N - 1)
  BY Halves
<1>2. s = R * high + low
  <2>1. s = low + R * high
    BY <1>1, Halves
  <2>2. R * high \in Int /\ low \in Int
    BY <1>1, Constants
  <2> QED  BY <2>1, <2>2
<1>3. (R * high + low) % R = low /\ (R * high + low) \div R = high
  BY Constants, DivModUnique
<1> QED  BY <1>1, <1>2, <1>3

\* One byte more of the high half.
LEMMA HighTop ==
  ASSUME RadixFits, NEW w \in Wide, NEW n \in 0 .. N - 1
  PROVE  /\ Value(w, N, N + n - 1) \in Int
         /\ Value(w, N, N + n) = Value(w, N, N + n - 1) + Weight[n] * w[N + n]
<1>1. /\ N \in Nat \ {0} /\ N \in Int /\ N + n \in Int /\ N + n \in N .. (N + n) + 1
      /\ (N + n) - N = n /\ n <= 2 * N + 2 /\ N + n <= N + n /\ (N + n + 1) - 1 = N + n
      /\ B \in Int
      /\ \A k \in N .. N + n : k \in 0 .. 2 * N - 1
  BY Radix
<1>2. \A k \in N .. N + n : w[k] \in Int
  BY <1>1, WideInts
<1>3. /\ Value(w, N, (N + n) - 1) \in Int
      /\ Value(w, N, N + n)
           = Value(w, N, (N + n) - 1) + Weight[(N + n) - N] * Value(w, N + n, N + n)
  BY <1>1, <1>2, ValueSplit
<1>4. Value(w, N + n, N + n) = w[N + n]
  <2>1. Value(w, N + n, N + n) = w[N + n] + B * Value(w, (N + n) + 1, N + n)
    BY <1>1, ValueStep
  <2>2. Value(w, (N + n) + 1, ((N + n) + 1) - 1) = 0
    BY <1>1, ValueEmpty
  <2>3. w[N + n] \in Int
    BY <1>1, <1>2
  <2> QED  BY <1>1, <2>1, <2>2, <2>3
<1> QED  BY <1>1, <1>3, <1>4

FoldState ==
  /\ Value(wide, N, 2 * N - 1) = (Value1 * Value2) \div R
  /\ Value(wide, 0, N - 1) + carry * Weight[x]
       = ((Value1 * Value2) % R) + Fold * Value(wide, N, N + x - 1)

LEMMA ProductRange ==
  ASSUME RadixFits, Placed
  PROVE  /\ Value1 \in Word /\ Value2 \in Word
         /\ Value1 * Value2 \in Nat /\ Value1 * Value2 <= (R - 1) * (R - 1)
<1>1. N \in Nat \ {0} /\ N \in 0 .. N /\ Weight[N] = R /\ R \in Nat \ {0}
  BY Radix, Constants
<1>2. Value1 \in 0 .. R - 1 /\ Value2 \in 0 .. R - 1
  BY <1>1, ElementBytes DEF Placed, Value1, Value2
<1>3. PICK a \in Nat, c \in Nat, m \in Nat :
         a = Value1 /\ c = Value2 /\ m = R - 1 /\ a <= m /\ c <= m
  BY <1>1, <1>2
<1>4. a * c \in Nat /\ a * c <= a * m /\ a * m <= m * m
  BY <1>3
<1> QED  BY <1>2, <1>3, <1>4 DEF Word

(* The first fold begins with the product, and ends with one fold of it. *)
LEMMA FoldStart ==
  ASSUME RadixFits, NEW w \in Wide, NEW s \in Nat, Value(w, 0, N - 1) = s % R
  PROVE  Value(w, 0, N - 1) + 0 * Weight[0] = (s % R) + Fold * Value(w, N, N + 0 - 1)
<1>1. Value(w, N, N + 0 - 1) = 0
  <2>1. N \in Int /\ N + 0 - 1 = N - 1
    BY Radix
  <2>2. Value(w, N, N - 1) = 0
    BY <2>1, ValueEmpty
  <2> QED  BY <2>1, <2>2
<1>2. Weight[0] = 1 /\ Fold \in Int /\ s % R \in Int
  <2>1. R \in Nat \ {0} /\ Fold \in Int /\ s \in Int
    BY Constants
  <2>2. s % R \in 0 .. R - 1
    BY <2>1, DivMod
  <2> QED  BY <2>1, <2>2, Radix
<1> QED  BY <1>1, <1>2

LEMMA FoldByteKeeps ==
  ASSUME RadixFits, Placed, carry \in Byte, x \in 0 .. N - 1, FoldState, FoldByte
  PROVE  /\ wide' \in Wide /\ carry' \in Byte /\ FoldState'
         /\ x + 1 = N => Value(wide', 0, N - 1) + carry' * R = FoldOnce(Value1 * Value2)
<1>1. /\ N \in Nat \ {0} /\ B \in Nat \ {0} /\ B > 2 /\ Fold \in Nat /\ Fold <= B - 1
      /\ R \in Nat \ {0} /\ Weight[N] = R
      /\ x \in 0 .. 2 * N - 1 /\ N + x \in 0 .. 2 * N - 1 /\ N - 1 \in 0 .. 2 * N - 1 /\ x <= N - 1
      /\ x \in 0 .. 2 * N + 1 /\ x \in 0 .. 2 * N + 2
      /\ \A k \in 0 .. 2 * N + 1 : Weight[k + 1] = B * Weight[k]
      /\ \A k \in 0 .. 2 * N + 2 : Weight[k] \in Nat \ {0}
  BY Radix, Constants
<1>2. /\ wide[x] \in Byte /\ wide[N + x] \in Byte /\ \A b \in Byte : b \in Nat /\ b <= B - 1
      /\ wide \in Wide
  <2>1. \A b \in Byte : b \in Nat /\ b <= B - 1
    BY <1>1 DEF Byte
  <2>2. wide \in Wide
    BY DEF Placed
  <2>3. wide[x] \in Byte /\ wide[N + x] \in Byte
    BY <1>1, <2>2, WideInts
  <2> QED  BY <2>1, <2>2, <2>3
<1>3. PICK m \in Nat, n \in Nat, c \in Nat, f \in Nat, b \in Nat \ {0}, t \in Int :
         /\ m = wide[x] /\ n = wide[N + x] /\ c = carry /\ f = Fold /\ b = B /\ t = Weight[x]
         /\ m <= b - 1 /\ n <= b - 1 /\ c <= b - 1 /\ f <= b - 1
  <2>1. Weight[x] \in Int
    BY <1>1
  <2> QED  BY <1>1, <1>2, <2>1
<1>4. PICK sum \in Nat : sum = m + f * n + c /\ sum < b * ((b - 1) + 1)
  <2>1. f * n \in Nat /\ f * n <= (b - 1) * (b - 1)
    <3>1. f * n <= f * (b - 1) /\ f * (b - 1) <= (b - 1) * (b - 1)
      BY <1>3
    <3> QED  BY <3>1
  <2>2. (b - 1) * (b - 1) = b * ((b - 1) + 1) - 2 * b + 1
    OBVIOUS
  <2>3. m + f * n + c \in Nat
    BY <2>1
  <2> QED  BY <1>3, <2>1, <2>2, <2>3
<1>5. PICK q \in Nat, s \in Byte : /\ q = sum \div b /\ s = sum % b /\ sum = b * q + s
                                /\ q \in Byte /\ q = q % b
  <2>1. b - 1 \in Nat
    OBVIOUS
  <2>2. /\ sum \div b \in Nat /\ sum % b \in 0 .. b - 1 /\ sum = b * (sum \div b) + (sum % b)
        /\ sum \div b <= b - 1
    BY <1>4, <2>1, NatDivides
  <2>3. (sum \div b) % b = sum \div b
    BY <2>2, ModSmall
  <2> QED  BY <1>3, <2>2, <2>3 DEF Byte
<1>6. /\ wide' = [wide EXCEPT ![x] = s] /\ carry' = q /\ x' = x + 1
      /\ src1' = src1 /\ src2' = src2
  <2>1. sum = wide[x] + Fold * wide[N + x] + carry
    BY <1>3, <1>4
  <2> QED  BY <1>3, <1>5, <2>1 DEF FoldByte
<1>7. /\ wide' \in Wide
      /\ Value(wide', 0, N - 1) = Value(wide, 0, N - 1) + Weight[x] * (s - wide[x])
  <2>1. PICK k \in 0 .. 2 * N - 1, last \in 0 .. 2 * N - 1 : k = x /\ last = N - 1 /\ k <= last
    BY <1>1
  <2>2. /\ [wide EXCEPT ![k] = s] \in Wide
        /\ Value([wide EXCEPT ![k] = s], 0, last) = Value(wide, 0, last) + Weight[k] * (s - wide[k])
    BY <1>2, <2>1, ByteStored
  <2> QED  BY <1>6, <2>1, <2>2
<1>8. /\ Value(wide', N, 2 * N - 1) = Value(wide, N, 2 * N - 1)
      /\ Value(wide', N, N + x) = Value(wide, N, N + x)
  <2>1. /\ N \in Int /\ 2 * N - 1 \in Int /\ N <= (2 * N - 1) + 1
        /\ N + x \in Int /\ N <= (N + x) + 1 /\ \A k \in N .. N + x : k \in N .. 2 * N - 1
        /\ \A k \in N .. 2 * N - 1 : k \in 0 .. 2 * N - 1 /\ k # x
    BY <1>1
  <2>2. \A k \in N .. 2 * N - 1 : wide'[k] = wide[k]
    <3>1. \A k \in 0 .. 2 * N - 1 : k # x => wide'[k] = wide[k]
      BY <1>6 DEF Placed, Wide
    <3> QED  BY <2>1, <3>1
  <2>3. \A k \in N .. N + x : wide'[k] = wide[k]
    BY <2>1, <2>2
  <2> QED  BY <2>1, <2>2, <2>3, ValueSame
<1>9. PICK v \in Int, h \in Int, l \in Int :
         /\ v = Value(wide, 0, N - 1) /\ h = Value(wide, N, N + x - 1)
         /\ l = (Value1 * Value2) % R
  <2>1. Value(wide, 0, N - 1) \in Int
    BY <1>1, <1>2, Halves
  <2>2. Value(wide, N, N + x - 1) \in Int
    BY <1>2, HighTop
  <2>3. (Value1 * Value2) % R \in Int
    <3>1. PICK p \in Int : p = Value1 * Value2
      BY ProductRange
    <3>2. p % R \in 0 .. R - 1
      BY <1>1, DivMod
    <3> QED  BY <1>1, <3>1, <3>2
  <2> QED  BY <2>1, <2>2, <2>3
<1>10. (v + t * (s - m)) + q * (b * t) = l + f * (h + t * n)
  <2>1. s \in Int /\ q \in Int /\ b \in Int
    BY <1>2
  <2>2. t * s + q * (b * t) = t * sum
    <3>1. sum \in Int /\ sum = b * q + s
      BY <1>5
    <3> QED  BY <2>1, <3>1, CarryStep
  <2>3. v + c * t = l + f * h
    BY <1>3, <1>9 DEF FoldState
  <2>4. t * sum = t * m + (f * (t * n)) + c * t
    <3>1. PICK e \in Int : e = f * n
      OBVIOUS
    <3>2. t * (m + e + c) = t * m + t * e + c * t
      BY <3>1
    <3>3. t * (f * n) = f * (t * n)
      OBVIOUS
    <3> QED  BY <1>4, <3>1, <3>2, <3>3
  <2>5. t * (s - m) = t * s - t * m
    BY <2>1
  <2>6. f * (h + t * n) = f * h + f * (t * n)
    <3>1. PICK e \in Int : e = t * n
      OBVIOUS
    <3>2. f * (h + e) = f * h + f * e
      BY <3>1
    <3> QED  BY <3>1, <3>2
  <2>7. /\ t * s \in Int /\ q * (b * t) \in Int /\ t * m \in Int /\ f * (t * n) \in Int
        /\ c * t \in Int /\ f * h \in Int
    BY <2>1
  <2>8. PICK e1 \in Int, e2 \in Int, e3 \in Int, e4 \in Int, e5 \in Int, e6 \in Int :
          /\ e1 = t * s /\ e2 = q * (b * t) /\ e3 = t * m /\ e4 = f * (t * n)
          /\ e5 = c * t /\ e6 = f * h
    BY <2>7
  <2>9. e1 + e2 = e3 + e4 + e5 /\ v + e5 = l + e6
    BY <2>2, <2>3, <2>4, <2>8
  <2>10. (v + (e1 - e3)) + e2 = l + (e6 + e4)
    BY <2>9
  <2> QED  BY <2>5, <2>6, <2>8, <2>10
<1>11. Value(wide', 0, N - 1) + carry' * Weight[x + 1]
         = ((Value1 * Value2) % R) + Fold * Value(wide', N, N + x)
  <2>1. Weight[x + 1] = b * t
    BY <1>1, <1>3
  <2>2. Value(wide, N, N + x) = h + t * n
    BY <1>2, <1>3, <1>9, HighTop
  <2> QED  BY <1>3, <1>6, <1>7, <1>8, <1>9, <1>10, <2>1, <2>2
<1>12. Value1' = Value1 /\ Value2' = Value2
  BY <1>6 DEF Value1, Value2
<1>13. FoldState'
  <2>1. N + x' - 1 = N + x
    BY <1>1, <1>6
  <2> QED  BY <1>6, <1>8, <1>11, <1>12, <2>1 DEF FoldState
<1>14. ASSUME x + 1 = N
       PROVE  Value(wide', 0, N - 1) + carry' * R = FoldOnce(Value1 * Value2)
  <2>1. N + x = 2 * N - 1
    BY <1>1, <1>14
  <2>2. Value(wide', N, N + x) = (Value1 * Value2) \div R
    BY <1>8, <2>1 DEF FoldState
  <2> QED  BY <1>1, <1>11, <1>14, <2>2 DEF FoldOnce
<1> QED  BY <1>5, <1>6, <1>7, <1>13, <1>14

LEMMA FoldedCarry ==
  ASSUME NEW v \in 0 .. R - 1, NEW c \in Nat
  PROVE  FoldOnce(v + c * R) = v + Fold * c
<1>1. R \in Nat \ {0} /\ c \in Int
  BY Constants
<1>2. (R * c + v) % R = v /\ (R * c + v) \div R = c
  BY <1>1, DivModUnique
<1>3. v + c * R = R * c + v
  BY <1>1
<1> QED  BY <1>2, <1>3 DEF FoldOnce

(* The second fold: what its cascade hands out is one bit. *)
LEMMA SectionBKeeps ==
  ASSUME RadixFits, UnrollFits, Placed, carry \in Byte, SectionB
  PROVE  /\ wide' \in Wide /\ carry' \in {0, 1}
         /\ Value(wide', 0, N - 1) + carry' * R = FoldOnce(Value(wide, 0, N - 1) + carry * R)
<1>1. /\ N \in Nat \ {0} /\ N >= 2 /\ B \in Nat \ {0} /\ B > 2 /\ Fold \in Byte
      /\ R \in Nat \ {0} /\ Weight[N] = R /\ Weight[0] = 1
      /\ Weight[0 + 1] = B * Weight[0] /\ Weight[1 + 1] = B * Weight[1]
      /\ wide \in Wide
  <2>1. N >= 2
    BY DEF UnrollFits
  <2>2. /\ N \in Nat \ {0} /\ B \in Nat \ {0} /\ B > 2 /\ Fold < B
        /\ Weight[N] = R /\ Weight[0] = 1
        /\ \A k \in 0 .. 2 * N + 1 : Weight[k + 1] = B * Weight[k]
    BY Radix
  <2>3. Fold \in Byte /\ R \in Nat \ {0}
    BY <2>2, Constants DEF Byte
  <2>4. 0 \in 0 .. 2 * N + 1 /\ 1 \in 0 .. 2 * N + 1
    BY <2>1, <2>2
  <2> QED  BY <2>1, <2>2, <2>3, <2>4 DEF Placed
<1>2. Weight[1] = B * 1 /\ Weight[2] = B * (B * 1)
  BY <1>1
<1>3. /\ wide[0] \in Byte /\ wide[1] \in Byte
      /\ \A b \in Byte : b \in Nat /\ b <= B - 1
  <2>1. 0 \in 0 .. 2 * N - 1 /\ 1 \in 0 .. 2 * N - 1
    BY <1>1
  <2>2. \A b \in Byte : b \in Nat /\ b <= B - 1
    BY <1>1 DEF Byte
  <2> QED  BY <1>1, <2>1, <2>2, WideInts
<1>4. PICK p \in Nat, pl \in Nat, ph \in Nat :
         /\ p = Fold * carry /\ pl = (Fold * carry) % B /\ ph = (Fold * carry) \div B
         /\ p = B * ph + pl /\ pl <= B - 1 /\ ph <= B - 2
  <2>1. /\ Fold * carry \in Nat
        /\ (Fold * carry) % B \in Byte /\ (Fold * carry) \div B \in 0 .. B - 2
        /\ Fold * carry = B * ((Fold * carry) \div B) + ((Fold * carry) % B)
    BY <1>1, ProductOfBytes
  <2>2. (Fold * carry) \div B \in Nat /\ (Fold * carry) \div B <= B - 2
    BY <1>1, <2>1
  <2> QED  BY <1>3, <2>1, <2>2
<1>5. PICK a \in Nat, d \in Nat : /\ a = wide[0] /\ d = wide[1] /\ a <= B - 1 /\ d <= B - 1
  BY <1>3
<1>6. PICK low \in Nat, l \in {0, 1}, l0 \in Byte :
         low = a + pl /\ l = low \div B /\ l0 = low % B /\ low = B * l + l0
  <2>1. PICK low \in Nat : low = a + pl /\ low < B * 2
    <3>1. PICK b \in Nat : b = B /\ a <= b - 1 /\ pl <= b - 1
      BY <1>1, <1>4, <1>5
    <3>2. a + pl \in Nat /\ a + pl < b * 2
      BY <3>1
    <3> QED  BY <3>1, <3>2
  <2> QED  BY <2>1, OneCarry
<1>7. PICK high \in Nat, h \in {0, 1}, h0 \in Byte :
         high = d + ph + l /\ h = high \div B /\ h0 = high % B /\ high = B * h + h0
  <2>1. PICK high \in Nat : high = d + ph + l /\ high < B * 2
    <3>1. PICK b \in Nat : b = B /\ d <= b - 1 /\ ph <= b - 2
      BY <1>1, <1>4, <1>5
    <3>2. d + ph + l \in Nat /\ d + ph + l < b * 2
      BY <3>1
    <3> QED  BY <3>1, <3>2
  <2> QED  BY <2>1, OneCarry
<1> DEFINE w == [wide EXCEPT ![0] = l0, ![1] = h0]
<1>8. /\ wide' = Rippled(w, 2, N - 1, h)
      /\ carry' = Carries(w, 2, h)[N]
  BY <1>4, <1>5, <1>6, <1>7 DEF SectionB
<1>9. /\ w \in Wide
      /\ Value(w, 0, N - 1)
           = Value(wide, 0, N - 1) + Weight[0] * (l0 - wide[0]) + Weight[1] * (h0 - wide[1])
  <2>1. Stored2(w, wide, 0, 1, l0, h0)
    BY DEF Stored2
  <2> HIDE DEF w
  <2>2. PICK last \in 0 .. 2 * N - 1, k \in Int, k1 \in Int :
          last = N - 1 /\ k = 0 /\ k1 = 1 /\ k1 = k + 1 /\ k \in 0 .. last - 1
    BY <1>1
  <2>3. /\ w \in Wide
        /\ Value(w, 0, last)
             = Value(wide, 0, last) + Weight[k] * (l0 - wide[k]) + Weight[k1] * (h0 - wide[k1])
    <3>1. Stored2(w, wide, k, k1, l0, h0)
      BY <2>1, <2>2
    <3> QED  BY <1>1, <2>2, <3>1, TwoStored
  <2> QED  BY <2>2, <2>3
<1> HIDE DEF w
<1>10. /\ wide' \in Wide /\ carry' \in {0, 1}
       /\ Value(wide', 0, N - 1) + carry' * R = Value(w, 0, N - 1) + h * Weight[2]
  <2>1. PICK from \in 0 .. 2 * N - 1, to \in 0 .. 2 * N - 1 :
          from = 2 /\ to = N - 1 /\ from <= to + 1 /\ to + 1 = N
    BY <1>1
  <2>2. PICK r, out : r = wide' /\ out = carry' /\ Ripples(r, out, w, from, to, h)
    BY <1>8, <2>1 DEF Ripples
  <2>3. h \in Nat /\ h <= 1
    OBVIOUS
  <2>4. /\ r \in Wide /\ (h <= 1 => out \in {0, 1})
        /\ Value(r, 0, to) + out * Weight[to + 1] = Value(w, 0, to) + h * Weight[from]
    BY <1>9, <2>1, <2>2, <2>3, RippleStored
  <2> QED  BY <1>1, <2>1, <2>2, <2>3, <2>4
<1>11. Value(wide, 0, N - 1) \in 0 .. R - 1
  BY <1>1, Halves
<1>12. PICK v \in Nat, b \in Nat \ {0} : v = Value(wide, 0, N - 1) /\ b = B
  BY <1>1, <1>11
<1>13. 1 * (l0 - a) + (b * 1) * (h0 - d) + h * (b * (b * 1)) = 1 * p
  <2>1. /\ 1 \in Int /\ b \in Int /\ a \in Int /\ d \in Int /\ p \in Int /\ ph \in Int
        /\ pl \in Int /\ l \in Int /\ l0 \in Int /\ h \in Int /\ h0 \in Int
    BY <1>3
  <2>2. p = b * ph + pl /\ a + pl = b * l + l0 /\ d + ph + l = b * h + h0
    BY <1>4, <1>6, <1>7, <1>12
  <2>3. PICK t \in Int : t = 1
    OBVIOUS
  <2>4. t * (l0 - a) + (b * t) * (h0 - d) + h * (b * (b * t)) = t * p
    BY <2>1, <2>2, BodyWeight
  <2> QED  BY <2>3, <2>4
<1>14. Value(wide', 0, N - 1) + carry' * R = v + p
  <2>1. PICK e \in Int, f \in Int, g \in Int :
           e = 1 * (l0 - a) /\ f = (b * 1) * (h0 - d) /\ g = h * (b * (b * 1))
    <3>1. l0 \in Int /\ h0 \in Int /\ h \in Int
      BY <1>3
    <3> QED  BY <3>1
  <2>2. Value(w, 0, N - 1) + h * Weight[2] = ((v + e) + f) + g
    BY <1>1, <1>2, <1>5, <1>9, <1>12, <2>1
  <2>3. (e + f) + g = p
    BY <1>13, <2>1
  <2> QED  BY <1>10, <2>2, <2>3
<1>15. FoldOnce(v + carry * R) = v + Fold * carry
  <2>1. carry \in Nat
    BY <1>3
  <2> QED  BY <1>11, <1>12, <2>1, FoldedCarry
<1> QED  BY <1>4, <1>10, <1>12, <1>14, <1>15

(* The third fold: nothing comes out at the top. *)
LEMMA SectionCKeeps ==
  ASSUME RadixFits, UnrollFits, Placed, carry \in {0, 1}, SectionC,
         FoldOnce(Value(wide, 0, N - 1) + carry * R) \in Word
  PROVE  /\ wide' \in Wide
         /\ Value(wide', 0, N - 1) = FoldOnce(Value(wide, 0, N - 1) + carry * R)
<1>1. /\ N \in Nat \ {0} /\ N >= 2 /\ B \in Nat \ {0} /\ B > 2 /\ Fold \in Nat /\ Fold <= B - 1
      /\ R \in Nat \ {0} /\ Weight[N] = R /\ Weight[0] = 1 /\ Weight[1] = B
      /\ wide \in Wide
  <2>1. N >= 2
    BY DEF UnrollFits
  <2>2. /\ N \in Nat \ {0} /\ B \in Nat \ {0} /\ B > 2 /\ Fold < B
        /\ Weight[N] = R /\ Weight[0] = 1
        /\ \A k \in 0 .. 2 * N + 1 : Weight[k + 1] = B * Weight[k]
    BY Radix
  <2>3. Weight[0 + 1] = B * Weight[0]
    BY <2>2
  <2> QED  BY <2>1, <2>2, <2>3, Constants DEF Placed
<1>2. PICK a \in Nat : a = wide[0] /\ a <= B - 1
  <2>1. 0 \in 0 .. 2 * N - 1
    BY <1>1
  <2>2. wide[0] \in Byte
    BY <1>1, <2>1, WideInts
  <2> QED  BY <1>1, <2>2 DEF Byte
<1>3. PICK p \in Nat : p = Fold * carry /\ p <= B - 1
  BY <1>1
<1>4. PICK low \in Nat, l \in {0, 1}, l0 \in Byte :
         low = a + p /\ l = low \div B /\ l0 = low % B /\ low = B * l + l0
  <2>1. PICK low \in Nat : low = a + p /\ low < B * 2
    BY <1>1, <1>2, <1>3
  <2> QED  BY <2>1, OneCarry
<1> DEFINE w == [wide EXCEPT ![0] = l0]
<1>5. wide' = Rippled(w, 1, N - 1, l)
  BY <1>2, <1>3, <1>4 DEF SectionC
<1>6. w \in Wide /\ Value(w, 0, N - 1) = Value(wide, 0, N - 1) + Weight[0] * (l0 - wide[0])
  <2>1. PICK last \in 0 .. 2 * N - 1, k \in 0 .. 2 * N - 1 : last = N - 1 /\ k = 0 /\ k <= last
    BY <1>1
  <2>2. /\ [wide EXCEPT ![k] = l0] \in Wide
        /\ Value([wide EXCEPT ![k] = l0], 0, last)
             = Value(wide, 0, last) + Weight[k] * (l0 - wide[k])
    BY <1>1, <2>1, ByteStored
  <2> QED  BY <2>1, <2>2
<1> HIDE DEF w
<1>7. PICK out \in Nat : /\ wide' \in Wide
                         /\ Value(wide', 0, N - 1) + out * R = Value(w, 0, N - 1) + l * B
  <2>1. PICK from \in 0 .. 2 * N - 1, to \in 0 .. 2 * N - 1 :
          from = 1 /\ to = N - 1 /\ from <= to + 1 /\ to + 1 = N
    BY <1>1
  <2>2. PICK r, out : r = wide' /\ Ripples(r, out, w, from, to, l)
    BY <1>5, <2>1 DEF Ripples
  <2>3. l \in Nat
    OBVIOUS
  <2>4. /\ r \in Wide /\ out \in Nat
        /\ Value(r, 0, to) + out * Weight[to + 1] = Value(w, 0, to) + l * Weight[from]
    BY <1>6, <2>1, <2>2, <2>3, RippleStored
  <2> QED  BY <1>1, <2>1, <2>2, <2>4
<1>8. PICK v \in Nat, u \in Nat : v = Value(wide, 0, N - 1) /\ v \in 0 .. R - 1
                                /\ u = Value(wide', 0, N - 1)
  BY <1>1, <1>7, Halves
<1>9. u + out * R = v + p
  <2>1. l0 \in Int /\ l * B = low - l0
    BY <1>1, <1>4 DEF Byte
  <2>2. Value(w, 0, N - 1) + l * B = (v + (l0 - a)) + (low - l0)
    <3>1. Value(w, 0, N - 1) = v + 1 * (l0 - a)
      BY <1>1, <1>2, <1>6, <1>8
    <3>2. 1 * (l0 - a) = l0 - a
      BY <2>1
    <3> QED  BY <2>1, <3>1, <3>2
  <2> QED  BY <1>4, <1>7, <1>8, <2>1, <2>2
<1>10. FoldOnce(v + carry * R) = v + p
  BY <1>3, <1>8, FoldedCarry
<1>11. v + p < R
  BY <1>1, <1>8, <1>10 DEF Word
<1>12. out = 0
  <2>1. PICK s \in Nat : s = v + p /\ s < R /\ R \in Nat
    BY <1>1, <1>11
  <2>2. u + out * R = s
    BY <1>9, <2>1
  <2> QED  BY <2>1, <2>2, Overflows
<1> QED  BY <1>1, <1>7, <1>8, <1>9, <1>10, <1>12

(***************************************************************************)
(* The reduction, whoever filled the buffer: FoldState is the loop          *)
(* invariant of the first fold, which no property names.                    *)
(***************************************************************************)
Reduced ==
  /\ src1 \in Operands /\ src2 \in Operands /\ dst \in Elements
  /\ wide \in Wide /\ carry \in Byte

Reducing ==
  /\ pc = "fold" => x \in 0 .. N - 1 /\ FoldState
  /\ pc = "section_c" => carry \in {0, 1}
  /\ FoldsExact

LEMMA BytesAreBytes ==
  ASSUME RadixFits, OperandsFit, UnrollFits
  PROVE  /\ 0 \in Byte /\ 1 \in Byte /\ [k \in 0 .. N - 1 |-> 0] \in Elements
         /\ [k \in 0 .. 2 * N - 1 |-> 0] \in Wide /\ StaleWide \subseteq Wide
         /\ Operands \subseteq Elements /\ N >= 2 /\ 0 \in 0 .. N /\ 0 \in 0 .. N - 1
<1>1. /\ N \in Nat \ {0} /\ B \in Nat \ {0} /\ B > 2 /\ N >= 2 /\ Operands \subseteq Elements
  BY Radix DEF UnrollFits, OperandsFit
<1>2. 0 \in Byte /\ 1 \in Byte /\ B - 1 \in Byte
  BY <1>1 DEF Byte
<1> QED  BY <1>1, <1>2 DEF Elements, Wide, StaleWide

LEMMA ReducedPlaced ==
  ASSUME RadixFits, OperandsFit, UnrollFits, Reduced
  PROVE  Placed
<1> QED  BY BytesAreBytes DEF Reduced, Placed

LEMMA FoldByteStep ==
  ASSUME RadixFits, OperandsFit, UnrollFits, Reduced, Reducing, FoldByte
  PROVE  Reduced' /\ Reducing'
<1>1. /\ pc = "fold" /\ x \in 0 .. N - 1 /\ carry \in Byte /\ FoldState /\ Placed
  BY ReducedPlaced DEF Reduced, Reducing, FoldByte
<1>2. /\ wide' \in Wide /\ carry' \in Byte /\ FoldState'
      /\ x + 1 = N => Value(wide', 0, N - 1) + carry' * R = FoldOnce(Value1 * Value2)
  BY <1>1, FoldByteKeeps
<1>3. /\ x' = x + 1 /\ pc' = (IF x + 1 = N THEN "section_b" ELSE "fold")
      /\ src1' = src1 /\ src2' = src2 /\ i' = i /\ pending' = pending /\ dst' = dst
  BY DEF FoldByte
<1>4. x + 1 \in 0 .. N /\ (x + 1 # N => x + 1 \in 0 .. N - 1)
  BY <1>1, Radix
<1>5. Reduced'
  BY <1>2, <1>3, <1>4 DEF Reduced
<1>6. Value1' = Value1 /\ Value2' = Value2
  BY <1>3 DEF Value1, Value2
<1>7. FoldsExact'
  <2>1. CASE x + 1 = N
    <3>1. pc' = "section_b"
      BY <1>3, <2>1
    <3>2. Value(wide', 0, N - 1) + carry' * R = FoldOnce(Value1' * Value2')
      BY <1>2, <1>6, <2>1
    <3> QED  BY <3>1, <3>2 DEF FoldsExact
  <2>2. CASE x + 1 # N
    BY <1>3, <2>2 DEF FoldsExact
  <2> QED  BY <2>1, <2>2
<1>8. Reducing'
  <2>1. pc' = "fold" => x' \in 0 .. N - 1 /\ FoldState'
    BY <1>2, <1>3, <1>4
  <2>2. pc' # "section_c"
    BY <1>3
  <2> QED  BY <1>7, <2>1, <2>2 DEF Reducing
<1> QED  BY <1>5, <1>8

LEMMA SectionBStep ==
  ASSUME RadixFits, OperandsFit, UnrollFits, Reduced, Reducing, SectionB
  PROVE  Reduced' /\ Reducing'
<1>1. pc = "section_b" /\ carry \in Byte /\ Placed
  BY ReducedPlaced DEF Reduced, SectionB
<1>2. /\ wide' \in Wide /\ carry' \in {0, 1}
      /\ Value(wide', 0, N - 1) + carry' * R = FoldOnce(Value(wide, 0, N - 1) + carry * R)
  BY <1>1, SectionBKeeps
<1>3. /\ pc' = "section_c" /\ src1' = src1 /\ src2' = src2 /\ i' = i /\ x' = x
      /\ pending' = pending /\ dst' = dst
  BY DEF SectionB
<1>4. Reduced'
  BY <1>2, <1>3, BytesAreBytes DEF Reduced
<1>5. Value1' = Value1 /\ Value2' = Value2
  BY <1>3 DEF Value1, Value2
<1>6. Value(wide, 0, N - 1) + carry * R = FoldOnce(Value1 * Value2)
  BY <1>1 DEF Reducing, FoldsExact
<1>7. FoldsExact'
  <2>1. Value(wide', 0, N - 1) + carry' * R = FoldOnce(FoldOnce(Value1' * Value2'))
    BY <1>2, <1>5, <1>6
  <2> QED  BY <1>3, <2>1 DEF FoldsExact
<1>8. Reducing'
  BY <1>2, <1>3, <1>7 DEF Reducing
<1> QED  BY <1>4, <1>8

LEMMA SectionCStep ==
  ASSUME RadixFits, OperandsFit, UnrollFits, Reduced, Reducing, SectionC
  PROVE  Reduced' /\ Reducing'
<1>1. pc = "section_c" /\ carry \in {0, 1} /\ Placed
  BY ReducedPlaced DEF Reduced, Reducing, SectionC
<1>2. PICK product \in Nat : product = Value1 * Value2 /\ product <= (R - 1) * (R - 1)
  BY <1>1, ProductRange
<1>3. Value(wide, 0, N - 1) + carry * R = FoldOnce(FoldOnce(product))
  BY <1>1, <1>2 DEF Reducing, FoldsExact
<1>4. FoldOnce(FoldOnce(FoldOnce(product))) \in Word
  BY <1>2, ThreeFolds
<1>5. wide' \in Wide /\ Value(wide', 0, N - 1) = FoldOnce(FoldOnce(FoldOnce(product)))
  <2>1. FoldOnce(Value(wide, 0, N - 1) + carry * R) \in Word
    BY <1>3, <1>4
  <2>2. /\ wide' \in Wide
        /\ Value(wide', 0, N - 1) = FoldOnce(Value(wide, 0, N - 1) + carry * R)
    BY <1>1, <2>1, SectionCKeeps
  <2> QED  BY <1>3, <2>2
<1>6. /\ pc' = "copy" /\ src1' = src1 /\ src2' = src2 /\ i' = i /\ x' = x
      /\ pending' = pending /\ carry' = carry /\ dst' = dst
  BY DEF SectionC
<1>7. Reduced'
  BY <1>5, <1>6 DEF Reduced
<1>8. Value1' = Value1 /\ Value2' = Value2
  BY <1>6 DEF Value1, Value2
<1>9. FoldsExact'
  BY <1>2, <1>5, <1>6, <1>8 DEF FoldsExact
<1> QED  BY <1>6, <1>7, <1>9 DEF Reducing

LEMMA CopyStep ==
  ASSUME RadixFits, OperandsFit, UnrollFits, Reduced, Reducing, Copy
  PROVE  Reduced' /\ Reducing'
<1>1. /\ pc = "copy" /\ pc' = "done" /\ dst' = [k \in 0 .. N - 1 |-> wide[k]] /\ Placed
      /\ src1' = src1 /\ src2' = src2 /\ wide' = wide /\ i' = i /\ x' = x
      /\ pending' = pending /\ carry' = carry
  BY ReducedPlaced DEF Reduced, Reducing, Copy
<1>2. /\ N \in Nat \ {0} /\ 0 \in Int /\ N - 1 \in Int /\ 0 <= (N - 1) + 1
      /\ \A k \in 0 .. N - 1 : k \in 0 .. 2 * N - 1
  BY Radix
<1>3. dst' \in Elements
  <2>1. \A k \in 0 .. N - 1 : wide[k] \in Byte
    BY <1>1, <1>2, WideInts DEF Placed
  <2> QED  BY <1>1, <2>1 DEF Elements
<1>4. Value(dst', 0, N - 1) = Value(wide, 0, N - 1)
  <2>1. PICK u : u = dst'
    OBVIOUS
  <2>2. \A k \in 0 .. N - 1 : u[k] = wide[k]
    BY <1>1, <2>1
  <2>3. Value(u, 0, N - 1) = Value(wide, 0, N - 1)
    BY <1>2, <2>2, ValueSame
  <2> QED  BY <2>1, <2>3
<1>5. PICK product \in Nat : product = Value1 * Value2 /\ product <= (R - 1) * (R - 1)
  BY <1>1, ProductRange
<1>6. Value(wide, 0, N - 1) = Mul(Value1, Value2)
  <2>1. Value(wide, 0, N - 1) = FoldOnce(FoldOnce(FoldOnce(product)))
    BY <1>1, <1>5 DEF Reducing, FoldsExact
  <2>2. ReduceWide(product) = FoldOnce(FoldOnce(FoldOnce(product)))
    BY <1>5, ThreeFolds
  <2> QED  BY <1>5, <2>1, <2>2 DEF Mul
<1>7. Value1' = Value1 /\ Value2' = Value2
  BY <1>1 DEF Value1, Value2
<1>8. Reduced'
  BY <1>1, <1>3 DEF Reduced
<1>9. FoldsExact'
  BY <1>1, <1>4, <1>6, <1>7 DEF FoldsExact
<1> QED  BY <1>1, <1>8, <1>9 DEF Reducing

(***************************************************************************)
(* fe25519_sqr.  The sums of its two loops are running totals, whose        *)
(* recursive definition has a solution, and only one.                       *)
(***************************************************************************)
Totals(s, f, n) == s = [r \in 0 .. n |-> IF r = 0 THEN 0 ELSE s[r - 1] + f[r - 1]]

Running(s, f, n) == s[0] = 0 /\ \A r \in 1 .. n : s[r] = s[r - 1] + f[r - 1]

LEMMA TotalsExist ==
  ASSUME NEW f, NEW m \in Nat
  PROVE  \E s : Totals(s, f, m)
<1> DEFINE T == {n \in Nat : \E s : Totals(s, f, n)}
<1>1. 0 \in T
  <2> DEFINE s == [r \in 0 .. 0 |-> 0]
  <2>1. \A r \in 0 .. 0 : r = 0
    OBVIOUS
  <2>2. Totals(s, f, 0)
    BY <2>1 DEF Totals
  <2> HIDE DEF s
  <2> QED  BY <2>2
<1>2. ASSUME NEW n \in T PROVE n + 1 \in T
  <2>1. PICK s : Totals(s, f, n)
    OBVIOUS
  <2> DEFINE u == [r \in 0 .. n + 1 |-> IF r = n + 1 THEN s[n] + f[n] ELSE s[r]]
  <2>2. ASSUME NEW r \in 0 .. n + 1
        PROVE  u[r] = IF r = 0 THEN 0 ELSE u[r - 1] + f[r - 1]
    <3>1. CASE r = n + 1
      <4>1. u[r] = s[n] + f[n] /\ u[n] = s[n] /\ r # 0 /\ r - 1 = n
        BY <3>1
      <4> QED  BY <4>1
    <3>2. CASE r \in 0 .. n
      <4>1. s[r] = IF r = 0 THEN 0 ELSE s[r - 1] + f[r - 1]
        BY <2>1, <3>2 DEF Totals
      <4>2. u[r] = s[r] /\ (r # 0 => u[r - 1] = s[r - 1])
        BY <3>2
      <4> QED  BY <4>1, <4>2
    <3> QED  BY <3>1, <3>2
  <2>3. Totals(u, f, n + 1)
    BY <2>2 DEF Totals
  <2> HIDE DEF u
  <2>4. n + 1 \in Nat
    OBVIOUS
  <2> QED  BY <2>3, <2>4
<1>3. T = Nat
  <2> HIDE DEF T
  <2>1. T \in SUBSET Nat
    BY DEF T
  <2> QED  BY <1>1, <1>2, <2>1, SetInduction
<1> QED  BY <1>3

LEMMA TotalsRun ==
  ASSUME NEW f, NEW n \in Nat, NEW s, Totals(s, f, n)
  PROVE  Running(s, f, n)
<1>1. \A r \in 0 .. n : s[r] = IF r = 0 THEN 0 ELSE s[r - 1] + f[r - 1]
  BY DEF Totals
<1>2. 0 \in 0 .. n /\ \A r \in 1 .. n : r \in 0 .. n /\ r # 0
  OBVIOUS
<1> QED  BY <1>1, <1>2 DEF Running

LEMMA SameRuns ==
  ASSUME NEW f, NEW n \in Nat, NEW m \in 0 .. n, NEW s, NEW u, Running(s, f, m), Running(u, f, n)
  PROVE  \A r \in 0 .. m : s[r] = u[r]
<1> DEFINE T == {r \in 0 .. m : s[r] = u[r]}
<1>1. 0 \in T
  BY DEF Running
<1>2. ASSUME NEW r \in 0 .. m - 1, r \in T PROVE r + 1 \in T
  <2>1. r + 1 \in 1 .. m /\ r + 1 \in 1 .. n /\ (r + 1) - 1 = r /\ r + 1 \in 0 .. m
    OBVIOUS
  <2>2. s[r + 1] = s[r] + f[r] /\ u[r + 1] = u[r] + f[r]
    BY <2>1 DEF Running
  <2> QED  BY <1>2, <2>1, <2>2
<1>3. \A r \in 0 .. m : r \in T
  <2>1. m \in Nat
    OBVIOUS
  <2> HIDE DEF T
  <2> QED  BY <1>1, <1>2, <2>1, BoundedInduction
<1> QED  BY <1>3

(* The products of a row, and the square of a byte, at their weights. *)
CrossTerms(a) == [r \in 0 .. N - 1 |-> a[r] * Weight[r] * Weight[r + 1] * Value(a, r + 1, N - 1)]

SquareTerms(a) == [r \in 0 .. N - 1 |-> a[r] * a[r] * Weight[2 * r]]

CrossFunction(s, a, n) ==
  s = [r \in 0 .. n |-> IF r = 0 THEN 0
                        ELSE s[r - 1] + a[r - 1] * Weight[r - 1] * Weight[r] * Value(a, r, N - 1)]

SquareFunction(s, a, n) ==
  s = [r \in 0 .. n |-> IF r = 0 THEN 0 ELSE s[r - 1] + a[r - 1] * a[r - 1] * Weight[2 * (r - 1)]]

LEMMA CrossRun ==
  ASSUME N \in Nat, NEW a, NEW n \in 0 .. N
  PROVE  \E s : Running(s, CrossTerms(a), n) /\ CrossRows(a, n) = s[n]
<1> DEFINE c == CHOOSE s : CrossFunction(s, a, n)
<1>1. \A s : CrossFunction(s, a, n) <=> Totals(s, CrossTerms(a), n)
  <2>1. \A r \in 0 .. n : r # 0 =>
          CrossTerms(a)[r - 1] = a[r - 1] * Weight[r - 1] * Weight[r] * Value(a, r, N - 1)
    <3>1. \A r \in 0 .. n : r # 0 => r - 1 \in 0 .. N - 1 /\ (r - 1) + 1 = r
      OBVIOUS
    <3> QED  BY <3>1 DEF CrossTerms
  <2> QED  BY <2>1 DEF CrossFunction, Totals
<1>2. \E s : CrossFunction(s, a, n)
  <2>1. n \in Nat
    OBVIOUS
  <2> QED  BY <1>1, <2>1, TotalsExist
<1>3. CrossFunction(c, a, n)
  BY <1>2
<1>4. CrossRows(a, n) = c[n]
  BY DEF CrossRows, CrossFunction
<1> HIDE DEF c
<1>5. Running(c, CrossTerms(a), n)
  <2>1. n \in Nat
    OBVIOUS
  <2> QED  BY <1>1, <1>3, <2>1, TotalsRun
<1> QED  BY <1>4, <1>5

LEMMA SquareRun ==
  ASSUME N \in Nat, NEW a, NEW n \in 0 .. N
  PROVE  \E s : Running(s, SquareTerms(a), n) /\ Squares(a, n) = s[n]
<1> DEFINE c == CHOOSE s : SquareFunction(s, a, n)
<1>1. \A s : SquareFunction(s, a, n) <=> Totals(s, SquareTerms(a), n)
  <2>1. \A r \in 0 .. n : r # 0 => SquareTerms(a)[r - 1] = a[r - 1] * a[r - 1] * Weight[2 * (r - 1)]
    <3>1. \A r \in 0 .. n : r # 0 => r - 1 \in 0 .. N - 1
      OBVIOUS
    <3> QED  BY <3>1 DEF SquareTerms
  <2> QED  BY <2>1 DEF SquareFunction, Totals
<1>2. \E s : SquareFunction(s, a, n)
  <2>1. n \in Nat
    OBVIOUS
  <2> QED  BY <1>1, <2>1, TotalsExist
<1>3. SquareFunction(c, a, n)
  BY <1>2
<1>4. Squares(a, n) = c[n]
  BY DEF Squares, SquareFunction
<1> HIDE DEF c
<1>5. Running(c, SquareTerms(a), n)
  <2>1. n \in Nat
    OBVIOUS
  <2> QED  BY <1>1, <1>3, <2>1, TotalsRun
<1> QED  BY <1>4, <1>5

(* Row by row, and square by square. *)
LEMMA TotalSteps ==
  ASSUME N \in Nat, NEW a
  PROVE  /\ CrossRows(a, 0) = 0 /\ Squares(a, 0) = 0
         /\ \A n \in 0 .. N - 1 : /\ CrossRows(a, n + 1) = CrossRows(a, n) + CrossTerms(a)[n]
                                  /\ Squares(a, n + 1) = Squares(a, n) + SquareTerms(a)[n]
<1>1. CrossRows(a, 0) = 0 /\ Squares(a, 0) = 0
  <2>1. 0 \in 0 .. N
    OBVIOUS
  <2> QED  BY <2>1, CrossRun, SquareRun DEF Running
<1>2. ASSUME NEW n \in 0 .. N - 1
      PROVE  /\ CrossRows(a, n + 1) = CrossRows(a, n) + CrossTerms(a)[n]
             /\ Squares(a, n + 1) = Squares(a, n) + SquareTerms(a)[n]
  <2>1. /\ n \in 0 .. N /\ n + 1 \in 0 .. N /\ n + 1 \in Nat /\ n \in 0 .. n + 1 /\ n \in 0 .. n
        /\ n + 1 \in 1 .. n + 1 /\ (n + 1) - 1 = n
    OBVIOUS
  <2>2. CrossRows(a, n + 1) = CrossRows(a, n) + CrossTerms(a)[n]
    <3>1. PICK s, u : /\ Running(s, CrossTerms(a), n) /\ CrossRows(a, n) = s[n]
                      /\ Running(u, CrossTerms(a), n + 1) /\ CrossRows(a, n + 1) = u[n + 1]
      BY <2>1, CrossRun
    <3>2. s[n] = u[n]
      BY <2>1, <3>1, SameRuns
    <3>3. u[n + 1] = u[n] + CrossTerms(a)[n]
      BY <2>1, <3>1 DEF Running
    <3> QED  BY <3>1, <3>2, <3>3
  <2>3. Squares(a, n + 1) = Squares(a, n) + SquareTerms(a)[n]
    <3>1. PICK s, u : /\ Running(s, SquareTerms(a), n) /\ Squares(a, n) = s[n]
                      /\ Running(u, SquareTerms(a), n + 1) /\ Squares(a, n + 1) = u[n + 1]
      BY <2>1, SquareRun
    <3>2. s[n] = u[n]
      BY <2>1, <3>1, SameRuns
    <3>3. u[n + 1] = u[n] + SquareTerms(a)[n]
      BY <2>1, <3>1 DEF Running
    <3> QED  BY <3>1, <3>2, <3>3
  <2> QED  BY <2>2, <2>3
<1> QED  BY <1>1, <1>2

\* More bytes are no less.
LEMMA LowGrows ==
  ASSUME RadixFits, NEW a \in Elements, NEW k \in 0 .. N
  PROVE  Low(a, k) \in Nat /\ Low(a, k) <= Low(a, N)
<1> DEFINE T == {m \in 0 .. N - k : Low(a, k) <= Low(a, k + m)}
<1>1. /\ N \in Nat \ {0} /\ N \in 0 .. N /\ N - k \in Nat /\ k + 0 = k /\ k + (N - k) = N
      /\ \A n \in 0 .. 2 * N + 2 : Weight[n] \in Nat \ {0}
  BY Radix
<1>2. \A n \in 0 .. N : Low(a, n) \in Nat
  <2>1. ASSUME NEW n \in 0 .. N PROVE Low(a, n) \in Nat
    <3>1. Weight[n] \in Nat
      <4>1. n \in 0 .. 2 * N + 2
        BY <1>1
      <4> QED  BY <1>1, <4>1
    <3> QED  BY <3>1, LowRange
  <2> QED  BY <2>1
<1>3. 0 \in T
  BY <1>1, <1>2
<1>4. ASSUME NEW m \in 0 .. (N - k) - 1, m \in T PROVE m + 1 \in T
  <2>1. /\ k + m \in Bytes /\ k + m \in 0 .. N - 1 /\ k + (m + 1) = (k + m) + 1 /\ k + m \in 0 .. N
        /\ k + (m + 1) \in 0 .. N /\ m + 1 \in 0 .. N - k /\ k + m \in 0 .. 2 * N + 2
    BY <1>1 DEF Bytes
  <2>2. Low(a, k) <= Low(a, k + m)
    BY <1>4
  <2>3. Low(a, (k + m) + 1) = Low(a, k + m) + Weight[k + m] * a[k + m]
    BY <2>1, LowStep
  <2>4. Weight[k + m] \in Nat /\ a[k + m] \in Nat
    BY <1>1, <2>1, ElementBytes
  <2>5. Weight[k + m] * a[k + m] \in Nat
    BY <2>4
  <2>6. Low(a, k) <= Low(a, k + (m + 1))
    BY <1>2, <2>1, <2>2, <2>3, <2>5
  <2> QED  BY <2>1, <2>6
<1>5. \A m \in 0 .. N - k : m \in T
  <2> HIDE DEF T
  <2> QED  BY <1>1, <1>3, <1>4, BoundedInduction
<1>6. N - k \in 0 .. N - k
  BY <1>1
<1> QED  BY <1>1, <1>2, <1>5, <1>6

(***************************************************************************)
(* What the sums come to.  All cross products taken twice and the squares   *)
(* are the square of the number; n rows of them are less than n+N+1 bytes.  *)
(***************************************************************************)
LEMMA LaterBytes ==
  ASSUME RadixFits, NEW a \in Elements, NEW r \in 0 .. N - 1, NEW last \in r .. N - 1
  PROVE  Weight[r + 1] * Value(a, r + 1, last) = Low(a, last + 1) - Low(a, r + 1)
<1>1. /\ N \in Nat \ {0} /\ 0 \in Int /\ last \in Int /\ r + 1 \in 0 .. last + 1
      /\ (r + 1) - 0 <= 2 * N + 2 /\ (r + 1) - 0 = r + 1 /\ (last + 1) - 1 = last
      /\ r + 1 \in 0 .. 2 * N + 2 /\ 0 .. last \subseteq 0 .. N - 1
      /\ \A k \in 0 .. 2 * N + 2 : Weight[k] \in Nat \ {0}
  BY Radix
<1>2. \A k \in 0 .. last : a[k] \in Int
  BY <1>1, ElementBytes
<1>3. /\ Value(a, 0, last) \in Int /\ Value(a, 0, (r + 1) - 1) \in Int
      /\ Value(a, r + 1, last) \in Int
      /\ Value(a, 0, last) = Value(a, 0, (r + 1) - 1) + Weight[r + 1] * Value(a, r + 1, last)
  BY <1>1, <1>2, ValueSplit
<1>4. Weight[r + 1] * Value(a, r + 1, last) \in Int
  BY <1>1, <1>3
<1> QED  BY <1>1, <1>3, <1>4 DEF Low

LEMMA CrossTerm ==
  ASSUME RadixFits, NEW a \in Elements, NEW r \in 0 .. N - 1, NEW last \in r .. N - 1
  PROVE  a[r] * Weight[r] * Weight[r + 1] * Value(a, r + 1, last)
            = (a[r] * Weight[r]) * (Low(a, last + 1) - Low(a, r + 1))
<1>1. /\ r + 1 \in 0 .. 2 * N + 2 /\ r \in 0 .. 2 * N + 2 /\ N \in Nat
      /\ \A k \in 0 .. 2 * N + 2 : Weight[k] \in Nat \ {0}
  BY Radix
<1>2. Weight[r] \in Int /\ Weight[r + 1] \in Int /\ a[r] \in Int
  BY <1>1, ElementBytes
<1>3. Value(a, r + 1, last) \in Int
  <2>1. /\ r + 1 \in Int /\ last \in Int /\ last + 1 \in r + 1 .. last + 1
        /\ (last + 1) - (r + 1) <= 2 * N + 2 /\ (last + 1) - 1 = last
    BY <1>1
  <2>2. \A k \in r + 1 .. last : a[k] \in Int
    BY <1>1, ElementBytes
  <2> QED  BY <2>1, <2>2, ValueSplit
<1>4. PICK m \in Int, t \in Int, v \in Int :
         m = a[r] * Weight[r] /\ t = Weight[r + 1] /\ v = Value(a, r + 1, last)
  BY <1>2, <1>3
<1>5. (m * t) * v = m * (t * v)
  OBVIOUS
<1> QED  BY <1>4, <1>5, LaterBytes

LEMMA SquareTerm ==
  ASSUME RadixFits, NEW a \in Elements, NEW r \in 0 .. N - 1
  PROVE  a[r] * a[r] * Weight[2 * r] = (a[r] * Weight[r]) * (a[r] * Weight[r])
<1>1. /\ r \in Nat /\ r + r <= 2 * N + 2 /\ r + r = 2 * r /\ r \in 0 .. 2 * N + 2
      /\ \A k \in 0 .. 2 * N + 2 : Weight[k] \in Nat \ {0}
  BY Radix
<1>2. Weight[2 * r] = Weight[r] * Weight[r]
  <2>1. Weight[r + r] = Weight[r] * Weight[r]
    BY <1>1, WeightAdd
  <2> QED  BY <1>1, <2>1
<1>3. PICK c \in Int, t \in Int : c = a[r] /\ t = Weight[r]
  <2>1. Weight[r] \in Int /\ a[r] \in Int
    BY <1>1, ElementBytes
  <2> QED  BY <2>1
<1>4. (c * c) * (t * t) = (c * t) * (c * t)
  OBVIOUS
<1> QED  BY <1>2, <1>3, <1>4

\* One row, and one square, more.
LEMMA SumsStep ==
  ASSUME NEW c \in Nat, NEW s \in Nat, NEW l \in Nat, NEW d \in Nat, NEW w \in Nat,
         l + d <= w, 2 * c + s = l * (2 * w - l), c <= l * w
  PROVE  /\ c + d * (w - (l + d)) \in Nat /\ s + d * d \in Nat
         /\ 2 * (c + d * (w - (l + d))) + (s + d * d) = (l + d) * (2 * w - (l + d))
         /\ c + d * (w - (l + d)) <= (l + d) * w
<1>1. PICK e \in Nat : w = l + d + e
  <2>1. w - (l + d) \in Nat /\ w = l + d + (w - (l + d))
    OBVIOUS
  <2> QED  BY <2>1
<1>2. w - (l + d) = e /\ 2 * w - l = l + 2 * d + 2 * e /\ 2 * w - (l + d) = l + d + 2 * e
  BY <1>1
<1>3. /\ d * e \in Nat /\ d * d \in Nat /\ l * d \in Nat /\ l * l \in Nat /\ l * e \in Nat
  BY <1>1
<1>4. /\ l * (l + 2 * d + 2 * e) = l * l + 2 * (l * d) + 2 * (l * e)
      /\ (l + d) * (l + d + 2 * e)
           = l * l + 2 * (l * d) + d * d + 2 * (l * e) + 2 * (d * e)
      /\ l * w = l * l + l * d + l * e
      /\ (l + d) * w = l * l + 2 * (l * d) + l * e + d * d + d * e
  BY <1>1
<1> QED  BY <1>2, <1>3, <1>4

LEMMA SumsRun ==
  ASSUME RadixFits, NEW a \in Elements
  PROVE  \A n \in 0 .. N :
            /\ CrossRows(a, n) \in Nat /\ Squares(a, n) \in Nat
            /\ 2 * CrossRows(a, n) + Squares(a, n) = Low(a, n) * (2 * Low(a, N) - Low(a, n))
            /\ CrossRows(a, n) <= Low(a, n) * Low(a, N)
<1> DEFINE Holds(n) == /\ CrossRows(a, n) \in Nat /\ Squares(a, n) \in Nat
                       /\ 2 * CrossRows(a, n) + Squares(a, n)
                            = Low(a, n) * (2 * Low(a, N) - Low(a, n))
                       /\ CrossRows(a, n) <= Low(a, n) * Low(a, N)
           T == {n \in 0 .. N : Holds(n)}
<1>1. /\ N \in Nat \ {0} /\ 0 \in 0 .. N /\ N \in 0 .. N /\ N \in Nat
      /\ \A k \in 0 .. 2 * N + 2 : Weight[k] \in Nat \ {0}
  BY Radix
<1>2. \A n \in 0 .. N : Low(a, n) \in Nat
  <2>1. ASSUME NEW n \in 0 .. N PROVE Low(a, n) \in Nat
    <3>1. Weight[n] \in Nat
      <4>1. n \in 0 .. 2 * N + 2
        BY <1>1
      <4> QED  BY <1>1, <4>1
    <3> QED  BY <3>1, LowRange
  <2> QED  BY <2>1
<1>3. 0 \in T
  <2>1. CrossRows(a, 0) = 0 /\ Squares(a, 0) = 0
    BY <1>1, TotalSteps
  <2>2. Low(a, 0) = 0
    BY LowEmpty
  <2>3. PICK w \in Nat : w = Low(a, N)
    BY <1>1, <1>2
  <2>4. 0 * (2 * w - 0) = 0 /\ 0 * w = 0
    OBVIOUS
  <2>5. Holds(0)
    BY <2>1, <2>2, <2>3, <2>4
  <2> QED  BY <1>1, <2>5
<1>4. ASSUME NEW n \in 0 .. N - 1, n \in T PROVE n + 1 \in T
  <2>1. Holds(n) /\ n + 1 \in 0 .. N /\ n \in 0 .. N /\ N - 1 \in n .. N - 1 /\ (N - 1) + 1 = N
    BY <1>1, <1>4
  <2>2. PICK c \in Nat, s \in Nat, l \in Nat, d \in Nat, w \in Nat :
          /\ c = CrossRows(a, n) /\ s = Squares(a, n) /\ l = Low(a, n) /\ w = Low(a, N)
          /\ d = a[n] * Weight[n]
    <3>1. a[n] \in Nat /\ Weight[n] \in Nat
      <4>1. n \in 0 .. 2 * N + 2
        BY <1>1
      <4> QED  BY <1>1, <4>1, ElementBytes
    <3>2. a[n] * Weight[n] \in Nat
      BY <3>1
    <3> QED  BY <1>1, <1>2, <2>1, <3>2
  <2>3. Low(a, n + 1) = l + d
    <3>1. Low(a, n + 1) = Low(a, n) + Weight[n] * a[n]
      BY LowStep DEF Bytes
    <3>2. a[n] \in Int /\ Weight[n] \in Int
      <4>1. n \in 0 .. 2 * N + 2
        BY <1>1
      <4> QED  BY <1>1, <4>1, ElementBytes
    <3>3. Weight[n] * a[n] = a[n] * Weight[n]
      BY <3>2
    <3> QED  BY <2>2, <3>1, <3>3
  <2>4. CrossRows(a, n + 1) = c + d * (w - (l + d))
    <3>1. CrossRows(a, n + 1) = CrossRows(a, n) + CrossTerms(a)[n]
      BY <1>1, TotalSteps
    <3>2. CrossTerms(a)[n] = a[n] * Weight[n] * Weight[n + 1] * Value(a, n + 1, N - 1)
      BY DEF CrossTerms
    <3>3. a[n] * Weight[n] * Weight[n + 1] * Value(a, n + 1, N - 1) = d * (w - (l + d))
      BY <2>1, <2>2, <2>3, CrossTerm
    <3> QED  BY <2>2, <3>1, <3>2, <3>3
  <2>5. Squares(a, n + 1) = s + d * d
    <3>1. Squares(a, n + 1) = Squares(a, n) + SquareTerms(a)[n]
      BY <1>1, TotalSteps
    <3>2. SquareTerms(a)[n] = a[n] * a[n] * Weight[2 * n]
      BY DEF SquareTerms
    <3> QED  BY <2>2, <3>1, <3>2, SquareTerm
  <2>6. l + d <= w
    <3>1. /\ \A k \in 0 .. N - 1 : a[k] \in Nat
          /\ n + 1 <= N
      BY <2>1, ElementBytes
    <3> QED  BY <2>1, <2>2, <2>3, LowGrows
  <2>7. /\ c + d * (w - (l + d)) \in Nat /\ s + d * d \in Nat
        /\ 2 * (c + d * (w - (l + d))) + (s + d * d) = (l + d) * (2 * w - (l + d))
        /\ c + d * (w - (l + d)) <= (l + d) * w
    <3>1. 2 * c + s = l * (2 * w - l) /\ c <= l * w
      BY <2>1, <2>2
    <3> QED  BY <2>6, <3>1, SumsStep
  <2>8. Holds(n + 1)
    BY <2>2, <2>3, <2>4, <2>5, <2>7
  <2> QED  BY <2>1, <2>8
<1>5. \A n \in 0 .. N : n \in T
  <2> HIDE DEF T
  <2> QED  BY <1>1, <1>3, <1>4, BoundedInduction
<1> QED  BY <1>5

(* No rows of cross products reach two bytes beyond their last. *)
LEMMA CrossBound ==
  ASSUME RadixFits, NEW a \in Elements, NEW n \in 0 .. N
  PROVE  /\ CrossRows(a, n) \in Nat
         /\ n + N + 1 \in 0 .. 2 * N + 2 /\ 2 * CrossRows(a, n) < Weight[n + N + 1]
<1>1. /\ N \in Nat \ {0} /\ B \in Nat \ {0} /\ B > 2 /\ N \in 0 .. N /\ n \in Nat /\ N \in Nat
      /\ n + N <= 2 * N + 2 /\ n + N \in 0 .. 2 * N + 1 /\ n + N + 1 \in 0 .. 2 * N + 2
      /\ n \in 0 .. 2 * N + 2 /\ N \in 0 .. 2 * N + 2
      /\ \A k \in 0 .. 2 * N + 1 : Weight[k + 1] = B * Weight[k]
      /\ \A k \in 0 .. 2 * N + 2 : Weight[k] \in Nat \ {0}
  BY Radix
<1>2. PICK c \in Nat, l \in Nat, w \in Nat, s \in Nat, t \in Nat :
        /\ c = CrossRows(a, n) /\ l = Low(a, n) /\ w = Low(a, N) /\ s = Weight[n] /\ t = Weight[N]
        /\ l < s /\ w < t /\ c <= l * w
  <2>1. Weight[n] \in Nat /\ Weight[N] \in Nat
    BY <1>1
  <2>2. /\ Low(a, n) \in Nat /\ Low(a, n) < Weight[n]
        /\ Low(a, N) \in Nat /\ Low(a, N) < Weight[N]
    BY <1>1, <2>1, LowRange
  <2>3. CrossRows(a, n) \in Nat /\ CrossRows(a, n) <= Low(a, n) * Low(a, N)
    BY SumsRun
  <2> QED  BY <2>1, <2>2, <2>3
<1>3. l * w < s * t /\ l * w \in Nat /\ s * t \in Nat
  <2>1. PICK d \in Nat, e \in Nat : s = l + 1 + d /\ t = w + 1 + e
    <3>1. /\ s - l - 1 \in Nat /\ s = l + 1 + (s - l - 1)
          /\ t - w - 1 \in Nat /\ t = w + 1 + (t - w - 1)
      BY <1>2
    <3> QED  BY <3>1
  <2>2. /\ s * t = l * w + l * (1 + e) + (1 + d) * t
        /\ l * (1 + e) \in Nat /\ l * w \in Nat
        /\ (1 + d) * t = t + d * t /\ d * t \in Nat
    BY <2>1
  <2> QED  BY <1>2, <2>1, <2>2
<1>4. PICK p \in Nat : p = s * t /\ Weight[n + N + 1] = B * p
  <2>1. Weight[n + N] = s * t
    BY <1>1, <1>2, WeightAdd
  <2>2. Weight[n + N + 1] = B * Weight[n + N]
    BY <1>1
  <2> QED  BY <1>3, <2>1, <2>2
<1>5. 2 * c < B * p
  <2>1. B * p = 2 * p + (B - 2) * p /\ (B - 2) * p \in Nat
    BY <1>1
  <2>2. c < p
    BY <1>2, <1>3, <1>4
  <2> QED  BY <1>1, <2>1, <2>2
<1> QED  BY <1>1, <1>2, <1>4, <1>5

(* The last row adds nothing: all the cross products and all the squares. *)
LEMMA AllSums ==
  ASSUME RadixFits, NEW a \in Elements
  PROVE  2 * CrossRows(a, N - 1) + Squares(a, N) = Low(a, N) * Low(a, N)
<1>1. /\ N \in Nat \ {0} /\ N \in Nat /\ N - 1 \in 0 .. N - 1 /\ (N - 1) + 1 = N /\ N \in 0 .. N
      /\ N - 1 \in (N - 1) .. N - 1 /\ N - 1 \in 0 .. 2 * N + 2
      /\ \A k \in 0 .. 2 * N + 2 : Weight[k] \in Nat \ {0}
  BY Radix
<1>2. PICK c \in Nat, s \in Nat, w \in Nat, d \in Nat :
        /\ c = CrossRows(a, N) /\ s = Squares(a, N) /\ w = Low(a, N)
        /\ d = a[N - 1] * Weight[N - 1]
  <2>1. CrossRows(a, N) \in Nat /\ Squares(a, N) \in Nat /\ Low(a, N) \in Nat
    BY <1>1, SumsRun, LowGrows
  <2>2. a[N - 1] \in Nat /\ Weight[N - 1] \in Nat
    BY <1>1, ElementBytes
  <2>3. a[N - 1] * Weight[N - 1] \in Nat
    BY <2>2
  <2> QED  BY <2>1, <2>3
<1>3. 2 * c + s = w * (2 * w - w)
  BY <1>1, <1>2, SumsRun
<1>4. CrossRows(a, N) = CrossRows(a, N - 1)
  <2>1. CrossTerms(a)[N - 1] = d * (w - w)
    <3>1. CrossTerms(a)[N - 1]
            = a[N - 1] * Weight[N - 1] * Weight[(N - 1) + 1] * Value(a, (N - 1) + 1, N - 1)
      BY <1>1 DEF CrossTerms
    <3>2. a[N - 1] * Weight[N - 1] * Weight[(N - 1) + 1] * Value(a, (N - 1) + 1, N - 1)
            = (a[N - 1] * Weight[N - 1]) * (Low(a, (N - 1) + 1) - Low(a, (N - 1) + 1))
      BY <1>1, CrossTerm
    <3> QED  BY <1>1, <1>2, <3>1, <3>2
  <2>2. d * (w - w) = 0
    <3>1. w - w = 0
      OBVIOUS
    <3> QED  BY <3>1
  <2>3. CrossRows(a, (N - 1) + 1) = CrossRows(a, N - 1) + CrossTerms(a)[N - 1]
    BY <1>1, TotalSteps
  <2>4. CrossRows(a, N - 1) \in Nat
    <3>1. N - 1 \in 0 .. N
      BY <1>1
    <3> QED  BY <3>1, SumsRun
  <2> QED  BY <1>1, <2>1, <2>2, <2>3, <2>4
<1>5. 2 * w - w = w
  OBVIOUS
<1> QED  BY <1>2, <1>3, <1>4, <1>5

\* The buffer has room for every sum on the way.
LEMMA SquaresBound ==
  ASSUME RadixFits, NEW a \in Elements, NEW n \in 0 .. N
  PROVE  /\ CrossRows(a, N - 1) \in Nat /\ Squares(a, n) \in Nat
         /\ 2 * CrossRows(a, N - 1) + Squares(a, n) < Weight[2 * N]
<1> DEFINE T == {m \in 0 .. N - n : Squares(a, n) <= Squares(a, n + m)}
<1>1. /\ N \in Nat \ {0} /\ N \in 0 .. N /\ N \in Nat /\ N - n \in Nat /\ n + 0 = n
      /\ n + (N - n) = N /\ N - 1 \in 0 .. N /\ N - n \in 0 .. N - n
      /\ N + N = 2 * N /\ N + N <= 2 * N + 2 /\ N \in 0 .. 2 * N + 2
      /\ \A k \in 0 .. 2 * N + 2 : Weight[k] \in Nat \ {0}
  BY Radix
<1>2. \A k \in 0 .. N : CrossRows(a, k) \in Nat /\ Squares(a, k) \in Nat
  BY SumsRun
<1>3. 0 \in T
  BY <1>1, <1>2
<1>4. ASSUME NEW m \in 0 .. (N - n) - 1, m \in T PROVE m + 1 \in T
  <2>1. /\ n + m \in 0 .. N - 1 /\ n + (m + 1) = (n + m) + 1 /\ n + m \in 0 .. N
        /\ n + (m + 1) \in 0 .. N /\ m + 1 \in 0 .. N - n /\ n + m \in 0 .. 2 * N + 2
    BY <1>1
  <2>2. Squares(a, n) <= Squares(a, n + m)
    BY <1>4
  <2>3. Squares(a, (n + m) + 1) = Squares(a, n + m) + SquareTerms(a)[n + m]
    BY <1>1, <2>1, TotalSteps
  <2>4. SquareTerms(a)[n + m] \in Nat
    <3>1. SquareTerms(a)[n + m] = a[n + m] * a[n + m] * Weight[2 * (n + m)]
      BY <2>1 DEF SquareTerms
    <3>2. Weight[n + m] \in Nat /\ a[n + m] \in Nat
      BY <1>1, <2>1, ElementBytes
    <3>3. PICK d \in Nat : d = a[n + m] * Weight[n + m]
      BY <3>2
    <3>4. d * d \in Nat
      OBVIOUS
    <3> QED  BY <2>1, <3>1, <3>3, <3>4, SquareTerm
  <2>5. Squares(a, n) <= Squares(a, n + (m + 1))
    BY <1>2, <2>1, <2>2, <2>3, <2>4
  <2> QED  BY <2>1, <2>5
<1>5. \A m \in 0 .. N - n : m \in T
  <2> HIDE DEF T
  <2> QED  BY <1>1, <1>3, <1>4, BoundedInduction
<1>6. Squares(a, n) <= Squares(a, N)
  BY <1>1, <1>5
<1>7. PICK w \in Nat, t \in Nat : w = Low(a, N) /\ t = Weight[N] /\ w < t
  <2>1. Weight[N] \in Nat
    BY <1>1
  <2>2. Low(a, N) \in Nat /\ Low(a, N) < Weight[N]
    BY <1>1, <2>1, LowRange
  <2> QED  BY <2>1, <2>2
<1>8. w * w < t * t
  <2>1. PICK d \in Nat : t = w + 1 + d
    <3>1. t - w - 1 \in Nat /\ t = w + 1 + (t - w - 1)
      BY <1>7
    <3> QED  BY <3>1
  <2>2. /\ t * t = w * w + w * (1 + d) + (1 + d) * t /\ w * (1 + d) \in Nat /\ w * w \in Nat
        /\ (1 + d) * t = t + d * t /\ d * t \in Nat
    BY <2>1
  <2> QED  BY <1>7, <2>1, <2>2
<1>9. Weight[2 * N] = t * t
  <2>1. Weight[N + N] = Weight[N] * Weight[N]
    BY <1>1, WeightAdd
  <2> QED  BY <1>1, <1>7, <2>1
<1>10. 2 * CrossRows(a, N - 1) + Squares(a, N) = w * w
  BY <1>7, AllSums
<1>11. w * w \in Nat /\ t * t \in Nat
  OBVIOUS
<1> QED  BY <1>1, <1>2, <1>6, <1>8, <1>9, <1>10, <1>11

(***************************************************************************)
(* A row of cross products: the bytes used so far, and what they come to.   *)
(***************************************************************************)
Used     == IF x <= N THEN x ELSE N
SqrPart  == (src1[i] * Weight[i]) * (Low(src1, Used) - Low(src1, i + 1))
SqrTotal == 2 * (CrossRows(src1, i) + SqrPart)

SqrSum == Value(wide, 0, 2 * N - 1) + pending * Weight[Target] = SqrTotal

InRow == src2 = src1 /\ i \in 0 .. N - 2 /\ x \in i + 1 .. N

\* The 17 bits of a doubled product.
LEMMA TwiceBytes ==
  ASSUME RadixFits, Placed, InRow
  PROVE  /\ Twice \in Nat /\ Twice % B \in Byte /\ (Twice \div B) % B \in Byte
         /\ Twice \div (B * B) \in {0, 1}
         /\ Twice = B * (B * (Twice \div (B * B)) + ((Twice \div B) % B)) + (Twice % B)
<1>1. /\ B \in Nat \ {0} /\ B > 2 /\ N \in Nat \ {0} /\ i \in 0 .. N - 1 /\ x \in 0 .. N
      /\ 0 \in Byte
  BY Radix DEF InRow, Byte
<1>2. src1[i] \in Byte /\ Padded(x) \in Byte
  <2>1. src1[i] \in Byte
    BY <1>1, ElementBytes DEF Placed
  <2>2. ASSUME x # N PROVE src2[x] \in Byte
    <3>1. x \in 0 .. N - 1
      BY <1>1, <2>2
    <3> QED  BY <3>1, ElementBytes DEF Placed
  <2> QED  BY <1>1, <2>1, <2>2 DEF Padded
<1>3. PICK c \in Nat, d \in Nat, b \in Nat \ {0} :
         c = src1[i] /\ d = Padded(x) /\ b = B /\ c <= b - 1 /\ d <= b - 1
  BY <1>1, <1>2 DEF Byte
<1>4. PICK t \in Nat : t = Twice /\ t < b * (2 * b)
  <2>1. Twice = (2 * c) * d /\ (2 * c) * d \in Nat
    BY <1>3 DEF Twice
  <2>2. PICK f \in Nat, g \in Nat : b = c + 1 + f /\ b = d + 1 + g
    <3>1. /\ b - c - 1 \in Nat /\ b = c + 1 + (b - c - 1)
          /\ b - d - 1 \in Nat /\ b = d + 1 + (b - d - 1)
      BY <1>3
    <3> QED  BY <3>1
  <2>3. c * d < b * b
    <3>1. /\ b * b = c * d + c * (1 + g) + (1 + f) * b /\ c * (1 + g) \in Nat /\ c * d \in Nat
      <4>1. b * b = (c + (1 + f)) * b /\ (c + (1 + f)) * b = c * b + (1 + f) * b
        BY <2>2
      <4>2. c * b = c * d + c * (1 + g)
        BY <2>2
      <4> QED  BY <4>1, <4>2
    <3>2. (1 + f) * b = b + f * b /\ f * b \in Nat
      OBVIOUS
    <3> QED  BY <3>1, <3>2
  <2>4. (2 * c) * d = 2 * (c * d) /\ b * (2 * b) = 2 * (b * b) /\ c * d \in Nat /\ b * b \in Nat
    OBVIOUS
  <2> QED  BY <2>1, <2>3, <2>4
<1>5. PICK q \in Nat, r \in Byte : q = t \div B /\ r = t % B /\ t = B * q + r /\ q < B * 2
  <2>1. t \div b \in Nat /\ t % b \in 0 .. b - 1 /\ t = b * (t \div b) + (t % b)
    BY NatDivides
  <2>2. t \div b < b * 2
    <3>1. t < b * ((2 * b - 1) + 1) /\ 2 * b - 1 \in Nat
      BY <1>4
    <3>2. t \div b <= 2 * b - 1
      BY <3>1, NatDivides
    <3> QED  BY <2>1, <3>2
  <2> QED  BY <1>3, <2>1, <2>2 DEF Byte
<1>6. q \div B \in {0, 1} /\ q % B \in Byte /\ q = B * (q \div B) + (q % B)
  BY <1>5, OneCarry
<1>7. t \div (B * B) = q \div B
  BY <1>1, <1>5, DivDiv
<1> QED  BY <1>4, <1>5, <1>6, <1>7

LEMMA TwicePlaced ==
  ASSUME RadixFits, Placed, InRow
  PROVE  /\ Weight[i + x] * Twice \in Nat
         /\ i + x \in 0 .. 2 * N - 2 /\ i + x + 1 \in Int /\ i + x + 1 = (i + x) + 1
         /\ Target = (i + x) + 2 /\ Target \in Int /\ Target \in 0 .. 2 * N + 2 /\ wide \in Wide
<1>1. /\ N \in Nat \ {0} /\ i + x \in 0 .. 2 * N - 2 /\ i + x \in 0 .. 2 * N + 2
      /\ \A k \in 0 .. 2 * N + 2 : Weight[k] \in Nat \ {0}
  BY Radix DEF InRow
<1>2. Weight[i + x] \in Nat /\ Twice \in Nat
  BY <1>1, TwiceBytes
<1>3. Weight[i + x] * Twice \in Nat
  BY <1>2
<1> QED  BY <1>1, <1>3 DEF Target, Placed, InRow

LEMMA SqrTyped ==
  ASSUME RadixFits, Placed, i \in 0 .. N - 2, x \in i + 1 .. N + 1
  PROVE  /\ CrossRows(src1, i) \in Int /\ SqrPart \in Int /\ SqrTotal \in Int
         /\ src1[i] * Weight[i] \in Int
         /\ Low(src1, Used) \in Int /\ Low(src1, i + 1) \in Int
<1>1. /\ N \in Nat \ {0} /\ Used \in 0 .. N /\ i + 1 \in 0 .. N /\ i \in 0 .. N
      /\ i \in 0 .. N - 1 /\ i \in 0 .. 2 * N + 2
      /\ \A k \in 0 .. 2 * N + 2 : Weight[k] \in Nat \ {0}
  BY Radix DEF Used
<1>2. /\ Low(src1, Used) \in Int /\ Low(src1, i + 1) \in Int /\ CrossRows(src1, i) \in Int
  <2>1. Low(src1, Used) \in Nat /\ Low(src1, i + 1) \in Nat /\ CrossRows(src1, i) \in Nat
    BY <1>1, LowGrows, SumsRun DEF Placed
  <2> QED  BY <2>1
<1>3. src1[i] * Weight[i] \in Int
  <2>1. src1[i] \in Int /\ Weight[i] \in Int
    BY <1>1, ElementBytes DEF Placed
  <2> QED  BY <2>1
<1>4. PICK m \in Int, d \in Int :
         m = src1[i] * Weight[i] /\ d = Low(src1, Used) - Low(src1, i + 1)
  BY <1>2, <1>3
<1>5. m * d \in Int
  OBVIOUS
<1> QED  BY <1>2, <1>3, <1>4, <1>5 DEF SqrPart, SqrTotal

\* What a body adds to the row; the phantom byte adds nothing.
LEMMA SqrGrow ==
  ASSUME RadixFits, Placed, InRow, i' = i, x' = x + 1, src1' = src1
  PROVE  SqrTotal' = SqrTotal + Weight[i + x] * Twice
<1>1. /\ N \in Nat \ {0} /\ i \in 0 .. N - 1 /\ i \in Nat /\ x \in Nat /\ i + x <= 2 * N + 2
      /\ i \in 0 .. 2 * N + 2 /\ x \in 0 .. 2 * N + 2 /\ i + x \in 0 .. 2 * N + 2
      /\ x \in i + 1 .. N + 1 /\ Used = x
      /\ \A k \in 0 .. 2 * N + 2 : Weight[k] \in Nat \ {0}
  BY Radix DEF InRow, Used
<1>2. Weight[i + x] = Weight[i] * Weight[x]
  BY <1>1, WeightAdd
<1>3. PICK c \in Int, s \in Int, t \in Int, l \in Int, k \in Int, r \in Int :
        /\ c = src1[i] /\ s = Weight[i] /\ t = Weight[x] /\ l = Low(src1, x)
        /\ k = Low(src1, i + 1) /\ r = CrossRows(src1, i)
  <2>1. Weight[i] \in Int /\ Weight[x] \in Int /\ src1[i] \in Int
    BY <1>1, ElementBytes DEF Placed
  <2>2. Low(src1, x) \in Int /\ Low(src1, i + 1) \in Int /\ CrossRows(src1, i) \in Int
    BY <1>1, SqrTyped DEF InRow
  <2> QED  BY <2>1, <2>2
<1>4. SqrTotal = 2 * (r + (c * s) * (l - k))
  BY <1>1, <1>3 DEF SqrTotal, SqrPart
<1>5. CASE x = N
  <2>1. Used' = Used
    BY <1>1, <1>5 DEF Used
  <2>2. SqrTotal' = SqrTotal
    BY <2>1 DEF SqrTotal, SqrPart
  <2>3. Twice = 0
    <3>1. Twice = (2 * c) * 0
      BY <1>3, <1>5 DEF Twice, Padded
    <3>2. (2 * c) * 0 = 0
      OBVIOUS
    <3> QED  BY <3>1, <3>2
  <2>4. Weight[i + x] * 0 = 0
    BY <1>1
  <2>5. SqrTotal \in Int
    BY <1>1, SqrTyped DEF InRow
  <2> QED  BY <2>2, <2>3, <2>4, <2>5
<1>6. CASE x # N
  <2>1. x \in 0 .. N - 1 /\ x \in Bytes
    BY <1>1, <1>6 DEF InRow, Bytes
  <2>2. PICK d \in Int : d = src1[x]
    BY <2>1, ElementBytes DEF Placed
  <2>3. Low(src1, x + 1) = l + t * d
    BY <1>3, <2>1, <2>2, LowStep DEF Placed
  <2>4. SqrTotal' = 2 * (r + (c * s) * ((l + t * d) - k))
    <3>1. Used' = x + 1
      BY <1>1, <2>1 DEF Used
    <3> QED  BY <1>3, <2>3, <3>1 DEF SqrTotal, SqrPart
  <2>5. Twice = (2 * c) * d
    BY <1>3, <1>6, <2>2 DEF Twice, Padded, InRow
  <2>6. 2 * (r + (c * s) * ((l + t * d) - k)) = 2 * (r + (c * s) * (l - k)) + (s * t) * ((2 * c) * d)
    <3>1. PICK m \in Int, e \in Int, f \in Int : m = c * s /\ e = t * d /\ f = l - k
      OBVIOUS
    <3>2. (l + e) - k = f + e /\ m * (f + e) = m * f + m * e
      BY <3>1
    <3>3. m * e = (s * t) * (c * d) /\ (2 * c) * d = 2 * (c * d)
      BY <3>1
    <3>4. PICK g \in Int, h \in Int : g = s * t /\ h = c * d
      OBVIOUS
    <3>5. g * (2 * h) = 2 * (g * h) /\ m * f \in Int /\ m * e \in Int /\ g * h \in Int
      OBVIOUS
    <3>6. 2 * (r + (m * f + m * e)) = 2 * (r + m * f) + 2 * (m * e)
      BY <3>5
    <3> QED  BY <3>1, <3>2, <3>3, <3>4, <3>5, <3>6
  <2> QED  BY <1>2, <1>3, <1>4, <2>4, <2>5, <2>6
<1> QED  BY <1>5, <1>6

LEMMA SqrLeft ==
  ASSUME RadixFits, Placed, InRow, pending \in {0, 1},
         NEW u, Stored2(u, wide, i + x, i + x + 1, SqrLow % B, SqrHigh % B)
  PROVE  /\ u \in Wide /\ Combined \in 0 .. 3
         /\ Value(u, 0, 2 * N - 1) + Combined * Weight[Target]
              = (Value(wide, 0, 2 * N - 1) + pending * Weight[Target]) + Weight[i + x] * Twice
<1>1. PICK k \in 0 .. 2 * N - 2, k1 \in Int, pl \in Byte, ph \in Byte, p \in Nat, th \in {0, 1},
           q \in {0, 1}, w \in Wide :
        /\ k = i + x /\ k1 = i + x + 1 /\ k1 = k + 1 /\ k + 2 = Target
        /\ pl = Twice % B /\ ph = (Twice \div B) % B /\ p = Twice
        /\ th = Twice \div (B * B) /\ p = B * (B * th + ph) + pl /\ q = pending /\ w = wide
  BY TwiceBytes, TwicePlaced
<1>2. PICK low, high : low = SqrLow /\ high = SqrHigh /\ Sums(low, high, w, k, k1, pl, ph)
  BY <1>1 DEF SqrLow, SqrHigh, Sums
<1>3. Stored2(u, w, k, k1, low % B, high % B)
  BY <1>1, <1>2
<1>4. u \in Wide
  <2>1. PICK c \in Nat : c = B * ph + pl
    BY Radix DEF Byte
  <2>2. k1 = k + 1
    BY <1>1
  <2> QED  BY <1>2, <1>3, <2>1, <2>2, BodyAdded
<1>5. PICK left : left = (high \div B) + th + q /\ left = Combined
  BY <1>1, <1>2 DEF Combined
<1>6. /\ left \in 0 .. 3
      /\ Value(u, 0, 2 * N - 1) + left * Weight[k + 2]
              = (Value(w, 0, 2 * N - 1) + q * Weight[k + 2]) + Weight[k] * p
  <2>1. /\ k1 = k + 1 /\ p = B * (B * th + ph) + pl /\ Sums(low, high, w, k, k1, pl, ph)
        /\ left = (high \div B) + th + q
    BY <1>1, <1>2, <1>5
  <2> QED  BY <1>3, <2>1, BodyLeft
<1> QED  BY <1>1, <1>4, <1>5, <1>6

\* A body with a chain step.
LEMMA SqrChainRows ==
  ASSUME RadixFits, Placed, InRow, pending \in {0, 1}, SqrSum, SqrBodyChained, Target < 2 * N,
         i' = i, x' = x + 1, src1' = src1
  PROVE  wide' \in Wide /\ pending' \in {0, 1} /\ SqrSum'
<1>1. N \in Nat \ {0} /\ B \in Nat \ {0} /\ i + x \in 0 .. 2 * N - 3
  BY Radix DEF InRow, Target
<1>2. PICK k \in 0 .. 2 * N - 3, k1 \in Int, k2 \in Int, pl \in Byte, ph \in Byte, p \in Nat,
           th \in {0, 1}, q \in {0, 1}, w \in Wide :
        /\ k = i + x /\ k1 = i + x + 1 /\ k1 = k + 1 /\ k2 = Target /\ k2 = k + 2
        /\ pl = Twice % B /\ ph = (Twice \div B) % B /\ p = Twice
        /\ th = Twice \div (B * B) /\ p = B * (B * th + ph) + pl /\ q = pending /\ w = wide
  BY <1>1, TwiceBytes, TwicePlaced
<1>3. PICK low, high : low = SqrLow /\ high = SqrHigh /\ Sums(low, high, w, k, k1, pl, ph)
  BY <1>2 DEF SqrLow, SqrHigh, Sums
<1>4. PICK left, sum : /\ left = (high \div B) + th + q /\ left = Combined
                       /\ sum = w[k2] + left
  BY <1>2, <1>3 DEF Combined
<1>5. pending' = sum \div B /\ Stored3(wide', w, k, k1, k2, low % B, high % B, sum % B)
  BY <1>2, <1>3, <1>4 DEF SqrBodyChained, Stored3
<1>6. /\ wide' \in Wide /\ sum \div B \in {0, 1}
      /\ Value(wide', 0, 2 * N - 1) + (sum \div B) * Weight[k2 + 1]
           = (Value(w, 0, 2 * N - 1) + q * Weight[k2]) + Weight[k] * p
  <2>1. PICK u : u = wide'
    OBVIOUS
  <2>2. /\ u \in Wide /\ sum \div B \in {0, 1}
        /\ Value(u, 0, 2 * N - 1) + (sum \div B) * Weight[k2 + 1]
             = (Value(w, 0, 2 * N - 1) + q * Weight[k2]) + Weight[k] * p
    BY <1>2, <1>3, <1>4, <1>5, <2>1, BodyChained
  <2> QED  BY <2>1, <2>2
<1>7. Target' = Target + 1
  BY <1>1 DEF Target, InRow
<1>8. Value(wide', 0, 2 * N - 1) + pending' * Weight[Target'] = SqrTotal + Weight[i + x] * Twice
  BY <1>2, <1>5, <1>6, <1>7 DEF SqrSum
<1> QED  BY <1>5, <1>6, <1>8, SqrGrow DEF SqrSum

(***************************************************************************)
(* The end of a row: all of it is in the buffer, and nothing is pending.    *)
(***************************************************************************)
LEMMA RowTotal ==
  ASSUME RadixFits, Placed, i \in 0 .. N - 2, x \in {N, N + 1}
  PROVE  /\ SqrTotal = 2 * CrossRows(src1, i + 1) /\ CrossRows(src1, i + 1) \in Nat
         /\ i + N + 2 \in 0 .. 2 * N + 2
         /\ 2 * CrossRows(src1, i + 1) < Weight[i + N + 2]
<1>1. /\ N \in Nat \ {0} /\ i \in 0 .. N - 1 /\ i + 1 \in 0 .. N /\ N - 1 \in i .. N - 1
      /\ (N - 1) + 1 = N /\ (i + 1) + N + 1 = i + N + 2 /\ Used = N
  BY Radix DEF Used
<1>2. CrossRows(src1, i + 1) = CrossRows(src1, i) + CrossTerms(src1)[i]
  BY <1>1, TotalSteps
<1>3. CrossTerms(src1)[i] = SqrPart
  <2>1. CrossTerms(src1)[i] = src1[i] * Weight[i] * Weight[i + 1] * Value(src1, i + 1, N - 1)
    BY <1>1 DEF CrossTerms
  <2>2. src1[i] * Weight[i] * Weight[i + 1] * Value(src1, i + 1, N - 1)
          = (src1[i] * Weight[i]) * (Low(src1, (N - 1) + 1) - Low(src1, i + 1))
    BY <1>1, CrossTerm DEF Placed
  <2> QED  BY <1>1, <2>1, <2>2 DEF SqrPart
<1>4. CrossRows(src1, i + 1) \in Nat /\ 2 * CrossRows(src1, i + 1) < Weight[(i + 1) + N + 1]
      /\ (i + 1) + N + 1 \in 0 .. 2 * N + 2
  BY <1>1, CrossBound DEF Placed
<1> QED  BY <1>1, <1>2, <1>3, <1>4 DEF SqrTotal

LEMMA SqrRowEnd ==
  ASSUME RadixFits, Placed, i \in 0 .. N - 2, x \in {N, N + 1}, pending \in {0, 1}, SqrSum
  PROVE  pending = 0 /\ Value(wide, 0, 2 * N - 1) = 2 * CrossRows(src1, i + 1)
<1>1. /\ N \in Nat \ {0} /\ B \in Nat \ {0} /\ B > 2
      /\ i + N + 2 \in 0 .. 2 * N /\ i + N + 2 \in 0 .. 2 * N + 1
      /\ (x = N => Target = i + N + 2) /\ (x = N + 1 => Target = (i + N + 2) + 1)
      /\ 2 * N \in 0 .. 2 * N + 2 /\ i + N + 2 \in 0 .. 2 * N + 2
      /\ \A k \in 0 .. 2 * N + 1 : Weight[k + 1] = B * Weight[k]
      /\ \A k \in 0 .. 2 * N + 2 : Weight[k] \in Nat \ {0}
  BY Radix DEF Target
<1>2. PICK v \in Nat, s \in Nat, t \in Nat :
        /\ v = Value(wide, 0, 2 * N - 1) /\ s = 2 * CrossRows(src1, i + 1)
        /\ t = Weight[i + N + 2] /\ s < t
  <2>1. Weight[i + N + 2] \in Nat /\ Weight[2 * N] \in Nat
    BY <1>1
  <2>2. Value(wide, 0, 2 * N - 1) \in Nat
    BY <2>1, WideValue DEF Placed
  <2>3. 2 * CrossRows(src1, i + 1) \in Nat /\ 2 * CrossRows(src1, i + 1) < Weight[i + N + 2]
    <3>1. CrossRows(src1, i + 1) \in Nat /\ 2 * CrossRows(src1, i + 1) < Weight[i + N + 2]
      BY RowTotal
    <3> QED  BY <3>1
  <2> QED  BY <2>1, <2>2, <2>3
<1>3. PICK top \in Nat : top = Weight[Target] /\ s < top
  <2>1. CASE x = N
    BY <1>1, <1>2, <2>1
  <2>2. CASE x = N + 1
    <3>1. Weight[Target] = B * t
      BY <1>1, <1>2, <2>2
    <3>2. B * t \in Nat /\ t <= B * t
      BY <1>1
    <3> QED  BY <1>2, <3>1, <3>2
  <2> QED  BY <2>1, <2>2
<1>4. v + pending * top = s /\ pending \in Nat
  BY <1>2, <1>3, RowTotal DEF SqrSum
<1>5. pending = 0
  BY <1>3, <1>4, Overflows
<1> QED  BY <1>2, <1>4, <1>5

\* The body without a target: the phantom of the last row.
LEMMA SqrBodyEnd ==
  ASSUME RadixFits, Placed, InRow, pending \in {0, 1}, SqrSum, NoTarget
  PROVE  /\ i = N - 2 /\ x = N
         /\ Combined = 0
<1>1. /\ N \in Nat \ {0} /\ i = N - 2 /\ x = N /\ x \in {N, N + 1} /\ i \in 0 .. N - 2
      /\ i + N + 2 = 2 * N /\ Target = 2 * N /\ 2 * N \in 0 .. 2 * N + 2
      /\ \A k \in 0 .. 2 * N + 2 : Weight[k] \in Nat \ {0}
  <2>1. x + 1 >= 2 * N - 1 - i
    BY DEF NoTarget
  <2>2. N \in Nat \ {0} /\ \A k \in 0 .. 2 * N + 2 : Weight[k] \in Nat \ {0}
    BY Radix
  <2>3. i \in 0 .. N - 2 /\ x \in i + 1 .. N
    BY DEF InRow
  <2>4. i = N - 2 /\ x = N
    BY <2>1, <2>2, <2>3
  <2>5. Target = 2 * N
    BY <2>2, <2>4 DEF Target
  <2>6. x \in {N, N + 1} /\ i + N + 2 = 2 * N /\ 2 * N \in 0 .. 2 * N + 2
    BY <2>2, <2>4
  <2> QED  BY <2>2, <2>3, <2>4, <2>5, <2>6
<1>2. PICK u : Stored2(u, wide, i + x, i + x + 1, SqrLow % B, SqrHigh % B)
  BY DEF Stored2
<1>3. /\ u \in Wide /\ Combined \in 0 .. 3
      /\ Value(u, 0, 2 * N - 1) + Combined * Weight[2 * N] = SqrTotal + Weight[i + x] * Twice
  BY <1>1, <1>2, SqrLeft DEF SqrSum
<1>4. Weight[i + x] * Twice = 0
  <2>1. i + x \in 0 .. 2 * N + 2
    BY <1>1, TwicePlaced
  <2>2. Weight[i + x] \in Int
    BY <1>1, <2>1
  <2>3. src1[i] \in Int
    <3>1. i \in 0 .. N - 1
      BY <1>1
    <3> QED  BY <3>1, ElementBytes DEF Placed
  <2>4. Twice = (2 * src1[i]) * 0
    BY <1>1 DEF Twice, Padded
  <2>5. (2 * src1[i]) * 0 = 0
    BY <2>3
  <2> QED  BY <2>2, <2>4, <2>5
<1>5. PICK v \in Nat, t \in Nat, c \in Nat, s \in Nat :
        /\ v = Value(u, 0, 2 * N - 1) /\ t = Weight[2 * N] /\ c = Combined /\ s = SqrTotal /\ s < t
  <2>1. Weight[2 * N] \in Nat
    BY <1>1
  <2>2. Value(u, 0, 2 * N - 1) \in Nat
    BY <1>3, <2>1, WideValue
  <2>3. SqrTotal \in Nat /\ SqrTotal < Weight[2 * N]
    <3>1. /\ SqrTotal = 2 * CrossRows(src1, i + 1) /\ CrossRows(src1, i + 1) \in Nat
          /\ 2 * CrossRows(src1, i + 1) < Weight[i + N + 2]
      BY <1>1, RowTotal
    <3> QED  BY <1>1, <3>1
  <2>4. Combined \in Nat
    BY <1>3
  <2> QED  BY <2>1, <2>2, <2>3, <2>4
<1>6. v + c * t = s
  BY <1>3, <1>4, <1>5
<1>7. c = 0
  BY <1>5, <1>6, Overflows
<1> QED  BY <1>1, <1>5, <1>7

LEMMA SqrSkipRows ==
  ASSUME RadixFits, Placed, InRow, pending \in {0, 1}, SqrSum, BodyBSkip
  PROVE  wide' \in Wide /\ pending' = 0 /\ SqrSum'
<1>1. /\ NoTarget /\ pending' = 0 /\ i' = i /\ x' = x + 1 /\ src1' = src1
      /\ wide' = [wide EXCEPT ![i + x] = SqrLow % B, ![i + x + 1] = SqrHigh % B]
  BY DEF BodyBSkip, NextPair
<1>2. /\ wide' \in Wide
      /\ Value(wide', 0, 2 * N - 1) + Combined * Weight[Target] = SqrTotal + Weight[i + x] * Twice
  <2>1. PICK u : u = wide' /\ Stored2(u, wide, i + x, i + x + 1, SqrLow % B, SqrHigh % B)
    BY <1>1 DEF Stored2
  <2> QED  BY <2>1, SqrLeft DEF SqrSum
<1>3. Combined = 0
  BY <1>1, SqrBodyEnd
<1>4. Weight[Target] \in Nat /\ Weight[Target'] \in Nat /\ Value(wide', 0, 2 * N - 1) \in Nat
  <2>1. /\ Target \in 0 .. 2 * N + 2 /\ Target' \in 0 .. 2 * N + 2 /\ 2 * N \in 0 .. 2 * N + 2
        /\ \A k \in 0 .. 2 * N + 2 : Weight[k] \in Nat \ {0}
    BY <1>1, Radix DEF InRow, Target
  <2>2. Weight[Target] \in Nat /\ Weight[Target'] \in Nat /\ Weight[2 * N] \in Nat
    BY <2>1
  <2> QED  BY <1>2, <2>2, WideValue
<1>5. Value(wide', 0, 2 * N - 1) + 0 * Weight[Target'] = SqrTotal + Weight[i + x] * Twice
  BY <1>2, <1>3, <1>4
<1> QED  BY <1>1, <1>2, <1>5, SqrGrow DEF SqrSum

LEMMA SqrRippleRows ==
  ASSUME RadixFits, Placed, i \in 0 .. N - 2, x \in {N, N + 1}, pending \in {0, 1}, SqrSum, SqrRipple
  PROVE  /\ wide' \in Wide
         /\ Value(wide', 0, 2 * N - 1) = 2 * CrossRows(src1, i + 1)
         /\ i + 1 < N - 1 => SqrSum'
<1>1. pending = 0 /\ Value(wide, 0, 2 * N - 1) = 2 * CrossRows(src1, i + 1)
  BY SqrRowEnd
<1>2. /\ N \in Nat \ {0} /\ 2 * N \in 0 .. 2 * N + 2 /\ wide \in Wide
      /\ \A k \in 0 .. 2 * N + 2 : Weight[k] \in Nat \ {0}
  BY Radix DEF Placed
<1>3. wide' \in Wide /\ Value(wide', 0, 2 * N - 1) = Value(wide, 0, 2 * N - 1)
  <2>1. CASE i + 1 + x < 2 * N
    <3> DEFINE r == wide'
    <3>1. PICK from \in 0 .. 2 * N - 1, none \in Nat, w \in Wide :
             from = i + 1 + x /\ none = 0 /\ w = wide
      <4>1. i + 1 + x \in 0 .. 2 * N - 1 /\ 0 \in Nat
        BY <1>2, <2>1
      <4> QED  BY <1>2, <4>1
    <3>2. r = Rippled(w, from, 2 * N - 1, none)
      BY <1>1, <2>1, <3>1 DEF SqrRipple
    <3>3. PICK v \in Nat : v = Value(w, 0, 2 * N - 1) /\ v < Weight[2 * N]
      <4>1. Weight[2 * N] \in Nat
        BY <1>2
      <4> QED  BY <4>1, WideValue
    <3>4. none * Weight[from] = 0
      <4>1. Weight[from] \in Nat
        <5>1. from \in 0 .. 2 * N + 2
          BY <1>2
        <5> QED  BY <1>2, <5>1
      <4> QED  BY <3>1, <4>1
    <3>5. Value(w, 0, 2 * N - 1) + none * Weight[from] < Weight[2 * N]
      BY <3>3, <3>4
    <3> HIDE DEF r
    <3>6. r \in Wide /\ Value(r, 0, 2 * N - 1) = Value(w, 0, 2 * N - 1) + none * Weight[from]
      BY <3>2, <3>5, RippleFits
    <3> USE DEF r
    <3> QED  BY <3>1, <3>3, <3>4, <3>6
  <2>2. CASE ~(i + 1 + x < 2 * N)
    BY <1>2, <2>2 DEF SqrRipple
  <2> QED  BY <2>1, <2>2
<1>4. ASSUME i + 1 < N - 1 PROVE SqrSum'
  <2>1. /\ i' = i + 1 /\ x' = i + 2 /\ pending' = 0 /\ src1' = src1
    BY <1>4 DEF SqrRipple
  <2>2. Used' = i + 2 /\ (i + 1) + 1 = i + 2 /\ i + 2 \in 0 .. N /\ i + 1 \in 0 .. N - 1
        /\ i + 1 \in 0 .. 2 * N + 2
    BY <1>2, <1>4, <2>1 DEF Used
  <2>3. SqrPart' = 0
    <3>1. src1[i + 1] \in Int /\ Weight[i + 1] \in Int /\ Low(src1, i + 2) \in Nat
      BY <1>2, <2>2, ElementBytes, LowGrows DEF Placed
    <3>2. SqrPart' = (src1[i + 1] * Weight[i + 1]) * (Low(src1, i + 2) - Low(src1, i + 2))
      BY <2>1, <2>2 DEF SqrPart
    <3>3. PICK m \in Int, l \in Int : m = src1[i + 1] * Weight[i + 1] /\ l = Low(src1, i + 2)
      BY <3>1
    <3>4. m * (l - l) = 0
      <4>1. l - l = 0
        OBVIOUS
      <4> QED  BY <4>1
    <3> QED  BY <3>2, <3>3, <3>4
  <2>4. CrossRows(src1, i + 1) \in Nat
    BY RowTotal
  <2>5. SqrTotal' = 2 * CrossRows(src1, i + 1)
    BY <2>1, <2>3, <2>4 DEF SqrTotal
  <2>6. Weight[Target'] \in Nat
    <3>1. Target' \in 0 .. 2 * N + 2
      BY <1>2, <1>4, <2>1 DEF Target
    <3> QED  BY <1>2, <3>1
  <2>7. Value(wide', 0, 2 * N - 1) + 0 * Weight[Target'] = SqrTotal'
    BY <1>1, <1>3, <2>4, <2>5, <2>6
  <2> QED  BY <2>1, <2>7 DEF SqrSum
<1> QED  BY <1>1, <1>3, <1>4

(***************************************************************************)
(* The second loop: the squares of the bytes.                               *)
(***************************************************************************)
DiagonalSum == Value(wide, 0, 2 * N - 1) = 2 * CrossRows(src1, N - 1) + Squares(src1, i)

LEMMA DiagonalRows ==
  ASSUME RadixFits, Placed, i \in 0 .. N - 1, DiagonalSum, Diagonal
  PROVE  /\ wide' \in Wide /\ pending' \in {0, 1} /\ DiagonalSum'
         /\ i + 1 = N => pending' = 0
<1>1. /\ N \in Nat \ {0} /\ i \in 0 .. N /\ i + 1 \in 0 .. N /\ 2 * i \in 0 .. 2 * N - 2
      /\ 2 * i \in 0 .. 2 * N + 2 /\ 2 * i + 2 \in 0 .. 2 * N + 2 /\ 2 * N \in 0 .. 2 * N + 2
      /\ 2 * i + 1 \in Int /\ 2 * i + 1 = (2 * i) + 1 /\ 2 * i + 2 = (2 * i) + 2
      /\ (i + 1 < N => 2 * i + 2 \in 0 .. 2 * N - 1) /\ (i + 1 = N => 2 * i + 2 = 2 * N)
      /\ \A k \in 0 .. 2 * N + 2 : Weight[k] \in Nat \ {0}
  BY Radix
<1>2. src1[i] \in Byte /\ src1[i] \in Nat
  BY ElementBytes DEF Placed
<1>3. PICK k \in 0 .. 2 * N - 2, k1 \in Int, p \in Nat, pl \in Byte, ph \in Byte, w \in Wide :
        /\ k = 2 * i /\ k1 = 2 * i + 1 /\ k1 = k + 1 /\ k + 2 = 2 * i + 2
        /\ p = src1[i] * src1[i] /\ pl = p % B /\ ph = p \div B /\ p = B * ph + pl /\ w = wide
  <2>1. /\ src1[i] * src1[i] \in Nat /\ (src1[i] * src1[i]) % B \in Byte
        /\ (src1[i] * src1[i]) \div B \in 0 .. B - 2
        /\ src1[i] * src1[i] = B * ((src1[i] * src1[i]) \div B) + ((src1[i] * src1[i]) % B)
    BY <1>2, ProductOfBytes
  <2>2. (src1[i] * src1[i]) \div B \in Byte
    BY <2>1, Radix DEF Byte
  <2> QED  BY <1>1, <2>1, <2>2 DEF Placed
<1>4. PICK low, high : low = DiagonalLow /\ high = DiagonalHigh /\ Sums(low, high, w, k, k1, pl, ph)
  BY <1>3 DEF DiagonalLow, DiagonalHigh, Sums
<1>5. PICK f : Stored2(f, w, k, k1, low % B, high % B)
  BY DEF Stored2
<1>6. /\ f \in Wide /\ high \div B \in {0, 1}
      /\ Value(f, 0, 2 * N - 1) + (high \div B) * Weight[k + 2]
           = Value(w, 0, 2 * N - 1) + Weight[k] * p
  <2>1. k1 = k + 1 /\ p = B * ph + pl /\ Sums(low, high, w, k, k1, pl, ph)
    BY <1>3, <1>4
  <2> QED  BY <1>5, <2>1, BodyAdded
<1>7. /\ i' = i + 1 /\ src1' = src1 /\ pending' = high \div B
      /\ wide' = IF i + 1 < N THEN Rippled(f, 2 * i + 2, 2 * N - 1, high \div B) ELSE f
  BY <1>3, <1>4, <1>5 DEF Diagonal, Stored2
<1>8. Weight[k] * p = SquareTerms(src1)[i]
  <2>1. SquareTerms(src1)[i] = src1[i] * src1[i] * Weight[2 * i]
    BY DEF SquareTerms
  <2>2. Weight[k] \in Nat
    BY <1>1, <1>3
  <2>3. Weight[k] * p = p * Weight[k]
    BY <2>2
  <2> QED  BY <1>3, <2>1, <2>3
<1>9. PICK s \in Nat : /\ s = 2 * CrossRows(src1, N - 1) + Squares(src1, i + 1)
                       /\ s < Weight[2 * N]
  <2>1. /\ CrossRows(src1, N - 1) \in Nat /\ Squares(src1, i + 1) \in Nat
        /\ 2 * CrossRows(src1, N - 1) + Squares(src1, i + 1) < Weight[2 * N]
    BY <1>1, SquaresBound DEF Placed
  <2>2. 2 * CrossRows(src1, N - 1) + Squares(src1, i + 1) \in Nat
    BY <2>1
  <2> QED  BY <2>1, <2>2
<1>10. Value(f, 0, 2 * N - 1) + (high \div B) * Weight[2 * i + 2] = s
  <2>1. Squares(src1, i + 1) = Squares(src1, i) + SquareTerms(src1)[i]
    BY <1>1, TotalSteps
  <2>2. Squares(src1, i) \in Nat /\ CrossRows(src1, N - 1) \in Nat /\ Squares(src1, i + 1) \in Nat
    BY <1>1, SquaresBound DEF Placed
  <2>3. PICK e \in Int : e = Weight[k] * p
    <3>1. Weight[k] \in Int
      BY <1>1, <1>3
    <3> QED  BY <3>1
  <2>4. Value(w, 0, 2 * N - 1) = 2 * CrossRows(src1, N - 1) + Squares(src1, i)
    BY <1>3 DEF DiagonalSum
  <2>5. Value(w, 0, 2 * N - 1) + Weight[k] * p = s
    BY <1>8, <1>9, <2>1, <2>2, <2>3, <2>4
  <2> QED  BY <1>3, <1>6, <2>5
<1>11. CASE i + 1 < N
  <2> DEFINE r == wide'
  <2>1. PICK from \in 0 .. 2 * N - 1, v \in Nat : from = 2 * i + 2 /\ v = high \div B
    BY <1>1, <1>6, <1>11
  <2>2. r = Rippled(f, from, 2 * N - 1, v)
    BY <1>7, <1>11, <2>1
  <2>3. Value(f, 0, 2 * N - 1) + v * Weight[from] = s
    BY <1>10, <2>1
  <2>4. Value(f, 0, 2 * N - 1) + v * Weight[from] < Weight[2 * N]
    BY <1>9, <2>3
  <2> HIDE DEF r
  <2>5. r \in Wide /\ Value(r, 0, 2 * N - 1) = Value(f, 0, 2 * N - 1) + v * Weight[from]
    BY <1>6, <2>2, <2>4, RippleFits
  <2> USE DEF r
  <2> QED  BY <1>1, <1>6, <1>7, <1>9, <1>11, <2>1, <2>3, <2>5 DEF DiagonalSum
<1>12. CASE i + 1 = N
  <2>1. wide' = f
    BY <1>1, <1>7, <1>12
  <2>2. PICK v \in Nat, t \in Nat, c \in Nat :
           v = Value(f, 0, 2 * N - 1) /\ t = Weight[2 * N] /\ c = high \div B
    <3>1. Weight[2 * N] \in Nat
      BY <1>1
    <3>2. Value(f, 0, 2 * N - 1) \in Nat
      BY <1>6, <3>1, WideValue
    <3>3. high \div B \in Nat
      BY <1>6
    <3> QED  BY <3>1, <3>2, <3>3
  <2>3. v + c * t = s /\ s < t
    BY <1>1, <1>9, <1>10, <1>12, <2>2
  <2>4. c = 0
    BY <2>3, Overflows
  <2>5. v = s
    BY <2>3, <2>4
  <2> QED  BY <1>6, <1>7, <1>9, <2>1, <2>2, <2>4, <2>5 DEF DiagonalSum
<1> QED  BY <1>1, <1>11, <1>12

LEMMA ClearedIsZero ==
  ASSUME RadixFits, wide' = [k \in 0 .. 2 * N - 1 |-> 0]
  PROVE  Value(wide', 0, 2 * N - 1) = 0
<1>1. 2 * N \in 0 .. 2 * N
  BY Radix
<1>2. PICK w : w = wide'
  OBVIOUS
<1>3. \A k \in 0 .. 2 * N - 1 : w[k] = 0
  BY <1>2
<1>4. Value(w, 0, 2 * N - 1) = 0
  BY <1>1, <1>3, ValueZero
<1> QED  BY <1>2, <1>4

(***************************************************************************)
(* The inductive invariant of both routines.  RowsSum and SqrSum say        *)
(* RowsExact and SumsExact without the cases of the first byte; a row of    *)
(* cross products ends, in pairs, at byte 32 or one past it; the reduction  *)
(* begins with the whole product and nothing pending.                       *)
(***************************************************************************)
WideTyped ==
  /\ pc \in {"idle", "body", "ripple", "body_a", "body_b", "sqr_ripple", "diagonal", "fold",
             "section_b", "section_c", "copy", "done"}
  /\ i \in 0 .. N /\ x \in 0 .. N + 1 /\ pairs \in 0 .. N \div 2 /\ pending \in {0, 1}
  /\ dmaK \in SqrDmaKs

WideCourse ==
  /\ pc = "body" => Inside
  /\ pc = "ripple" => i \in 0 .. N - 1 /\ x = N
  /\ pc = "body_a" => InRow /\ pairs > 0 /\ x + 2 * pairs \in {N, N + 1}
  /\ pc = "body_b" => InRow /\ pairs > 0 /\ (x - 1) + 2 * pairs \in {N, N + 1}
  /\ pc = "sqr_ripple" => src2 = src1 /\ i \in 0 .. N - 2 /\ x \in {N, N + 1}
  /\ pc = "diagonal" => src2 = src1 /\ i \in 0 .. N - 1

WideSums ==
  /\ pc \in {"body", "ripple"} => RowsSum
  /\ pc \in {"body_a", "body_b", "sqr_ripple"} => SqrSum
  /\ pc = "diagonal" => DiagonalSum

FoldBegins == pc = "fold" /\ x = 0 => pending = 0 /\ Value(wide, 0, 2 * N - 1) = Value1 * Value2

WideInv == Reduced /\ Reducing /\ WideTyped /\ WideCourse /\ WideSums /\ FoldBegins

LEMMA PairsFill ==
  ASSUME N \in Nat, NEW r \in 0 .. N - 2
  PROVE  /\ PairsOf(r) \in 0 .. N \div 2 /\ PairsOf(r) > 0
         /\ (r + 1) + 2 * PairsOf(r) \in {N, N + 1}
BY DEF PairsOf

LEMMA InitWide ==
  ASSUME RadixFits, OperandsFit, UnrollFits
  PROVE  SqrInit => WideInv
<1> SUFFICES ASSUME SqrInit PROVE WideInv
  OBVIOUS
<1>1. /\ pc = "idle" /\ src1 \in Operands /\ src2 = src1 /\ wide \in StaleWide /\ i = 0 /\ x = 0
      /\ pending = 0 /\ carry = 0 /\ dst = Zeros /\ dmaK \in SqrDmaKs /\ pairs = 0
  BY DEF SqrInit, WideInit
<1>2. Reduced
  BY <1>1, BytesAreBytes DEF Reduced, Zeros
<1>3. WideTyped
  <2>1. N \in Nat /\ N \div 2 \in Nat
    BY Radix
  <2> QED  BY <1>1, <2>1 DEF WideTyped
<1> QED  BY <1>1, <1>2, <1>3 DEF WideInv, WideCourse, WideSums, FoldBegins, Reducing, FoldsExact

LEMMA MulCallKeeps ==
  ASSUME RadixFits, OperandsFit, UnrollFits, WideInv, MulCall, UNCHANGED <<dmaK, pairs>>
  PROVE  WideInv'
<1>1. /\ pc' = "body" /\ i' = 0 /\ x' = 0 /\ pending' = 0 /\ carry' = carry /\ dst' = dst
      /\ src1' \in Operands /\ src2' \in Operands /\ wide' = [k \in 0 .. 2 * N - 1 |-> 0]
      /\ dmaK' = dmaK /\ pairs' = pairs
  BY DEF MulCall
<1>2. Reduced' /\ WideTyped'
  <2>1. 0 \in 0 .. N /\ 0 \in 0 .. N + 1
    BY Radix
  <2> QED  BY <1>1, <2>1, BytesAreBytes DEF WideInv, Reduced, WideTyped
<1>3. WideCourse'
  BY <1>1, BytesAreBytes DEF WideCourse, Inside
<1>4. RowsSum'
  <2>1. PICK u \in Elements, v \in Elements : u = src1' /\ v = src2'
    BY <1>1, BytesAreBytes
  <2>2. /\ N \in Nat \ {0} /\ N \in 0 .. N /\ 0 \in 0 .. N - 1 /\ 0 \in 0 .. 2 * N + 2
        /\ 2 * N \in 0 .. 2 * N /\ N \in 0 .. 2 * N + 2 /\ Target' \in 0 .. 2 * N + 2
        /\ \A k \in 0 .. 2 * N + 2 : Weight[k] \in Nat \ {0}
    BY <1>1, Radix, BytesAreBytes DEF Target
  <2>3. Value(u, 0, 0 - 1) = 0 /\ Value(v, 0, 0 - 1) = 0
    BY ValueEmpty
  <2>4. PICK c \in Nat, d \in Nat, t \in Nat, s \in Nat :
          c = Value(v, 0, N - 1) /\ d = u[0] /\ t = Weight[0] /\ s = Weight[Target']
    <3>1. Weight[0] \in Nat /\ Weight[N] \in Nat /\ Weight[Target'] \in Nat
      BY <2>2
    <3>2. Value(v, 0, N - 1) \in Nat
      BY <2>2, <3>1, ElementBytes
    <3>3. u[0] \in Nat
      BY <2>2, ElementBytes
    <3> QED  BY <3>1, <3>2, <3>3
  <2>5. Done' = 0 * c
    BY <1>1, <2>1, <2>3, <2>4 DEF Done, Value2
  <2>6. Part' = (d * t) * 0
    BY <1>1, <2>1, <2>3, <2>4 DEF Part
  <2>7. Value(wide', 0, 2 * N - 1) = 0
    BY <1>1, ClearedIsZero
  <2>8. Done' = 0 /\ Part' = 0
    <3>1. d * t \in Nat
      OBVIOUS
    <3> QED  BY <2>5, <2>6, <3>1
  <2>9. Value(wide', 0, 2 * N - 1) + 0 * s = Done' + Part'
    BY <2>7, <2>8
  <2> QED  BY <1>1, <2>4, <2>9 DEF RowsSum
<1> QED
  BY <1>1, <1>2, <1>3, <1>4 DEF WideInv, WideSums, FoldBegins, Reducing, FoldsExact

LEMMA SqrCallKeeps ==
  ASSUME RadixFits, OperandsFit, UnrollFits, WideInv, SqrCall
  PROVE  WideInv'
<1>1. /\ pc' = "body_a" /\ i' = 0 /\ x' = 1 /\ pairs' = PairsOf(0) /\ pending' = 0
      /\ carry' = carry /\ dst' = dst /\ dmaK' = dmaK
      /\ src1' \in Operands /\ src2' = src1' /\ wide' = [k \in 0 .. 2 * N - 1 |-> 0]
  BY DEF SqrCall
<1>2. /\ N \in Nat \ {0} /\ N >= 2 /\ 0 \in 0 .. N - 2 /\ 0 \in 0 .. N - 1 /\ 1 \in 0 .. N + 1
      /\ 1 \in 0 + 1 .. N /\ 1 \in 0 .. N /\ 0 \in 0 .. N /\ 0 \in 0 .. 2 * N + 2
      /\ 3 \in 0 .. 2 * N + 2 /\ 0 + 1 = 1
      /\ \A k \in 0 .. 2 * N + 2 : Weight[k] \in Nat \ {0}
  BY Radix, BytesAreBytes
<1>3. PairsOf(0) \in 0 .. N \div 2 /\ PairsOf(0) > 0 /\ 1 + 2 * PairsOf(0) \in {N, N + 1}
  <2>1. (0 + 1) + 2 * PairsOf(0) \in {N, N + 1} /\ PairsOf(0) \in 0 .. N \div 2 /\ PairsOf(0) > 0
    BY <1>2, PairsFill
  <2> QED  BY <2>1
<1>4. Reduced' /\ WideTyped'
  BY <1>1, <1>2, <1>3, BytesAreBytes DEF WideInv, Reduced, WideTyped
<1>5. WideCourse'
  BY <1>1, <1>2, <1>3 DEF WideCourse, InRow
<1>6. SqrSum'
  <2>1. PICK v \in Elements : v = src1'
    BY <1>1, BytesAreBytes
  <2>2. Value(wide', 0, 2 * N - 1) = 0
    BY <1>1, ClearedIsZero
  <2>3. CrossRows(v, 0) = 0
    BY <1>2, TotalSteps
  <2>4. SqrPart' = 0
    <3>1. Used' = 1
      BY <1>1, <1>2 DEF Used
    <3>2. SqrPart' = (v[0] * Weight[0]) * (Low(v, 1) - Low(v, 1))
      BY <1>1, <1>2, <2>1, <3>1 DEF SqrPart
    <3>3. PICK m \in Int, l \in Int : m = v[0] * Weight[0] /\ l = Low(v, 1)
      <4>1. v[0] \in Int /\ Weight[0] \in Int /\ Low(v, 1) \in Nat
        BY <1>2, ElementBytes, LowGrows
      <4>2. v[0] * Weight[0] \in Int
        BY <4>1
      <4> QED  BY <4>1, <4>2
    <3>4. m * (l - l) = 0
      <4>1. l - l = 0
        OBVIOUS
      <4> QED  BY <4>1
    <3> QED  BY <3>2, <3>3, <3>4
  <2>5. SqrTotal' = 0
    BY <1>1, <2>1, <2>3, <2>4 DEF SqrTotal
  <2>6. Weight[Target'] \in Nat
    <3>1. Target' = 3
      BY <1>1 DEF Target
    <3> QED  BY <1>2, <3>1
  <2>7. Value(wide', 0, 2 * N - 1) + 0 * Weight[Target'] = SqrTotal'
    BY <2>2, <2>5, <2>6
  <2> QED  BY <1>1, <2>7 DEF SqrSum
<1> QED
  BY <1>1, <1>4, <1>5, <1>6 DEF WideInv, WideSums, FoldBegins, Reducing, FoldsExact

\* The actions of the product.
LEMMA ChainKeeps ==
  ASSUME RadixFits, OperandsFit, UnrollFits, WideInv, Chain \/ ChainSkip, UNCHANGED <<dmaK, pairs>>
  PROVE  WideInv'
<1>1. pc = "body" /\ Inside /\ pending \in {0, 1} /\ RowsSum /\ Placed
  BY ReducedPlaced DEF WideInv, WideTyped, WideCourse, WideSums, Chain, ChainSkip
<1>2. wide' \in Wide /\ pending' \in {0, 1} /\ RowsSum'
  <2>1. CASE Chain
    BY <1>1, <2>1, ChainRows
  <2>2. CASE ChainSkip
    BY <1>1, <2>2, SkipRows
  <2> QED  BY <2>1, <2>2
<1>3. /\ i' = i /\ x' = x + 1 /\ pc' = (IF x + 1 = N THEN "ripple" ELSE "body")
      /\ src1' = src1 /\ src2' = src2 /\ carry' = carry /\ dst' = dst
      /\ dmaK' = dmaK /\ pairs' = pairs
  BY DEF Chain, ChainSkip, NextBody
<1>4. /\ x + 1 \in 0 .. N + 1 /\ (x + 1 # N => x + 1 \in 0 .. N - 1) /\ i \in 0 .. N - 1
      /\ i \in 0 .. N
  BY <1>1, Radix DEF Inside
<1>5. Reduced' /\ WideTyped' /\ WideCourse'
  BY <1>2, <1>3, <1>4 DEF WideInv, Reduced, WideTyped, WideCourse, Inside
<1> QED  BY <1>2, <1>3, <1>5 DEF WideInv, WideSums, FoldBegins, Reducing, FoldsExact

\* The reduction starts with the product, from either routine.
LEMMA FoldStarts ==
  ASSUME RadixFits, Placed, NEW w \in Wide, w = wide', x' = 0, carry' = 0,
         src1' = src1, src2' = src2, Value(w, 0, 2 * N - 1) = Value1 * Value2
  PROVE  /\ FoldState'
         /\ Value(wide', 0, 2 * N - 1) = Value1' * Value2'
<1>1. Value1' = Value1 /\ Value2' = Value2
  BY DEF Value1, Value2
<1>2. PICK s \in Nat : s = Value1 * Value2
  BY ProductRange
<1>3. Value(w, N, 2 * N - 1) = s \div R /\ Value(w, 0, N - 1) = s % R
  BY <1>2, HalvesOf
<1>4. Value(w, 0, N - 1) + 0 * Weight[0] = (s % R) + Fold * Value(w, N, N + 0 - 1)
  BY <1>3, FoldStart
<1> QED  BY <1>1, <1>2, <1>3, <1>4 DEF FoldState

LEMMA RippleKeeps ==
  ASSUME RadixFits, OperandsFit, UnrollFits, WideInv, Ripple, UNCHANGED <<dmaK, pairs>>
  PROVE  WideInv'
<1>1. /\ pc = "ripple" /\ i \in 0 .. N - 1 /\ x = N /\ pending \in {0, 1} /\ RowsSum /\ Placed
  BY ReducedPlaced DEF WideInv, WideTyped, WideCourse, WideSums, Ripple
<1>2. /\ wide' \in Wide
      /\ Value(wide', 0, 2 * N - 1) = Value(src1, 0, i) * Value2
      /\ i + 1 < N => RowsSum'
  BY <1>1, RippleRows
<1>3. /\ i' = i + 1 /\ x' = 0 /\ pending' = 0 /\ carry' = 0
      /\ pc' = (IF i + 1 = N THEN "fold" ELSE "body")
      /\ src1' = src1 /\ src2' = src2 /\ dst' = dst /\ dmaK' = dmaK /\ pairs' = pairs
  BY DEF Ripple
<1>4. /\ i + 1 \in 0 .. N /\ (i + 1 # N => i + 1 \in 0 .. N - 1 /\ i + 1 < N)
      /\ (i + 1 = N => i = N - 1) /\ 0 \in 0 .. N - 1 /\ 0 \in 0 .. N + 1 /\ 0 \in Byte
  BY <1>1, Radix, BytesAreBytes
<1>5. Reduced' /\ WideTyped' /\ WideCourse'
  BY <1>2, <1>3, <1>4 DEF WideInv, Reduced, WideTyped, WideCourse, Inside
<1>6. ASSUME i + 1 = N
      PROVE  FoldState' /\ Value(wide', 0, 2 * N - 1) = Value1' * Value2'
  <2>1. PICK w \in Wide : w = wide'
    BY <1>2
  <2>2. Value(w, 0, 2 * N - 1) = Value1 * Value2
    BY <1>2, <1>4, <1>6, <2>1 DEF Value1
  <2> QED  BY <1>1, <1>3, <2>1, <2>2, FoldStarts
<1> QED
  BY <1>2, <1>3, <1>4, <1>5, <1>6 DEF WideInv, WideSums, FoldBegins, Reducing, FoldsExact

LEMMA BodyAKeeps ==
  ASSUME RadixFits, OperandsFit, UnrollFits, SqrFits, WideInv, BodyA
  PROVE  WideInv'
<1>1. /\ pc = "body_a" /\ InRow /\ pairs > 0 /\ x + 2 * pairs \in {N, N + 1}
      /\ pairs \in 0 .. N \div 2 /\ pending \in {0, 1} /\ SqrSum /\ Placed
  BY ReducedPlaced DEF WideInv, WideTyped, WideCourse, WideSums, BodyA
<1>2. /\ pc' = "body_b" /\ x' = x + 1 /\ i' = i /\ src1' = src1 /\ src2' = src2
      /\ carry' = carry /\ dst' = dst /\ dmaK' = dmaK /\ pairs' = pairs /\ SqrBodyChained
  BY DEF BodyA
<1>3. /\ N \in Nat \ {0} /\ N \div 2 \in Nat /\ pairs \in Nat /\ x \in Nat /\ x <= N - 1 /\ i \in 0 .. N - 2
      /\ x + 1 \in i + 1 .. N /\ x + 1 \in 0 .. N + 1 /\ (x + 1) - 1 = x /\ Target < 2 * N
      /\ i \in 0 .. N
  <2>1. N \in Nat \ {0} /\ i \in 0 .. N - 2 /\ x \in i + 1 .. N /\ N \div 2 \in Nat
    BY <1>1, Radix DEF InRow
  <2>2. pairs \in Nat /\ pairs >= 1
    BY <1>1, <2>1
  <2>3. x <= N - 1
    BY <1>1, <2>1, <2>2
  <2> QED  BY <2>1, <2>2, <2>3 DEF Target
<1>4. wide' \in Wide /\ pending' \in {0, 1} /\ SqrSum'
  BY <1>1, <1>2, <1>3, SqrChainRows
<1>5. Reduced'
  BY <1>2, <1>4 DEF WideInv, Reduced
<1>6. WideTyped'
  BY <1>1, <1>2, <1>3, <1>4 DEF WideInv, WideTyped
<1>7. WideCourse'
  BY <1>1, <1>2, <1>3 DEF WideCourse, InRow
<1> QED
  BY <1>2, <1>4, <1>5, <1>6, <1>7 DEF WideInv, WideSums, FoldBegins, Reducing, FoldsExact

\* Where body B is: it looks for a target exactly when there is none.
LEMMA BodyBPlace ==
  ASSUME RadixFits, UnrollFits, SqrFits, WideTyped, InRow
  PROVE  i + x + 1 < 2 * N /\ (~NoTarget => Target < 2 * N)
<1>1. N \in Nat \ {0} /\ i \in 0 .. N - 2 /\ x \in i + 1 .. N /\ dmaK \in 0 .. N - 2
  BY Radix DEF InRow, WideTyped, SqrFits
<1>2. ASSUME ~(Target < 2 * N) PROVE NoTarget
  <2>1. i = N - 2 /\ x = N
    BY <1>1, <1>2 DEF Target
  <2> QED  BY <1>1, <2>1 DEF NoTarget
<1> QED  BY <1>1, <1>2

LEMMA BodyBKeeps ==
  ASSUME RadixFits, OperandsFit, UnrollFits, SqrFits, WideInv, BodyB \/ BodyBSkip
  PROVE  WideInv'
<1>1. /\ pc = "body_b" /\ InRow /\ pairs > 0 /\ (x - 1) + 2 * pairs \in {N, N + 1}
      /\ pairs \in 0 .. N \div 2 /\ pending \in {0, 1} /\ SqrSum /\ Placed /\ WideTyped
  BY ReducedPlaced DEF WideInv, WideTyped, WideCourse, WideSums, BodyB, BodyBSkip
<1>2. /\ x' = x + 1 /\ pairs' = pairs - 1 /\ i' = i /\ src1' = src1 /\ src2' = src2
      /\ carry' = carry /\ dst' = dst /\ dmaK' = dmaK
      /\ pc' = (IF pairs - 1 = 0 THEN "sqr_ripple" ELSE "body_a")
  BY DEF BodyB, BodyBSkip, NextPair
<1>3. /\ N \in Nat \ {0} /\ N \div 2 \in Nat /\ pairs \in Nat \ {0} /\ pairs <= N \div 2
      /\ i \in 0 .. N - 2 /\ x \in i + 1 .. N /\ i \in 0 .. N /\ x + 1 \in 0 .. N + 1
  <2>1. N \in Nat \ {0} /\ N \div 2 \in Nat
    BY Radix
  <2> QED  BY <1>1, <2>1 DEF InRow
<1>4. wide' \in Wide /\ pending' \in {0, 1} /\ SqrSum'
  <2>1. CASE BodyB
    <3>1. Target < 2 * N /\ SqrBodyChained
      BY <1>1, <2>1, BodyBPlace DEF BodyB
    <3> QED  BY <1>1, <1>2, <3>1, SqrChainRows
  <2>2. CASE BodyBSkip
    BY <1>1, <2>2, SqrSkipRows
  <2> QED  BY <2>1, <2>2
<1>5. Reduced'
  BY <1>2, <1>4 DEF WideInv, Reduced
<1>6. WideTyped'
  <2>1. pairs - 1 \in 0 .. N \div 2
    BY <1>3
  <2> QED  BY <1>1, <1>2, <1>3, <1>4, <2>1 DEF WideTyped
<1>7. WideCourse'
  <2>1. (x + 1) + 2 * (pairs - 1) = (x - 1) + 2 * pairs
    BY <1>3
  <2>2. CASE pairs - 1 = 0
    <3>1. x + 1 \in {N, N + 1}
      BY <1>1, <1>3, <2>2
    <3> QED  BY <1>1, <1>2, <1>3, <2>2, <3>1 DEF WideCourse, InRow
  <2>3. CASE pairs - 1 # 0
    <3>1. pairs - 1 > 0 /\ x + 1 \in i + 1 .. N
      BY <1>1, <1>3, <2>1, <2>3
    <3> QED  BY <1>1, <1>2, <1>3, <2>1, <2>3, <3>1 DEF WideCourse, InRow
  <2> QED  BY <2>2, <2>3
<1> QED
  BY <1>2, <1>4, <1>5, <1>6, <1>7 DEF WideInv, WideSums, FoldBegins, Reducing, FoldsExact

LEMMA SqrRippleKeeps ==
  ASSUME RadixFits, OperandsFit, UnrollFits, WideInv, SqrRipple
  PROVE  WideInv'
<1>1. /\ pc = "sqr_ripple" /\ src2 = src1 /\ i \in 0 .. N - 2 /\ x \in {N, N + 1}
      /\ pending \in {0, 1} /\ SqrSum /\ Placed
  BY ReducedPlaced DEF WideInv, WideTyped, WideCourse, WideSums, SqrRipple
<1>2. /\ wide' \in Wide
      /\ Value(wide', 0, 2 * N - 1) = 2 * CrossRows(src1, i + 1)
      /\ i + 1 < N - 1 => SqrSum'
  BY <1>1, SqrRippleRows
<1>3. /\ src1' = src1 /\ src2' = src2 /\ carry' = carry /\ dst' = dst /\ dmaK' = dmaK /\ pending' = 0
      /\ i + 1 < N - 1 =>
           pc' = "body_a" /\ i' = i + 1 /\ x' = i + 2 /\ pairs' = PairsOf(i + 1)
      /\ ~(i + 1 < N - 1) => pc' = "diagonal" /\ i' = 0 /\ x' = x /\ pairs' = pairs
  BY DEF SqrRipple
<1>4. /\ N \in Nat \ {0} /\ (~(i + 1 < N - 1) => i + 1 = N - 1) /\ 0 \in 0 .. N /\ 0 \in 0 .. N - 1
      /\ (i + 1 < N - 1 => i + 1 \in 0 .. N - 2 /\ i + 2 \in (i + 1) + 1 .. N /\ i + 1 \in 0 .. N
                             /\ i + 2 \in 0 .. N + 1 /\ (i + 1) + 1 = i + 2)
  BY <1>1, Radix
<1>5. Reduced'
  BY <1>2, <1>3 DEF WideInv, Reduced
<1>6. CASE i + 1 < N - 1
  <2>1. /\ PairsOf(i + 1) \in 0 .. N \div 2 /\ PairsOf(i + 1) > 0
        /\ (i + 2) + 2 * PairsOf(i + 1) \in {N, N + 1}
    <3>1. ((i + 1) + 1) + 2 * PairsOf(i + 1) \in {N, N + 1}
          /\ PairsOf(i + 1) \in 0 .. N \div 2 /\ PairsOf(i + 1) > 0
      BY <1>4, <1>6, PairsFill
    <3> QED  BY <1>4, <1>6, <3>1
  <2>2. WideTyped'
    BY <1>1, <1>3, <1>4, <1>6, <2>1 DEF WideInv, WideTyped
  <2>3. WideCourse'
    BY <1>1, <1>3, <1>4, <1>6, <2>1 DEF WideCourse, InRow
  <2> QED
    BY <1>2, <1>3, <1>5, <1>6, <2>2, <2>3 DEF WideInv, WideSums, FoldBegins, Reducing, FoldsExact
<1>7. CASE ~(i + 1 < N - 1)
  <2>1. DiagonalSum'
    <3>1. Squares(src1, 0) = 0 /\ CrossRows(src1, N - 1) \in Nat
      <4>1. N - 1 \in 0 .. N
        BY <1>4
      <4> QED  BY <1>4, <4>1, TotalSteps, SumsRun, <1>1 DEF Placed
    <3>2. Value(wide', 0, 2 * N - 1) = 2 * CrossRows(src1, N - 1) + Squares(src1, 0)
      BY <1>2, <1>4, <1>7, <3>1
    <3> QED  BY <1>3, <1>7, <3>2 DEF DiagonalSum
  <2>2. WideTyped'
    BY <1>1, <1>3, <1>4, <1>7 DEF WideInv, WideTyped
  <2>3. WideCourse'
    BY <1>1, <1>3, <1>4, <1>7 DEF WideCourse
  <2> QED
    BY <1>2, <1>3, <1>5, <1>7, <2>1, <2>2, <2>3
    DEF WideInv, WideSums, FoldBegins, Reducing, FoldsExact
<1> QED  BY <1>6, <1>7

LEMMA DiagonalKeeps ==
  ASSUME RadixFits, OperandsFit, UnrollFits, WideInv, Diagonal
  PROVE  WideInv'
<1>1. /\ pc = "diagonal" /\ src2 = src1 /\ i \in 0 .. N - 1 /\ DiagonalSum /\ Placed
  BY ReducedPlaced DEF WideInv, WideCourse, WideSums, Diagonal
<1>2. /\ wide' \in Wide /\ pending' \in {0, 1} /\ DiagonalSum'
      /\ i + 1 = N => pending' = 0
  BY <1>1, DiagonalRows
<1>3. /\ i' = i + 1 /\ x' = 0 /\ carry' = 0
      /\ pc' = (IF i + 1 = N THEN "fold" ELSE "diagonal")
      /\ src1' = src1 /\ src2' = src2 /\ dst' = dst /\ dmaK' = dmaK /\ pairs' = pairs
  BY DEF Diagonal
<1>4. /\ i + 1 \in 0 .. N /\ (i + 1 # N => i + 1 \in 0 .. N - 1)
      /\ 0 \in 0 .. N - 1 /\ 0 \in 0 .. N + 1 /\ 0 \in Byte
  BY <1>1, Radix, BytesAreBytes
<1>5. Reduced' /\ WideTyped' /\ WideCourse'
  BY <1>1, <1>2, <1>3, <1>4 DEF WideInv, Reduced, WideTyped, WideCourse
<1>6. ASSUME i + 1 = N
      PROVE  FoldState' /\ Value(wide', 0, 2 * N - 1) = Value1' * Value2'
  <2>1. PICK w \in Wide : w = wide'
    BY <1>2
  <2>2. Value(w, 0, 2 * N - 1) = Value1 * Value2
    <3>1. Value(w, 0, 2 * N - 1) = 2 * CrossRows(src1, N - 1) + Squares(src1, N)
      BY <1>2, <1>3, <1>6, <2>1 DEF DiagonalSum
    <3>2. 2 * CrossRows(src1, N - 1) + Squares(src1, N) = Low(src1, N) * Low(src1, N)
      BY <1>1, AllSums DEF Placed
    <3> QED  BY <1>1, <3>1, <3>2 DEF Low, Value1, Value2
  <2> QED  BY <1>1, <1>3, <2>1, <2>2, FoldStarts
<1> QED
  BY <1>2, <1>3, <1>4, <1>5, <1>6 DEF WideInv, WideSums, FoldBegins, Reducing, FoldsExact

LEMMA WideReturnKeeps ==
  ASSUME RadixFits, OperandsFit, UnrollFits, WideInv, WideReturn, UNCHANGED <<dmaK, pairs>>
  PROVE  WideInv'
<1>1. /\ pc' = "idle" /\ src1' \in Operands /\ src2' = src1' /\ wide' \in StaleWide
      /\ dst' = Zeros /\ i' = 0 /\ x' = 0 /\ carry' = 0 /\ pending' = pending
      /\ dmaK' = dmaK /\ pairs' = pairs
  BY DEF WideReturn
<1>2. Reduced' /\ WideTyped'
  <2>1. 0 \in 0 .. N + 1
    BY Radix
  <2> QED  BY <1>1, <2>1, BytesAreBytes DEF WideInv, Reduced, WideTyped, Zeros
<1> QED
  BY <1>1, <1>2 DEF WideInv, WideCourse, WideSums, FoldBegins, Reducing, FoldsExact

LEMMA ReduceKeeps ==
  ASSUME RadixFits, OperandsFit, UnrollFits, WideInv, Reduce, UNCHANGED <<dmaK, pairs>>
  PROVE  WideInv'
<1>1. Reduced' /\ Reducing'
  BY FoldByteStep, SectionBStep, SectionCStep, CopyStep DEF WideInv, Reduce
<1>2. /\ WideTyped' /\ WideCourse' /\ FoldBegins'
      /\ pc' \notin {"body", "ripple", "body_a", "body_b", "sqr_ripple", "diagonal"}
  <2>1. CASE FoldByte
    <3>1. x + 1 \in 0 .. N + 1 /\ x + 1 # 0
      BY <2>1, Radix DEF WideInv, Reducing, FoldByte
    <3> QED  BY <2>1, <3>1 DEF WideInv, WideTyped, WideCourse, FoldBegins, FoldByte
  <2>2. CASE SectionB
    BY <2>2 DEF WideInv, WideTyped, WideCourse, FoldBegins, SectionB
  <2>3. CASE SectionC
    BY <2>3 DEF WideInv, WideTyped, WideCourse, FoldBegins, SectionC
  <2>4. CASE Copy
    BY <2>4 DEF WideInv, WideTyped, WideCourse, FoldBegins, Copy
  <2> QED  BY <2>1, <2>2, <2>3, <2>4 DEF Reduce
<1> QED  BY <1>1, <1>2 DEF WideInv, WideSums

LEMMA NextWide ==
  ASSUME RadixFits, OperandsFit, UnrollFits, SqrFits
  PROVE  WideInv /\ [WideNext]_sqrVars => WideInv'
<1> SUFFICES ASSUME WideInv, [WideNext]_sqrVars PROVE WideInv'
  OBVIOUS
<1>1. CASE UNCHANGED sqrVars
  <2>1. /\ pc' = pc /\ src1' = src1 /\ src2' = src2 /\ wide' = wide /\ i' = i /\ x' = x
        /\ pending' = pending /\ carry' = carry /\ dst' = dst /\ dmaK' = dmaK /\ pairs' = pairs
    BY <1>1 DEF sqrVars, wideVars
  <2>2. /\ Reduced' /\ WideTyped' /\ WideCourse' /\ Value1' = Value1 /\ Value2' = Value2
        /\ Target' = Target /\ Done' = Done /\ Part' = Part /\ SqrTotal' = SqrTotal
    BY <2>1 DEF WideInv, Reduced, WideTyped, WideCourse, Inside, InRow, Value1, Value2, Target,
                Done, Part, SqrTotal, SqrPart, Used
  <2>3. WideSums'
    BY <2>1, <2>2 DEF WideInv, WideSums, RowsSum, SqrSum, DiagonalSum
  <2>4. Reducing' /\ FoldBegins'
    BY <2>1, <2>2 DEF WideInv, Reducing, FoldState, FoldsExact, FoldBegins
  <2> QED  BY <2>2, <2>3, <2>4 DEF WideInv
<1>2. CASE SqrNext
  BY <1>2, SqrCallKeeps, BodyAKeeps, BodyBKeeps, SqrRippleKeeps, DiagonalKeeps DEF SqrNext
<1>3. CASE MulNext /\ UNCHANGED <<dmaK, pairs>>
  BY <1>3, MulCallKeeps, ChainKeeps, RippleKeeps, ReduceKeeps, WideReturnKeeps DEF MulNext
<1> QED  BY <1>1, <1>2, <1>3 DEF WideNext

LEMMA WideInvariance ==
  ASSUME RadixFits, OperandsFit, UnrollFits, SqrFits
  PROVE  WideSpec => []WideInv
<1> QED  BY InitWide, NextWide, PTL DEF WideSpec

(***************************************************************************)
(* Types: no byte of fe_wide overflows, and neither chain of pending        *)
(* carries leaves the buffer or the padded operand, whatever SQR_DMA_K is.  *)
(***************************************************************************)
THEOREM WideTypeCorrect ==
  ASSUME RadixFits, OperandsFit, UnrollFits, SqrFits
  PROVE  WideSpec => []WideTypeOK
<1>1. WideInv => WideTypeOK
  <2> SUFFICES ASSUME WideInv PROVE WideTypeOK
    OBVIOUS
  <2>1. ASSUME pc = "body" PROVE i < N /\ x < N /\ (~Phantom => Target < 2 * N)
    <3>1. Inside
      BY <2>1 DEF WideInv, WideCourse
    <3>2. ~Phantom => Target < 2 * N
      BY <3>1, PhantomLast
    <3> QED  BY <3>1, <3>2, Radix DEF Inside
  <2>2. ASSUME pc = "body_a" PROVE i < N - 1 /\ x < N /\ Target < 2 * N /\ pairs > 0
    <3>1. InRow /\ pairs > 0 /\ x + 2 * pairs \in {N, N + 1} /\ pairs \in 0 .. N \div 2
      BY <2>2 DEF WideInv, WideCourse, WideTyped
    <3>2. N \in Nat /\ N \div 2 \in Nat
      BY Radix
    <3>3. pairs \in Nat /\ pairs >= 1
      BY <3>1, <3>2
    <3>4. i \in 0 .. N - 2 /\ x \in i + 1 .. N
      BY <3>1 DEF InRow
    <3>5. x <= N - 1
      BY <3>1, <3>2, <3>3, <3>4
    <3> QED  BY <3>1, <3>2, <3>4, <3>5 DEF Target
  <2>3. ASSUME pc = "body_b"
        PROVE  x <= N /\ i + x + 1 < 2 * N /\ (~NoTarget => Target < 2 * N)
    <3>1. InRow /\ WideTyped
      BY <2>3 DEF WideInv, WideCourse
    <3>2. i + x + 1 < 2 * N /\ (~NoTarget => Target < 2 * N)
      BY <3>1, BodyBPlace
    <3>3. x <= N
      BY <3>1, Radix DEF InRow
    <3> QED  BY <3>2, <3>3
  <2> QED  BY <2>1, <2>2, <2>3 DEF WideInv, Reduced, WideTyped, WideTypeOK, Wide
<1> QED  BY <1>1, WideInvariance, PTL

(***************************************************************************)
(* The product grows row by row: whatever the operands, fe_wide and the     *)
(* pending carry are the rows done and the part of the row under way.       *)
(***************************************************************************)
THEOREM RowsAreExact ==
  ASSUME RadixFits, OperandsFit, UnrollFits, SqrFits
  PROVE  WideSpec => []RowsExact
<1>1. WideInv => RowsExact
  <2> SUFFICES ASSUME WideInv, pc \in {"body", "ripple"} PROVE RowsExact
    BY DEF RowsExact
  <2>1. /\ RowsSum /\ Placed /\ i \in 0 .. N - 1 /\ x \in 0 .. N
    <3>1. N \in Nat \ {0}
      BY Radix
    <3> QED  BY <3>1, ReducedPlaced DEF WideInv, WideCourse, WideSums, Inside
  <2>2. /\ Done = IF i = 0 THEN 0 ELSE Value(src1, 0, i - 1) * Value2
        /\ Part = IF x = 0 THEN 0 ELSE src1[i] * Weight[i] * Value(src2, 0, x - 1)
    BY <2>1, RowsForm
  <2> QED  BY <2>1, <2>2 DEF RowsExact, RowsSum
<1> QED  BY <1>1, WideInvariance, PTL

(***************************************************************************)
(* The square grows by doubled cross products, then by squares, and comes   *)
(* to the product fe_reduce_wide is given by the multiplication.            *)
(***************************************************************************)
THEOREM SumsAreExact ==
  ASSUME RadixFits, OperandsFit, UnrollFits, SqrFits
  PROVE  WideSpec => []SumsExact
<1>1. WideInv => SumsExact
  <2> SUFFICES ASSUME WideInv PROVE SumsExact
    OBVIOUS
  <2> DEFINE last == IF x <= N THEN x - 1 ELSE N - 1
             part == IF last <= i THEN 0
                     ELSE src1[i] * Weight[i] * Weight[i + 1] * Value(src1, i + 1, last)
  <2>1. ASSUME pc \in {"body_a", "body_b", "sqr_ripple"}
        PROVE  Value(wide, 0, 2 * N - 1) + pending * Weight[Target] = 2 * (CrossRows(src1, i) + part)
    <3>1. /\ N \in Nat \ {0} /\ Placed /\ SqrSum /\ i \in 0 .. N - 2 /\ x \in i + 1 .. N + 1
      <4>1. N \in Nat \ {0}
        BY Radix
      <4>2. Placed /\ SqrSum
        BY <2>1, ReducedPlaced DEF WideInv, WideSums
      <4>3. i \in 0 .. N - 2
        BY <2>1 DEF WideInv, WideCourse, InRow
      <4>4. x \in i + 1 .. N \/ x \in {N, N + 1}
        BY <2>1 DEF WideInv, WideCourse, InRow
      <4> QED  BY <4>1, <4>2, <4>3, <4>4
    <3>2. last \in i .. N - 1 /\ Used = last + 1 /\ i \in 0 .. N - 1
      BY <3>1 DEF Used
    <3>3. part = SqrPart
      <4> HIDE DEF last
      <4>1. CASE last = i
        <5>1. PICK m \in Int, l \in Int : m = src1[i] * Weight[i] /\ l = Low(src1, i + 1)
          BY <3>1, SqrTyped
        <5>2. m * (l - l) = 0
          <6>1. l - l = 0
            OBVIOUS
          <6> QED  BY <6>1
        <5>3. SqrPart = m * (l - l)
          BY <3>2, <4>1, <5>1 DEF SqrPart
        <5> QED  BY <3>1, <4>1, <5>2, <5>3
      <4>2. CASE last # i
        <5>1. ~(last <= i)
          BY <3>2, <4>2
        <5>2. src1[i] * Weight[i] * Weight[i + 1] * Value(src1, i + 1, last)
                = (src1[i] * Weight[i]) * (Low(src1, last + 1) - Low(src1, i + 1))
          BY <3>1, <3>2, CrossTerm DEF Placed
        <5> QED  BY <3>2, <5>1, <5>2 DEF SqrPart
      <4> QED  BY <4>1, <4>2
    <3> HIDE DEF part
    <3> QED  BY <3>1, <3>3 DEF SqrSum, SqrTotal
  <2>2. pc = "diagonal" =>
          Value(wide, 0, 2 * N - 1) = 2 * CrossRows(src1, N - 1) + Squares(src1, i)
    BY DEF WideInv, WideSums, DiagonalSum
  <2>3. pc = "fold" /\ x = 0 => Value(wide, 0, 2 * N - 1) = Value1 * Value2
    BY DEF WideInv, FoldBegins
  <2> QED  BY <2>1, <2>2, <2>3 DEF SumsExact
<1> QED  BY <1>1, WideInvariance, PTL

(***************************************************************************)
(* The carries the two routines drop are zero: at the end of a row, in the  *)
(* one body of each that has no byte to hand its carry to, and after the    *)
(* last square.                                                             *)
(***************************************************************************)
THEOREM NothingDropped ==
  ASSUME RadixFits, OperandsFit, UnrollFits, SqrFits
  PROVE  WideSpec => []NoCarryLost
<1>1. WideInv => NoCarryLost
  <2> SUFFICES ASSUME WideInv PROVE NoCarryLost
    OBVIOUS
  <2>1. Placed /\ pending \in {0, 1}
    BY ReducedPlaced DEF WideInv, WideTyped
  <2>2. ASSUME pc = "ripple" PROVE pending = 0
    <3>1. RowsSum /\ i \in 0 .. N - 1 /\ x = N
      BY <2>2 DEF WideInv, WideCourse, WideSums
    <3> QED  BY <2>1, <3>1, RowEnd
  <2>3. ASSUME pc = "body", Phantom PROVE CarryOut = 0
    <3>1. RowsSum /\ Inside
      BY <2>3 DEF WideInv, WideCourse, WideSums
    <3> QED  BY <2>1, <2>3, <3>1, BodyEnd
  <2>4. ASSUME pc = "sqr_ripple" PROVE pending = 0
    <3>1. SqrSum /\ i \in 0 .. N - 2 /\ x \in {N, N + 1}
      BY <2>4 DEF WideInv, WideCourse, WideSums
    <3> QED  BY <2>1, <3>1, SqrRowEnd
  <2>5. ASSUME pc = "body_b", NoTarget PROVE Combined = 0
    <3>1. SqrSum /\ InRow
      BY <2>5 DEF WideInv, WideCourse, WideSums
    <3> QED  BY <2>1, <2>5, <3>1, SqrBodyEnd
  <2>6. pc = "fold" /\ x = 0 => pending = 0
    BY DEF WideInv, FoldBegins
  <2> QED  BY <2>2, <2>3, <2>4, <2>5, <2>6 DEF NoCarryLost, NoCarryDropped
<1> QED  BY <1>1, WideInvariance, PTL

(***************************************************************************)
(* fe_reduce_wide folds the product, or the square, three times, and both   *)
(* routines return the representative FieldOps says.                        *)
(***************************************************************************)
THEOREM ReductionsExact ==
  ASSUME RadixFits, OperandsFit, UnrollFits, SqrFits
  PROVE  WideSpec => []FoldsExact
<1>1. WideInv => FoldsExact
  BY DEF WideInv, Reducing
<1> QED  BY <1>1, WideInvariance, PTL

(***************************************************************************)
(* Part 2: fe25519_add, fe25519_sub, fe25519_reduce_final, fe25519_cswap.   *)
(***************************************************************************)

LEMMA NumberIsLow ==
  ASSUME RadixFits, NEW f \in Elements
  PROVE  /\ Number(f) = Low(f, N)
         /\ Number(f) \in Word
<1>1. N \in 0 .. N
  BY Sizes
<1> QED  BY <1>1, LowRange, Sizes DEF Low, Number, Word

(* A byte is stored, in a buffer and in one of the buffers. *)
Stored(g, f, k, v) == g = [f EXCEPT ![k] = v]

StoredAt(gs, fs, d, k, v) == gs = [fs EXCEPT ![d][k] = v]

(* What the loops do to the number, and to its low part. *)
LEMMA Store ==
  ASSUME RadixFits, NEW f \in Elements, NEW k \in Bytes, NEW v \in Byte,
         NEW g, Stored(g, f, k, v)
  PROVE  /\ g \in Elements /\ g[k] = v
         /\ \A n \in Bytes : n # k => g[n] = f[n]
         /\ Number(g) = Number(f) + Weight[k] * (v - f[k])
         /\ Low(g, k + 1) = Low(f, k) + Weight[k] * v
<1>1. g \in Elements /\ g[k] = v /\ \A n \in Bytes : n # k => g[n] = f[n]
  BY DEF Elements, Bytes, Stored
<1>2. Number(g) = Number(f) + Weight[k] * (v - f[k])
  <2>1. /\ N - 1 \in 0 .. 2 * N - 1 /\ k \in 0 .. N - 1 /\ v \in Int
        /\ f \in [0 .. N - 1 -> Int]
    BY Sizes DEF Elements, Byte, Bytes
  <2> QED  BY <2>1, ValueUpdate DEF Number, Stored
<1>3. Low(g, k + 1) = Low(f, k) + Weight[k] * v
  <2>1. k \in 0 .. N /\ \A n \in 0 .. k - 1 : n \in Bytes /\ n # k
    BY Sizes DEF Bytes
  <2>2. Low(g, k) = Low(f, k)
    BY <1>1, <2>1, LowSame
  <2> QED  BY <1>1, <2>2, LowStep
<1> QED  BY <1>1, <1>2, <1>3

(***************************************************************************)
(* One byte through the processor: the carry out makes up for what the byte *)
(* drops.                                                                   *)
(***************************************************************************)
LEMMA CarryOfSum ==
  ASSUME RadixFits, NEW m \in Byte, NEW n \in Byte, NEW c \in {0, 1},
         NEW sum \in Int, sum = m + n + c
  PROVE  /\ sum % B \in Byte /\ sum \div B \in {0, 1}
         /\ sum % B = sum - B * (sum \div B)
<1>1. B \in Nat \ {0} /\ sum \in 0 .. 2 * B - 1
  BY Sizes DEF Byte
<1>2. sum % B \in 0 .. B - 1 /\ sum \div B \in Int /\ sum = B * (sum \div B) + (sum % B)
  BY <1>1, DivMod
<1>3. sum \div B \in {0, 1}
  <2>1. PICK q \in Int, r \in 0 .. B - 1 : q = sum \div B /\ r = sum % B
    BY <1>2
  <2>2. PICK e \in Int : e = B * q
    BY <1>1
  <2>3. sum = e + r
    BY <1>2, <2>1, <2>2
  <2>4. /\ q >= 2 => e >= 2 * B
        /\ q <= -1 => e <= - B
    BY <1>1, <2>2
  <2>5. q < 2 /\ q > -1
    BY <1>1, <2>3, <2>4
  <2> QED  BY <2>1, <2>5
<1> QED  BY <1>1, <1>2, <1>3 DEF Byte

LEMMA BorrowOut ==
  ASSUME RadixFits, NEW m \in Byte, NEW n \in Byte, NEW c \in {0, 1},
         NEW diff \in Int, diff = m - n - (1 - c)
  PROVE  /\ diff % B \in Byte
         /\ diff % B = diff + B * (1 - IF diff >= 0 THEN 1 ELSE 0)
<1>1. B \in Nat \ {0} /\ diff \in - B .. B - 1
  BY Sizes DEF Byte
<1>2. CASE diff >= 0
  <2>1. diff \in 0 .. B - 1
    BY <1>1, <1>2
  <2> QED  BY <1>1, <1>2, <2>1, ModSmall DEF Byte
<1>3. CASE diff < 0
  <2>1. diff + B \in 0 .. B - 1
    BY <1>1, <1>3
  <2>2. diff % B = diff + B
    <3>1. PICK r \in 0 .. B - 1, q \in Int : r = diff + B /\ q = -1
      BY <2>1
    <3>2. (B * q + r) % B = r
      BY <1>1, DivModUnique
    <3>3. B * q + r = diff
      BY <1>1, <3>1
    <3> QED  BY <3>1, <3>2, <3>3
  <2> QED  BY <1>1, <1>3, <2>1, <2>2 DEF Byte
<1> QED  BY <1>1, <1>2, <1>3

(***************************************************************************)
(* The bytes of P, and of P under the mask.                                 *)
(***************************************************************************)
PBytes == [k \in Bytes |-> PByte(k)]

PLow(k) == Low(PBytes, k)

MaskedLow(k) == IF mask = 0 THEN 0 ELSE PLow(k)

LEMMA PBytesRight ==
  ASSUME RadixFits
  PROVE  /\ PBytes \in Elements
         /\ \A k \in Bytes : PByte(k) \in Byte
         /\ PLow(0) = 0 /\ PLow(N) = P
         /\ \A k \in 0 .. N : PLow(k) \in 0 .. Weight[k] - 1
         /\ \A k \in Bytes : PLow(k + 1) = PLow(k) + Weight[k] * PByte(k)
<1>1. ASSUME NEW k \in Bytes PROVE PByte(k) \in Byte
  <2>1. B \in Nat \ {0} /\ Weight[k] \in Nat \ {0} /\ P \in Int
    BY Sizes, Constants
  <2>2. P \div Weight[k] \in Int
    BY <2>1, DivMod
  <2> QED  BY <2>1, <2>2, DivMod DEF PByte, Byte
<1>2. PBytes \in Elements
  BY <1>1 DEF PBytes, Elements, Bytes
<1>3. PLow(N) = P
  <2>1. P \in 0 .. R - 1
    BY Constants
  <2>2. \A k \in 0 .. N - 1 : PBytes[k] = (P \div Weight[k]) % B
    BY DEF PBytes, PByte, Bytes
  <2> QED  BY <2>1, <2>2, ValueOfDigits DEF PLow, Low
<1>4. ASSUME NEW k \in Bytes PROVE PLow(k + 1) = PLow(k) + Weight[k] * PByte(k)
  <2>1. PBytes[k] = PByte(k)
    BY DEF PBytes
  <2> QED  BY <1>2, <2>1, LowStep DEF PLow
<1>5. ASSUME NEW k \in 0 .. N PROVE PLow(k) \in 0 .. Weight[k] - 1
  BY <1>2, LowRange DEF PLow
<1> QED  BY <1>1, <1>2, <1>3, <1>4, <1>5, LowEmpty DEF PLow

LEMMA MaskedLowRight ==
  ASSUME RadixFits
  PROVE  /\ MaskedLow(0) = 0
         /\ MaskedLow(N) = IF mask = 0 THEN 0 ELSE P
         /\ \A k \in Bytes : /\ Masked(PByte(k)) \in Byte /\ MaskedLow(k) \in Int
                             /\ MaskedLow(k + 1) = MaskedLow(k) + Weight[k] * Masked(PByte(k))
<1>1. MaskedLow(0) = 0 /\ MaskedLow(N) = IF mask = 0 THEN 0 ELSE P
  BY PBytesRight DEF MaskedLow
<1>2. ASSUME NEW k \in Bytes
      PROVE  /\ Masked(PByte(k)) \in Byte /\ MaskedLow(k) \in Int
             /\ MaskedLow(k + 1) = MaskedLow(k) + Weight[k] * Masked(PByte(k))
  <2>1. k \in 0 .. N /\ Weight[k] \in Nat \ {0} /\ 0 \in Byte
    BY Sizes DEF Bytes, Byte
  <2>2. PLow(k) \in Int /\ PByte(k) \in Byte /\ PLow(k + 1) = PLow(k) + Weight[k] * PByte(k)
    BY <2>1, PBytesRight, Sizes
  <2>3. CASE mask = 0
    BY <2>1, <2>2, <2>3 DEF Masked, MaskedLow
  <2>4. CASE mask # 0
    BY <2>1, <2>2, <2>4 DEF Masked, MaskedLow
  <2> QED  BY <2>3, <2>4
<1> QED  BY <1>1, <1>2

(* A byte of one of the buffers. *)
LEMMA StoreAt ==
  ASSUME RadixFits, NEW fs \in [Buffers -> Elements], NEW d \in Buffers,
         NEW k \in Bytes, NEW v \in Byte, NEW gs, StoredAt(gs, fs, d, k, v)
  PROVE  /\ gs \in [Buffers -> Elements]
         /\ \A b \in Buffers : b # d => gs[b] = fs[b]
         /\ \A n \in Bytes : n # k => gs[d][n] = fs[d][n]
         /\ Number(gs[d]) = Number(fs[d]) + Weight[k] * (v - fs[d][k])
         /\ Low(gs[d], k + 1) = Low(fs[d], k) + Weight[k] * v
<1>1. PICK f \in Elements : f = fs[d]
  OBVIOUS
<1>2. PICK g : Stored(g, f, k, v)
  BY DEF Stored
<1>3. /\ g \in Elements /\ \A n \in Bytes : n # k => g[n] = f[n]
      /\ Number(g) = Number(f) + Weight[k] * (v - f[k])
      /\ Low(g, k + 1) = Low(f, k) + Weight[k] * v
  BY <1>2, Store
<1>4. gs = [fs EXCEPT ![d] = g]
  BY <1>1, <1>2 DEF Stored, StoredAt
<1>5. gs \in [Buffers -> Elements] /\ gs[d] = g /\ \A b \in Buffers : b # d => gs[b] = fs[b]
  BY <1>3, <1>4
<1> QED  BY <1>1, <1>3, <1>5

(* What a byte drops counts as much as the carry it hands on. *)
LEMMA CarryWeight ==
  ASSUME NEW t \in Int, NEW q \in Int, NEW m \in Int, NEW n \in Int, NEW c \in Int,
         NEW d \in Int
  PROVE  t * (m + n + c - q * d) + d * (q * t) = t * m + t * n + c * t
<1>1. PICK e \in Int : e = q * d
  OBVIOUS
<1>2. t * (m + n + c - e) = t * m + t * n + t * c - t * e
  OBVIOUS
<1>3. t * (q * d) = d * (q * t)
  OBVIOUS
<1> QED  BY <1>1, <1>2, <1>3

(* The higher byte decides a comparison, and the lower ones where it is equal. *)
LEMMA CompareHigher ==
  ASSUME NEW t \in Nat \ {0}, NEW u \in 0 .. t - 1, NEW v \in 0 .. t - 1,
         NEW m \in Int, NEW n \in Int
  PROVE  (u + t * m >= v + t * n) <=> (m > n \/ (m = n /\ u >= v))
<1>1. CASE m > n
  <2>1. PICK d \in Nat : m = n + 1 + d
    BY <1>1
  <2>2. t * (n + 1 + d) = t * n + t + t * d /\ t * d >= 0 /\ t * n \in Int
    BY <2>1
  <2> QED  BY <1>1, <2>1, <2>2
<1>2. CASE m = n
  BY <1>2
<1>3. CASE m < n
  <2>1. PICK d \in Nat : n = m + 1 + d
    BY <1>3
  <2>2. t * (m + 1 + d) = t * m + t + t * d /\ t * d >= 0 /\ t * m \in Int
    BY <2>1
  <2> QED  BY <1>3, <2>1, <2>2
<1> QED  BY <1>1, <1>2, <1>3

(* And a byte borrowed. *)
LEMMA BorrowWeight ==
  ASSUME NEW t \in Int, NEW q \in Int, NEW m \in Int, NEW n \in Int, NEW c \in Int,
         NEW d \in Int
  PROVE  t * ((m - n - (1 - c)) + q * (1 - d))
           = t * m - t * n - (1 - c) * t + (1 - d) * (q * t)
<1>1. PICK e \in Int : e = q * (1 - d)
  OBVIOUS
<1>2. t * ((m - n - (1 - c)) + e) = t * m - t * n - (1 - c) * t + t * e
  OBVIOUS
<1>3. t * (q * (1 - d)) = (1 - d) * (q * t)
  OBVIOUS
<1> QED  BY <1>1, <1>2, <1>3

(***************************************************************************)
(* The inductive invariant.                                                 *)
(***************************************************************************)
First  == Number(old[src1])
Second == Number(old[src2])

MaskedCourse ==
  /\ pc = "add" => op = "add"
  /\ pc \in {"compare", "sub_p"} => op \in {"add", "reduce_final"}
  /\ pc \in {"subtract", "add_p"} => op = "sub"
  /\ pc = "swap" => op = "cswap"
  /\ op = "reduce_final" => dst = src1
  /\ round = 2 => op = "reduce_final"

\* The destination alone is written, from its lowest byte upwards.
Untouched ==
  /\ op # "cswap" => \A b \in Buffers : b # dst => buf[b] = old[b]
  /\ pc \in {"add", "subtract"} => \A k \in Bytes : k >= y => buf[dst][k] = old[dst][k]

\* The low bytes are those of the sum, and the carry what they do not hold.
Adding ==
  pc = "add" =>
    Low(buf[dst], y) + carry * Weight[y] = Low(old[src1], y) + Low(old[src2], y)

\* What P is compared with, and taken off.
Minuend ==
  IF op = "add" THEN (First + Second) % R
  ELSE IF round = 1 THEN First ELSE SubPIfGe(First)

Comparing ==
  pc = "compare" =>
    /\ Number(buf[dst]) = Minuend
    /\ (carry = 1) <=> (Low(buf[dst], y) >= PLow(y))
    /\ op = "add" => ((addMask # 0) <=> (First + Second >= R))

SubtractingP ==
  pc = "sub_p" =>
    /\ y = 0 => carry = 1
    /\ (mask # 0) <=> ((op = "add" /\ First + Second >= R) \/ Minuend >= P)
    /\ Number(buf[dst]) = Minuend - MaskedLow(y) + (1 - carry) * Weight[y]

Subtracting ==
  pc = "subtract" =>
    Low(buf[dst], y) = Low(old[src1], y) - Low(old[src2], y) + (1 - carry) * Weight[y]

AddingP ==
  pc = "add_p" =>
    /\ (mask # 0) <=> (First < Second)
    /\ Number(buf[dst]) + carry * Weight[y] = ((First - Second) % R) + MaskedLow(y)

Exchange == [old EXCEPT ![src1] = old[src2], ![src2] = old[src1]]

\* The highest bytes are exchanged first.
Swapping ==
  pc = "swap" =>
    IF mask = 0 THEN buf = old
    ELSE \A b \in Buffers, k \in Bytes :
           buf[b][k] = IF k >= N - y THEN Exchange[b][k] ELSE old[b][k]

MaskedInv ==
  /\ MaskedTypeOK /\ MaskedCourse /\ Untouched
  /\ Adding /\ Comparing /\ SubtractingP /\ Subtracting /\ AddingP /\ Swapping
  /\ OperationExact

(* It holds initially. *)
LEMMA InitMasked ==
  ASSUME RadixFits PROVE MaskedInit => MaskedInv
<1> SUFFICES ASSUME MaskedInit  PROVE MaskedInv
  OBVIOUS
<1>1. Zeros \in Elements
  BY Sizes DEF Zeros, Elements, Byte
<1>2. MaskedTypeOK
  <2>1. 0 \in 0 .. N /\ 0 \in Masks
    BY Sizes DEF Masks
  <2> QED  BY <1>1, <2>1 DEF MaskedInit, MaskedTypeOK
<1>3. pc = "idle" /\ op = "add" /\ round = 1 /\ buf = old
  BY DEF MaskedInit
<1> QED
  BY <1>2, <1>3 DEF MaskedInv, MaskedCourse, Untouched, Adding, Comparing, SubtractingP, Subtracting,
     AddingP, Swapping, OperationExact

(***************************************************************************)
(* Calls.                                                                   *)
(***************************************************************************)
LEMMA Entered ==
  ASSUME RadixFits, OperandsFit, MaskedInv,
         NEW r \in {"add", "sub", "reduce_final", "cswap"},
         NEW l \in {"add", "compare", "subtract", "swap"},
         NEW c \in {0, 1}, Enter(r, l, c), mask' \in Masks
  PROVE  /\ MaskedTypeOK' /\ pc' = l /\ op' = r /\ old' = buf' /\ y' = 0 /\ carry' = c /\ round' = 1
<1>1. Zeros \in Elements /\ 0 \in 0 .. N
  BY Sizes DEF Zeros, Elements, Byte
<1>2. \A v \in Operands : v \in Elements
  BY DEF OperandsFit
<1>3. buf' \in [Buffers -> Elements]
  <2>1. PICK v \in Operands, w \in Operands :
           buf' = [b \in Buffers |-> IF b = src1' THEN v ELSE IF b = src2' THEN w ELSE Zeros]
    BY DEF Enter
  <2> QED  BY <1>1, <1>2, <2>1
<1> QED  BY <1>1, <1>3 DEF Enter, MaskedInv, MaskedTypeOK

LEMMA MaskedCallKeeps ==
  ASSUME RadixFits, OperandsFit, MaskedInv, MaskedCall
  PROVE  MaskedInv'
<1> USE DEF MaskedCourse, Untouched, Adding, Comparing, SubtractingP, Subtracting, AddingP, Swapping,
            OperationExact
<1>0. mask \in Masks
  BY DEF MaskedInv, MaskedTypeOK
<1>1. CASE CallAdd
  <2>1. /\ MaskedTypeOK' /\ pc' = "add" /\ op' = "add" /\ old' = buf' /\ y' = 0 /\ carry' = 0
        /\ round' = 1
    BY <1>0, <1>1, Entered DEF CallAdd
  <2>2. Adding'
    BY <2>1, LowEmpty, Sizes
  <2> QED  BY <2>1, <2>2 DEF MaskedInv
<1>2. CASE CallSub
  <2>1. /\ MaskedTypeOK' /\ pc' = "subtract" /\ op' = "sub" /\ old' = buf' /\ y' = 0 /\ carry' = 1
        /\ round' = 1
    BY <1>0, <1>2, Entered DEF CallSub
  <2>2. Subtracting'
    BY <2>1, LowEmpty, Sizes
  <2> QED  BY <2>1, <2>2 DEF MaskedInv
<1>3. CASE CallReduceFinal
  <2>1. /\ MaskedTypeOK' /\ pc' = "compare" /\ op' = "reduce_final" /\ old' = buf' /\ y' = 0
        /\ carry' = 1 /\ round' = 1
    BY <1>0, <1>3, Entered DEF CallReduceFinal
  <2>2. dst' = src1'
    BY <1>3 DEF CallReduceFinal
  <2>3. Comparing'
    <3>1. Number(buf'[dst']) = Minuend'
      BY <2>1, <2>2 DEF Minuend, First
    <3> QED  BY <2>1, <3>1, LowEmpty DEF PLow
  <2> QED  BY <2>1, <2>2, <2>3 DEF MaskedInv
<1>4. CASE CallCSwap
  <2>1. /\ MaskedTypeOK' /\ pc' = "swap" /\ op' = "cswap" /\ old' = buf' /\ y' = 0 /\ carry' = 0
        /\ round' = 1
    BY <1>4, Entered DEF CallCSwap
  <2>2. Swapping'
    <3>1. \A k \in Bytes : ~(k >= N - 0)
      BY Sizes DEF Bytes
    <3> QED  BY <2>1, <3>1
  <2> QED  BY <2>1, <2>2 DEF MaskedInv
<1> QED  BY <1>1, <1>2, <1>3, <1>4 DEF MaskedCall

LEMMA MaskedReturnKeeps ==
  ASSUME RadixFits, MaskedInv, MaskedReturn
  PROVE  MaskedInv'
<1>1. Zeros \in Elements /\ 0 \in 0 .. N
  BY Sizes DEF Zeros, Elements, Byte
<1>2. MaskedTypeOK'
  BY <1>1 DEF MaskedInv, MaskedTypeOK, MaskedReturn
<1> QED
  BY <1>2 DEF MaskedReturn, MaskedInv, MaskedCourse, Untouched, Adding, Comparing, SubtractingP, Subtracting,
     AddingP, Swapping, OperationExact

(***************************************************************************)
(* fe25519_add.                                                             *)
(***************************************************************************)
LEMMA AddByteKeeps ==
  ASSUME RadixFits, MaskedInv, AddByte
  PROVE  MaskedInv'
<1>1. /\ pc = "add" /\ op = "add" /\ pc' = "add" /\ op' = "add"
      /\ y \in Bytes /\ y' = y + 1 /\ y + 1 \in 0 .. N /\ y \in 0 .. N
      /\ src1' = src1 /\ src2' = src2 /\ dst' = dst /\ old' = old
      /\ mask' = mask /\ addMask' = addMask /\ round' = round
  BY Sizes DEF AddByte, InLoop, MaskedInv, MaskedCourse, MaskedTypeOK, Bytes
<1>2. /\ buf \in [Buffers -> Elements] /\ old \in [Buffers -> Elements]
      /\ src1 \in Buffers /\ src2 \in Buffers /\ dst \in Buffers /\ carry \in {0, 1}
  BY DEF MaskedInv, MaskedTypeOK
<1>3. /\ buf[src1][y] = old[src1][y] /\ buf[src2][y] = old[src2][y]
      /\ \A b \in Buffers : b # dst => buf[b] = old[b]
      /\ \A k \in Bytes : k >= y => buf[dst][k] = old[dst][k]
  BY <1>1, <1>2, Sizes DEF MaskedInv, Untouched, Bytes
<1>4. PICK m \in Byte, n \in Byte, c \in {0, 1} :
         m = buf[src1][y] /\ n = buf[src2][y] /\ c = carry
  BY <1>1, <1>2 DEF Elements, Bytes
<1>5. PICK sum \in Int, v \in Byte, d \in {0, 1} :
         /\ sum = m + n + c /\ v = sum - B * d
         /\ v = sum % B /\ d = sum \div B
  <2>1. PICK sum \in Int : sum = m + n + c
    BY Sizes DEF Byte
  <2>2. /\ sum % B \in Byte /\ sum \div B \in {0, 1}
        /\ sum % B = sum - B * (sum \div B)
    BY <2>1, CarryOfSum
  <2> QED  BY <2>1, <2>2
<1>6. buf' = [buf EXCEPT ![dst][y] = v] /\ carry' = d
  BY <1>4, <1>5 DEF AddByte, StoreSum, Adc
<1>7. /\ buf' \in [Buffers -> Elements]
      /\ \A b \in Buffers : b # dst => buf'[b] = buf[b]
      /\ \A k \in Bytes : k # y => buf'[dst][k] = buf[dst][k]
      /\ Low(buf'[dst], y + 1) = Low(buf[dst], y) + Weight[y] * v
  <2>1. StoredAt(buf', buf, dst, y, v)
    BY <1>6 DEF StoredAt
  <2> QED  BY <1>1, <1>2, <2>1, StoreAt
<1>8. MaskedTypeOK'
  BY <1>1, <1>6, <1>7 DEF MaskedInv, MaskedTypeOK
<1>9. Untouched'
  BY <1>1, <1>3, <1>7, Sizes DEF Untouched, Bytes
<1>10. Adding'
  <2>1. PICK t \in Nat \ {0} : t = Weight[y] /\ Weight[y + 1] = B * t
    BY <1>1, Sizes
  <2>2. /\ Low(buf[dst], y) \in Int /\ Low(old[src1], y) \in Int /\ Low(old[src2], y) \in Int
    BY <1>1, <1>2, LowRange
  <2>3. PICK l \in Int, l1 \in Int, l2 \in Int :
           l = Low(buf[dst], y) /\ l1 = Low(old[src1], y) /\ l2 = Low(old[src2], y)
    BY <2>2
  <2>4. l + c * t = l1 + l2
    BY <1>1, <1>4, <2>1, <2>3 DEF MaskedInv, Adding
  <2>5. /\ Low(old[src1], y + 1) = l1 + t * m /\ Low(old[src2], y + 1) = l2 + t * n
    BY <1>1, <1>2, <1>3, <1>4, <2>1, <2>3, LowStep
  <2>6. Low(buf'[dst], y + 1) = l + t * v
    BY <1>7, <2>1, <2>3
  <2>7. (l + t * v) + d * (B * t) = (l1 + t * m) + (l2 + t * n)
    <3>1. m \in Int /\ n \in Int /\ B \in Int /\ c \in Int /\ d \in Int /\ t \in Int
      BY Sizes DEF Byte
    <3>2. t * v + d * (B * t) = t * m + t * n + c * t
      <4>1. t * (m + n + c - B * d) + d * (B * t) = t * m + t * n + c * t
        BY <3>1, CarryWeight
      <4>2. v = m + n + c - B * d
        BY <1>5, <3>1
      <4> QED  BY <4>1, <4>2
    <3>3. /\ t * v \in Int /\ d * (B * t) \in Int
          /\ t * m \in Int /\ t * n \in Int /\ c * t \in Int
      BY <1>5, <3>1
    <3> QED  BY <2>4, <3>2, <3>3
  <2> QED  BY <1>1, <1>6, <2>1, <2>5, <2>6, <2>7 DEF Adding
<1> QED
  BY <1>1, <1>8, <1>9, <1>10 DEF MaskedInv, MaskedCourse, Comparing, SubtractingP, Subtracting, AddingP,
     Swapping, OperationExact

LEMMA AddEndKeeps ==
  ASSUME RadixFits, MaskedInv, AddEnd
  PROVE  MaskedInv'
<1>1. /\ pc = "add" /\ op = "add" /\ pc' = "compare" /\ op' = "add" /\ y = N /\ y' = 0
      /\ src1' = src1 /\ src2' = src2 /\ dst' = dst /\ old' = old /\ buf' = buf
      /\ mask' = mask /\ addMask' = MaskIfSet(carry) /\ carry' = 1 /\ round' = round
  BY DEF AddEnd, EndOf, MaskedInv, MaskedCourse
<1>2. /\ buf[dst] \in Elements /\ old[src1] \in Elements /\ old[src2] \in Elements
  BY DEF MaskedInv, MaskedTypeOK
<1>3. PICK c \in {0, 1}, s \in Word, a \in Word, b \in Word :
         c = carry /\ s = Number(buf[dst]) /\ a = First /\ b = Second
  BY <1>2, NumberIsLow DEF MaskedInv, MaskedTypeOK, First, Second
<1>4. R * c + s = a + b /\ R \in Nat \ {0}
  <2>1. Low(buf[dst], N) + carry * R = Low(old[src1], N) + Low(old[src2], N)
    BY <1>1, Sizes DEF MaskedInv, Adding
  <2>2. s + c * R = a + b
    BY <1>2, <1>3, <2>1, NumberIsLow DEF First, Second
  <2> QED  BY <1>3, <2>2, Sizes DEF Word
<1>5. s = (a + b) % R /\ (c = 1 <=> a + b >= R)
  <2>1. (R * c + s) % R = s
    BY <1>4, DivModUnique DEF Word
  <2> QED  BY <1>4, <2>1 DEF Word
<1>6. 0 \in 0 .. N /\ MaskIfSet(carry) \in Masks /\ (MaskIfSet(carry) # 0 <=> carry = 1)
  BY Sizes DEF MaskIfSet, Masks
<1>7. MaskedTypeOK'
  BY <1>1, <1>6 DEF MaskedInv, MaskedTypeOK
<1>8. Comparing'
  <2>1. Minuend' = (a + b) % R /\ First' = a /\ Second' = b
    BY <1>1, <1>3 DEF Minuend, First, Second
  <2>2. Number(buf'[dst']) = Minuend'
    BY <1>1, <1>3, <1>5, <2>1
  <2>3. addMask' # 0 <=> First' + Second' >= R
    BY <1>1, <1>3, <1>5, <1>6, <2>1
  <2>4. Low(buf'[dst'], 0) = 0 /\ PLow(0) = 0
    BY LowEmpty DEF PLow
  <2> QED  BY <1>1, <2>2, <2>3, <2>4 DEF Comparing
<1>9. Untouched'
  BY <1>1 DEF MaskedInv, Untouched
<1> QED
  BY <1>1, <1>7, <1>8, <1>9 DEF MaskedInv, MaskedCourse, Adding, SubtractingP, Subtracting, AddingP,
     Swapping, OperationExact

(***************************************************************************)
(* fe_cmp_p_ct and the masked subtraction of P.                             *)
(***************************************************************************)
LEMMA CompareByteKeeps ==
  ASSUME RadixFits, MaskedInv, CompareByte
  PROVE  MaskedInv'
<1>1. /\ pc = "compare" /\ pc' = "compare" /\ op' = op
      /\ y \in Bytes /\ y' = y + 1 /\ y + 1 \in 0 .. N /\ y \in 0 .. N
      /\ src1' = src1 /\ src2' = src2 /\ dst' = dst /\ old' = old /\ buf' = buf
      /\ mask' = mask /\ addMask' = addMask /\ round' = round
  BY Sizes DEF CompareByte, InLoop, MaskedInv, MaskedTypeOK, Bytes
<1>2. buf[dst] \in Elements /\ carry \in {0, 1}
  BY DEF MaskedInv, MaskedTypeOK
<1>3. PICK m \in Byte, n \in Byte, c \in {0, 1} :
         m = buf[dst][y] /\ n = PByte(y) /\ c = carry
  BY <1>1, <1>2, PBytesRight DEF Elements, Bytes
<1>4. carry' \in {0, 1} /\ (carry' = 1 <=> m - n - (1 - c) >= 0)
  BY <1>3 DEF CompareByte, Sbc
<1>5. MaskedTypeOK'
  BY <1>1, <1>4 DEF MaskedInv, MaskedTypeOK
<1>6. Comparing'
  <2>1. PICK t \in Nat \ {0} : t = Weight[y]
    BY <1>1, Sizes
  <2>2. /\ Low(buf[dst], y) \in 0 .. t - 1 /\ PLow(y) \in 0 .. t - 1
    BY <1>1, <1>2, <2>1, LowRange, PBytesRight
  <2>3. PICK u \in 0 .. t - 1, v \in 0 .. t - 1 : u = Low(buf[dst], y) /\ v = PLow(y)
    BY <2>2
  <2>4. c = 1 <=> u >= v
    BY <1>1, <1>3, <2>3 DEF MaskedInv, Comparing
  <2>5. Low(buf[dst], y + 1) = u + t * m /\ PLow(y + 1) = v + t * n
    BY <1>1, <1>2, <1>3, <2>1, <2>3, LowStep, PBytesRight
  <2>6. m \in Int /\ n \in Int
    BY Sizes DEF Byte
  <2>7. (u + t * m >= v + t * n) <=> (m > n \/ (m = n /\ u >= v))
    BY <2>6, CompareHigher
  <2>8. (m - n - (1 - c) >= 0) <=> (m > n \/ (m = n /\ u >= v))
    BY <2>4, <2>6
  <2>9. carry' = 1 <=> Low(buf'[dst'], y') >= PLow(y')
    BY <1>1, <1>4, <2>5, <2>7, <2>8
  <2>10. Minuend' = Minuend /\ First' = First /\ Second' = Second
    BY <1>1 DEF Minuend, First, Second
  <2> QED  BY <1>1, <2>9, <2>10 DEF MaskedInv, Comparing
<1>7. Untouched' /\ MaskedCourse'
  BY <1>1 DEF MaskedInv, Untouched, MaskedCourse
<1> QED
  BY <1>1, <1>5, <1>6, <1>7 DEF MaskedInv, Adding, SubtractingP, Subtracting, AddingP, Swapping,
     OperationExact

LEMMA CompareEndKeeps ==
  ASSUME RadixFits, MaskedInv, CompareEnd
  PROVE  MaskedInv'
<1>1. /\ pc = "compare" /\ pc' = "sub_p" /\ op' = op /\ y = N /\ y' = 0
      /\ src1' = src1 /\ src2' = src2 /\ dst' = dst /\ old' = old /\ buf' = buf
      /\ mask' = WithAddMask(MaskIfSet(carry)) /\ addMask' = addMask /\ carry' = 1
      /\ round' = round
  BY DEF CompareEnd, EndOf
<1>2. buf[dst] \in Elements /\ carry \in {0, 1}
  BY DEF MaskedInv, MaskedTypeOK
<1>3. /\ Number(buf[dst]) = Minuend /\ Minuend \in Int
      /\ carry = 1 <=> Minuend >= P
      /\ op = "add" => (addMask # 0 <=> First + Second >= R)
  BY <1>1, <1>2, NumberIsLow, PBytesRight DEF MaskedInv, Comparing, Word
<1>4. /\ 0 \in 0 .. N /\ mask' \in Masks
      /\ mask' # 0 <=> ((op = "add" /\ addMask # 0) \/ carry = 1)
  BY <1>1, Sizes DEF WithAddMask, MaskIfSet, Masks
<1>5. MaskedTypeOK'
  BY <1>1, <1>4 DEF MaskedInv, MaskedTypeOK
<1>6. Minuend' = Minuend /\ First' = First /\ Second' = Second
  BY <1>1 DEF Minuend, First, Second
<1>7. SubtractingP'
  <2>1. MaskedLow(0)' = 0
    BY LowEmpty DEF MaskedLow, PLow
  <2>2. Number(buf'[dst']) = Minuend' - MaskedLow(y)' + (1 - carry') * Weight[y']
    <3>1. MaskedLow(y)' = 0
      BY <1>1, <2>1 DEF MaskedLow
    <3> QED  BY <1>1, <1>3, <1>6, <3>1, Sizes
  <2>3. (mask' # 0) <=> ((op' = "add" /\ First' + Second' >= R) \/ Minuend' >= P)
    BY <1>1, <1>3, <1>4, <1>6
  <2> QED  BY <1>1, <2>2, <2>3 DEF SubtractingP
<1>8. Untouched' /\ MaskedCourse'
  BY <1>1 DEF MaskedInv, Untouched, MaskedCourse
<1> QED
  BY <1>1, <1>5, <1>7, <1>8 DEF MaskedInv, Adding, Comparing, Subtracting, AddingP, Swapping,
     OperationExact

LEMMA SubPByteKeeps ==
  ASSUME RadixFits, MaskedInv, SubPByte
  PROVE  MaskedInv'
<1>1. /\ pc = "sub_p" /\ pc' = "sub_p" /\ op' = op /\ op # "cswap"
      /\ y \in Bytes /\ y' = y + 1 /\ y + 1 \in 0 .. N /\ y \in 0 .. N /\ y + 1 # 0
      /\ src1' = src1 /\ src2' = src2 /\ dst' = dst /\ old' = old
      /\ mask' = mask /\ addMask' = addMask /\ round' = round
  BY Sizes DEF SubPByte, InLoop, MaskedInv, MaskedCourse, MaskedTypeOK, Bytes
<1>2. buf \in [Buffers -> Elements] /\ dst \in Buffers /\ carry \in {0, 1}
  BY DEF MaskedInv, MaskedTypeOK
<1>3. PICK m \in Byte, n \in Byte, c \in {0, 1} :
         m = buf[dst][y] /\ n = Masked(PByte(y)) /\ c = carry
  BY <1>1, <1>2, MaskedLowRight DEF Elements, Bytes
<1>4. PICK diff \in Int, v \in Byte, d \in {0, 1} :
         /\ diff = m - n - (1 - c) /\ v = diff + B * (1 - d)
         /\ v = diff % B /\ d = IF diff >= 0 THEN 1 ELSE 0
  <2>1. PICK diff \in Int : diff = m - n - (1 - c)
    BY Sizes DEF Byte
  <2>2. /\ diff % B \in Byte
        /\ diff % B = diff + B * (1 - IF diff >= 0 THEN 1 ELSE 0)
    BY <2>1, BorrowOut
  <2> QED  BY <2>1, <2>2
<1>5. buf' = [buf EXCEPT ![dst][y] = v] /\ carry' = d
  BY <1>3, <1>4 DEF SubPByte, StoreDifference, Sbc
<1>6. /\ buf' \in [Buffers -> Elements]
      /\ \A b \in Buffers : b # dst => buf'[b] = buf[b]
      /\ Number(buf'[dst]) = Number(buf[dst]) + Weight[y] * (v - buf[dst][y])
  <2>1. StoredAt(buf', buf, dst, y, v)
    BY <1>5 DEF StoredAt
  <2> QED  BY <1>1, <1>2, <2>1, StoreAt
<1>7. MaskedTypeOK'
  BY <1>1, <1>5, <1>6 DEF MaskedInv, MaskedTypeOK
<1>8. Untouched' /\ MaskedCourse'
  BY <1>1, <1>6 DEF MaskedInv, Untouched, MaskedCourse, MaskedTypeOK
<1>9. Minuend' = Minuend /\ First' = First /\ Second' = Second
  BY <1>1 DEF Minuend, First, Second
<1>10. SubtractingP'
  <2>1. PICK t \in Nat \ {0} : t = Weight[y] /\ Weight[y + 1] = B * t
    BY <1>1, Sizes
  <2>2. /\ Number(buf[dst]) \in Int /\ MaskedLow(y) \in Int
        /\ Number(buf[dst]) = Minuend - MaskedLow(y) + (1 - c) * t
        /\ MaskedLow(y + 1) = MaskedLow(y) + t * n
    BY <1>1, <1>2, <1>3, <2>1, NumberIsLow, MaskedLowRight DEF MaskedInv, SubtractingP, Word
  <2>3. Minuend \in Int
    <3>1. First \in Int /\ Second \in Int /\ R \in Nat \ {0} /\ P \in Int
      BY NumberIsLow, Sizes, Constants DEF First, Second, MaskedInv, MaskedTypeOK, Word
    <3>2. (First + Second) % R \in Int
      BY <3>1, DivMod
    <3> QED  BY <3>1, <3>2 DEF Minuend, SubPIfGe
  <2>4. PICK s \in Int, l \in Int, z \in Int :
           s = Minuend /\ l = MaskedLow(y) /\ z = Number(buf[dst])
    BY <2>2, <2>3
  <2>5. m \in Int /\ n \in Int /\ v \in Int /\ B \in Int
    BY Sizes DEF Byte
  <2>6. t * v = t * m - t * n - (1 - c) * t + (1 - d) * (B * t)
    <3>1. t * ((m - n - (1 - c)) + B * (1 - d))
            = t * m - t * n - (1 - c) * t + (1 - d) * (B * t)
      BY <2>5, BorrowWeight
    <3>2. v = (m - n - (1 - c)) + B * (1 - d)
      BY <1>4, <2>5
    <3> QED  BY <3>1, <3>2
  <2>7. t * (v - m) = t * v - t * m
    BY <2>5
  <2>8. z + t * (v - m) = s - (l + t * n) + (1 - d) * (B * t)
    <3>1. z = s - l + (1 - c) * t
      BY <2>2, <2>4
    <3>2. /\ t * v \in Int /\ t * m \in Int /\ t * n \in Int /\ (1 - c) * t \in Int
          /\ (1 - d) * (B * t) \in Int
      BY <2>5
    <3> QED  BY <2>6, <2>7, <3>1, <3>2
  <2>9. Number(buf'[dst]) = z + t * (v - m)
    BY <1>3, <1>6, <2>1, <2>4
  <2>10. MaskedLow(y + 1) = l + t * n
    BY <2>2, <2>4
  <2>11. MaskedLow(y)' = MaskedLow(y + 1)
    BY <1>1 DEF MaskedLow
  <2>12. Number(buf'[dst']) = Minuend' - MaskedLow(y)' + (1 - carry') * Weight[y']
    BY <1>1, <1>5, <1>9, <2>1, <2>4, <2>8, <2>9, <2>10, <2>11
  <2>13. (mask # 0) <=> ((op = "add" /\ First + Second >= R) \/ Minuend >= P)
    BY <1>1 DEF MaskedInv, SubtractingP
  <2> QED  BY <1>1, <1>9, <2>12, <2>13 DEF SubtractingP
<1> QED
  BY <1>1, <1>7, <1>8, <1>10 DEF MaskedInv, Adding, Comparing, Subtracting, AddingP, Swapping,
     OperationExact

(* Numbers of the call are numbers of as many bytes. *)
LEMMA OperandsInWord ==
  ASSUME RadixFits, MaskedTypeOK
  PROVE  First \in Word /\ Second \in Word /\ Minuend \in Word
<1>1. First \in Word /\ Second \in Word
  BY NumberIsLow DEF First, Second, MaskedTypeOK
<1>2. R \in Nat \ {0} /\ P \in Nat \ {0} /\ First \in Int /\ Second \in Int
  BY <1>1, Sizes, Constants DEF Word
<1>3. (First + Second) % R \in Word
  BY <1>2, DivMod DEF Word
<1>4. SubPIfGe(First) \in Word
  BY <1>1, <1>2 DEF SubPIfGe, Word
<1> QED  BY <1>1, <1>3, <1>4 DEF Minuend

(* A number of N bytes that is v up to the carry out of byte N - 1. *)
LEMMA ModuloR ==
  ASSUME RadixFits, NEW z \in Word, NEW v \in Int, NEW q \in Int, z = v + q * R
  PROVE  v % R = z /\ (v \in Word => z = v)
<1>1. R \in Nat \ {0} /\ z \in 0 .. R - 1 /\ -q \in Int
  BY Sizes DEF Word
<1>2. (R * (-q) + z) % R = z
  BY <1>1, DivModUnique
<1>3. R * (-q) + z = v
  BY <1>1
<1>4. v \in Word => v % R = v
  BY <1>1, ModSmall DEF Word
<1> QED  BY <1>2, <1>3, <1>4

LEMMA SubPEndKeeps ==
  ASSUME RadixFits, MaskedInv, SubPEnd
  PROVE  MaskedInv'
<1>1. /\ pc = "sub_p" /\ op' = op /\ y = N /\ y' = 0 /\ op \in {"add", "reduce_final"}
      /\ src1' = src1 /\ src2' = src2 /\ dst' = dst /\ old' = old /\ buf' = buf
      /\ mask' = mask /\ addMask' = addMask
  BY DEF SubPEnd, EndOf, MaskedInv, MaskedCourse
<1>2. MaskedTypeOK /\ buf[dst] \in Elements /\ carry \in {0, 1}
  BY DEF MaskedInv, MaskedTypeOK
<1>3. First \in Word /\ Second \in Word /\ Minuend \in Word /\ Number(buf[dst]) \in Word
  BY <1>2, OperandsInWord, NumberIsLow
<1>4. R \in Nat \ {0} /\ P \in Nat \ {0} /\ P < R
  BY Sizes, Constants
<1>5. PICK s \in Word, z \in Word, c \in {0, 1}, l \in {0, P} :
         /\ s = Minuend /\ z = Number(buf[dst]) /\ c = carry
         /\ l = IF mask = 0 THEN 0 ELSE P
  BY <1>2, <1>3
<1>6. /\ z = (s - l) + (1 - c) * R
      /\ mask # 0 <=> ((op = "add" /\ First + Second >= R) \/ s >= P)
  <2>1. MaskedLow(N) = l
    BY <1>5, MaskedLowRight
  <2> QED  BY <1>1, <1>4, <1>5, <2>1, Sizes DEF MaskedInv, SubtractingP, Word
<1>7. (s - l) % R = z /\ (s - l \in Word => z = s - l)
  <2>1. s - l \in Int /\ 1 - c \in Int
    BY <1>4 DEF Word
  <2> QED  BY <1>6, <2>1, ModuloR
<1>8. op = "reduce_final" => z = SubPIfGe(s)
  <2> SUFFICES ASSUME op = "reduce_final" PROVE z = SubPIfGe(s)
    OBVIOUS
  <2>1. l = IF s >= P THEN P ELSE 0
    BY <1>5, <1>6
  <2>2. s - l \in Word
    BY <1>4, <2>1 DEF Word
  <2> QED  BY <1>4, <1>7, <2>1, <2>2 DEF SubPIfGe, Word
<1>9. CASE op = "reduce_final" /\ round = 1
  <2>1. pc' = "compare" /\ round' = 2 /\ carry' = 1
    BY <1>9 DEF SubPEnd
  <2>2. MaskedTypeOK'
    <3>1. 0 \in 0 .. N
      BY Sizes
    <3> QED  BY <1>1, <1>2, <2>1, <3>1 DEF MaskedTypeOK
  <2>3. s = First /\ Minuend' = SubPIfGe(First)
    BY <1>1, <1>5, <1>9, <2>1 DEF Minuend, First
  <2>4. Comparing'
    <3>1. Low(buf'[dst'], 0) = 0 /\ PLow(0) = 0
      BY LowEmpty DEF PLow
    <3>2. Number(buf'[dst']) = Minuend'
      BY <1>1, <1>5, <1>8, <1>9, <2>3
    <3> QED  BY <1>1, <1>9, <2>1, <3>1, <3>2 DEF Comparing
  <2>5. Untouched' /\ MaskedCourse'
    BY <1>1, <1>9, <2>1 DEF MaskedInv, Untouched, MaskedCourse
  <2> QED
    BY <1>1, <2>1, <2>2, <2>4, <2>5 DEF MaskedInv, Adding, SubtractingP, Subtracting, AddingP, Swapping,
       OperationExact
<1>10. CASE ~(op = "reduce_final" /\ round = 1)
  <2>1. pc' = "masked_done" /\ round' = round /\ carry' = carry
    BY <1>10 DEF SubPEnd
  <2>2. MaskedTypeOK'
    <3>1. 0 \in 0 .. N
      BY Sizes
    <3> QED  BY <1>1, <1>2, <2>1, <3>1 DEF MaskedTypeOK
  <2>3. z = Result
    <3>1. CASE op = "add"
      <4>1. s = (First + Second) % R
        BY <1>5, <3>1 DEF Minuend
      <4>2. Add(First, Second)
              = IF First + Second >= R \/ s >= P THEN (s - P) % R ELSE s
        BY <4>1 DEF Add
      <4>3. mask # 0 <=> (First + Second >= R \/ s >= P)
        BY <1>6, <3>1
      <4>4. z = Add(First, Second)
        <5>1. CASE mask = 0
          <6>1. l = 0 /\ s - 0 = s
            BY <1>5, <5>1 DEF Word
          <6> QED  BY <1>7, <4>2, <4>3, <5>1, <6>1
        <5>2. CASE mask # 0
          BY <1>5, <1>7, <4>2, <4>3, <5>2
        <5> QED  BY <5>1, <5>2
      <4> QED  BY <3>1, <4>4 DEF Result, First, Second
    <3>2. CASE op = "reduce_final"
      <4>1. s = SubPIfGe(First)
        BY <1>2, <1>5, <1>10, <3>2 DEF Minuend, MaskedTypeOK
      <4>2. z = ReduceFinal(First)
        BY <1>8, <3>2, <4>1 DEF ReduceFinal
      <4> QED  BY <3>2, <4>2 DEF Result, First
    <3> QED  BY <1>1, <3>1, <3>2
  <2>4. Result' = Result
    BY <1>1 DEF Result
  <2>5. OperationExact'
    <3>1. \A b \in Buffers \ {dst} : buf[b] = old[b]
      BY <1>1 DEF MaskedInv, Untouched
    <3> QED  BY <1>1, <1>5, <2>3, <2>4, <3>1 DEF OperationExact
  <2>6. Untouched' /\ MaskedCourse'
    BY <1>1, <2>1 DEF MaskedInv, Untouched, MaskedCourse
  <2> QED
    BY <1>1, <2>1, <2>2, <2>5, <2>6 DEF MaskedInv, Adding, Comparing, SubtractingP, Subtracting,
       AddingP, Swapping
<1> QED  BY <1>9, <1>10

(***************************************************************************)
(* fe25519_sub.                                                             *)
(***************************************************************************)
LEMMA SubByteKeeps ==
  ASSUME RadixFits, MaskedInv, SubByte
  PROVE  MaskedInv'
<1>1. /\ pc = "subtract" /\ op = "sub" /\ pc' = "subtract" /\ op' = "sub"
      /\ y \in Bytes /\ y' = y + 1 /\ y + 1 \in 0 .. N /\ y \in 0 .. N
      /\ src1' = src1 /\ src2' = src2 /\ dst' = dst /\ old' = old
      /\ mask' = mask /\ addMask' = addMask /\ round' = round
  BY Sizes DEF SubByte, InLoop, MaskedInv, MaskedCourse, MaskedTypeOK, Bytes
<1>2. /\ buf \in [Buffers -> Elements] /\ old \in [Buffers -> Elements]
      /\ src1 \in Buffers /\ src2 \in Buffers /\ dst \in Buffers /\ carry \in {0, 1}
  BY DEF MaskedInv, MaskedTypeOK
<1>3. /\ buf[src1][y] = old[src1][y] /\ buf[src2][y] = old[src2][y]
      /\ \A b \in Buffers : b # dst => buf[b] = old[b]
      /\ \A k \in Bytes : k >= y => buf[dst][k] = old[dst][k]
  BY <1>1, <1>2, Sizes DEF MaskedInv, Untouched, Bytes
<1>4. PICK m \in Byte, n \in Byte, c \in {0, 1} :
         m = buf[src1][y] /\ n = buf[src2][y] /\ c = carry
  BY <1>1, <1>2 DEF Elements, Bytes
<1>5. PICK diff \in Int, v \in Byte, d \in {0, 1} :
         /\ diff = m - n - (1 - c) /\ v = diff + B * (1 - d)
         /\ v = diff % B /\ d = IF diff >= 0 THEN 1 ELSE 0
  <2>1. PICK diff \in Int : diff = m - n - (1 - c)
    BY Sizes DEF Byte
  <2>2. /\ diff % B \in Byte
        /\ diff % B = diff + B * (1 - IF diff >= 0 THEN 1 ELSE 0)
    BY <2>1, BorrowOut
  <2> QED  BY <2>1, <2>2
<1>6. buf' = [buf EXCEPT ![dst][y] = v] /\ carry' = d
  BY <1>4, <1>5 DEF SubByte, StoreDifference, Sbc
<1>7. /\ buf' \in [Buffers -> Elements]
      /\ \A b \in Buffers : b # dst => buf'[b] = buf[b]
      /\ \A k \in Bytes : k # y => buf'[dst][k] = buf[dst][k]
      /\ Low(buf'[dst], y + 1) = Low(buf[dst], y) + Weight[y] * v
  <2>1. StoredAt(buf', buf, dst, y, v)
    BY <1>6 DEF StoredAt
  <2> QED  BY <1>1, <1>2, <2>1, StoreAt
<1>8. MaskedTypeOK'
  BY <1>1, <1>6, <1>7 DEF MaskedInv, MaskedTypeOK
<1>9. Untouched'
  BY <1>1, <1>3, <1>7, Sizes DEF Untouched, Bytes
<1>10. Subtracting'
  <2>1. PICK t \in Nat \ {0} : t = Weight[y] /\ Weight[y + 1] = B * t
    BY <1>1, Sizes
  <2>2. /\ Low(buf[dst], y) \in Int /\ Low(old[src1], y) \in Int /\ Low(old[src2], y) \in Int
    BY <1>1, <1>2, LowRange
  <2>3. PICK l \in Int, l1 \in Int, l2 \in Int :
           l = Low(buf[dst], y) /\ l1 = Low(old[src1], y) /\ l2 = Low(old[src2], y)
    BY <2>2
  <2>4. l = l1 - l2 + (1 - c) * t
    BY <1>1, <1>4, <2>1, <2>3 DEF MaskedInv, Subtracting
  <2>5. /\ Low(old[src1], y + 1) = l1 + t * m /\ Low(old[src2], y + 1) = l2 + t * n
    BY <1>1, <1>2, <1>3, <1>4, <2>1, <2>3, LowStep
  <2>6. Low(buf'[dst], y + 1) = l + t * v
    BY <1>7, <2>1, <2>3
  <2>7. l + t * v = (l1 + t * m) - (l2 + t * n) + (1 - d) * (B * t)
    <3>1. m \in Int /\ n \in Int /\ v \in Int /\ B \in Int
      BY Sizes DEF Byte
    <3>2. t * v = t * m - t * n - (1 - c) * t + (1 - d) * (B * t)
      <4>1. t * ((m - n - (1 - c)) + B * (1 - d))
              = t * m - t * n - (1 - c) * t + (1 - d) * (B * t)
        BY <3>1, BorrowWeight
      <4>2. v = (m - n - (1 - c)) + B * (1 - d)
        BY <1>5, <3>1
      <4> QED  BY <4>1, <4>2
    <3>3. /\ t * v \in Int /\ (1 - d) * (B * t) \in Int
          /\ t * m \in Int /\ t * n \in Int /\ (1 - c) * t \in Int
      BY <3>1
    <3> QED  BY <2>4, <3>2, <3>3
  <2> QED  BY <1>1, <1>6, <2>1, <2>5, <2>6, <2>7 DEF Subtracting
<1> QED
  BY <1>1, <1>8, <1>9, <1>10 DEF MaskedInv, MaskedCourse, Adding, Comparing, SubtractingP, AddingP,
     Swapping, OperationExact

LEMMA SubEndKeeps ==
  ASSUME RadixFits, MaskedInv, SubEnd
  PROVE  MaskedInv'
<1>1. /\ pc = "subtract" /\ op = "sub" /\ pc' = "add_p" /\ op' = "sub" /\ y = N /\ y' = 0
      /\ src1' = src1 /\ src2' = src2 /\ dst' = dst /\ old' = old /\ buf' = buf
      /\ mask' = MaskIfClear(carry) /\ addMask' = addMask /\ carry' = 0 /\ round' = round
  BY DEF SubEnd, EndOf, MaskedInv, MaskedCourse
<1>2. /\ buf[dst] \in Elements /\ old[src1] \in Elements /\ old[src2] \in Elements
  BY DEF MaskedInv, MaskedTypeOK
<1>3. PICK c \in {0, 1}, z \in Word, a \in Word, b \in Word :
         c = carry /\ z = Number(buf[dst]) /\ a = First /\ b = Second
  BY <1>2, NumberIsLow DEF MaskedInv, MaskedTypeOK, First, Second
<1>4. z = (a - b) + (1 - c) * R /\ R \in Nat \ {0}
  <2>1. Low(buf[dst], N) = Low(old[src1], N) - Low(old[src2], N) + (1 - carry) * R
    BY <1>1, Sizes DEF MaskedInv, Subtracting
  <2> QED  BY <1>2, <1>3, <2>1, NumberIsLow, Sizes DEF First, Second
<1>5. z = (a - b) % R /\ (c = 0 <=> a < b)
  <2>1. a - b \in Int /\ 1 - c \in Int
    BY DEF Word
  <2>2. (a - b) % R = z
    BY <1>4, <2>1, ModuloR
  <2> QED  BY <1>4, <2>2 DEF Word
<1>6. 0 \in 0 .. N /\ MaskIfClear(carry) \in Masks /\ (MaskIfClear(carry) # 0 <=> c = 0)
  BY <1>3, Sizes DEF MaskIfClear, Masks
<1>7. MaskedTypeOK'
  BY <1>1, <1>6 DEF MaskedInv, MaskedTypeOK
<1>8. AddingP'
  <2>1. First' = a /\ Second' = b
    BY <1>1, <1>3 DEF First, Second
  <2>2. MaskedLow(y)' = 0
    BY <1>1, LowEmpty DEF MaskedLow, PLow
  <2>3. Number(buf'[dst']) + carry' * Weight[y'] = ((First' - Second') % R) + MaskedLow(y)'
    <3>1. z \in Int
      BY <1>4 DEF Word
    <3> QED  BY <1>1, <1>3, <1>5, <2>1, <2>2, <3>1, Sizes
  <2>4. (mask' # 0) <=> (First' < Second')
    BY <1>1, <1>5, <1>6, <2>1
  <2> QED  BY <1>1, <2>3, <2>4 DEF AddingP
<1>9. Untouched'
  BY <1>1 DEF MaskedInv, Untouched
<1> QED
  BY <1>1, <1>7, <1>8, <1>9 DEF MaskedInv, MaskedCourse, Adding, Comparing, SubtractingP, Subtracting,
     Swapping, OperationExact

LEMMA AddPByteKeeps ==
  ASSUME RadixFits, MaskedInv, AddPByte
  PROVE  MaskedInv'
<1>1. /\ pc = "add_p" /\ pc' = "add_p" /\ op = "sub" /\ op' = op
      /\ y \in Bytes /\ y' = y + 1 /\ y + 1 \in 0 .. N /\ y \in 0 .. N
      /\ src1' = src1 /\ src2' = src2 /\ dst' = dst /\ old' = old
      /\ mask' = mask /\ addMask' = addMask /\ round' = round
  BY Sizes DEF AddPByte, InLoop, MaskedInv, MaskedCourse, MaskedTypeOK, Bytes
<1>2. buf \in [Buffers -> Elements] /\ dst \in Buffers /\ carry \in {0, 1}
  BY DEF MaskedInv, MaskedTypeOK
<1>3. PICK m \in Byte, n \in Byte, c \in {0, 1} :
         m = buf[dst][y] /\ n = Masked(PByte(y)) /\ c = carry
  BY <1>1, <1>2, MaskedLowRight DEF Elements, Bytes
<1>4. PICK sum \in Int, v \in Byte, d \in {0, 1} :
         /\ sum = m + n + c /\ v = sum - B * d
         /\ v = sum % B /\ d = sum \div B
  <2>1. PICK sum \in Int : sum = m + n + c
    BY Sizes DEF Byte
  <2>2. /\ sum % B \in Byte /\ sum \div B \in {0, 1}
        /\ sum % B = sum - B * (sum \div B)
    BY <2>1, CarryOfSum
  <2> QED  BY <2>1, <2>2
<1>5. buf' = [buf EXCEPT ![dst][y] = v] /\ carry' = d
  BY <1>3, <1>4 DEF AddPByte, StoreSum, Adc
<1>6. /\ buf' \in [Buffers -> Elements]
      /\ \A b \in Buffers : b # dst => buf'[b] = buf[b]
      /\ Number(buf'[dst]) = Number(buf[dst]) + Weight[y] * (v - buf[dst][y])
  <2>1. StoredAt(buf', buf, dst, y, v)
    BY <1>5 DEF StoredAt
  <2> QED  BY <1>1, <1>2, <2>1, StoreAt
<1>7. MaskedTypeOK'
  BY <1>1, <1>5, <1>6 DEF MaskedInv, MaskedTypeOK
<1>8. Untouched' /\ MaskedCourse'
  BY <1>1, <1>6 DEF MaskedInv, Untouched, MaskedCourse, MaskedTypeOK
<1>9. First' = First /\ Second' = Second
  BY <1>1 DEF First, Second
<1>10. AddingP'
  <2>1. PICK t \in Nat \ {0} : t = Weight[y] /\ Weight[y + 1] = B * t
    BY <1>1, Sizes
  <2>2. /\ Number(buf[dst]) \in Int /\ MaskedLow(y) \in Int
        /\ Number(buf[dst]) + c * t = ((First - Second) % R) + MaskedLow(y)
        /\ MaskedLow(y + 1) = MaskedLow(y) + t * n
    BY <1>1, <1>2, <1>3, <2>1, NumberIsLow, MaskedLowRight DEF MaskedInv, AddingP, Word
  <2>3. (First - Second) % R \in Int
    <3>1. MaskedTypeOK
      BY DEF MaskedInv
    <3>2. First - Second \in Int /\ R \in Nat \ {0}
      BY <3>1, OperandsInWord, Sizes DEF Word
    <3> QED  BY <3>2, DivMod
  <2>4. PICK s \in Int, l \in Int, z \in Int :
           s = (First - Second) % R /\ l = MaskedLow(y) /\ z = Number(buf[dst])
    BY <2>2, <2>3
  <2>5. m \in Int /\ n \in Int /\ v \in Int /\ B \in Int /\ c \in Int /\ d \in Int
    BY Sizes DEF Byte
  <2>6. t * v + d * (B * t) = t * m + t * n + c * t
    <3>1. t * (m + n + c - B * d) + d * (B * t) = t * m + t * n + c * t
      BY <2>5, CarryWeight
    <3>2. v = m + n + c - B * d
      BY <1>4, <2>5
    <3> QED  BY <3>1, <3>2
  <2>7. t * (v - m) = t * v - t * m
    BY <2>5
  <2>8. (z + t * (v - m)) + d * (B * t) = s + (l + t * n)
    <3>1. z + c * t = s + l
      BY <2>2, <2>4
    <3>2. /\ t * v \in Int /\ t * m \in Int /\ t * n \in Int /\ c * t \in Int
          /\ d * (B * t) \in Int
      BY <2>5
    <3> QED  BY <2>6, <2>7, <3>1, <3>2
  <2>9. Number(buf'[dst]) = z + t * (v - m)
    BY <1>3, <1>6, <2>1, <2>4
  <2>10. MaskedLow(y + 1) = l + t * n
    BY <2>2, <2>4
  <2>11. MaskedLow(y)' = MaskedLow(y + 1)
    BY <1>1 DEF MaskedLow
  <2>12. Number(buf'[dst']) + carry' * Weight[y'] = ((First' - Second') % R) + MaskedLow(y)'
    BY <1>1, <1>5, <1>9, <2>1, <2>4, <2>8, <2>9, <2>10, <2>11
  <2>13. (mask # 0) <=> (First < Second)
    BY <1>1 DEF MaskedInv, AddingP
  <2> QED  BY <1>1, <1>9, <2>12, <2>13 DEF AddingP
<1> QED
  BY <1>1, <1>7, <1>8, <1>10 DEF MaskedInv, Adding, Comparing, SubtractingP, Subtracting, Swapping,
     OperationExact

LEMMA AddPEndKeeps ==
  ASSUME RadixFits, MaskedInv, AddPEnd
  PROVE  MaskedInv'
<1>1. /\ pc = "add_p" /\ pc' = "masked_done" /\ op = "sub" /\ op' = op /\ y = N /\ y' = 0
      /\ src1' = src1 /\ src2' = src2 /\ dst' = dst /\ old' = old /\ buf' = buf
      /\ mask' = mask /\ addMask' = addMask /\ carry' = carry /\ round' = round
  BY DEF AddPEnd, EndOf, MaskedInv, MaskedCourse
<1>2. MaskedTypeOK /\ buf[dst] \in Elements /\ carry \in {0, 1}
  BY DEF MaskedInv, MaskedTypeOK
<1>3. First \in Word /\ Second \in Word /\ Number(buf[dst]) \in Word
  BY <1>2, OperandsInWord, NumberIsLow
<1>4. R \in Nat \ {0} /\ P \in Nat \ {0}
  BY Sizes, Constants
<1>5. PICK s \in Word, z \in Word, c \in {0, 1}, l \in {0, P} :
         /\ s = (First - Second) % R /\ z = Number(buf[dst]) /\ c = carry
         /\ l = IF mask = 0 THEN 0 ELSE P
  <2>1. First - Second \in Int
    BY <1>3 DEF Word
  <2>2. (First - Second) % R \in Word
    BY <1>4, <2>1, DivMod DEF Word
  <2> QED  BY <1>2, <1>3, <2>2
<1>6. z = (s + l) + (-c) * R /\ (mask # 0 <=> First < Second)
  <2>1. MaskedLow(N) = l
    BY <1>5, MaskedLowRight
  <2>2. z + c * R = s + l
    BY <1>1, <1>5, <2>1, Sizes DEF MaskedInv, AddingP
  <2>3. c * R \in Int /\ (-c) * R = - (c * R) /\ z \in Int /\ s \in Int /\ l \in Int
    BY <1>4 DEF Word
  <2> QED  BY <1>1, <2>2, <2>3 DEF MaskedInv, AddingP
<1>7. (s + l) % R = z /\ (s + l \in Word => z = s + l)
  <2>1. s + l \in Int /\ -c \in Int
    BY <1>4 DEF Word
  <2> QED  BY <1>6, <2>1, ModuloR
<1>8. z = Sub(First, Second)
  <2>1. Sub(First, Second) = IF First < Second THEN (s + P) % R ELSE s
    BY <1>5 DEF Sub
  <2>2. CASE mask = 0
    <3>1. l = 0 /\ s + 0 = s
      BY <1>5, <2>2 DEF Word
    <3> QED  BY <1>6, <1>7, <2>1, <2>2, <3>1
  <2>3. CASE mask # 0
    BY <1>5, <1>6, <1>7, <2>1, <2>3
  <2> QED  BY <2>2, <2>3
<1>9. MaskedTypeOK'
  <2>1. 0 \in 0 .. N
    BY Sizes
  <2> QED  BY <1>1, <1>2, <2>1 DEF MaskedTypeOK
<1>10. OperationExact'
  <2>1. \A b \in Buffers \ {dst} : buf[b] = old[b]
    BY <1>1 DEF MaskedInv, Untouched
  <2>2. Result' = Sub(First, Second)
    BY <1>1 DEF Result, First, Second
  <2> QED  BY <1>1, <1>5, <1>8, <2>1, <2>2 DEF OperationExact
<1>11. Untouched' /\ MaskedCourse'
  BY <1>1 DEF MaskedInv, Untouched, MaskedCourse
<1> QED
  BY <1>1, <1>9, <1>10, <1>11 DEF MaskedInv, Adding, Comparing, SubtractingP, Subtracting, AddingP,
     Swapping

(***************************************************************************)
(* fe25519_cswap.                                                           *)
(***************************************************************************)
LEMMA SwapByteKeeps ==
  ASSUME RadixFits, MaskedInv, SwapByte
  PROVE  MaskedInv'
<1>1. /\ pc = "swap" /\ pc' = "swap" /\ op = "cswap" /\ op' = op
      /\ y \in Bytes /\ y' = y + 1 /\ y + 1 \in 0 .. N
      /\ src1' = src1 /\ src2' = src2 /\ dst' = dst /\ old' = old
      /\ mask' = mask /\ addMask' = addMask /\ round' = round /\ carry' = carry
  BY Sizes DEF SwapByte, InLoop, MaskedInv, MaskedCourse, MaskedTypeOK, Bytes
<1>2. /\ buf \in [Buffers -> Elements] /\ old \in [Buffers -> Elements]
      /\ src1 \in Buffers /\ src2 \in Buffers
  BY DEF MaskedInv, MaskedTypeOK
<1>3. PICK k \in Bytes : k = N - 1 - y
  BY <1>1, Sizes DEF Bytes
<1>4. buf' = Exchanged(k)
  BY <1>3 DEF SwapByte
<1>5. CASE mask = 0
  <2>1. buf' = buf
    BY <1>4, <1>5 DEF Exchanged
  <2> QED
    BY <1>1, <1>5, <2>1 DEF MaskedInv, MaskedTypeOK, MaskedCourse, Untouched, Adding, Comparing, SubtractingP,
       Subtracting, AddingP, Swapping, OperationExact
<1>6. CASE mask # 0
  <2>1. buf' = [buf EXCEPT ![src1][k] = buf[src2][k], ![src2][k] = buf[src1][k]]
    BY <1>4, <1>6 DEF Exchanged
  <2>2. buf[src1] \in [Bytes -> Byte] /\ buf[src2] \in [Bytes -> Byte]
    BY <1>2 DEF Elements, Bytes
  <2>3. buf' \in [Buffers -> Elements]
    BY <1>2, <2>1, <2>2 DEF Elements, Bytes
  <2>4. ASSUME NEW b \in Buffers, NEW n \in Bytes
        PROVE  buf'[b][n] = IF n = k
                              THEN IF b = src2 THEN buf[src1][k]
                                   ELSE IF b = src1 THEN buf[src2][k] ELSE buf[b][k]
                              ELSE buf[b][n]
    BY <1>2, <2>1 DEF Elements, Bytes
  <2>5. ASSUME NEW b \in Buffers, NEW n \in Bytes
        PROVE  buf[b][n] = IF n >= N - y THEN Exchange[b][n] ELSE old[b][n]
    BY <1>1, <1>6 DEF MaskedInv, Swapping
  <2>6. ~(k >= N - y) /\ \A n \in Bytes : n >= N - (y + 1) <=> (n = k \/ n >= N - y)
    BY <1>1, <1>3, Sizes DEF Bytes
  <2>7. ASSUME NEW b \in Buffers
        PROVE  Exchange[b] = IF b = src2 THEN old[src1] ELSE IF b = src1 THEN old[src2] ELSE old[b]
    BY <1>2 DEF Exchange
  <2>8. ASSUME NEW b \in Buffers, NEW n \in Bytes
        PROVE  buf'[b][n] = IF n >= N - (y + 1) THEN Exchange[b][n] ELSE old[b][n]
    <3>1. CASE n = k
      <4>1. \A e \in Buffers : buf[e][k] = old[e][k]
        BY <2>5, <2>6
      <4> QED  BY <1>2, <2>4, <2>6, <2>7, <3>1, <4>1
    <3>2. CASE n # k
      BY <2>4, <2>5, <2>6, <3>2
    <3> QED  BY <3>1, <3>2
  <2>9. Exchange' = Exchange
    BY <1>1 DEF Exchange
  <2>10. Swapping'
    BY <1>1, <1>6, <2>8, <2>9 DEF Swapping
  <2>11. MaskedTypeOK'
    BY <1>1, <2>3 DEF MaskedInv, MaskedTypeOK
  <2> QED
    BY <1>1, <2>10, <2>11 DEF MaskedInv, MaskedCourse, Untouched, Adding, Comparing, SubtractingP,
       Subtracting, AddingP, OperationExact
<1> QED  BY <1>5, <1>6

LEMMA SwapEndKeeps ==
  ASSUME RadixFits, MaskedInv, SwapEnd
  PROVE  MaskedInv'
<1>1. /\ pc = "swap" /\ pc' = "masked_done" /\ op = "cswap" /\ op' = op /\ y = N /\ y' = 0
      /\ src1' = src1 /\ src2' = src2 /\ dst' = dst /\ old' = old /\ buf' = buf
      /\ mask' = mask /\ addMask' = addMask /\ round' = round /\ carry' = carry
  BY DEF SwapEnd, EndOf, MaskedInv, MaskedCourse
<1>2. /\ buf \in [Buffers -> Elements] /\ old \in [Buffers -> Elements]
      /\ src1 \in Buffers /\ src2 \in Buffers
  BY DEF MaskedInv, MaskedTypeOK
<1>3. MaskedTypeOK'
  <2>1. 0 \in 0 .. N
    BY Sizes
  <2> QED  BY <1>1, <2>1 DEF MaskedInv, MaskedTypeOK
<1>4. buf = IF mask = 0 THEN old ELSE Exchange
  <2>1. CASE mask = 0
    BY <1>1, <2>1 DEF MaskedInv, Swapping
  <2>2. CASE mask # 0
    <3>1. \A n \in Bytes : n >= N - N
      BY Sizes DEF Bytes
    <3>2. \A b \in Buffers, n \in Bytes : buf[b][n] = Exchange[b][n]
      BY <1>1, <2>2, <3>1 DEF MaskedInv, Swapping
    <3>3. Exchange \in [Buffers -> Elements]
      BY <1>2 DEF Exchange
    <3>4. \A b \in Buffers : buf[b] \in [Bytes -> Byte] /\ Exchange[b] \in [Bytes -> Byte]
      BY <1>2, <3>3 DEF Elements, Bytes
    <3>5. \A b \in Buffers : buf[b] = Exchange[b]
      BY <3>2, <3>4
    <3> QED  BY <1>2, <2>2, <3>3, <3>5
  <2> QED  BY <2>1, <2>2
<1>5. OperationExact'
  BY <1>1, <1>4 DEF OperationExact, Exchange
<1> QED
  BY <1>1, <1>3, <1>5 DEF MaskedInv, MaskedCourse, Untouched, Adding, Comparing, SubtractingP, Subtracting,
     AddingP, Swapping

(***************************************************************************)
(* Every step keeps the invariant.                                          *)
(***************************************************************************)
LEMMA NextMasked ==
  ASSUME RadixFits, OperandsFit
  PROVE  MaskedInv /\ [MaskedNext]_maskedVars => MaskedInv'
<1> SUFFICES ASSUME MaskedInv, [MaskedNext]_maskedVars PROVE MaskedInv'
  OBVIOUS
<1>1. CASE UNCHANGED maskedVars
  <2>1. /\ pc' = pc /\ op' = op /\ src1' = src1 /\ src2' = src2 /\ dst' = dst /\ buf' = buf
        /\ y' = y /\ carry' = carry /\ mask' = mask /\ addMask' = addMask /\ round' = round
        /\ old' = old
    BY <1>1 DEF maskedVars
  <2>2. MaskedTypeOK' /\ MaskedCourse' /\ Untouched' /\ Adding' /\ Subtracting' /\ Swapping'
    BY <2>1 DEF MaskedInv, MaskedTypeOK, MaskedCourse, Untouched, Adding, Subtracting, Swapping, Exchange
  <2>3. First' = First /\ Second' = Second /\ Minuend' = Minuend /\ MaskedLow(y)' = MaskedLow(y)
    BY <2>1 DEF First, Second, Minuend, MaskedLow
  <2>4. Comparing' /\ SubtractingP' /\ AddingP'
    BY <2>1, <2>3 DEF MaskedInv, Comparing, SubtractingP, AddingP
  <2>5. OperationExact'
    BY <2>1 DEF MaskedInv, OperationExact, Result
  <2> QED  BY <2>2, <2>4, <2>5 DEF MaskedInv
<1> QED
  BY <1>1, MaskedCallKeeps, MaskedReturnKeeps, AddByteKeeps, AddEndKeeps, CompareByteKeeps, CompareEndKeeps,
     SubPByteKeeps, SubPEndKeeps, SubByteKeeps, SubEndKeeps, AddPByteKeeps, AddPEndKeeps,
     SwapByteKeeps, SwapEndKeeps
     DEF MaskedNext

(***************************************************************************)
(* The inductive invariant holds always.                                    *)
(***************************************************************************)
LEMMA MaskedInvariance ==
  ASSUME RadixFits, OperandsFit
  PROVE  MaskedSpec => []MaskedInv
<1> QED  BY InitMasked, NextMasked, PTL DEF MaskedSpec

(***************************************************************************)
(* Types: bytes stay bytes, and the carry is a carry.                       *)
(***************************************************************************)
THEOREM MaskedTypeCorrect ==
  ASSUME RadixFits, OperandsFit
  PROVE  MaskedSpec => []MaskedTypeOK
<1>1. MaskedInv => MaskedTypeOK
  BY DEF MaskedInv
<1> QED  BY <1>1, MaskedInvariance, PTL

(***************************************************************************)
(* The masks of fe25519_add, fe25519_sub and fe25519_reduce_final are made  *)
(* of the right carries: P is taken off or added back exactly when it must. *)
(***************************************************************************)
THEOREM DecisionsRight ==
  ASSUME RadixFits, OperandsFit
  PROVE  MaskedSpec => []DecisionRight
<1>1. MaskedInv => DecisionRight
  <2> SUFFICES ASSUME MaskedInv PROVE DecisionRight
    OBVIOUS
  <2>1. First \in Word /\ Second \in Word /\ Minuend \in Word /\ P \in Nat /\ R \in Nat /\ P < R
    BY OperandsInWord, Constants DEF MaskedInv
  <2>2. ASSUME pc = "sub_p", y = 0
        PROVE  (mask # 0) <=> IF op = "add" THEN First + Second >= P ELSE Number(buf[dst]) >= P
    <3>1. /\ op \in {"add", "reduce_final"} /\ carry = 1
          /\ (mask # 0) <=> ((op = "add" /\ First + Second >= R) \/ Minuend >= P)
          /\ Number(buf[dst]) = Minuend - MaskedLow(0) + (1 - carry) * Weight[0]
      BY <2>2 DEF MaskedInv, MaskedCourse, SubtractingP
    <3>2. Number(buf[dst]) = Minuend
      BY <2>1, <3>1, MaskedLowRight, Sizes DEF Word
    <3>3. CASE op = "add"
      <4>1. First + Second < R => Minuend = First + Second
        <5>1. First + Second \in Nat
          BY <2>1 DEF Word
        <5> QED  BY <2>1, <3>3, <5>1, ModSmall, Sizes DEF Minuend
      <4> QED  BY <2>1, <3>1, <3>3, <4>1 DEF Word
    <3>4. CASE op = "reduce_final"
      BY <3>1, <3>2, <3>4
    <3> QED  BY <3>1, <3>3, <3>4
  <2>3. ASSUME pc = "add_p", y = 0 PROVE (mask # 0) <=> First < Second
    BY <2>3 DEF MaskedInv, AddingP
  <2> QED  BY <2>2, <2>3 DEF DecisionRight, First, Second
<1> QED  BY <1>1, MaskedInvariance, PTL

(***************************************************************************)
(* fe25519_add, fe25519_sub, fe25519_reduce_final and fe25519_cswap leave   *)
(* what FieldOps says, whatever buffers they are given.                     *)
(***************************************************************************)
THEOREM OperationsExact ==
  ASSUME RadixFits, OperandsFit
  PROVE  MaskedSpec => []OperationExact
<1>1. MaskedInv => OperationExact
  BY DEF MaskedInv
<1> QED  BY <1>1, MaskedInvariance, PTL

(***************************************************************************)
(* Part 3: fe25519_mul_a24.                                                 *)
(***************************************************************************)

LEMMA Quotient ==
  ASSUME NEW b \in Nat \ {0}, NEW m \in Nat, NEW q \in Nat, m < b * (q + 1)
  PROVE  m % b \in 0 .. b - 1 /\ m \div b \in 0 .. q /\ m = b * (m \div b) + (m % b)
<1>1. m \div b \in Nat /\ m % b \in 0 .. b - 1 /\ m = b * (m \div b) + (m % b)
  BY NatDivides
<1>2. m \div b <= q
  BY NatDivides
<1> QED  BY <1>1, <1>2

LEMMA LessTimes ==
  ASSUME NEW a \in Nat, NEW b \in Nat, NEW c \in Nat, NEW d \in Nat, a < c, d < b
  PROVE  a * d < b * c
<1>1. a * d <= a * b
  OBVIOUS
<1>2. a * b < c * b
  OBVIOUS
<1> QED  BY <1>1, <1>2

(* The constant is of three bytes, with room for the carries of the sum.    *)
LEMMA A24Room ==
  ASSUME RadixFits, A24Fits
  PROVE  /\ A24 \in Nat /\ A24 < Weight[3] /\ N >= 5
         /\ Weight[1] = B /\ Weight[2] = B * B /\ Weight[3] = B * (B * B)
         /\ Weight[4] = B * (B * (B * B))
         /\ \A byte \in Byte : A24 * byte \in Nat /\ A24 * byte < Weight[4]
         /\ \A m \in 0 .. N, l \in Nat : l < Weight[m] => A24 * l < Weight[m + 3]
<1>1. /\ B \in Nat /\ B > 2 /\ N \in Nat /\ N >= 5 /\ A24 \in Nat /\ A24 < 2 * B * B
      /\ Weight[0] = 1
      /\ \A k \in 0 .. 2 * N + 1 : Weight[k + 1] = B * Weight[k]
      /\ \A k \in 0 .. 2 * N + 2 : Weight[k] \in Nat \ {0}
  BY Radix, FieldAssumption DEF A24Fits
<1>2. /\ 0 \in 0 .. 2 * N + 1 /\ 1 \in 0 .. 2 * N + 1 /\ 2 \in 0 .. 2 * N + 1
      /\ 3 \in 0 .. 2 * N + 1
  BY <1>1
<1>3. Weight[1] = B /\ Weight[2] = B * B /\ Weight[3] = B * (B * B)
      /\ Weight[4] = B * (B * (B * B))
  <2>1. Weight[0 + 1] = B * 1 /\ Weight[1 + 1] = B * Weight[1] /\ Weight[2 + 1] = B * Weight[2]
        /\ Weight[3 + 1] = B * Weight[3]
    BY <1>1, <1>2
  <2>2. Weight[1] = B /\ Weight[2] = B * Weight[1] /\ Weight[3] = B * Weight[2]
        /\ Weight[4] = B * Weight[3]
    <3>1. B * 1 = B
      BY <1>1
    <3> QED  BY <2>1, <3>1
  <2> QED  BY <2>2
<1>4. A24 < Weight[3]
  <2>1. \A b \in Nat : b > 2 => 2 * b * b <= b * (b * b)
    OBVIOUS
  <2>2. B \in Nat /\ B > 2 /\ A24 \in Nat /\ A24 < 2 * B * B
    BY <1>1
  <2>3. 2 * B * B <= B * (B * B) /\ 2 * B * B \in Int /\ B * (B * B) \in Int
    BY <2>1, <2>2
  <2>4. \A p, q, r \in Int : p < q /\ q <= r => p < r
    OBVIOUS
  <2>5. A24 < B * (B * B)
    BY <2>2, <2>3, <2>4
  <2> QED  BY <1>3, <2>5
<1>5. ASSUME NEW byte \in Byte  PROVE A24 * byte \in Nat /\ A24 * byte < Weight[4]
  <2>1. byte \in Nat /\ byte < B /\ Weight[3] \in Nat /\ Weight[4] = B * Weight[3]
    BY <1>1, <1>3, <1>2 DEF Byte
  <2>2. A24 \in Nat /\ B \in Nat /\ A24 < Weight[3]
    BY <1>1, <1>4
  <2>3. A24 * byte < B * Weight[3]
    BY <2>1, <2>2, LessTimes
  <2>4. A24 * byte \in Nat
    BY <2>1, <2>2
  <2> QED  BY <2>1, <2>3, <2>4
<1>6. ASSUME NEW m \in 0 .. N, NEW l \in Nat, l < Weight[m]  PROVE A24 * l < Weight[m + 3]
  <2>1. m \in Nat /\ 3 \in Nat /\ m + 3 <= 2 * N + 2 /\ m \in 0 .. 2 * N + 2
    BY <1>1
  <2>2. Weight[m + 3] = Weight[m] * Weight[3]
    BY <2>1, WeightAdd
  <2>3. Weight[m] \in Nat /\ Weight[3] \in Nat
    BY <1>1, <2>1
  <2>4. A24 * l < Weight[m] * Weight[3]
    BY <1>1, <1>4, <1>6, <2>3, LessTimes
  <2> QED  BY <2>2, <2>4
<1> QED  BY <1>1, <1>3, <1>4, <1>5, <1>6

(* The four bytes of a table entry are the product.                         *)
LEMMA EntriesAreTheProduct ==
  ASSUME RadixFits, A24Fits, NEW byte \in Byte
  PROVE  /\ \A n \in 0 .. 3 : Entry(byte, n) \in Byte
         /\ Entry(byte, 0) + B * Entry(byte, 1) + (B * B) * Entry(byte, 2) + (B * (B * B)) * Entry(byte, 3)
              = A24 * byte
<1> DEFINE v == A24 * byte  d == [n \in 0 .. 4 |-> v \div Weight[n]]
<1>1. /\ B \in Nat \ {0} /\ B > 2 /\ N \in Nat /\ N >= 5 /\ v \in Nat /\ v < Weight[4] /\ Weight[0] = 1
      /\ \A k \in 0 .. 4 : Weight[k] \in Nat \ {0}
      /\ \A k \in 0 .. 3 : Weight[k + 1] = B * Weight[k]
  <2>1. /\ B \in Nat \ {0} /\ B > 2 /\ Weight[0] = 1
        /\ \A k \in 0 .. 2 * N + 2 : Weight[k] \in Nat \ {0}
        /\ \A k \in 0 .. 2 * N + 1 : Weight[k + 1] = B * Weight[k]
    BY Radix
  <2>2. N \in Nat /\ N >= 5 /\ v \in Nat /\ v < Weight[4]
    <3>1. N \in Nat \ {0} /\ N >= 5
      BY Radix, A24Room, Zenon
    <3>2. \A b \in Byte : A24 * b \in Nat /\ A24 * b < Weight[4]
      BY A24Room, Zenon
    <3> QED  BY <3>1, <3>2
  <2>3. 0 .. 4 \subseteq 0 .. 2 * N + 2 /\ 0 .. 3 \subseteq 0 .. 2 * N + 1
    BY <2>2
  <2> QED  BY <2>1, <2>2, <2>3
<1>2. \A n \in 0 .. 3 : Entry(byte, n) = d[n] % B
  BY DEF Entry
<1> HIDE DEF v
<1>3. \A n \in 0 .. 4 : d[n] = v \div Weight[n]
  OBVIOUS
<1> HIDE DEF d
<1>4. ASSUME NEW n \in 0 .. 3  PROVE d[n + 1] = d[n] \div B
  <2>1. n + 1 \in 0 .. 4 /\ n \in 0 .. 4 /\ Weight[n + 1] = B * Weight[n]
    BY <1>1
  <2>2. v \div (B * Weight[n]) = (v \div Weight[n]) \div B
    BY <1>1, <2>1, DivDiv
  <2> QED  BY <1>3, <2>1, <2>2
<1>5. d[0] = v
  <2>1. d[0] = v \div Weight[0]
    BY <1>3
  <2>2. \A e \in Nat : e \div 1 = e
    OBVIOUS
  <2>3. v \in Nat /\ Weight[0] = 1
    BY <1>1
  <2> QED  BY <2>1, <2>2, <2>3
<1>6. \A n \in 0 .. 4 : d[n] \in Nat
  <2>1. \A w \in Nat \ {0} : v \div w \in Nat
    <3>1. v \in Nat
      BY <1>1
    <3> QED  BY <3>1, NatDivides
  <2> QED  BY <1>1, <1>3, <2>1
<1>7. d[4] = 0
  <2>1. v < Weight[4] * (0 + 1) /\ Weight[4] \in Nat \ {0} /\ v \in Nat /\ 0 \in Nat
    BY <1>1
  <2>2. v \div Weight[4] <= 0
    <3> HIDE DEF v
    <3> QED  BY <2>1, NatDivides
  <2>3. d[4] <= 0
    BY <1>3, <2>2
  <2> QED  BY <1>6, <2>3
<1>8. ASSUME NEW n \in 0 .. 3  PROVE d[n] % B \in Byte /\ d[n] = B * d[n + 1] + (d[n] % B)
  <2>1. n \in 0 .. 4 /\ B \in Nat \ {0}
    BY <1>1
  <2>2. d[n] \in Nat
    BY <1>6, <2>1
  <2>3. d[n] % B \in 0 .. B - 1 /\ d[n] = B * (d[n] \div B) + (d[n] % B)
    BY <2>1, <2>2, NatDivides
  <2> QED  BY <1>4, <2>3 DEF Byte
<1>9. /\ d[1] = d[0 + 1] /\ d[2] = d[1 + 1] /\ d[3] = d[2 + 1] /\ d[4] = d[3 + 1]
  OBVIOUS
<1>10. /\ d[0] = B * d[1] + Entry(byte, 0) /\ d[1] = B * d[2] + Entry(byte, 1)
       /\ d[2] = B * d[3] + Entry(byte, 2) /\ d[3] = B * d[4] + Entry(byte, 3)
  BY <1>2, <1>8, <1>9
<1>11. \A n \in 0 .. 3 : Entry(byte, n) \in Byte
  BY <1>2, <1>8
<1>12. \A b, x0, x1, x2, x3, e0, e1, e2, e3 \in Int :
         x0 = b * x1 + e0 /\ x1 = b * x2 + e1 /\ x2 = b * x3 + e2 /\ x3 = b * 0 + e3
           => e0 + b * e1 + (b * b) * e2 + (b * (b * b)) * e3 = x0
  OBVIOUS
<1>13. /\ B \in Int /\ d[0] \in Int /\ d[1] \in Int /\ d[2] \in Int /\ d[3] \in Int
       /\ Entry(byte, 0) \in Int /\ Entry(byte, 1) \in Int /\ Entry(byte, 2) \in Int /\ Entry(byte, 3) \in Int
  BY <1>1, <1>6, <1>11 DEF Byte
<1>14. Entry(byte, 0) + B * Entry(byte, 1) + (B * B) * Entry(byte, 2) + (B * (B * B)) * Entry(byte, 3) = d[0]
  BY <1>7, <1>10, <1>12, <1>13
<1> QED  BY <1>5, <1>11, <1>14 DEF v

(* One byte of an addition: what is stored and what is carried on.          *)
LEMMA AddedByte ==
  ASSUME RadixFits, NEW w \in Wide, NEW u \in Wide, NEW k \in 0 .. 2 * N - 1, NEW e \in Nat,
         NEW c \in Nat, NEW d, NEW s \in Int, NEW t,
         u[k] = (w[k] + e + c) % B, d = (w[k] + e + c) \div B, t = s + Weight[k] * e,
         Value(u, 0, k - 1) + c * Weight[k] = Value(w, 0, k - 1) + s
  PROVE  /\ d \in Nat /\ t \in Int
         /\ Value(u, 0, k) + d * Weight[k + 1] = Value(w, 0, k) + t
<1>1. /\ B \in Nat \ {0} /\ N \in Nat /\ k \in 0 .. 2 * N /\ Weight[k] \in Nat
      /\ Weight[k + 1] = B * Weight[k] /\ w[k] \in Nat /\ u[k] \in Int
      /\ \A n \in 0 .. k : w[n] \in Int /\ u[n] \in Int
  <2>1. B \in Nat \ {0} /\ N \in Nat /\ k \in 0 .. 2 * N /\ k \in 0 .. 2 * N + 1
        /\ k \in 0 .. 2 * N + 2
    BY Radix
  <2>2. Weight[k] \in Nat /\ Weight[k + 1] = B * Weight[k]
    BY <2>1, Radix
  <2>3. w[k] \in Byte
    BY WideInts
  <2>4. w[k] \in Nat
    BY <2>1, <2>3 DEF Byte
  <2>5. \A n \in 0 .. k : n \in 0 .. 2 * N - 1
    BY <2>1
  <2>6. \A n \in 0 .. k : w[n] \in Int /\ u[n] \in Int
    BY <2>5, WideInts
  <2> QED  BY <2>1, <2>2, <2>4, <2>6
<1> DEFINE m == w[k] + e + c
<1>2. m \in Nat
  BY <1>1
<1>3. m \div B \in Nat /\ m % B \in Int /\ m = B * (m \div B) + (m % B)
  BY <1>1, <1>2, NatDivides
<1>4. /\ Value(w, 0, k) \in Int /\ Value(w, 0, k - 1) \in Int
      /\ Value(w, 0, k) = Value(w, 0, k - 1) + Weight[k] * w[k]
      /\ Value(u, 0, k) \in Int /\ Value(u, 0, k - 1) \in Int
      /\ Value(u, 0, k) = Value(u, 0, k - 1) + Weight[k] * u[k]
  BY <1>1, ValueTop
<1>6. d = m \div B /\ u[k] = m % B
  OBVIOUS
<1> HIDE DEF m
<1>7. m = w[k] + e + c
  BY DEF m
<1>8. Value(u, 0, k) + d * (B * Weight[k]) = Value(w, 0, k) + (s + Weight[k] * e)
  <2>1. w[k] + e + c = B * d + u[k] /\ d \in Int
    BY <1>3, <1>6, <1>7
  <2> DEFINE W0 == Value(w, 0, k - 1)  W1 == Value(w, 0, k)
             U0 == Value(u, 0, k - 1)  U1 == Value(u, 0, k)  g == Weight[k]
             r == u[k]  a == w[k]  f == d * (B * g)  m1 == g * a  m2 == g * r  m3 == g * e  m4 == c * g
  <2>2. W0 \in Int /\ W1 \in Int /\ U0 \in Int /\ U1 \in Int
    BY <1>4
  <2>3. g \in Int /\ r \in Int /\ a \in Int
    BY <1>1
  <2>4. B \in Int /\ d \in Int /\ e \in Int /\ c \in Int
    BY <1>1, <2>1
  <2>5. /\ W1 = W0 + m1 /\ U1 = U0 + m2 /\ U0 + m4 = W0 + s /\ a + e + c = B * d + r
    BY <1>4, <2>1
  <2> HIDE DEF W0, W1, U0, U1, g, r, a
  <2>6. g * (a + e + c) = g * (B * d + r)
    BY <2>5
  <2>7. g * (B * d + r) = f + m2
    BY <2>3, <2>4
  <2>8. g * (a + e + c) = m1 + m3 + m4
    BY <2>3, <2>4
  <2>9. f + m2 = m1 + m3 + m4
    BY <2>6, <2>7, <2>8
  <2>10. f \in Int /\ m1 \in Int /\ m2 \in Int /\ m3 \in Int /\ m4 \in Int
    BY <2>3, <2>4
  <2>11. U1 + f = W1 + (s + m3)
    <3> HIDE DEF f, m1, m2, m3, m4
    <3> QED  BY <2>2, <2>5, <2>9, <2>10
  <2> QED  BY <2>11 DEF W0, W1, U0, U1, g, r, a
<1>9. t \in Int
  BY <1>1
<1> QED  BY <1>1, <1>3, <1>6, <1>8, <1>9
(***************************************************************************)
(* A table product added at byte `from`: the carries out of its six bytes.  *)
(***************************************************************************)
Digit(byte, n) == IF n < 4 THEN Entry(byte, n) ELSE 0

AddCarry(c, w, from, byte) ==
  c = [n \in 0 .. 6 |->
        IF n = 0 THEN 0
        ELSE (w[from + n - 1] + (IF n <= 4 THEN Entry(byte, n - 1) ELSE 0) + c[n - 1]) \div B]

AddedWith(u, c, w, from, byte) ==
  u = [k \in DOMAIN w |->
         IF k \in from .. from + 5
           THEN (w[k] + (IF k < from + 4 THEN Entry(byte, k - from) ELSE 0) + c[k - from]) % B
           ELSE w[k]]

LEMMA AddCarryExists ==
  ASSUME NEW w, NEW from \in Nat, NEW byte
  PROVE  \E c : AddCarry(c, w, from, byte)
<1> DEFINE s(n, d) == (w[from + n - 1] + (IF n <= 4 THEN Entry(byte, n - 1) ELSE 0) + d) \div B
           d1 == s(1, 0)  d2 == s(2, d1)  d3 == s(3, d2)
           d4 == s(4, d3) d5 == s(5, d4)  d6 == s(6, d5)
           c == [n \in 0 .. 6 |-> IF n = 0 THEN 0 ELSE IF n = 1 THEN d1 ELSE IF n = 2 THEN d2
                   ELSE IF n = 3 THEN d3 ELSE IF n = 4 THEN d4 ELSE IF n = 5 THEN d5 ELSE d6]
<1>1. d1 = s(1, 0) /\ d2 = s(2, d1) /\ d3 = s(3, d2) /\ d4 = s(4, d3) /\ d5 = s(5, d4)
      /\ d6 = s(6, d5)
  OBVIOUS
<1> HIDE DEF d1, d2, d3, d4, d5, d6
<1>2. /\ c[0] = 0 /\ c[1] = d1 /\ c[2] = d2 /\ c[3] = d3 /\ c[4] = d4 /\ c[5] = d5 /\ c[6] = d6
  OBVIOUS
<1>3. c = [n \in 0 .. 6 |-> c[n]]
  OBVIOUS
<1> HIDE DEF c, s
<1>4. ASSUME NEW n \in 0 .. 6  PROVE c[n] = IF n = 0 THEN 0 ELSE s(n, c[n - 1])
  <2>1. n = 0 \/ n = 1 \/ n = 2 \/ n = 3 \/ n = 4 \/ n = 5 \/ n = 6
    OBVIOUS
  <2>2. CASE n = 0
    BY <2>2, <1>2
  <2>3. CASE n = 1
    BY <2>3, <1>1, <1>2
  <2>4. CASE n = 2
    BY <2>4, <1>1, <1>2
  <2>5. CASE n = 3
    BY <2>5, <1>1, <1>2
  <2>6. CASE n = 4
    BY <2>6, <1>1, <1>2
  <2>7. CASE n = 5
    BY <2>7, <1>1, <1>2
  <2>8. CASE n = 6
    BY <2>8, <1>1, <1>2
  <2> QED  BY <2>1, <2>2, <2>3, <2>4, <2>5, <2>6, <2>7, <2>8
<1>5. c = [n \in 0 .. 6 |-> IF n = 0 THEN 0 ELSE s(n, c[n - 1])]
  BY <1>3, <1>4
<1>6. AddCarry(c, w, from, byte)
  BY <1>5 DEF AddCarry, s
<1> QED  BY <1>6

LEMMA AddedSteps ==
  ASSUME NEW w, NEW from \in Nat, NEW byte, NEW u, u = Added(w, from, byte)
  PROVE  \E c : /\ c[0] = 0
                /\ \A n \in 0 .. 5 : c[n + 1] = (w[from + n] + Digit(byte, n) + c[n]) \div B
                /\ AddedWith(u, c, w, from, byte)
<1> DEFINE c == CHOOSE d : AddCarry(d, w, from, byte)
<1>1. AddCarry(c, w, from, byte)
  BY AddCarryExists
<1>2. AddedWith(u, c, w, from, byte)
  BY DEF Added, AddCarry, AddedWith
<1> HIDE DEF c
<1>3. \A n \in 0 .. 6 : c[n] = IF n = 0 THEN 0
        ELSE (w[from + n - 1] + (IF n <= 4 THEN Entry(byte, n - 1) ELSE 0) + c[n - 1]) \div B
  BY <1>1 DEF AddCarry
<1>4. c[0] = 0
  BY <1>3
<1>5. ASSUME NEW n \in 0 .. 5  PROVE c[n + 1] = (w[from + n] + Digit(byte, n) + c[n]) \div B
  <2>1. /\ n + 1 \in 0 .. 6 /\ n + 1 # 0 /\ (n + 1) - 1 = n /\ from + (n + 1) - 1 = from + n
        /\ n + 1 <= 4 <=> n < 4
    OBVIOUS
  <2> QED  BY <1>3, <2>1 DEF Digit
<1> QED  BY <1>2, <1>4, <1>5

LEMMA AddedExact ==
  ASSUME RadixFits, A24Fits, NEW w \in Wide, NEW from \in Bytes, NEW byte \in Byte,
         NEW u, u = Added(w, from, byte)
  PROVE  /\ u \in Wide
         /\ \A k \in from + 6 .. 2 * N - 1 : u[k] = w[k]
         /\ \E out \in Nat : Value(u, 0, from + 5) + out * Weight[from + 6]
                               = Value(w, 0, from + 5) + Weight[from] * (A24 * byte)
<1>1. /\ B \in Nat \ {0} /\ N \in Nat /\ N >= 5 /\ from \in Nat /\ from + 5 <= 2 * N - 1
      /\ Weight[0] = 1 /\ Weight[from] \in Nat
  <2>1. B \in Nat \ {0} /\ N \in Nat /\ N >= 5 /\ from \in Nat /\ from + 5 <= 2 * N - 1
        /\ from \in 0 .. 2 * N + 2 /\ Weight[0] = 1
    BY Radix, A24Room DEF Bytes
  <2> QED  BY <2>1, Radix
<1>2. PICK c : /\ c[0] = 0
               /\ \A n \in 0 .. 5 : c[n + 1] = (w[from + n] + Digit(byte, n) + c[n]) \div B
               /\ AddedWith(u, c, w, from, byte)
  BY <1>1, AddedSteps
<1>3. \A n \in 0 .. 5 : Digit(byte, n) \in Nat
  BY <1>1, EntriesAreTheProduct DEF Digit, Byte
<1>4. ASSUME NEW n \in 0 .. 5  PROVE u[from + n] = (w[from + n] + Digit(byte, n) + c[n]) % B
  <2>1. from + n \in 0 .. 2 * N - 1 /\ from + n \in from .. from + 5 /\ (from + n) - from = n
        /\ (from + n < from + 4 <=> n < 4)
    BY <1>1
  <2> QED  BY <1>2, <2>1 DEF AddedWith, Wide, Digit
<1>5. \A k \in 0 .. 2 * N - 1 : k \notin from .. from + 5 => u[k] = w[k]
  BY <1>2 DEF AddedWith, Wide
<1>6. \A n \in 0 .. 5 : w[from + n] \in Nat
  <2>1. \A n \in 0 .. 5 : from + n \in 0 .. 2 * N - 1
    BY <1>1
  <2> QED  BY <2>1, <1>1 DEF Wide, Byte
<1>7. ASSUME NEW n \in 0 .. 5, c[n] \in Nat
      PROVE  c[n + 1] \in Nat /\ u[from + n] \in Byte
  <2> DEFINE m == w[from + n] + Digit(byte, n) + c[n]
  <2>1. m \in Nat
    BY <1>3, <1>6, <1>7
  <2>2. c[n + 1] = m \div B /\ u[from + n] = m % B
    BY <1>2, <1>4
  <2> HIDE DEF m
  <2> QED  BY <1>1, <2>1, <2>2, NatDivides DEF Byte
<1>8. \A n \in 0 .. 5 : c[n] \in Nat /\ c[n + 1] \in Nat /\ u[from + n] \in Byte
  <2>0. c[0 + 1] = c[1] /\ c[1 + 1] = c[2] /\ c[2 + 1] = c[3] /\ c[3 + 1] = c[4] /\ c[4 + 1] = c[5]
    OBVIOUS
  <2>1. c[0] \in Nat /\ c[1] \in Nat
    BY <1>2, <1>7, <2>0
  <2>2. c[2] \in Nat
    BY <2>1, <1>7, <2>0
  <2>3. c[3] \in Nat
    BY <2>2, <1>7, <2>0
  <2>4. c[4] \in Nat
    BY <2>3, <1>7, <2>0
  <2>5. c[5] \in Nat
    BY <2>4, <1>7, <2>0
  <2>6. \A n \in 0 .. 5 : c[n] \in Nat
    BY <2>1, <2>2, <2>3, <2>4, <2>5
  <2> QED  BY <2>6, <1>7
<1>9. u \in Wide
  <2>1. \A k \in 0 .. 2 * N - 1 : u[k] \in Byte
    <3> SUFFICES ASSUME NEW k \in 0 .. 2 * N - 1  PROVE u[k] \in Byte
      OBVIOUS
    <3>1. CASE k \in from .. from + 5
      <4>1. k - from \in 0 .. 5 /\ from + (k - from) = k
        BY <3>1, <1>1
      <4> QED  BY <4>1, <1>8
    <3>2. CASE k \notin from .. from + 5
      BY <3>2, <1>5 DEF Wide
    <3> QED  BY <3>1, <3>2
  <2>2. u = [k \in 0 .. 2 * N - 1 |-> u[k]]
    BY <1>2 DEF AddedWith, Wide
  <2> QED  BY <2>1, <2>2 DEF Wide
<1> DEFINE Sum(n, s) == Value(u, 0, (from + n) - 1) + c[n] * Weight[from + n]
                          = Value(w, 0, (from + n) - 1) + s
<1>10. ASSUME NEW n \in 0 .. 5, NEW s \in Int, Sum(n, s)
       PROVE  /\ s + Weight[from + n] * Digit(byte, n) \in Int
              /\ Sum(n + 1, s + Weight[from + n] * Digit(byte, n))
  <2>1. from + n \in 0 .. 2 * N - 1 /\ (from + (n + 1)) - 1 = from + n /\ from + (n + 1) = (from + n) + 1
    BY <1>1
  <2> DEFINE k == from + n  e == Digit(byte, n)  b == c[n]  d == c[n + 1]
             t == s + Weight[from + n] * Digit(byte, n)
  <2>2. /\ e \in Nat /\ b \in Nat /\ u[k] = (w[k] + e + b) % B /\ d = (w[k] + e + b) \div B
        /\ t = s + Weight[k] * e /\ Value(u, 0, k - 1) + b * Weight[k] = Value(w, 0, k - 1) + s
        /\ s \in Int
    BY <1>2, <1>3, <1>4, <1>8, <1>10
  <2>3. d \in Nat /\ t \in Int /\ Value(u, 0, k) + d * Weight[k + 1] = Value(w, 0, k) + t
    <3>1. k \in 0 .. 2 * N - 1
      BY <2>1
    <3> HIDE DEF k, e, b, d, t
    <3> QED  BY <1>9, <2>2, <3>1, AddedByte
  <2> QED  BY <2>1, <2>3
<1>11. Sum(0, 0)
  <2>1. Value(u, 0, (from + 0) - 1) = Value(w, 0, (from + 0) - 1)
    <3>1. 0 \in Int /\ (from + 0) - 1 \in Int /\ 0 <= ((from + 0) - 1) + 1
          /\ \A k \in 0 .. (from + 0) - 1 : u[k] = w[k]
      BY <1>1, <1>5
    <3> QED  BY <3>1, ValueSame
  <2>2. Value(w, 0, (from + 0) - 1) \in Int
    <3>1. from \in 0 .. 2 * N /\ (from + 0) - 1 = from - 1
          /\ \A k \in 0 .. from - 1 : w[k] \in Byte
      BY <1>1 DEF Wide
    <3>2. Value(w, 0, from - 1) \in 0 .. Weight[from] - 1
      BY <3>1, ValueBound
    <3> QED  BY <1>1, <3>1, <3>2
  <2>3. c[0] = 0 /\ Weight[from + 0] \in Nat
    BY <1>1, <1>2
  <2> QED  BY <2>1, <2>2, <2>3
<1> HIDE DEF Sum
<1> DEFINE e0 == Weight[from + 0] * Digit(byte, 0)  e1 == Weight[from + 1] * Digit(byte, 1)
           e2 == Weight[from + 2] * Digit(byte, 2)  e3 == Weight[from + 3] * Digit(byte, 3)
           e4 == Weight[from + 4] * Digit(byte, 4)  e5 == Weight[from + 5] * Digit(byte, 5)
<1>12. Sum(0 + 1, 0 + e0) /\ 0 + e0 \in Int
  BY <1>10, <1>11
<1>13. Sum(1 + 1, (0 + e0) + e1) /\ (0 + e0) + e1 \in Int
  BY <1>10, <1>12
<1>14. Sum(2 + 1, ((0 + e0) + e1) + e2) /\ ((0 + e0) + e1) + e2 \in Int
  BY <1>10, <1>13
<1>15. Sum(3 + 1, (((0 + e0) + e1) + e2) + e3) /\ (((0 + e0) + e1) + e2) + e3 \in Int
  BY <1>10, <1>14
<1>16. Sum(4 + 1, ((((0 + e0) + e1) + e2) + e3) + e4) /\ ((((0 + e0) + e1) + e2) + e3) + e4 \in Int
  BY <1>10, <1>15
<1>17. Sum(5 + 1, (((((0 + e0) + e1) + e2) + e3) + e4) + e5)
       /\ (((((0 + e0) + e1) + e2) + e3) + e4) + e5 \in Int
  BY <1>10, <1>16
<1>18. (((((0 + e0) + e1) + e2) + e3) + e4) + e5 = Weight[from] * (A24 * byte)
  <2>1. /\ Weight[from + 0] = Weight[from] /\ Weight[from + 1] = Weight[from] * B
        /\ Weight[from + 2] = Weight[from] * (B * B)
        /\ Weight[from + 3] = Weight[from] * (B * (B * B))
        /\ Weight[from + 4] \in Nat /\ Weight[from + 5] \in Nat
    <3>1. \A n \in 0 .. 5 : from + n <= 2 * N + 2 /\ from + n \in 0 .. 2 * N + 2
      BY <1>1
    <3>2. \A n \in 0 .. 5 : Weight[from + n] = Weight[from] * Weight[n]
      BY <1>1, <3>1, WeightAdd
    <3>3. \A n \in 0 .. 5 : Weight[from + n] \in Nat
      BY <3>1, Radix
    <3>4. from + 0 = from
      BY <1>1
    <3> QED  BY <3>2, <3>3, <3>4, A24Room
  <2>2. /\ Digit(byte, 0) = Entry(byte, 0) /\ Digit(byte, 1) = Entry(byte, 1) /\ Digit(byte, 2) = Entry(byte, 2)
        /\ Digit(byte, 3) = Entry(byte, 3) /\ Digit(byte, 4) = 0 /\ Digit(byte, 5) = 0
    BY DEF Digit
  <2>3. e4 = 0 /\ e5 = 0
    BY <2>1, <2>2
  <2> DEFINE g == Weight[from]  x0 == Entry(byte, 0)  x1 == Entry(byte, 1)  x2 == Entry(byte, 2)  x3 == Entry(byte, 3)
             b2 == B * B  b3 == B * (B * B)
  <2>4. /\ e0 = g * x0 /\ e1 = (g * B) * x1 /\ e2 = (g * b2) * x2 /\ e3 = (g * b3) * x3
    BY <2>1, <2>2
  <2>5. /\ g \in Int /\ x0 \in Int /\ x1 \in Int /\ x2 \in Int /\ x3 \in Int /\ B \in Int
        /\ b2 \in Int /\ b3 \in Int
    BY <1>1, <1>3, <2>2
  <2>6. x0 + B * x1 + b2 * x2 + b3 * x3 = A24 * byte
    BY EntriesAreTheProduct
  <2> HIDE DEF e0, e1, e2, e3, e4, e5, g, x0, x1, x2, x3, b2, b3
  <2>7. g * (x0 + B * x1 + b2 * x2 + b3 * x3) = g * x0 + (g * B) * x1 + (g * b2) * x2 + (g * b3) * x3
    BY <2>5
  <2>8. g * (x0 + B * x1 + b2 * x2 + b3 * x3) = e0 + e1 + e2 + e3
    BY <2>4, <2>7
  <2>9. e0 \in Int /\ e1 \in Int /\ e2 \in Int /\ e3 \in Int
    BY <2>4, <2>5
  <2>10. (((((0 + e0) + e1) + e2) + e3) + e4) + e5 = e0 + e1 + e2 + e3
    BY <2>3, <2>9
  <2>11. e0 + e1 + e2 + e3 = g * (A24 * byte)
    BY <2>6, <2>8
  <2> QED  BY <2>10, <2>11 DEF g
<1>19. Sum(6, Weight[from] * (A24 * byte))
  BY <1>17, <1>18
<1>20. Value(u, 0, from + 5) + c[6] * Weight[from + 6] = Value(w, 0, from + 5) + Weight[from] * (A24 * byte)
  <2>1. (from + 6) - 1 = from + 5
    BY <1>1
  <2> QED  BY <1>19, <2>1 DEF Sum
<1>21. c[6] \in Nat
  <2>1. c[5 + 1] \in Nat /\ 5 + 1 = 6
    BY <1>8
  <2> QED  BY <2>1
<1>22. \A k \in from + 6 .. 2 * N - 1 : u[k] = w[k]
  BY <1>1, <1>5
<1> QED  BY <1>9, <1>20, <1>21, <1>22

(***************************************************************************)
(* The product in fe_wide: what is above it, and its first fold.            *)
(***************************************************************************)
HighFold(w, j) ==
  (IF j <= 0 THEN (Fold * w[N]) * Weight[0] ELSE 0)
    + (IF j <= 1 THEN (Fold * w[N + 1]) * Weight[1] ELSE 0)
    + (IF j <= 2 THEN (Fold * w[N + 2]) * Weight[2] ELSE 0)

LEMMA A24Bytes ==
  ASSUME RadixFits, A24Fits, NEW w \in Wide, NEW total, Value(w, 0, N + 4) = total,
         total < Weight[N + 3]
  PROVE  /\ total \in Nat
         /\ w[N + 3] = 0 /\ w[N + 4] = 0 /\ Value(w, 0, N + 2) = total
         /\ Value(w, 0, N - 1) + HighFold(w, 0) = FoldOnce(total)
<1>1. /\ B \in Nat \ {0} /\ N \in Nat /\ N >= 5 /\ R \in Nat \ {0} /\ Fold \in Nat
      /\ Weight[0] = 1 /\ Weight[N] = R
      /\ \A k \in 0 .. 2 * N + 1 : Weight[k + 1] = B * Weight[k]
      /\ \A k \in 0 .. 2 * N + 2 : Weight[k] \in Nat \ {0}
  BY Radix, A24Room, Constants
<1>2. /\ N \in 0 .. 2 * N + 1 /\ N + 1 \in 0 .. 2 * N + 1 /\ N + 2 \in 0 .. 2 * N + 1
      /\ N + 3 \in 0 .. 2 * N + 1 /\ (N + 1) + 1 = N + 2 /\ (N + 2) + 1 = N + 3 /\ (N + 3) + 1 = N + 4
  BY <1>1
<1>3. /\ Weight[N + 1] = B * R /\ Weight[N + 2] = B * (B * R)
      /\ Weight[N + 4] = B * Weight[N + 3] /\ Weight[N + 3] \in Nat \ {0}
  BY <1>1, <1>2
<1>4. ASSUME NEW n \in N .. N + 4
      PROVE  /\ w[n] \in Nat /\ Value(w, 0, n) \in Int /\ Value(w, 0, n - 1) \in Int
             /\ Value(w, 0, n) = Value(w, 0, n - 1) + Weight[n] * w[n]
  <2>1. n \in 0 .. 2 * N /\ n \in 0 .. 2 * N - 1 /\ \A k \in 0 .. n : k \in 0 .. 2 * N - 1
    BY <1>1
  <2>2. w[n] \in Byte /\ \A k \in 0 .. n : w[k] \in Int
    BY <2>1, WideInts
  <2> QED  BY <1>1, <2>1, <2>2, ValueTop DEF Byte
<1>5. /\ N \in N .. N + 4 /\ N + 1 \in N .. N + 4 /\ N + 2 \in N .. N + 4 /\ N + 3 \in N .. N + 4
      /\ N + 4 \in N .. N + 4 /\ (N + 1) - 1 = N /\ (N + 2) - 1 = N + 1 /\ (N + 3) - 1 = N + 2
      /\ (N + 4) - 1 = N + 3
  BY <1>1
<1> DEFINE low == Value(w, 0, N - 1)  v2 == Value(w, 0, N + 2)
           h0 == w[N]  h1 == w[N + 1]  h2 == w[N + 2]  h3 == w[N + 3]  h4 == w[N + 4]
           g == Weight[N + 3]
<1>6. low \in 0 .. R - 1 /\ v2 \in Nat
  <2>0. /\ N \in 0 .. 2 * N /\ 0 .. N - 1 \subseteq 0 .. 2 * N - 1
        /\ N + 3 \in 0 .. 2 * N /\ 0 .. (N + 3) - 1 \subseteq 0 .. 2 * N - 1
    <3>1. N \in Nat /\ N >= 5
      BY <1>1
    <3> QED  BY <3>1
  <2>1. \A k \in 0 .. N - 1 : w[k] \in Byte
    BY <2>0 DEF Wide
  <2>2. low \in 0 .. R - 1
    <3>1. Value(w, 0, N - 1) \in 0 .. Weight[N] - 1
      BY <2>0, <2>1, ValueBound
    <3> QED  BY <1>1, <3>1
  <2>3. \A k \in 0 .. (N + 3) - 1 : w[k] \in Byte
    BY <2>0 DEF Wide
  <2>4. Value(w, 0, (N + 3) - 1) \in 0 .. Weight[N + 3] - 1
    BY <2>0, <2>3, ValueBound
  <2>5. v2 \in Nat
    BY <1>3, <1>5, <2>4
  <2> QED  BY <2>2, <2>5
<1>7. /\ h0 \in Nat /\ h1 \in Nat /\ h2 \in Nat /\ h3 \in Nat /\ h4 \in Nat
      /\ Value(w, 0, N) = low + R * h0
      /\ Value(w, 0, N + 1) = Value(w, 0, N) + (B * R) * h1
      /\ v2 = Value(w, 0, N + 1) + (B * (B * R)) * h2
      /\ Value(w, 0, N + 3) = v2 + g * h3
      /\ total = Value(w, 0, N + 3) + (B * g) * h4
      /\ Value(w, 0, N) \in Int /\ Value(w, 0, N + 1) \in Int /\ Value(w, 0, N + 3) \in Int
  BY <1>1, <1>3, <1>4, <1>5
<1>8. total < g /\ g \in Nat \ {0} /\ total = v2 + g * h3 + (B * g) * h4
  BY <1>3, <1>7
<1>9. h3 = 0 /\ h4 = 0
  <2> HIDE DEF g, v2, h3, h4
  <2>1. (B * g) \in Nat /\ B * g >= g
    BY <1>1, <1>8
  <2>2. h4 = 0
    <3>1. h4 > 0 => (B * g) * h4 >= B * g
      BY <2>1, <1>7
    <3>2. g * h3 >= 0 /\ g * h3 \in Int /\ (B * g) * h4 \in Int
      BY <1>7, <1>8, <2>1
    <3> QED  BY <3>1, <3>2, <2>1, <1>6, <1>7, <1>8
  <2>3. total = v2 + g * h3
    BY <1>6, <1>7, <1>8, <2>1, <2>2
  <2>4. h3 > 0 => g * h3 >= g
    BY <1>7, <1>8
  <2>5. g * h3 \in Int
    BY <1>7, <1>8
  <2> QED  BY <1>6, <1>7, <1>8, <2>2, <2>3, <2>4, <2>5
<1>10. total = v2
  BY <1>1, <1>6, <1>8, <1>9
<1> DEFINE q == h0 + B * h1 + (B * B) * h2
<1>11. q \in Nat /\ total = R * q + low
  <2> DEFINE p1 == B * h1  p2 == (B * B) * h2  r1 == (B * R) * h1  r2 == (B * (B * R)) * h2
             r0 == R * h0
  <2>1. B \in Nat /\ R \in Nat /\ h0 \in Nat /\ h1 \in Nat /\ h2 \in Nat /\ low \in Int
    BY <1>1, <1>6, <1>7
  <2> HIDE DEF low, h0, h1, h2
  <2>2. p1 \in Nat /\ p2 \in Nat /\ r0 \in Int /\ r1 \in Int /\ r2 \in Int
    BY <2>1
  <2>3. q \in Nat
    BY <2>1, <2>2
  <2>4. R * p1 = r1 /\ R * p2 = r2
    BY <2>1
  <2>5. R * (h0 + p1 + p2) = R * h0 + R * p1 + R * p2
    <3> HIDE DEF p1, p2
    <3> QED  BY <2>1, <2>2
  <2>6. R * q = r0 + r1 + r2
    BY <2>4, <2>5
  <2>7. total = ((low + r0) + r1) + r2
    BY <1>7, <1>10
  <2> HIDE DEF q, r0, r1, r2
  <2>8. R * q \in Int
    BY <2>2, <2>6
  <2>9. total = R * q + low
    BY <2>1, <2>2, <2>6, <2>7, <2>8
  <2> QED  BY <2>3, <2>9
<1>12. FoldOnce(total) = low + Fold * q
  <2> HIDE DEF low, q
  <2>1. R \in Nat \ {0} /\ q \in Int /\ low \in 0 .. R - 1 /\ total = R * q + low
    BY <1>1, <1>6, <1>11
  <2>2. total % R = low /\ total \div R = q
    BY <2>1, DivModUnique
  <2> QED  BY <2>2 DEF FoldOnce
<1>13. HighFold(w, 0) = Fold * q
  <2>1. Weight[1] = B /\ Weight[2] = B * B
    BY A24Room
  <2>2. HighFold(w, 0) = (Fold * h0) * 1 + (Fold * h1) * B + (Fold * h2) * (B * B)
    BY <1>1, <2>1 DEF HighFold
  <2> HIDE DEF h0, h1, h2
  <2> QED  BY <1>1, <1>7, <2>2
<1>14. low + HighFold(w, 0) = FoldOnce(total)
  BY <1>12, <1>13
<1>15. total \in Nat /\ v2 = total
  BY <1>6, <1>10
<1> QED  BY <1>9, <1>14, <1>15

(* One byte of the fold less to do. *)
LEMMA HighFoldStep ==
  ASSUME RadixFits, A24Fits, NEW w \in Wide, NEW u, NEW j \in 0 .. 2, NEW j1, j1 = j + 1,
         \A k \in N .. 2 * N - 1 : u[k] = w[k]
  PROVE  /\ HighFold(u, j1) \in Nat
         /\ HighFold(w, j) = (Fold * w[N + j]) * Weight[j] + HighFold(u, j1)
<1>1. /\ N \in Nat /\ N >= 5 /\ Weight[0] \in Nat /\ Weight[1] \in Nat /\ Weight[2] \in Nat
      /\ Fold \in Nat
  <2>1. N \in Nat /\ N >= 5 /\ 0 \in 0 .. 2 * N + 2 /\ 1 \in 0 .. 2 * N + 2 /\ 2 \in 0 .. 2 * N + 2
    BY Radix, A24Room
  <2> QED  BY <2>1, Radix, Constants
<1>2. /\ w[N] \in Nat /\ w[N + 1] \in Nat /\ w[N + 2] \in Nat
      /\ u[N] = w[N] /\ u[N + 1] = w[N + 1] /\ u[N + 2] = w[N + 2]
  <2>1. /\ N \in N .. 2 * N - 1 /\ N + 1 \in N .. 2 * N - 1 /\ N + 2 \in N .. 2 * N - 1
        /\ N \in 0 .. 2 * N - 1 /\ N + 1 \in 0 .. 2 * N - 1 /\ N + 2 \in 0 .. 2 * N - 1
    BY <1>1
  <2>2. w[N] \in Byte /\ w[N + 1] \in Byte /\ w[N + 2] \in Byte
    BY <2>1, WideInts
  <2> QED  BY <2>1, <2>2, Sizes DEF Byte
<1> DEFINE a == (Fold * w[N]) * Weight[0]  b == (Fold * w[N + 1]) * Weight[1]
           c == (Fold * w[N + 2]) * Weight[2]
<1>3. a \in Nat /\ b \in Nat /\ c \in Nat
  BY <1>1, <1>2
<1>4. /\ HighFold(w, j) = (IF j <= 0 THEN a ELSE 0) + (IF j <= 1 THEN b ELSE 0) + (IF j <= 2 THEN c ELSE 0)
      /\ HighFold(u, j1) = (IF j1 <= 0 THEN a ELSE 0) + (IF j1 <= 1 THEN b ELSE 0) + (IF j1 <= 2 THEN c ELSE 0)
  BY <1>2 DEF HighFold
<1>5. (Fold * w[N + j]) * Weight[j] = IF j = 0 THEN a ELSE IF j = 1 THEN b ELSE c
  <2>1. j = 0 \/ j = 1 \/ j = 2
    OBVIOUS
  <2>2. N + 0 = N
    BY <1>1
  <2> QED  BY <2>1, <2>2
<1> HIDE DEF a, b, c
<1> QED  BY <1>3, <1>4, <1>5

(* What one stage of the fold stores in w as u, and the carry d it leaves. *)
StageSums(w, j, c, f, sum, low, high, u, d) ==
  /\ f = Fold * w[N + j] /\ sum = w[j + 1] + c /\ low = w[j] + (f % B)
  /\ high = (sum % B) + (f \div B) + (low \div B)
  /\ Stored2(u, w, j, j + 1, low % B, high % B)
  /\ d = (sum \div B) + (high \div B)

(* A stage: its bridge and its two bytes. *)
LEMMA StageStored ==
  ASSUME RadixFits, A24Fits, NEW w \in Wide, NEW j \in 0 .. 2, NEW c \in 0 .. 2,
         NEW f, NEW sum, NEW low, NEW high, NEW u, NEW d,
         StageSums(w, j, c, f, sum, low, high, u, d)
  PROVE  /\ u \in Wide /\ \A k \in N .. 2 * N - 1 : u[k] = w[k]
         /\ d \in 0 .. 2
         /\ Value(u, 0, N - 1) + d * Weight[j + 2]
              = Value(w, 0, N - 1) + c * Weight[j + 1] + f * Weight[j]
<1>0. /\ f = Fold * w[N + j] /\ sum = w[j + 1] + c /\ low = w[j] + (f % B)
      /\ high = (sum % B) + (f \div B) + (low \div B)
      /\ Stored2(u, w, j, j + 1, low % B, high % B)
      /\ d = (sum \div B) + (high \div B)
  BY DEF StageSums
<1>1. /\ B \in Nat \ {0} /\ B > 2 /\ N \in Nat /\ N >= 5 /\ Fold \in Nat /\ Fold < B
      /\ Weight[j] \in Nat /\ Weight[j + 1] = B * Weight[j] /\ Weight[j + 2] = B * (B * Weight[j])
  <2>1. B \in Nat \ {0} /\ B > 2 /\ N \in Nat /\ N >= 5 /\ Fold \in Nat /\ Fold < B
        /\ j \in 0 .. 2 * N + 1 /\ j + 1 \in 0 .. 2 * N + 1 /\ (j + 1) + 1 = j + 2
        /\ j \in 0 .. 2 * N + 2
    BY Radix, A24Room, Constants
  <2> QED  BY <2>1, Radix
<1>2. w[j] \in 0 .. B - 1 /\ w[j + 1] \in 0 .. B - 1 /\ w[N + j] \in 0 .. B - 1
  <2>1. j \in 0 .. 2 * N - 1 /\ j + 1 \in 0 .. 2 * N - 1 /\ N + j \in 0 .. 2 * N - 1
    BY <1>1
  <2> QED  BY <2>1, WideInts DEF Byte
<1> DEFINE a == w[j]  b == w[j + 1]
<1>3. a \in 0 .. B - 1 /\ b \in 0 .. B - 1 /\ sum = b + c /\ low = a + (f % B)
  BY <1>0, <1>2
<1>4. f \in Nat /\ f < B * (B - 1)
  <2>1. PICK h \in 0 .. B - 1 : h = w[N + j]
    BY <1>2
  <2>2. Fold * h <= (B - 1) * h
    BY <1>1
  <2>3. (B - 1) * h <= (B - 1) * (B - 1)
    BY <1>1
  <2>4. (B - 1) * (B - 1) < B * (B - 1)
    BY <1>1
  <2>5. PICK k \in Nat, l \in Int, m \in Int, n \in Int :
          /\ k = Fold * h /\ l = (B - 1) * h
          /\ m = (B - 1) * (B - 1) /\ n = B * (B - 1)
    BY <1>1
  <2>6. f = k
    BY <2>1, <2>5, <1>0
  <2>7. k < n
    <3>1. k <= l /\ l <= m /\ m < n
      BY <2>2, <2>3, <2>4, <2>5
    <3> QED  BY <3>1
  <2> QED  BY <2>5, <2>6, <2>7
<1>5. f % B \in 0 .. B - 1 /\ f \div B \in 0 .. B - 2 /\ f = B * (f \div B) + (f % B)
  <2>1. f < B * ((B - 2) + 1) /\ B - 2 \in Nat
    BY <1>1, <1>4
  <2> QED  BY <1>1, <1>4, <2>1, Quotient
<1> HIDE DEF a, b
<1>6. sum \in Nat /\ sum % B \in 0 .. B - 1 /\ sum \div B \in 0 .. 1 /\ sum = B * (sum \div B) + (sum % B)
  <2>1. sum \in Nat /\ sum < 2 * B
    <3>1. \A x1 \in 0 .. B - 1, x2 \in 0 .. 2 : x1 + x2 \in Nat /\ x1 + x2 < 2 * B
      BY <1>1
    <3> QED  BY <1>3, <3>1
  <2>2. 2 * B = B * (1 + 1)
    BY <1>1
  <2>3. sum < B * (1 + 1)
    BY <2>1, <2>2
  <2> QED  BY <1>1, <2>1, <2>3, Quotient
<1>7. low \in Nat /\ low % B \in 0 .. B - 1 /\ low \div B \in 0 .. 1 /\ low = B * (low \div B) + (low % B)
  <2>1. low \in Nat /\ low < 2 * B
    <3>1. \A x1, x2 \in 0 .. B - 1 : x1 + x2 \in Nat /\ x1 + x2 < 2 * B
      BY <1>1
    <3> QED  BY <1>3, <1>5, <3>1
  <2>2. 2 * B = B * (1 + 1)
    BY <1>1
  <2>3. low < B * (1 + 1)
    BY <2>1, <2>2
  <2> QED  BY <1>1, <2>1, <2>3, Quotient
<1>8. high \in Nat /\ high % B \in 0 .. B - 1 /\ high \div B \in 0 .. 1 /\ high = B * (high \div B) + (high % B)
  <2>1. high \in Nat /\ high < 2 * B
    <3>1. \A x1 \in 0 .. B - 1, x2 \in 0 .. B - 2, x3 \in 0 .. 1 :
            x1 + x2 + x3 \in Nat /\ x1 + x2 + x3 < 2 * B
      BY <1>1
    <3>2. sum % B \in 0 .. B - 1
      BY <1>6
    <3>3. f \div B \in 0 .. B - 2
      BY <1>5
    <3>4. low \div B \in 0 .. 1
      BY <1>7
    <3>5. high = (sum % B) + (f \div B) + (low \div B)
      BY <1>0
    <3> QED  BY <3>1, <3>2, <3>3, <3>4, <3>5
  <2>2. 2 * B = B * (1 + 1)
    BY <1>1
  <2>3. high < B * (1 + 1)
    BY <2>1, <2>2
  <2> QED  BY <1>1, <2>1, <2>3, Quotient
<1>9. d \in 0 .. 2
  <2>1. \A x1, x2 \in 0 .. 1 : x1 + x2 \in 0 .. 2
    OBVIOUS
  <2>2. sum \div B \in 0 .. 1 /\ high \div B \in 0 .. 1
    BY <1>6, <1>8
  <2> QED  BY <1>0, <2>1, <2>2
<1>10. /\ u \in Wide
       /\ \A k \in 0 .. 2 * N - 1 : k # j /\ k # j + 1 => u[k] = w[k]
       /\ Value(u, 0, N - 1)
            = Value(w, 0, N - 1) + Weight[j] * ((low % B) - w[j]) + Weight[j + 1] * ((high % B) - w[j + 1])
  <2>1. N - 1 \in 0 .. 2 * N - 1 /\ j \in 0 .. (N - 1) - 1 /\ j + 1 \in Int
    <3>1. N \in Nat /\ N >= 5 /\ j \in 0 .. 2
      BY <1>1
    <3> QED  BY <3>1
  <2>5. low % B \in Byte /\ high % B \in Byte
    BY <1>7, <1>8 DEF Byte
  <2> DEFINE m == low % B  n == high % B  k1 == j + 1
  <2>2. m \in Byte /\ n \in Byte /\ k1 = j + 1 /\ k1 \in Int /\ Stored2(u, w, j, k1, m, n)
    BY <1>0, <2>1, <2>5
  <2> HIDE DEF m, n, k1
  <2>3. /\ u \in Wide
        /\ \A k \in 0 .. 2 * N - 1 : k # j /\ k # k1 => u[k] = w[k]
        /\ Value(u, 0, N - 1) = Value(w, 0, N - 1) + Weight[j] * (m - w[j]) + Weight[k1] * (n - w[k1])
    BY <2>1, <2>2, TwoStored
  <2> QED  BY <2>3 DEF m, n, k1
<1>11. \A k \in N .. 2 * N - 1 : u[k] = w[k]
  BY <1>1, <1>10
<1>12. Value(u, 0, N - 1) \in Int /\ Value(w, 0, N - 1) \in Int
  <2>0. N \in 0 .. 2 * N /\ 0 .. N - 1 \subseteq 0 .. 2 * N - 1
    <3>1. N \in Nat
      BY <1>1
    <3> QED  BY <3>1
  <2>1. \A k \in 0 .. N - 1 : u[k] \in Byte /\ w[k] \in Byte
    BY <1>10, <2>0 DEF Wide
  <2>2. Value(u, 0, N - 1) \in 0 .. R - 1 /\ Value(w, 0, N - 1) \in 0 .. R - 1
    BY <2>0, <2>1, ValueBound, Sizes
  <2> QED  BY <2>2, Sizes
<1> DEFINE V == Value(u, 0, N - 1)  W == Value(w, 0, N - 1)  g == Weight[j]
           m == low % B  n == high % B  lq == low \div B  hq == high \div B  sq == sum \div B  sr == sum % B
           fq == f \div B  fr == f % B
<1>13. V = W + g * (m - a) + (B * g) * (n - b) /\ d = sq + hq
  BY <1>0, <1>1, <1>10 DEF a, b
<1>14. /\ low = B * lq + m /\ high = B * hq + n /\ sum = B * sq + sr /\ f = B * fq + fr
       /\ low = a + fr /\ high = sr + fq + lq /\ sum = b + c
  BY <1>0, <1>3, <1>5, <1>6, <1>7, <1>8
<1>15. /\ m \in Int /\ n \in Int /\ lq \in Int /\ hq \in Int /\ sq \in Int /\ sr \in Int /\ fq \in Int
       /\ fr \in Int /\ g \in Int /\ V \in Int /\ W \in Int /\ a \in Int /\ b \in Int /\ c \in Int
  <2>1. m \in Int /\ n \in Int /\ lq \in Int /\ hq \in Int
    <3>1. low % B \in 0 .. B - 1 /\ low \div B \in 0 .. 1
      BY <1>7
    <3>2. high % B \in 0 .. B - 1 /\ high \div B \in 0 .. 1
      BY <1>8
    <3>3. \A e \in 0 .. B - 1 : e \in Int
      OBVIOUS
    <3>4. \A e \in 0 .. 1 : e \in Int
      OBVIOUS
    <3>5. m \in Int /\ n \in Int
      BY <3>1, <3>2, <3>3
    <3> QED  BY <3>1, <3>2, <3>4, <3>5
  <2>2. sq \in Int /\ sr \in Int
    BY <1>6
  <2>3. fq \in Int /\ fr \in Int
    BY <1>5
  <2>4. g \in Int /\ V \in Int /\ W \in Int
    BY <1>1, <1>12
  <2>5. a \in Int /\ b \in Int /\ c \in Int
    BY <1>3
  <2> QED  BY <2>1, <2>2, <2>3, <2>4, <2>5
<1>16. V + d * (B * (B * g)) = W + c * (B * g) + f * g
  <2> HIDE DEF V, W, g, m, n, lq, hq, sq, sr, fq, fr
  <2>1. (m - a) + B * (n - b) + (B * B) * (sq + hq) = B * c + f
    <3>1. m = a + fr - B * lq
      BY <1>14, <1>15, <1>1
    <3>2. n = (sr + fq + lq) - B * hq
      BY <1>14, <1>15, <1>1
    <3>3. sr = b + c - B * sq
      BY <1>14, <1>15, <1>1
    <3>4. B * (n - b) = B * c + B * fq + B * lq - (B * B) * sq - (B * B) * hq
      BY <3>2, <3>3, <1>15, <1>1
    <3>5. (B * B) * (sq + hq) = (B * B) * sq + (B * B) * hq
      BY <1>15, <1>1
    <3>6. B * fq + fr = f
      BY <1>14
    <3> DEFINE y1 == B * lq  y2 == B * fq  y3 == (B * B) * sq  y4 == (B * B) * hq  y5 == B * c
               y6 == B * (n - b)  y7 == (B * B) * (sq + hq)
    <3>7. /\ y1 \in Int /\ y2 \in Int /\ y3 \in Int /\ y4 \in Int /\ y5 \in Int /\ y6 \in Int
          /\ y7 \in Int
      BY <1>15, <1>1
    <3>8. m = a + fr - y1 /\ y6 = y5 + y2 + y1 - y3 - y4 /\ y7 = y3 + y4 /\ y2 + fr = f
      BY <3>1, <3>4, <3>5, <3>6
    <3>9. (m - a) + y6 + y7 = y5 + f
      <4> HIDE DEF y1, y2, y3, y4, y5, y6, y7
      <4> QED  BY <1>4, <1>15, <3>7, <3>8
    <3> QED  BY <3>9
  <2>2. g * ((m - a) + B * (n - b) + (B * B) * (sq + hq)) = g * (B * c + f)
    BY <2>1
  <2>3. g * ((m - a) + B * (n - b) + (B * B) * (sq + hq))
          = g * (m - a) + (B * g) * (n - b) + (sq + hq) * (B * (B * g))
    BY <1>15, <1>1
  <2>4. g * (B * c + f) = c * (B * g) + f * g
    BY <1>15, <1>1, <1>4
  <2>5. (sq + hq) * (B * (B * g)) = d * (B * (B * g))
    BY <1>13
  <2> DEFINE x1 == g * (m - a)  x2 == (B * g) * (n - b)  x3 == d * (B * (B * g))
             x4 == c * (B * g) x5 == f * g
  <2>6. x1 + x2 + x3 = x4 + x5
    <3>1. g * (m - a) + (B * g) * (n - b) + (sq + hq) * (B * (B * g)) = c * (B * g) + f * g
      BY <2>2, <2>3, <2>4
    <3>2. x1 + x2 + (sq + hq) * (B * (B * g)) = x4 + x5
      BY <3>1
    <3>3. (sq + hq) * (B * (B * g)) = x3
      BY <2>5
    <3> HIDE DEF x1, x2, x3, x4, x5
    <3> QED  BY <3>2, <3>3
  <2>7. V = W + x1 + x2 /\ x1 \in Int /\ x2 \in Int /\ x3 \in Int /\ x4 \in Int /\ x5 \in Int
    <3>1. B \in Int /\ f \in Int /\ d \in Int
      BY <1>1, <1>4, <1>9
    <3>2. x1 \in Int /\ x2 \in Int /\ x3 \in Int /\ x4 \in Int /\ x5 \in Int
      BY <1>15, <3>1
    <3>3. V = W + x1 + x2
      BY <1>13
    <3> QED  BY <3>2, <3>3
  <2>8. V + x3 = W + x4 + x5
    <3> HIDE DEF x1, x2, x3, x4, x5
    <3> QED  BY <1>15, <2>6, <2>7
  <2> QED  BY <2>8
<1>17. Value(u, 0, N - 1) + d * Weight[j + 2] = Value(w, 0, N - 1) + c * Weight[j + 1] + f * Weight[j]
  BY <1>1, <1>16
<1> QED  BY <1>9, <1>10, <1>11, <1>17

(***************************************************************************)
(* The inductive invariant.  While the product grows, all of its N + 5      *)
(* bytes are exact; between two stages, what is in the low bytes, what is   *)
(* owed to the byte after the next, and what is still to be folded are      *)
(* together one fold of the product.                                        *)
(***************************************************************************)
A24Typed ==
  /\ pc \in {"idle", "add_product", "stage", "final_ripple", "top_fold", "copy_reduced",
             "reduced"}
  /\ src1 \in Operands \cup {Zeros} /\ src1 \in Elements /\ dst \in Elements
  /\ wide \in Wide
  /\ i \in 0 .. N /\ carry \in 0 .. 2

A24Course ==
  /\ pc = "add_product" => i \in 0 .. N - 1
  /\ pc = "stage" => i \in 0 .. 2 /\ (i = 0 => carry = 0)
  /\ pc = "final_ripple" => i = 3
  /\ pc = "top_fold" => carry \in {0, 1}

Grown ==
  /\ pc = "add_product" => Value(wide, 0, N + 4) = A24 * Value(src1, 0, i - 1)
  /\ pc = "stage" /\ i = 0 => Value(wide, 0, N + 4) = A24 * Source

Staged ==
  pc \in {"stage", "final_ripple"} =>
    /\ wide[N + 3] = 0 /\ wide[N + 4] = 0
    /\ (Value(wide, 0, N - 1) + carry * Weight[i + 1]) + HighFold(wide, i)
         = FoldOnce(A24 * Source)

TopFolded ==
  /\ pc = "top_fold" => Value(wide, 0, N - 1) + carry * R = FoldOnce(A24 * Source)
  /\ pc = "copy_reduced" => Value(wide, 0, N - 1) = FoldOnce(FoldOnce(A24 * Source))
  /\ pc = "reduced" => Value(dst, 0, N - 1) = MulA24(Source)

A24Inv == A24Typed /\ A24Course /\ Grown /\ Staged /\ TopFolded

LEMMA A24Bases ==
  ASSUME RadixFits, OperandsFit, A24Fits
  PROVE  /\ N \in Nat /\ N >= 5 /\ B \in Nat \ {0} /\ B > 2 /\ 0 \in Byte
         /\ Zeros \in Elements /\ StaleWide \subseteq Wide /\ Operands \subseteq Elements
         /\ 0 \in 0 .. N /\ 0 \in 0 .. N - 1
<1>1. N \in Nat /\ N >= 5 /\ B \in Nat \ {0} /\ B > 2 /\ Operands \subseteq Elements
  BY Radix, A24Room DEF OperandsFit
<1>2. 0 \in Byte /\ B - 1 \in Byte
  BY <1>1 DEF Byte
<1> QED  BY <1>1, <1>2 DEF Elements, Wide, StaleWide, Zeros

(* A part of the operand, times the constant. *)
LEMMA LowProduct ==
  ASSUME RadixFits, A24Fits, NEW s \in Elements, NEW m \in 0 .. N
  PROVE  /\ Value(s, 0, m - 1) \in Nat /\ A24 * Value(s, 0, m - 1) \in Nat
         /\ A24 * Value(s, 0, m - 1) < Weight[m + 3]
         /\ A24 * Value(s, 0, m - 1) < Weight[N + 3]
<1> DEFINE l == Value(s, 0, m - 1)
<1>1. /\ N \in Nat /\ N >= 5 /\ A24 \in Nat /\ m \in Nat /\ Weight[m] \in Nat /\ Weight[N] \in Nat
  <2>1. N \in Nat /\ N >= 5 /\ A24 \in Nat /\ m \in 0 .. 2 * N + 2 /\ N \in 0 .. 2 * N + 2
    BY Radix, A24Room
  <2> QED  BY <2>1, Radix
<1>2. l \in 0 .. Weight[m] - 1
  BY ElementBytes
<1> HIDE DEF l
<1>3. l \in Nat /\ l < Weight[m] /\ A24 * l \in Nat
  BY <1>1, <1>2
<1>4. A24 * l < Weight[m + 3]
  BY <1>3, A24Room
<1>5. Weight[m] <= Weight[N]
  <2>1. N - m \in Nat /\ m + (N - m) = N /\ m + (N - m) <= 2 * N + 2 /\ N - m \in 0 .. 2 * N + 2
    BY <1>1
  <2>2. Weight[m + (N - m)] = Weight[m] * Weight[N - m]
    BY <1>1, <2>1, WeightAdd
  <2>3. Weight[N - m] \in Nat \ {0}
    BY <2>1, Radix
  <2>4. \A a \in Nat, b \in Nat \ {0} : a <= a * b
    OBVIOUS
  <2>5. Weight[m] <= Weight[m] * Weight[N - m]
    BY <1>1, <2>3, <2>4
  <2> QED  BY <2>1, <2>2, <2>5
<1>6. A24 * l < Weight[N + 3]
  <2>1. l < Weight[N] /\ N \in 0 .. N
    BY <1>1, <1>3, <1>5
  <2> QED  BY <1>3, <2>1, A24Room
<1> QED  BY <1>3, <1>4, <1>6 DEF l

LEMMA InitA24 ==
  ASSUME RadixFits, OperandsFit, A24Fits
  PROVE  A24Init => A24Inv
<1> SUFFICES ASSUME A24Init PROVE A24Inv
  OBVIOUS
<1>1. /\ pc = "idle" /\ src1 = Zeros /\ dst = Zeros /\ wide \in StaleWide /\ i = 0 /\ carry = 0
  BY DEF A24Init
<1>2. A24Typed
  BY <1>1, A24Bases DEF A24Typed
<1> QED  BY <1>1, <1>2 DEF A24Inv, A24Course, Grown, Staged, TopFolded

LEMMA A24CallKeeps ==
  ASSUME RadixFits, OperandsFit, A24Fits, A24Inv, A24Call
  PROVE  A24Inv'
<1>1. /\ pc' = "add_product" /\ i' = 0 /\ carry' = carry /\ dst' = dst /\ src1' \in Operands
      /\ wide' = Clear /\ wide \in Wide /\ carry \in 0 .. 2 /\ dst \in Elements
  BY DEF A24Call, A24Inv, A24Typed
<1>2. wide' \in Wide
  BY <1>1, A24Bases DEF Clear, Wide
<1>3. A24Typed'
  BY <1>1, <1>2, A24Bases DEF A24Typed
<1>4. Value(wide', 0, N + 4) = 0
  <2>1. N \in Nat /\ N >= 5
    BY A24Bases
  <2>2. N + 5 \in 0 .. 2 * N /\ (N + 5) - 1 = N + 4 /\ \A k \in 0 .. N + 4 : k \in 0 .. 2 * N - 1 /\ k <= N + 4
    BY <2>1
  <2>3. PICK w : w = wide'
    OBVIOUS
  <2>4. \A k \in 0 .. (N + 5) - 1 : w[k] = 0
    BY <1>1, <2>2, <2>3 DEF Clear
  <2>5. Value(w, 0, (N + 5) - 1) = 0
    BY <2>2, <2>4, ValueZero
  <2> QED  BY <2>2, <2>3, <2>5
<1>5. Grown'
  <2>1. Value(src1', 0, 0 - 1) = 0
    BY ValueEmpty
  <2>2. A24 * 0 = 0
    BY A24Room
  <2> QED  BY <1>1, <1>4, <2>1, <2>2 DEF Grown
<1> QED
  BY <1>1, <1>3, <1>5, A24Bases DEF A24Inv, A24Course, Staged, TopFolded

(* Nothing is dropped: the whole product is below the byte where its carry  *)
(* would go.                                                                *)
LEMMA ProductGrows ==
  ASSUME RadixFits, A24Fits, NEW w \in Wide, NEW s \in Elements, NEW j \in Bytes,
         Value(w, 0, N + 4) = A24 * Value(s, 0, j - 1),
         NEW u, u = Added(w, j, s[j])
  PROVE  u \in Wide /\ Value(u, 0, N + 4) = A24 * Value(s, 0, j)
<1>1. /\ N \in Nat /\ N >= 5 /\ B \in Nat /\ B > 2 /\ j \in Nat /\ j \in 0 .. N - 1 /\ A24 \in Nat
      /\ s[j] \in Byte
  <2>1. N \in Nat /\ N >= 5 /\ B \in Nat /\ B > 2 /\ A24 \in Nat /\ j \in 0 .. N - 1
    BY Radix, A24Room DEF Bytes
  <2>2. s[j] \in Byte
    BY <2>1, ElementBytes
  <2> QED  BY <2>1, <2>2
<1>2. PICK out \in Nat : Value(u, 0, j + 5) + out * Weight[j + 6]
                           = Value(w, 0, j + 5) + Weight[j] * (A24 * s[j])
  BY <1>1, AddedExact
<1>3. u \in Wide /\ \A k \in j + 6 .. 2 * N - 1 : u[k] = w[k]
  BY <1>1, AddedExact
<1> DEFINE mid == j + 6  tail == Value(w, j + 6, N + 4)
<1>4. /\ 0 \in Int /\ N + 4 \in Int /\ mid \in 0 .. (N + 4) + 1 /\ mid - 0 <= 2 * N + 2 /\ mid - 0 = mid
      /\ mid - 1 = j + 5 /\ 0 .. N + 4 \subseteq 0 .. 2 * N - 1 /\ mid \in Int /\ mid <= (N + 4) + 1
      /\ mid .. N + 4 \subseteq mid .. 2 * N - 1 /\ mid \in 0 .. 2 * N + 2
      /\ mid = (j + 4) + 2 /\ (j + 4) \in 0 .. 2 * N + 1 /\ (j + 4) + 1 \in 0 .. 2 * N + 1
      /\ ((j + 4) + 1) + 1 = mid /\ j \in 0 .. 2 * N + 2 /\ j + 4 \in 0 .. 2 * N + 2
  BY <1>1
<1>5. \A k \in 0 .. N + 4 : w[k] \in Int /\ u[k] \in Int /\ u[k] \in Byte
  BY <1>3, <1>4, WideInts
<1> HIDE DEF mid
<1>6. /\ Value(w, 0, mid - 1) \in Int /\ Value(w, mid, N + 4) \in Int
      /\ Value(w, 0, N + 4) = Value(w, 0, mid - 1) + Weight[mid - 0] * Value(w, mid, N + 4)
  BY <1>4, <1>5, ValueSplit
<1>7. /\ Value(u, 0, mid - 1) \in Int /\ Value(u, mid, N + 4) \in Int
      /\ Value(u, 0, N + 4) = Value(u, 0, mid - 1) + Weight[mid - 0] * Value(u, mid, N + 4)
  BY <1>4, <1>5, ValueSplit
<1>8. Value(u, mid, N + 4) = Value(w, mid, N + 4)
  <2>1. \A k \in mid .. N + 4 : u[k] = w[k]
    BY <1>3, <1>4 DEF mid
  <2> QED  BY <1>4, <2>1, ValueSame
<1>9. /\ Weight[mid] \in Nat /\ Weight[j + 4] \in Nat /\ Weight[j + 4] <= Weight[mid]
      /\ Weight[j] \in Nat
  <2>1. /\ Weight[j + 4] \in Nat /\ Weight[mid] \in Nat /\ Weight[j] \in Nat
        /\ Weight[(j + 4) + 1] = B * Weight[j + 4] /\ Weight[mid] = B * Weight[(j + 4) + 1]
    BY <1>4, Radix
  <2>2. \A a, b \in Nat : b > 2 => a <= b * a /\ b * a \in Nat
    OBVIOUS
  <2>3. B * Weight[j + 4] \in Nat /\ Weight[j + 4] <= B * Weight[j + 4]
    BY <1>1, <2>1, <2>2
  <2>4. B * Weight[j + 4] <= B * (B * Weight[j + 4])
    BY <1>1, <2>2, <2>3
  <2> QED  BY <2>1, <2>3, <2>4
<1>10. /\ Value(s, 0, j - 1) \in Nat /\ Value(s, 0, j) \in Nat /\ A24 * Value(s, 0, j) < Weight[j + 4]
       /\ A24 * Value(s, 0, j) = A24 * Value(s, 0, j - 1) + Weight[j] * (A24 * s[j])
  <2>1. j \in 0 .. N /\ j + 1 \in 0 .. N /\ (j + 1) - 1 = j /\ (j + 1) + 3 = j + 4
    BY <1>1
  <2>2. /\ Value(s, 0, j - 1) \in Nat /\ Value(s, 0, (j + 1) - 1) \in Nat
        /\ A24 * Value(s, 0, (j + 1) - 1) < Weight[(j + 1) + 3]
    BY <2>1, LowProduct
  <2>3. Value(s, 0, j) = Value(s, 0, j - 1) + Weight[j] * s[j]
    BY <1>1, ElementBytes
  <2>4. s[j] \in Nat
    BY <1>1 DEF Byte
  <2>5. \A a, l, g, b \in Nat : a * (l + g * b) = a * l + g * (a * b)
    OBVIOUS
  <2>6. A24 * (Value(s, 0, j - 1) + Weight[j] * s[j]) = A24 * Value(s, 0, j - 1) + Weight[j] * (A24 * s[j])
    BY <1>1, <1>9, <2>2, <2>4, <2>5
  <2> QED  BY <2>1, <2>2, <2>3, <2>6
<1>11. Value(u, 0, N + 4) \in Nat
  <2>1. N + 5 \in 0 .. 2 * N /\ (N + 5) - 1 = N + 4 /\ N + 5 \in 0 .. 2 * N + 2
    BY <1>1
  <2>2. \A k \in 0 .. (N + 5) - 1 : u[k] \in Byte
    BY <1>5, <2>1
  <2>3. Value(u, 0, (N + 5) - 1) \in 0 .. Weight[N + 5] - 1
    BY <2>1, <2>2, ValueBound
  <2> QED  BY <2>1, <2>3, Radix
<1> DEFINE L1 == A24 * Value(s, 0, j)  U == Value(u, 0, N + 4)  g == Weight[mid]
<1>12. U + out * g = L1
  <2> DEFINE u5 == Value(u, 0, j + 5)  w5 == Value(w, 0, j + 5)  t == g * Value(w, mid, N + 4)
             e == Weight[j] * (A24 * s[j])  o == out * g  L0 == A24 * Value(s, 0, j - 1)
  <2>1. u5 + o = w5 + e
    BY <1>2 DEF mid
  <2>2. U = u5 + t /\ L0 = w5 + t
    BY <1>4, <1>6, <1>7, <1>8
  <2>3. L1 = L0 + e
    BY <1>10
  <2>4. u5 \in Int /\ w5 \in Int /\ o \in Int /\ U \in Int /\ t \in Int
    BY <1>4, <1>6, <1>7, <1>9, <1>11
  <2>5. e \in Int /\ L0 \in Int
    <3>1. s[j] \in Nat
      BY <1>1 DEF Byte
    <3> QED  BY <1>1, <1>9, <1>10, <3>1
  <2> HIDE DEF u5, w5, t, e, o, L0, U, L1
  <2>6. U + o = L1
    BY <2>1, <2>2, <2>3, <2>4, <2>5
  <2> QED  BY <2>6 DEF o
<1>13. g \in Nat /\ L1 \in Nat /\ L1 < g /\ U \in Nat
  BY <1>1, <1>9, <1>10, <1>11
<1> HIDE DEF L1, U, g
<1>14. out = 0
  <2>1. out >= 1 => out * g >= g
    BY <1>13
  <2>2. out * g \in Nat
    BY <1>13
  <2> QED  BY <1>12, <1>13, <2>1, <2>2
<1>15. U = L1
  BY <1>12, <1>13, <1>14
<1> QED  BY <1>3, <1>15 DEF U, L1

LEMMA AddProductKeeps ==
  ASSUME RadixFits, OperandsFit, A24Fits, A24Inv, AddProduct
  PROVE  A24Inv'
<1>1. /\ pc = "add_product" /\ i \in Bytes /\ wide \in Wide /\ src1 \in Elements
      /\ carry \in 0 .. 2 /\ dst \in Elements
      /\ Value(wide, 0, N + 4) = A24 * Value(src1, 0, i - 1)
      /\ wide' = Added(wide, i, src1[i]) /\ src1' = src1 /\ dst' = dst
      /\ src1 \in Operands \cup {Zeros}
  BY DEF AddProduct, A24Inv, A24Typed, A24Course, Grown, Bytes
<1>2. wide' \in Wide /\ Value(wide', 0, N + 4) = A24 * Value(src1, 0, i)
  BY <1>1, ProductGrows
<1>3. N \in Nat /\ N >= 5 /\ i \in 0 .. N - 1
  BY <1>1, A24Bases DEF Bytes
<1>4. CASE i + 1 < N
  <2>1. /\ i' = i + 1 /\ pc' = "add_product" /\ carry' = carry /\ i' \in 0 .. N - 1 /\ i' - 1 = i
        /\ i' \in 0 .. N
    BY <1>1, <1>3, <1>4 DEF AddProduct
  <2>2. A24Typed' /\ A24Course'
    BY <1>1, <1>2, <2>1 DEF A24Typed, A24Course
  <2>3. Grown'
    BY <1>1, <1>2, <2>1 DEF Grown
  <2> QED  BY <2>1, <2>2, <2>3 DEF A24Inv, Staged, TopFolded
<1>5. CASE ~(i + 1 < N)
  <2>1. i' = 0 /\ pc' = "stage" /\ carry' = 0 /\ i = N - 1
    BY <1>1, <1>3, <1>5 DEF AddProduct
  <2>2. Source' = Source /\ Value(src1, 0, i) = Source
    BY <1>1, <2>1 DEF Source
  <2>3. A24Typed' /\ A24Course'
    BY <1>1, <1>2, <1>3, <2>1 DEF A24Typed, A24Course
  <2>4. Grown'
    BY <1>2, <2>1, <2>2 DEF Grown
  <2>5. Staged'
    <3>1. N \in 0 .. N /\ A24 * Value(src1, 0, N - 1) < Weight[N + 3]
      BY <1>1, <1>3, LowProduct
    <3>2. Value(wide', 0, N + 4) = A24 * Source /\ A24 * Source < Weight[N + 3]
      BY <1>2, <2>2, <3>1 DEF Source
    <3> DEFINE w == wide'
    <3>3. w \in Wide /\ Value(w, 0, N + 4) = A24 * Source
      BY <1>2, <3>2
    <3> HIDE DEF w
    <3>4. /\ A24 * Source \in Nat /\ w[N + 3] = 0 /\ w[N + 4] = 0
          /\ Value(w, 0, N - 1) + HighFold(w, 0) = FoldOnce(A24 * Source)
      BY <3>2, <3>3, A24Bytes
    <3>5. Value(w, 0, N - 1) \in Int /\ 0 * Weight[0 + 1] = 0
      <4>1. Value(w, 0, N - 1) \in Int
        BY <3>3, Halves, Sizes
      <4>2. Weight[0 + 1] \in Nat
        BY A24Room, Sizes
      <4> QED  BY <4>1, <4>2
    <3>6. (Value(w, 0, N - 1) + 0 * Weight[0 + 1]) + HighFold(w, 0) = FoldOnce(A24 * Source)
      BY <3>4, <3>5
    <3> QED  BY <2>1, <2>2, <3>4, <3>6 DEF Staged, w
  <2> QED  BY <2>1, <2>3, <2>4, <2>5 DEF A24Inv, TopFolded
<1> QED  BY <1>4, <1>5

(* The first stage has no bridge, and nothing for one to do. *)
LEMMA StageWrites ==
  ASSUME RadixFits, A24Fits, wide \in Wide, carry \in 0 .. 2, i \in 0 .. 2, i = 0 => carry = 0,
         Stage, NEW f, f = Fold * wide[N + i], NEW sum, sum = wide[i + 1] + carry,
         NEW low, low = wide[i] + (f % B),
         NEW high, high = (sum % B) + (f \div B) + (low \div B)
  PROVE  /\ Stored2(wide', wide, i, i + 1, low % B, high % B)
         /\ carry' = (sum \div B) + (high \div B)
<1>1. N \in Nat /\ N >= 5 /\ B \in Nat \ {0}
  BY Radix, A24Room
<1>2. /\ i \in 0 .. 2 * N - 1 /\ i + 1 \in 0 .. 2 * N - 1 /\ N + i \in 0 .. 2 * N - 1
      /\ i + 1 # i /\ N + i # i + 1 /\ N + i # i
  BY <1>1
<1> DEFINE w == [wide EXCEPT ![i + 1] = sum % B]
<1>3. Bridge.w = w /\ Bridge.owed = sum \div B
  <2>1. CASE i = 0
    <3>1. sum = wide[i + 1] /\ wide[i + 1] \in 0 .. B - 1 /\ carry = 0
      <4>1. wide[i + 1] \in 0 .. B - 1
        BY <1>2, WideInts DEF Byte
      <4> QED  BY <2>1, <4>1, <1>1
    <3>2. sum % B = wide[i + 1] /\ sum \div B = 0
      BY <1>1, <3>1, ModSmall
    <3>3. w = wide
      BY <3>2 DEF Wide
    <3> QED  BY <2>1, <3>1, <3>2, <3>3 DEF Bridge
  <2>2. CASE i # 0
    BY <2>2 DEF Bridge
  <2> QED  BY <2>1, <2>2
<1>4. w[i] = wide[i] /\ w[N + i] = wide[N + i] /\ w[i + 1] = sum % B
  BY <1>2 DEF Wide
<1>5. wide' = [w EXCEPT ![i] = low % B, ![i + 1] = high % B]
  BY <1>3, <1>4 DEF Stage
<1>6. carry' = (sum \div B) + (high \div B)
  BY <1>3, <1>4 DEF Stage
<1>7. wide' = [wide EXCEPT ![i] = low % B, ![i + 1] = high % B]
  BY <1>2, <1>5 DEF Wide
<1> QED  BY <1>6, <1>7 DEF Stored2

LEMMA StageKeeps ==
  ASSUME RadixFits, OperandsFit, A24Fits, A24Inv, Stage
  PROVE  A24Inv'
<1>1. /\ pc = "stage" /\ i \in 0 .. 2 /\ wide \in Wide /\ carry \in 0 .. 2 /\ (i = 0 => carry = 0)
      /\ wide[N + 3] = 0 /\ wide[N + 4] = 0
      /\ (Value(wide, 0, N - 1) + carry * Weight[i + 1]) + HighFold(wide, i)
           = FoldOnce(A24 * Source)
      /\ src1 \in Operands \cup {Zeros} /\ src1 \in Elements /\ dst \in Elements
  BY DEF Stage, A24Inv, A24Typed, A24Course, Staged
<1>2. /\ i' = i + 1 /\ src1' = src1 /\ dst' = dst
      /\ pc' = (IF i + 1 = 3 THEN "final_ripple" ELSE "stage")
  BY DEF Stage
<1>3. PICK f, sum : f = Fold * wide[N + i] /\ sum = wide[i + 1] + carry
  OBVIOUS
<1>4. PICK low : low = wide[i] + (f % B)
  OBVIOUS
<1>5. PICK high : high = (sum % B) + (f \div B) + (low \div B)
  OBVIOUS
<1>6. /\ Stored2(wide', wide, i, i + 1, low % B, high % B)
      /\ carry' = (sum \div B) + (high \div B)
  BY <1>1, <1>3, <1>4, <1>5, StageWrites
<1>7. PICK u, d : u = wide' /\ d = carry'
  OBVIOUS
<1>8. /\ u \in Wide /\ \A k \in N .. 2 * N - 1 : u[k] = wide[k]
      /\ d \in 0 .. 2
      /\ Value(u, 0, N - 1) + d * Weight[i + 2]
           = Value(wide, 0, N - 1) + carry * Weight[i + 1] + f * Weight[i]
  <2>1. Stored2(u, wide, i, i + 1, low % B, high % B) /\ d = (sum \div B) + (high \div B)
    BY <1>6, <1>7
  <2>2. wide \in Wide /\ i \in 0 .. 2 /\ carry \in 0 .. 2
    BY <1>1
  <2>3. StageSums(wide, i, carry, f, sum, low, high, u, d)
    BY <1>3, <1>4, <1>5, <2>1, Zenon DEF StageSums
  <2> QED  BY <2>2, <2>3, StageStored
<1>9. N \in Nat /\ N >= 5
  BY A24Bases
<1>10. /\ HighFold(u, i + 1) \in Nat
       /\ HighFold(wide, i) = f * Weight[i] + HighFold(u, i + 1)
  BY <1>1, <1>3, <1>8, HighFoldStep
<1>11. /\ Value(wide, 0, N - 1) \in Int /\ carry * Weight[i + 1] \in Int /\ f * Weight[i] \in Int
  <2>1. Value(wide, 0, N - 1) \in Int
    BY <1>1, Halves, Sizes
  <2>2. i + 1 \in 0 .. 2 * N + 2 /\ i \in 0 .. 2 * N + 2 /\ N + i \in 0 .. 2 * N - 1
    BY <1>1, <1>9
  <2>3. Weight[i + 1] \in Nat /\ Weight[i] \in Nat
    BY <2>2, Radix
  <2>4. wide[N + i] \in Int /\ Fold \in Int
    BY <1>1, <2>2, WideInts, Constants
  <2>5. f \in Int
    BY <1>3, <2>4
  <2>6. carry \in Int
    BY <1>1
  <2> QED  BY <2>1, <2>3, <2>5, <2>6
<1>12. (Value(u, 0, N - 1) + d * Weight[(i + 1) + 1]) + HighFold(u, i + 1) = FoldOnce(A24 * Source)
  <2>1. (i + 1) + 1 = i + 2
    BY <1>1
  <2> DEFINE v == Value(u, 0, N - 1) + d * Weight[i + 2]  w0 == Value(wide, 0, N - 1)
             c == carry * Weight[i + 1]  e == f * Weight[i]  h == HighFold(u, i + 1)
  <2>2. v = w0 + c + e /\ (w0 + c) + (e + h) = FoldOnce(A24 * Source)
        /\ w0 \in Int /\ c \in Int /\ e \in Int /\ h \in Int
    BY <1>1, <1>8, <1>10, <1>11
  <2> HIDE DEF v, w0, c, e, h
  <2>3. v + h = FoldOnce(A24 * Source)
    BY <2>2
  <2> QED  BY <2>1, <2>3 DEF v, h
<1>13. u[N + 3] = 0 /\ u[N + 4] = 0
  <2>1. N + 3 \in N .. 2 * N - 1 /\ N + 4 \in N .. 2 * N - 1
    BY <1>9
  <2> QED  BY <1>1, <1>8, <2>1
<1>14. A24Typed' /\ A24Course'
  <2>1. i' \in 0 .. N /\ i' # 0 /\ (i + 1 # 3 => i' \in 0 .. 2)
    BY <1>1, <1>2, <1>9
  <2> QED  BY <1>1, <1>2, <1>7, <1>8, <2>1 DEF A24Typed, A24Course
<1>15. Source' = Source
  BY <1>2 DEF Source
<1>16. Staged'
  BY <1>2, <1>7, <1>12, <1>13, <1>15 DEF Staged
<1>17. Grown' /\ TopFolded'
  <2>1. i' # 0
    BY <1>1, <1>2
  <2> QED  BY <1>2, <2>1 DEF Grown, TopFolded
<1> QED  BY <1>14, <1>16, <1>17 DEF A24Inv

(* The first fold and the second: where they may be. *)
LEMMA A24Folds ==
  ASSUME RadixFits, A24Fits, NEW s \in Word
  PROVE  /\ FoldOnce(A24 * s) \in Nat /\ FoldOnce(A24 * s) < 2 * R
         /\ FoldOnce(FoldOnce(A24 * s)) \in Word
         /\ FoldOnce(FoldOnce(A24 * s)) % R = FoldOnce(FoldOnce(A24 * s))
<1>1. R \in Nat \ {0} /\ Fold \in Nat \ {0} /\ A24 \in Nat /\ Fold * (A24 + 1) <= R
  BY Constants, FieldAssumption
<1> DEFINE p == A24 * s  small == Fold * A24
<1>2. small \in Nat /\ small + Fold <= R
  BY <1>1
<1>3. p \in Nat /\ p < R * (A24 + 1)
  <2>1. s \in Nat /\ s <= R
    BY <1>1 DEF Word
  <2>2. A24 * s <= A24 * R
    BY <1>1, <2>1
  <2>3. A24 * R < R * (A24 + 1)
    BY <1>1
  <2>4. A24 * R \in Nat /\ R * (A24 + 1) \in Nat /\ A24 * s \in Nat
    BY <1>1, <2>1
  <2> QED  BY <2>2, <2>3, <2>4
<1> HIDE DEF p
<1>4. FoldOnce(p) \in Nat /\ FoldOnce(p) < R + small
  BY <1>1, <1>3, FoldOnceCorrect
<1> HIDE DEF small
<1>5. FoldOnce(FoldOnce(p)) \in Word /\ FoldOnce(FoldOnce(p)) % R = FoldOnce(FoldOnce(p))
  BY <1>2, <1>4, LastFold
<1>6. FoldOnce(p) < 2 * R
  BY <1>1, <1>2, <1>4
<1> QED  BY <1>4, <1>5, <1>6 DEF p

LEMMA SourceInWord ==
  ASSUME RadixFits, A24Typed
  PROVE  Source \in Word
<1>1. N \in 0 .. N /\ Weight[N] = R
  BY Sizes
<1>2. Value(src1, 0, N - 1) \in 0 .. Weight[N] - 1
  BY <1>1, ElementBytes DEF A24Typed
<1> QED  BY <1>1, <1>2 DEF Source, Word

LEMMA FinalRippleKeeps ==
  ASSUME RadixFits, OperandsFit, A24Fits, A24Inv, FinalRipple
  PROVE  A24Inv'
<1>1. /\ pc = "final_ripple" /\ i = 3 /\ wide \in Wide /\ carry \in 0 .. 2
      /\ (Value(wide, 0, N - 1) + carry * Weight[i + 1]) + HighFold(wide, i)
           = FoldOnce(A24 * Source)
      /\ src1 \in Operands \cup {Zeros} /\ src1 \in Elements /\ dst \in Elements
      /\ Source \in Word
  BY SourceInWord DEF FinalRipple, A24Inv, A24Typed, A24Course, Staged
<1>2. /\ wide' = Rippled(wide, 4, N - 1, carry) /\ carry' = Carries(wide, 4, carry)[N]
      /\ pc' = "top_fold" /\ src1' = src1 /\ dst' = dst /\ i' = i
  BY DEF FinalRipple
<1>3. N \in Nat /\ N >= 5 /\ R \in Nat \ {0} /\ Weight[N] = R
  BY A24Bases, Sizes
<1>4. PICK from \in 0 .. 2 * N - 1, to \in 0 .. 2 * N - 1 :
         from = 4 /\ to = N - 1 /\ from <= to + 1 /\ to + 1 = N
  BY <1>3
<1>5. PICK r, out : r = wide' /\ out = carry' /\ Ripples(r, out, wide, from, to, carry)
  BY <1>2, <1>4 DEF Ripples
<1>6. /\ r \in Wide /\ out \in Nat
      /\ Value(r, 0, to) + out * Weight[to + 1] = Value(wide, 0, to) + carry * Weight[from]
  <2>1. carry \in Nat
    BY <1>1
  <2> QED  BY <1>1, <1>4, <1>5, <2>1, RippleStored
<1>7. Value(wide, 0, N - 1) + carry * Weight[4] = FoldOnce(A24 * Source)
  <2>1. HighFold(wide, 3) = 0
    BY DEF HighFold
  <2>2. Value(wide, 0, N - 1) \in Int /\ carry * Weight[4] \in Int
    <3>1. Value(wide, 0, N - 1) \in Int
      BY <1>1, Halves, Sizes
    <3>2. 4 \in 0 .. 2 * N + 2
      BY <1>3
    <3>3. Weight[4] \in Nat /\ carry \in Nat
      BY <1>1, <3>2, Radix
    <3> QED  BY <3>1, <3>3
  <2>3. 3 + 1 = 4
    OBVIOUS
  <2> QED  BY <1>1, <2>1, <2>2, <2>3
<1>8. Value(r, 0, N - 1) + out * R = FoldOnce(A24 * Source)
  BY <1>3, <1>4, <1>6, <1>7
<1>9. out \in {0, 1}
  <2>1. Value(r, 0, N - 1) \in Nat
    BY <1>6, Halves, Sizes
  <2>2. FoldOnce(A24 * Source) < 2 * R
    BY <1>1, A24Folds
  <2>3. out >= 2 => out * R >= 2 * R
    BY <1>3, <1>6
  <2>4. out * R \in Nat
    BY <1>3, <1>6
  <2> QED  BY <1>3, <1>6, <1>8, <2>1, <2>2, <2>3, <2>4
<1>10. Source' = Source
  BY <1>2 DEF Source
<1>11. A24Typed' /\ A24Course'
  <2>1. i' \in 0 .. N
    BY <1>1, <1>2, <1>3
  <2> QED  BY <1>1, <1>2, <1>5, <1>6, <1>9, <2>1 DEF A24Typed, A24Course
<1>12. TopFolded'
  BY <1>2, <1>5, <1>8, <1>10 DEF TopFolded
<1> QED  BY <1>2, <1>11, <1>12 DEF A24Inv, Grown, Staged

(* L32: the fold of the top carry leaves nothing to carry. *)
LEMMA TopFoldKeeps ==
  ASSUME RadixFits, OperandsFit, A24Fits, A24Inv, TopFold
  PROVE  A24Inv'
<1>1. /\ pc = "top_fold" /\ wide \in Wide /\ carry \in {0, 1} /\ i \in 0 .. N
      /\ Value(wide, 0, N - 1) + carry * R = FoldOnce(A24 * Source)
      /\ src1 \in Operands \cup {Zeros} /\ src1 \in Elements /\ dst \in Elements
      /\ Source \in Word
  BY SourceInWord DEF TopFold, A24Inv, A24Typed, A24Course, TopFolded
<1>2. PICK low : low = wide[0] + Fold * carry
  OBVIOUS
<1>3. /\ wide' = Rippled([wide EXCEPT ![0] = low % B], 1, N - 1, low \div B)
      /\ pc' = "copy_reduced" /\ src1' = src1 /\ dst' = dst /\ i' = i /\ carry' = carry
  BY <1>2 DEF TopFold
<1>4. /\ N \in Nat /\ N >= 5 /\ R \in Nat \ {0} /\ Weight[N] = R /\ B \in Nat \ {0}
      /\ Fold \in Nat /\ Weight[0] = 1 /\ Weight[1] = B
  BY A24Bases, A24Room, Sizes, Constants
<1>5. wide[0] \in Nat /\ low \in Nat
  <2>1. 0 \in 0 .. 2 * N - 1
    BY <1>4
  <2>2. wide[0] \in Nat
    BY <1>1, <1>4, <2>1, WideInts DEF Byte
  <2> QED  BY <1>1, <1>2, <1>4, <2>2
<1>6. low \div B \in Nat /\ low % B \in Byte /\ low = B * (low \div B) + (low % B)
  BY <1>4, <1>5, NatDivides DEF Byte
<1> DEFINE w == [wide EXCEPT ![0] = low % B]
<1>7. w \in Wide /\ Value(w, 0, N - 1) = Value(wide, 0, N - 1) + Weight[0] * ((low % B) - wide[0])
  <2>1. N - 1 \in 0 .. 2 * N - 1 /\ 0 \in 0 .. 2 * N - 1 /\ 0 <= N - 1
    BY <1>4
  <2> QED  BY <1>1, <1>6, <2>1, ByteStored
<1> HIDE DEF w
<1>8. PICK from \in 0 .. 2 * N - 1, to \in 0 .. 2 * N - 1 :
         from = 1 /\ to = N - 1 /\ from <= to + 1 /\ to + 1 = N
  BY <1>4
<1>9. PICK r, out, v : /\ r = wide' /\ out = Carries(w, from, v)[to + 1] /\ v = low \div B
                       /\ Ripples(r, out, w, from, to, v)
  BY <1>3, <1>8 DEF Ripples, w
<1>10. /\ r \in Wide /\ out \in Nat
       /\ Value(r, 0, to) + out * Weight[to + 1] = Value(w, 0, to) + v * Weight[from]
  BY <1>6, <1>7, <1>8, <1>9, RippleStored
<1>11. Value(wide, 0, N - 1) \in 0 .. R - 1 /\ Value(r, 0, N - 1) \in 0 .. R - 1
  BY <1>1, <1>10, Halves
<1> DEFINE V == Value(wide, 0, N - 1)  U == Value(r, 0, N - 1)  W == Value(w, 0, N - 1)
           m == low % B  a == wide[0]
<1>12. /\ U + out * R = W + v * B /\ W = V + 1 * (m - a) /\ a + Fold * carry = B * v + m
       /\ V \in Nat /\ U \in Nat /\ a \in Nat /\ m \in Int /\ v \in Nat
  <2>1. m \in Int
    BY <1>4, <1>6 DEF Byte
  <2>2. V \in Nat /\ U \in Nat
    BY <1>4, <1>11
  <2> QED  BY <1>2, <1>4, <1>5, <1>6, <1>7, <1>8, <1>9, <1>10, <2>1, <2>2
<1> DEFINE e == Fold * carry  q == B * v  o == out * R
<1>13. U + o = V + e
  <2>1. v * B = q /\ 1 * (m - a) = m - a /\ q \in Int /\ e \in Int /\ o \in Int
    BY <1>1, <1>4, <1>10, <1>12
  <2>2. U + o = W + q /\ W = V + (m - a) /\ a + e = q + m
    BY <1>12, <2>1
  <2> HIDE DEF U, V, W, m, a, e, q, o
  <2> QED  BY <1>12, <2>1, <2>2
<1>14. V + e = FoldOnce(FoldOnce(A24 * Source))
  <2>1. carry \in Nat /\ V \in 0 .. R - 1
    BY <1>1, <1>11
  <2> HIDE DEF V
  <2>2. FoldOnce(V + carry * R) = V + Fold * carry
    BY <2>1, FoldedCarry
  <2> QED  BY <1>1, <2>2 DEF V
<1>15. V + e < R
  <2>1. FoldOnce(FoldOnce(A24 * Source)) \in 0 .. R - 1
    BY <1>1, A24Folds DEF Word
  <2> HIDE DEF V, e
  <2> QED  BY <1>4, <1>14, <2>1
<1>16. out = 0
  <2>1. out >= 1 => o >= R
    BY <1>4, <1>10
  <2>2. o \in Nat
    BY <1>4, <1>10
  <2>3. V + e \in Nat
    BY <1>1, <1>4, <1>12
  <2> HIDE DEF U, V, e, o
  <2> QED  BY <1>4, <1>10, <1>12, <1>13, <1>15, <2>1, <2>2, <2>3
<1>17. Value(r, 0, N - 1) = FoldOnce(FoldOnce(A24 * Source))
  <2>1. o = 0
    BY <1>4, <1>16
  <2>2. U = V + e
    <3> HIDE DEF U, V, e, o
    <3> QED  BY <1>12, <1>13, <2>1
  <2> QED  BY <1>14, <2>2 DEF U
<1>18. Source' = Source
  BY <1>3 DEF Source
<1>19. A24Typed'
  <2>1. carry \in 0 .. 2
    BY <1>1
  <2> QED  BY <1>1, <1>3, <1>9, <1>10, <2>1 DEF A24Typed
<1>20. TopFolded'
  BY <1>3, <1>9, <1>17, <1>18 DEF TopFolded
<1> QED  BY <1>3, <1>19, <1>20 DEF A24Inv, A24Course, Grown, Staged

LEMMA CopyReducedKeeps ==
  ASSUME RadixFits, OperandsFit, A24Fits, A24Inv, CopyReduced
  PROVE  A24Inv'
<1>1. /\ pc = "copy_reduced" /\ wide \in Wide /\ carry \in 0 .. 2 /\ i \in 0 .. N
      /\ Value(wide, 0, N - 1) = FoldOnce(FoldOnce(A24 * Source))
      /\ src1 \in Operands \cup {Zeros} /\ src1 \in Elements
      /\ Source \in Word
  BY SourceInWord DEF CopyReduced, A24Inv, A24Typed, TopFolded
<1>2. PICK v : v = ReduceFinal(FoldOnce(FoldOnce(A24 * Source)))
  OBVIOUS
<1>3. /\ dst' = Digits(v) /\ pc' = "reduced" /\ src1' = src1 /\ wide' = wide /\ i' = i
      /\ carry' = carry
  BY <1>1, <1>2 DEF CopyReduced
<1>4. v \in 0 .. R - 1
  <2>1. v \in Canon
    BY <1>1, <1>2, A24Folds, ReduceFinalCorrect
  <2>2. P <= R /\ P \in Nat /\ R \in Nat
    BY Constants
  <2> QED  BY <2>1, <2>2 DEF Canon
<1>5. MulA24(Source) = v
  BY <1>1, <1>2, A24Folds DEF MulA24
<1>6. PICK w : w = Digits(v)
  OBVIOUS
<1>7. \A k \in 0 .. N - 1 : w[k] = (v \div Weight[k]) % B
  BY <1>6 DEF Digits
<1>8. Value(w, 0, N - 1) = v
  BY <1>4, <1>7, ValueOfDigits
<1>9. w \in Elements
  <2>1. ASSUME NEW k \in 0 .. N - 1 PROVE (v \div Weight[k]) % B \in Byte
    <3>1. Weight[k] \in Nat \ {0} /\ B \in Nat \ {0} /\ v \in Nat
      BY <1>4, Sizes DEF Bytes
    <3>2. v \div Weight[k] \in Nat
      BY <3>1, NatDivides
    <3> QED  BY <3>1, <3>2, NatDivides DEF Byte
  <2> QED  BY <1>6, <2>1 DEF Digits, Elements
<1>10. Source' = Source
  BY <1>3 DEF Source
<1>11. A24Typed'
  BY <1>1, <1>3, <1>6, <1>9 DEF A24Typed
<1>12. TopFolded'
  BY <1>3, <1>5, <1>6, <1>8, <1>10 DEF TopFolded
<1> QED  BY <1>3, <1>11, <1>12 DEF A24Inv, A24Course, Grown, Staged

LEMMA A24ReturnKeeps ==
  ASSUME RadixFits, OperandsFit, A24Fits, A24Inv, A24Return
  PROVE  A24Inv'
<1>1. /\ pc' = "idle" /\ src1' = Zeros /\ dst' = Zeros /\ wide' \in StaleWide /\ i' = 0 /\ carry' = 0
  BY DEF A24Return
<1>2. A24Typed'
  BY <1>1, A24Bases DEF A24Typed
<1> QED  BY <1>1, <1>2 DEF A24Inv, A24Course, Grown, Staged, TopFolded

LEMMA NextA24 ==
  ASSUME RadixFits, OperandsFit, A24Fits
  PROVE  A24Inv /\ [A24Next]_a24Vars => A24Inv'
<1> SUFFICES ASSUME A24Inv, [A24Next]_a24Vars PROVE A24Inv'
  OBVIOUS
<1>1. CASE UNCHANGED a24Vars
  <2>1. /\ pc' = pc /\ src1' = src1 /\ wide' = wide /\ i' = i /\ carry' = carry /\ dst' = dst
        /\ Source' = Source
    BY <1>1 DEF a24Vars, Source
  <2> QED  BY <2>1 DEF A24Inv, A24Typed, A24Course, Grown, Staged, TopFolded
<1>2. CASE A24Next
  BY <1>2, A24CallKeeps, AddProductKeeps, StageKeeps, FinalRippleKeeps, TopFoldKeeps,
     CopyReducedKeeps, A24ReturnKeeps DEF A24Next
<1> QED  BY <1>1, <1>2

LEMMA A24Invariance ==
  ASSUME RadixFits, OperandsFit, A24Fits
  PROVE  A24Spec => []A24Inv
<1> QED  BY InitA24, NextA24, PTL DEF A24Spec

(***************************************************************************)
(* Types: no byte of fe_wide overflows, no index leaves it, and fe_carry    *)
(* never holds more than two.                                               *)
(***************************************************************************)
THEOREM A24TypeCorrect ==
  ASSUME RadixFits, OperandsFit, A24Fits
  PROVE  A24Spec => []A24TypeOK
<1>1. A24Inv => A24TypeOK
  <2> SUFFICES ASSUME A24Inv PROVE A24TypeOK
    OBVIOUS
  <2>1. pc = "add_product" => i + 5 < 2 * N
    BY A24Bases DEF A24Inv, A24Course
  <2> QED  BY <2>1 DEF A24Inv, A24Typed, A24TypeOK, Wide
<1> QED  BY <1>1, A24Invariance, PTL

(***************************************************************************)
(* fe25519_mul_a24 for every operand: the bytes that only absorb a carry    *)
(* never lose one, the bridges and the ripple owe what they should, the     *)
(* fold of the top carry ends below 2^256, and the result is MulA24.        *)
(***************************************************************************)
THEOREM A24ProductExact ==
  ASSUME RadixFits, OperandsFit, A24Fits
  PROVE  A24Spec => []A24Exact
<1>1. A24Inv => A24Exact
  <2> SUFFICES ASSUME A24Inv PROVE A24Exact
    OBVIOUS
  <2>1. N \in Nat /\ N >= 5
    BY A24Bases
  <2>2. ASSUME pc = "add_product"
        PROVE  /\ Value(wide, 0, N + 2) = IF i = 0 THEN 0 ELSE A24 * Value(src1, 0, i - 1)
               /\ wide[N + 3] = 0 /\ wide[N + 4] = 0
    <3>1. /\ wide \in Wide /\ src1 \in Elements /\ i \in 0 .. N
          /\ Value(wide, 0, N + 4) = A24 * Value(src1, 0, i - 1)
      BY <2>2 DEF A24Inv, A24Typed, Grown
    <3>2. A24 * Value(src1, 0, i - 1) < Weight[N + 3]
      BY <3>1, LowProduct
    <3>3. /\ wide[N + 3] = 0 /\ wide[N + 4] = 0
          /\ Value(wide, 0, N + 2) = A24 * Value(src1, 0, i - 1)
      BY <3>1, <3>2, A24Bytes
    <3>4. i = 0 => A24 * Value(src1, 0, i - 1) = 0
      <4>1. Value(src1, 0, 0 - 1) = 0
        BY ValueEmpty
      <4>2. A24 * 0 = 0
        BY A24Room
      <4> QED  BY <4>1, <4>2
    <3> QED  BY <3>3, <3>4
  <2>3. ASSUME pc = "stage" PROVE wide[N + 3] = 0 /\ wide[N + 4] = 0
    BY <2>3 DEF A24Inv, Staged
  <2>4. ASSUME pc = "stage", i = 0 PROVE Value(wide, 0, N + 2) = A24 * Source
    <3>1. wide \in Wide /\ src1 \in Elements /\ Value(wide, 0, N + 4) = A24 * Source
      BY <2>4 DEF A24Inv, A24Typed, Grown
    <3>2. N \in 0 .. N
      BY <2>1
    <3>3. A24 * Source < Weight[N + 3]
      BY <3>1, <3>2, LowProduct DEF Source
    <3> QED  BY <3>1, <3>3, A24Bytes
  <2>5. ASSUME pc = "final_ripple"
        PROVE  Value(wide, 0, N - 1) + carry * Weight[4] = FoldOnce(A24 * Source)
    <3>1. /\ i = 3 /\ wide \in Wide /\ carry \in 0 .. 2
          /\ (Value(wide, 0, N - 1) + carry * Weight[i + 1]) + HighFold(wide, i)
               = FoldOnce(A24 * Source)
      BY <2>5 DEF A24Inv, A24Typed, A24Course, Staged
    <3>2. HighFold(wide, 3) = 0 /\ 3 + 1 = 4
      BY DEF HighFold
    <3>3. Value(wide, 0, N - 1) \in Int
      BY <3>1, Halves, Sizes
    <3>4. 4 \in 0 .. 2 * N + 2
      BY <2>1
    <3>5. Weight[4] \in Nat /\ carry \in Nat
      BY <3>1, <3>4, Radix
    <3>6. carry * Weight[4] \in Int
      BY <3>5
    <3> QED  BY <3>1, <3>2, <3>3, <3>6
  <2>6. TopFolded
    BY DEF A24Inv
  <2> QED  BY <2>2, <2>3, <2>4, <2>5, <2>6 DEF A24Exact, TopFolded
<1> QED  BY <1>1, A24Invariance, PTL
(***************************************************************************)
(* Part 4: fe25519_inv.                                                     *)
(***************************************************************************)

(* A shift of a run of ones; a sum without carries.                         *)
LEMMA DoubledRun ==
  ASSUME NEW f \in Nat, NEW g \in Nat
  PROVE  Doubled(f .. g) = f + 1 .. g + 1
<1>1. f .. g # Junk
  BY DEF Junk
<1>2. {n + 1 : n \in f .. g} = f + 1 .. g + 1
  <2>1. ASSUME NEW k \in f + 1 .. g + 1 PROVE k \in {n + 1 : n \in f .. g}
    <3>1. k - 1 \in f .. g /\ k = (k - 1) + 1
      OBVIOUS
    <3> QED  BY <3>1
  <2>2. \A k \in {n + 1 : n \in f .. g} : k \in f + 1 .. g + 1
    OBVIOUS
  <2> QED  BY <2>1, <2>2
<1> QED  BY <1>1, <1>2 DEF Doubled

LEMMA DisjointSum ==
  ASSUME Top \in Nat, NEW s \in SUBSET (0 .. Top), NEW t \in SUBSET (0 .. Top), s \cap t = {}
  PROVE  Plus(s, t) = s \cup t
<1>1. s # Junk /\ t # Junk
  BY DEF Junk
<1> DEFINE Carry(n) == \E k \in s \cap t : k < n /\ k + 1 .. n - 1 \subseteq s \cup t
<1>2. Plus(s, t) = {n \in 0 .. Top + 1 : (n \in s) # ((n \in t) # Carry(n))}
  BY <1>1 DEF Plus
<1>3. \A n : Carry(n) = FALSE
  OBVIOUS
<1> HIDE DEF Carry
<1>4. ASSUME NEW n \in 0 .. Top + 1 PROVE n \in Plus(s, t) <=> n \in s \cup t
  <2>1. n \in Plus(s, t) <=> ((n \in s) # ((n \in t) # Carry(n)))
    BY <1>2
  <2>2. (n \in {}) = FALSE
    OBVIOUS
  <2>3. n \in Plus(s, t) <=> ((n \in s) # ((n \in t) # (n \in {})))
    BY <1>3, <2>1, <2>2
  <2>4. n \notin s \cap t
    OBVIOUS
  <2>5. ((n \in s) # ((n \in t) # (n \in {}))) <=> n \in s \cup t
    BY <2>4
  <2> QED  BY <2>3, <2>5
<1>5. s \cup t \subseteq 0 .. Top + 1
  OBVIOUS
<1>6. Plus(s, t) \subseteq 0 .. Top + 1
  BY <1>2
<1> QED  BY <1>4, <1>5, <1>6

LEMMA ChainLines ==
  /\ Len(AdditionChain) = 29 /\ Final = 30
  /\ AdditionChain[1] = CopyLine("tmp1", "src")
  /\ AdditionChain[2] = SqrLine("tmp2", "tmp1")
  /\ AdditionChain[3] = SqrLine("tmp3", "tmp2")
  /\ AdditionChain[4] = SqrLine("tmp3", "tmp3")
  /\ AdditionChain[5] = MulLine("tmp3", "tmp3", "tmp1")
  /\ AdditionChain[6] = MulLine("x25_a", "tmp3", "tmp2")
  /\ AdditionChain[7] = SqrLine("tmp2", "x25_a")
  /\ AdditionChain[8] = MulLine("tmp2", "tmp2", "tmp3")
  /\ AdditionChain[9] = CopyLine("tmp3", "tmp2")
  /\ AdditionChain[10] = SqrnLine(5)
  /\ AdditionChain[11] = MulLine("x25_b", "tmp2", "tmp3")
  /\ AdditionChain[12] = CopyLine("tmp2", "x25_b")
  /\ AdditionChain[13] = SqrnLine(10)
  /\ AdditionChain[14] = MulLine("tmp2", "tmp2", "x25_b")
  /\ AdditionChain[15] = CopyLine("tmp3", "tmp2")
  /\ AdditionChain[16] = SqrnLine(20)
  /\ AdditionChain[17] = MulLine("tmp2", "tmp2", "tmp3")
  /\ AdditionChain[18] = SqrnLine(10)
  /\ AdditionChain[19] = MulLine("x25_da", "tmp2", "x25_b")
  /\ AdditionChain[20] = CopyLine("tmp2", "x25_da")
  /\ AdditionChain[21] = SqrnLine(50)
  /\ AdditionChain[22] = MulLine("x25_cb", "tmp2", "x25_da")
  /\ AdditionChain[23] = CopyLine("tmp2", "x25_cb")
  /\ AdditionChain[24] = SqrnLine(100)
  /\ AdditionChain[25] = MulLine("tmp2", "tmp2", "x25_cb")
  /\ AdditionChain[26] = SqrnLine(50)
  /\ AdditionChain[27] = MulLine("tmp2", "tmp2", "x25_da")
  /\ AdditionChain[28] = SqrnLine(5)
  /\ AdditionChain[29] = MulLine("dst", "tmp2", "x25_a")
<1>1. /\ Len(AdditionChain) = 29 /\ Final = 30
  BY DEF AdditionChain, Final
<1>2. /\ AdditionChain[1] = CopyLine("tmp1", "src")
      /\ AdditionChain[2] = SqrLine("tmp2", "tmp1")
      /\ AdditionChain[3] = SqrLine("tmp3", "tmp2")
      /\ AdditionChain[4] = SqrLine("tmp3", "tmp3")
      /\ AdditionChain[5] = MulLine("tmp3", "tmp3", "tmp1")
  BY DEF AdditionChain
<1>3. /\ AdditionChain[6] = MulLine("x25_a", "tmp3", "tmp2")
      /\ AdditionChain[7] = SqrLine("tmp2", "x25_a")
      /\ AdditionChain[8] = MulLine("tmp2", "tmp2", "tmp3")
      /\ AdditionChain[9] = CopyLine("tmp3", "tmp2")
      /\ AdditionChain[10] = SqrnLine(5)
  BY DEF AdditionChain
<1>4. /\ AdditionChain[11] = MulLine("x25_b", "tmp2", "tmp3")
      /\ AdditionChain[12] = CopyLine("tmp2", "x25_b")
      /\ AdditionChain[13] = SqrnLine(10)
      /\ AdditionChain[14] = MulLine("tmp2", "tmp2", "x25_b")
      /\ AdditionChain[15] = CopyLine("tmp3", "tmp2")
  BY DEF AdditionChain
<1>5. /\ AdditionChain[16] = SqrnLine(20)
      /\ AdditionChain[17] = MulLine("tmp2", "tmp2", "tmp3")
      /\ AdditionChain[18] = SqrnLine(10)
      /\ AdditionChain[19] = MulLine("x25_da", "tmp2", "x25_b")
      /\ AdditionChain[20] = CopyLine("tmp2", "x25_da")
  BY DEF AdditionChain
<1>6. /\ AdditionChain[21] = SqrnLine(50)
      /\ AdditionChain[22] = MulLine("x25_cb", "tmp2", "x25_da")
      /\ AdditionChain[23] = CopyLine("tmp2", "x25_cb")
      /\ AdditionChain[24] = SqrnLine(100)
      /\ AdditionChain[25] = MulLine("tmp2", "tmp2", "x25_cb")
  BY DEF AdditionChain
<1>7. /\ AdditionChain[26] = SqrnLine(50)
      /\ AdditionChain[27] = MulLine("tmp2", "tmp2", "x25_da")
      /\ AdditionChain[28] = SqrnLine(5)
      /\ AdditionChain[29] = MulLine("dst", "tmp2", "x25_a")
  BY DEF AdditionChain
<1> QED  BY <1>1, <1>2, <1>3, <1>4, <1>5, <1>6, <1>7

(***************************************************************************)
(* The inductive invariant: at each line, the power in every buffer that is *)
(* still read.  In the middle of a loop of squarings the ones of tmp2 are   *)
(* shifted by as many places as there were squarings.                       *)
(***************************************************************************)
Ones(count, n, m) == IF count = 0 THEN 0 .. m - 1 ELSE n - count .. (n - count) + (m - 1)

InverseTyped ==
  /\ line \in 0 .. 30 /\ sqrs \in 0 .. 100
  /\ power \in [AllBuffers -> Exponents \cup {Junk}]
  /\ src1 \in AllBuffers /\ dst \in AllBuffers /\ canonical \in BOOLEAN

Counting ==
  /\ line \notin {10, 13, 16, 18, 21, 24, 26, 28} => sqrs = 0
  /\ (line = 10 => sqrs <= 5) /\ (line = 13 => sqrs <= 10) /\ (line = 16 => sqrs <= 20) /\ (line = 18 => sqrs <= 10)
  /\ (line = 21 => sqrs <= 50) /\ (line = 24 => sqrs <= 100) /\ (line = 26 => sqrs <= 50) /\ (line = 28 => sqrs <= 5)

ChainPowers ==
  /\ line = 1 => power[src1] = {0}
  /\ line \in 2 .. 5 => power["tmp1"] = {0}
  /\ line \in 3 .. 6 => power["tmp2"] = {1}
  /\ line = 4 => power["tmp3"] = {2}
  /\ line = 5 => power["tmp3"] = {3}
  /\ line \in 6 .. 8 => power["tmp3"] = {0, 3}
  /\ line \in 7 .. 29 => power["x25_a"] = {0, 1, 3}
  /\ line = 8 => power["tmp2"] = {1, 2, 4}
  /\ line = 9 => power["tmp2"] = 0 .. 4
  /\ line \in 10 .. 11 => power["tmp3"] = 0 .. 4
  /\ line = 10 => power["tmp2"] = Ones(sqrs, 5, 5)
  /\ line = 11 => power["tmp2"] = 5 .. 9
  /\ line \in 12 .. 19 => power["x25_b"] = 0 .. 9
  /\ line = 13 => power["tmp2"] = Ones(sqrs, 10, 10)
  /\ line = 14 => power["tmp2"] = 10 .. 19
  /\ line = 15 => power["tmp2"] = 0 .. 19
  /\ line \in 16 .. 17 => power["tmp3"] = 0 .. 19
  /\ line = 16 => power["tmp2"] = Ones(sqrs, 20, 20)
  /\ line = 17 => power["tmp2"] = 20 .. 39
  /\ line = 18 => power["tmp2"] = Ones(sqrs, 10, 40)
  /\ line = 19 => power["tmp2"] = 10 .. 49
  /\ line \in 20 .. 27 => power["x25_da"] = 0 .. 49
  /\ line = 21 => power["tmp2"] = Ones(sqrs, 50, 50)
  /\ line = 22 => power["tmp2"] = 50 .. 99
  /\ line \in 23 .. 25 => power["x25_cb"] = 0 .. 99
  /\ line = 24 => power["tmp2"] = Ones(sqrs, 100, 100)
  /\ line = 25 => power["tmp2"] = 100 .. 199
  /\ line = 26 => power["tmp2"] = Ones(sqrs, 50, 200)
  /\ line = 27 => power["tmp2"] = 50 .. 249
  /\ line = 28 => power["tmp2"] = Ones(sqrs, 5, 250)
  /\ line = 29 => power["tmp2"] = 5 .. 254
  /\ line = 30 \/ (line = 0 /\ canonical) => power[dst] = PMinus2

InverseInv == InverseTyped /\ Counting /\ ChainPowers /\ FrameKept

(* Line k has written v to r. *)
Written(k, r, v) ==
  /\ line' = k + 1 /\ sqrs' = sqrs /\ src1' = src1 /\ dst' = dst /\ canonical' = canonical
  /\ power' = [power EXCEPT ![r] = v]

LEMMA BufferNames ==
  /\ "tmp1" \in AllBuffers /\ "tmp2" \in AllBuffers /\ "tmp3" \in AllBuffers
  /\ "x25_a" \in AllBuffers /\ "x25_b" \in AllBuffers /\ "x25_da" \in AllBuffers
  /\ "x25_cb" \in AllBuffers
  /\ \A r \in Temps : r \in AllBuffers /\ r # "src" /\ r # "dst"
BY DEF AllBuffers, Temps

LEMMA CopyAt ==
  ASSUME NEW k \in 1 .. 29, NEW r, NEW s, line = k, AdditionChain[k] = CopyLine(r, s), InverseNext
  PROVE  Written(k, Named(r), power[Named(s)])
<1>1. ~At("sqr") /\ ~At("mul") /\ ~At("sqrn") /\ line # 0 /\ line # Final
  BY ChainLines DEF At, Line, CopyLine
<1>2. CallCopy
  BY <1>1 DEF InverseNext, InverseCall, CallSqr, CallMul, SqrnBegin, SqrnStep, ReduceResult
<1>3. Line.d = r /\ Line.s = s
  BY DEF Line, CopyLine
<1>4. /\ line' = k + 1 /\ UNCHANGED <<sqrs, src1, dst, canonical>>
      /\ power' = [power EXCEPT ![Named(r)] = power[Named(s)]]
  BY <1>2, <1>3 DEF CallCopy, Writes
<1> QED  BY <1>4 DEF Written

LEMMA SqrAt ==
  ASSUME NEW k \in 1 .. 29, NEW r, NEW s, line = k, AdditionChain[k] = SqrLine(r, s), InverseNext
  PROVE  Written(k, Named(r), Doubled(power[s]))
<1>1. ~At("copy") /\ ~At("mul") /\ ~At("sqrn") /\ line # 0 /\ line # Final
  BY ChainLines DEF At, Line, SqrLine
<1>2. CallSqr
  BY <1>1 DEF InverseNext, InverseCall, CallCopy, CallMul, SqrnBegin, SqrnStep, ReduceResult
<1>3. Line.d = r /\ Line.s = s
  BY DEF Line, SqrLine
<1>4. /\ line' = k + 1 /\ UNCHANGED <<sqrs, src1, dst, canonical>>
      /\ power' = [power EXCEPT ![Named(r)] = Doubled(power[s])]
  BY <1>2, <1>3 DEF CallSqr, Writes
<1> QED  BY <1>4 DEF Written

LEMMA MulAt ==
  ASSUME NEW k \in 1 .. 29, NEW r, NEW s, NEW t, line = k, AdditionChain[k] = MulLine(r, s, t),
         InverseNext
  PROVE  Written(k, Named(r), Plus(power[s], power[t]))
<1>1. ~At("copy") /\ ~At("sqr") /\ ~At("sqrn") /\ line # 0 /\ line # Final
  BY ChainLines DEF At, Line, MulLine
<1>2. CallMul
  BY <1>1 DEF InverseNext, InverseCall, CallCopy, CallSqr, SqrnBegin, SqrnStep, ReduceResult
<1>3. Line.d = r /\ Line.s = s /\ Line.t = t
  BY DEF Line, MulLine
<1>4. /\ line' = k + 1 /\ UNCHANGED <<sqrs, src1, dst, canonical>>
      /\ power' = [power EXCEPT ![Named(r)] = Plus(power[s], power[t])]
  BY <1>2, <1>3 DEF CallMul, Writes
<1> QED  BY <1>4 DEF Written

LEMMA SqrnAt ==
  ASSUME TopFits, InverseTyped, NEW k \in 1 .. 29, NEW n \in 1 .. 100, NEW m \in 1 .. 250,
         n + m <= 255, line = k, AdditionChain[k] = SqrnLine(n), InverseNext, sqrs <= n,
         power["tmp2"] = Ones(sqrs, n, m)
  PROVE  /\ src1' = src1 /\ dst' = dst /\ canonical' = canonical
         /\ power' \in [AllBuffers -> Exponents \cup {Junk}]
         /\ \A r \in AllBuffers : r # "tmp2" => power'[r] = power[r]
         /\ \/ line' = k /\ sqrs' \in 1 .. n /\ power'["tmp2"] = Ones(sqrs', n, m)
            \/ line' = k + 1 /\ sqrs' = 0 /\ power'["tmp2"] = n .. n + (m - 1)
<1>1. ~At("copy") /\ ~At("sqr") /\ ~At("mul") /\ line # 0 /\ line # Final
  BY ChainLines DEF At, Line, SqrnLine
<1>2. SqrnBegin \/ SqrnStep
  BY <1>1 DEF InverseNext, InverseCall, CallCopy, CallSqr, CallMul, ReduceResult
<1>3. /\ Line.n = n /\ Line.s = "tmp2" /\ Line.d = "tmp2" /\ Named("tmp2") = "tmp2"
      /\ "tmp2" \in AllBuffers
  BY BufferNames DEF Line, SqrnLine, Named
<1>4. sqrs \in 0 .. n /\ power \in [AllBuffers -> Exponents \cup {Junk}]
  BY DEF InverseTyped
<1>5. CASE SqrnBegin
  <2>1. /\ sqrs = 0 /\ sqrs' = n /\ line' = k /\ power' = power /\ src1' = src1 /\ dst' = dst
        /\ canonical' = canonical
    BY <1>3, <1>5 DEF SqrnBegin
  <2>2. Ones(0, n, m) = Ones(n, n, m)
    <3>1. n # 0 /\ n - n = 0 /\ 0 + (m - 1) = m - 1
      OBVIOUS
    <3>2. Ones(n, n, m) = n - n .. (n - n) + (m - 1)
      BY <3>1 DEF Ones
    <3>3. Ones(n, n, m) = 0 .. m - 1
      BY <3>1, <3>2
    <3> QED  BY <3>3 DEF Ones
  <2> QED  BY <1>4, <2>1, <2>2
<1>6. CASE SqrnStep
  <2>1. /\ sqrs > 0 /\ sqrs' = sqrs - 1 /\ line' = (IF sqrs - 1 = 0 THEN k + 1 ELSE k)
        /\ power' = [power EXCEPT !["tmp2"] = Doubled(power["tmp2"])]
        /\ src1' = src1 /\ dst' = dst /\ canonical' = canonical
    BY <1>3, <1>6 DEF SqrnStep, Writes
  <2>2. PICK f \in Nat, g \in Nat : f = n - sqrs /\ g = (n - sqrs) + (m - 1)
    BY <1>4
  <2>3. power["tmp2"] = f .. g
    BY <2>1, <2>2 DEF Ones
  <2>4. Doubled(power["tmp2"]) = f + 1 .. g + 1
    BY <2>3, DoubledRun
  <2>5. /\ f + 1 = n - (sqrs - 1) /\ g + 1 = (n - (sqrs - 1)) + (m - 1) /\ g + 1 <= 254
    BY <1>4, <2>1, <2>2
  <2>6. f + 1 .. g + 1 \in Exponents
    BY <2>5 DEF Exponents, TopFits
  <2>7. /\ power' \in [AllBuffers -> Exponents \cup {Junk}]
        /\ power'["tmp2"] = f + 1 .. g + 1
        /\ \A r \in AllBuffers : r # "tmp2" => power'[r] = power[r]
    BY <1>3, <1>4, <2>1, <2>4, <2>6
  <2>8. CASE sqrs - 1 = 0
    <3>1. f + 1 = n /\ g + 1 = n + (m - 1)
      BY <1>4, <2>5, <2>8
    <3> QED  BY <2>1, <2>7, <2>8, <3>1
  <2>9. CASE sqrs - 1 # 0
    <3>1. power'["tmp2"] = Ones(sqrs - 1, n, m)
      BY <2>5, <2>7, <2>9 DEF Ones
    <3> QED  BY <1>4, <2>1, <2>7, <2>9, <3>1
  <2> QED  BY <2>8, <2>9
<1> QED  BY <1>2, <1>5, <1>6

(* What a line leaves. *)
LEMMA WrittenKeeps ==
  ASSUME TopFits, InverseInv, NEW k \in 1 .. 29, line = k, NEW r \in Temps \cup {dst}, NEW v \in Exponents,
         sqrs = 0, Written(k, r, v)
  PROVE  /\ InverseTyped' /\ FrameKept' /\ line' = k + 1 /\ sqrs' = 0 /\ src1' = src1 /\ dst' = dst
         /\ Counting'
         /\ \A s \in AllBuffers : power'[s] = IF s = r THEN v ELSE power[s]
<1>1. r \in AllBuffers /\ k + 1 \in 0 .. 30 /\ k + 1 # 0
  BY BufferNames DEF InverseInv, InverseTyped
<1>2. /\ line' = k + 1 /\ sqrs' = 0 /\ src1' = src1 /\ dst' = dst /\ canonical' = canonical
      /\ power' = [power EXCEPT ![r] = v]
      /\ power \in [AllBuffers -> Exponents \cup {Junk}]
  BY DEF Written, InverseInv, InverseTyped
<1>3. /\ \A s \in AllBuffers : power'[s] = IF s = r THEN v ELSE power[s]
      /\ power' \in [AllBuffers -> Exponents \cup {Junk}]
  BY <1>1, <1>2
<1>4. InverseTyped'
  BY <1>1, <1>2, <1>3 DEF InverseInv, InverseTyped
<1>5. FrameKept'
  <2>1. \A s \in AllBuffers \ (Temps \cup {dst}) : power[s] = AtCall(s, src1)
    BY DEF InverseInv, FrameKept
  <2> QED  BY <1>2, <1>3, <2>1 DEF FrameKept
<1>6. Counting'
  BY <1>2 DEF Counting
<1> QED  BY <1>2, <1>3, <1>4, <1>5, <1>6

(* A loop of n squarings of a run of m ones, at line k, and its next step. *)
Squarings(k, n, m) ==
  /\ k \in 1 .. 29 /\ n \in 1 .. 100 /\ m \in 1 .. 250 /\ n + m <= 255
  /\ line = k /\ AdditionChain[k] = SqrnLine(n)
  /\ sqrs <= n /\ power["tmp2"] = Ones(sqrs, n, m)

Looped(k, n, m) ==
  \/ line' = k /\ sqrs' \in 1 .. n /\ power'["tmp2"] = Ones(sqrs', n, m)
  \/ line' = k + 1 /\ sqrs' = 0 /\ power'["tmp2"] = n .. n + (m - 1)

LEMMA SqrnLeaves ==
  ASSUME TopFits, InverseInv, InverseNext, NEW k, NEW n, NEW m, Squarings(k, n, m)
  PROVE  /\ InverseTyped' /\ FrameKept' /\ src1' = src1 /\ dst' = dst
         /\ \A r \in AllBuffers : r # "tmp2" => power'[r] = power[r]
         /\ Looped(k, n, m)
<1>1. InverseTyped /\ k \in 1 .. 29 /\ n \in 1 .. 100
  BY DEF InverseInv, Squarings
<1>2. /\ src1' = src1 /\ dst' = dst /\ canonical' = canonical
      /\ power' \in [AllBuffers -> Exponents \cup {Junk}]
      /\ \A r \in AllBuffers : r # "tmp2" => power'[r] = power[r]
      /\ \/ line' = k /\ sqrs' \in 1 .. n /\ power'["tmp2"] = Ones(sqrs', n, m)
         \/ line' = k + 1 /\ sqrs' = 0 /\ power'["tmp2"] = n .. n + (m - 1)
  BY <1>1, SqrnAt DEF Squarings
<1>3. InverseTyped'
  <2>1. line' \in 0 .. 30 /\ sqrs' \in 0 .. 100
    <3>1. \/ line' = k /\ sqrs' \in 1 .. n
          \/ line' = k + 1 /\ sqrs' = 0
      BY <1>2
    <3> QED  BY <1>1, <3>1
  <2>2. src1' \in AllBuffers /\ dst' \in AllBuffers /\ canonical' \in BOOLEAN
    BY <1>1, <1>2 DEF InverseTyped
  <2>3. power' \in [AllBuffers -> Exponents \cup {Junk}]
    BY <1>2
  <2> QED  BY <2>1, <2>2, <2>3 DEF InverseTyped
<1>4. FrameKept'
  <2>1. \A r \in AllBuffers \ (Temps \cup {dst}) : power[r] = AtCall(r, src1)
    BY DEF InverseInv, FrameKept, Squarings
  <2>2. "tmp2" \in Temps
    BY DEF Temps
  <2> QED  BY <1>2, <2>1, <2>2 DEF FrameKept
<1> QED  BY <1>2, <1>3, <1>4 DEF Looped

(* Copies.                                                                  *)
LEMMA CopiesKeep ==
  ASSUME TopFits, InverseInv, InverseNext, line \in {1, 9, 12, 15, 20, 23}
  PROVE  InverseInv'
<1>0. FrameKept /\ ChainPowers /\ Counting
  BY DEF InverseInv
<1>1. CASE line = 1
  <2>1. sqrs = 0 /\ power[src1] = {0}
    BY <1>0, <1>1 DEF Counting, ChainPowers
  <2>2. AdditionChain[1] = CopyLine("tmp1", "src")
    BY ChainLines
  <2>3. Written(1, Named("tmp1"), power[Named("src")])
    BY <1>1, <2>2, CopyAt
  <2>4. {0} \in Exponents /\ "tmp1" \in Temps \cup {dst} /\ Written(1, "tmp1", {0})
    <3>1. {0} \in Exponents /\ "tmp1" \in Temps \cup {dst}
      BY DEF Exponents, TopFits, Temps
    <3> QED  BY <2>1, <2>2, <2>3, <3>1 DEF Named
  <2>5. /\ InverseTyped' /\ FrameKept' /\ line' = 2 /\ sqrs' = 0 /\ src1' = src1 /\ dst' = dst
        /\ Counting' /\ \A s \in AllBuffers : power'[s] = IF s = "tmp1" THEN {0} ELSE power[s]
    BY <1>1, <2>1, <2>4, WrittenKeeps
  <2>6. power'["tmp1"] = {0}
    BY <2>1, <2>5, BufferNames
  <2>7. ChainPowers'
    BY <2>5, <2>6 DEF ChainPowers
  <2> QED  BY <2>5, <2>7 DEF InverseInv
<1>2. CASE line = 9
  <2>1. sqrs = 0 /\ power["x25_a"] = {0, 1, 3} /\ power["tmp2"] = 0 .. 4
    BY <1>0, <1>2 DEF Counting, ChainPowers
  <2>2. AdditionChain[9] = CopyLine("tmp3", "tmp2")
    BY ChainLines
  <2>3. Written(9, Named("tmp3"), power[Named("tmp2")])
    BY <1>2, <2>2, CopyAt
  <2>4. 0 .. 4 \in Exponents /\ "tmp3" \in Temps \cup {dst} /\ Written(9, "tmp3", 0 .. 4)
    <3>1. 0 .. 4 \in Exponents /\ "tmp3" \in Temps \cup {dst}
      BY DEF Exponents, TopFits, Temps
    <3> QED  BY <2>1, <2>2, <2>3, <3>1 DEF Named
  <2>5. /\ InverseTyped' /\ FrameKept' /\ line' = 10 /\ sqrs' = 0 /\ src1' = src1 /\ dst' = dst
        /\ Counting' /\ \A s \in AllBuffers : power'[s] = IF s = "tmp3" THEN 0 .. 4 ELSE power[s]
    BY <1>2, <2>1, <2>4, WrittenKeeps
  <2>6. power'["tmp3"] = 0 .. 4 /\ power'["x25_a"] = {0, 1, 3} /\ power'["tmp2"] = 0 .. 4
    BY <2>1, <2>5, BufferNames
  <2>7. ChainPowers'
    <3>1. Ones(0, 5, 5) = 0 .. 4
      BY DEF Ones
    <3> QED  BY <2>5, <2>6, <3>1 DEF ChainPowers
  <2> QED  BY <2>5, <2>7 DEF InverseInv
<1>3. CASE line = 12
  <2>1. sqrs = 0 /\ power["x25_a"] = {0, 1, 3} /\ power["x25_b"] = 0 .. 9
    BY <1>0, <1>3 DEF Counting, ChainPowers
  <2>2. AdditionChain[12] = CopyLine("tmp2", "x25_b")
    BY ChainLines
  <2>3. Written(12, Named("tmp2"), power[Named("x25_b")])
    BY <1>3, <2>2, CopyAt
  <2>4. 0 .. 9 \in Exponents /\ "tmp2" \in Temps \cup {dst} /\ Written(12, "tmp2", 0 .. 9)
    <3>1. 0 .. 9 \in Exponents /\ "tmp2" \in Temps \cup {dst}
      BY DEF Exponents, TopFits, Temps
    <3> QED  BY <2>1, <2>2, <2>3, <3>1 DEF Named
  <2>5. /\ InverseTyped' /\ FrameKept' /\ line' = 13 /\ sqrs' = 0 /\ src1' = src1 /\ dst' = dst
        /\ Counting' /\ \A s \in AllBuffers : power'[s] = IF s = "tmp2" THEN 0 .. 9 ELSE power[s]
    BY <1>3, <2>1, <2>4, WrittenKeeps
  <2>6. power'["tmp2"] = 0 .. 9 /\ power'["x25_a"] = {0, 1, 3} /\ power'["x25_b"] = 0 .. 9
    BY <2>1, <2>5, BufferNames
  <2>7. ChainPowers'
    <3>1. Ones(0, 10, 10) = 0 .. 9
      BY DEF Ones
    <3> QED  BY <2>5, <2>6, <3>1 DEF ChainPowers
  <2> QED  BY <2>5, <2>7 DEF InverseInv
<1>4. CASE line = 15
  <2>1. sqrs = 0 /\ power["x25_a"] = {0, 1, 3} /\ power["x25_b"] = 0 .. 9 /\ power["tmp2"] = 0 .. 19
    BY <1>0, <1>4 DEF Counting, ChainPowers
  <2>2. AdditionChain[15] = CopyLine("tmp3", "tmp2")
    BY ChainLines
  <2>3. Written(15, Named("tmp3"), power[Named("tmp2")])
    BY <1>4, <2>2, CopyAt
  <2>4. 0 .. 19 \in Exponents /\ "tmp3" \in Temps \cup {dst} /\ Written(15, "tmp3", 0 .. 19)
    <3>1. 0 .. 19 \in Exponents /\ "tmp3" \in Temps \cup {dst}
      BY DEF Exponents, TopFits, Temps
    <3> QED  BY <2>1, <2>2, <2>3, <3>1 DEF Named
  <2>5. /\ InverseTyped' /\ FrameKept' /\ line' = 16 /\ sqrs' = 0 /\ src1' = src1 /\ dst' = dst
        /\ Counting' /\ \A s \in AllBuffers : power'[s] = IF s = "tmp3" THEN 0 .. 19 ELSE power[s]
    BY <1>4, <2>1, <2>4, WrittenKeeps
  <2>6. power'["tmp3"] = 0 .. 19 /\ power'["x25_a"] = {0, 1, 3} /\ power'["x25_b"] = 0 .. 9 /\ power'["tmp2"] = 0 .. 19
    BY <2>1, <2>5, BufferNames
  <2>7. ChainPowers'
    <3>1. Ones(0, 20, 20) = 0 .. 19
      BY DEF Ones
    <3> QED  BY <2>5, <2>6, <3>1 DEF ChainPowers
  <2> QED  BY <2>5, <2>7 DEF InverseInv
<1>5. CASE line = 20
  <2>1. sqrs = 0 /\ power["x25_a"] = {0, 1, 3} /\ power["x25_da"] = 0 .. 49
    BY <1>0, <1>5 DEF Counting, ChainPowers
  <2>2. AdditionChain[20] = CopyLine("tmp2", "x25_da")
    BY ChainLines
  <2>3. Written(20, Named("tmp2"), power[Named("x25_da")])
    BY <1>5, <2>2, CopyAt
  <2>4. 0 .. 49 \in Exponents /\ "tmp2" \in Temps \cup {dst} /\ Written(20, "tmp2", 0 .. 49)
    <3>1. 0 .. 49 \in Exponents /\ "tmp2" \in Temps \cup {dst}
      BY DEF Exponents, TopFits, Temps
    <3> QED  BY <2>1, <2>2, <2>3, <3>1 DEF Named
  <2>5. /\ InverseTyped' /\ FrameKept' /\ line' = 21 /\ sqrs' = 0 /\ src1' = src1 /\ dst' = dst
        /\ Counting' /\ \A s \in AllBuffers : power'[s] = IF s = "tmp2" THEN 0 .. 49 ELSE power[s]
    BY <1>5, <2>1, <2>4, WrittenKeeps
  <2>6. power'["tmp2"] = 0 .. 49 /\ power'["x25_a"] = {0, 1, 3} /\ power'["x25_da"] = 0 .. 49
    BY <2>1, <2>5, BufferNames
  <2>7. ChainPowers'
    <3>1. Ones(0, 50, 50) = 0 .. 49
      BY DEF Ones
    <3> QED  BY <2>5, <2>6, <3>1 DEF ChainPowers
  <2> QED  BY <2>5, <2>7 DEF InverseInv
<1>6. CASE line = 23
  <2>1. sqrs = 0 /\ power["x25_a"] = {0, 1, 3} /\ power["x25_da"] = 0 .. 49 /\ power["x25_cb"] = 0 .. 99
    BY <1>0, <1>6 DEF Counting, ChainPowers
  <2>2. AdditionChain[23] = CopyLine("tmp2", "x25_cb")
    BY ChainLines
  <2>3. Written(23, Named("tmp2"), power[Named("x25_cb")])
    BY <1>6, <2>2, CopyAt
  <2>4. 0 .. 99 \in Exponents /\ "tmp2" \in Temps \cup {dst} /\ Written(23, "tmp2", 0 .. 99)
    <3>1. 0 .. 99 \in Exponents /\ "tmp2" \in Temps \cup {dst}
      BY DEF Exponents, TopFits, Temps
    <3> QED  BY <2>1, <2>2, <2>3, <3>1 DEF Named
  <2>5. /\ InverseTyped' /\ FrameKept' /\ line' = 24 /\ sqrs' = 0 /\ src1' = src1 /\ dst' = dst
        /\ Counting' /\ \A s \in AllBuffers : power'[s] = IF s = "tmp2" THEN 0 .. 99 ELSE power[s]
    BY <1>6, <2>1, <2>4, WrittenKeeps
  <2>6. power'["tmp2"] = 0 .. 99 /\ power'["x25_a"] = {0, 1, 3} /\ power'["x25_da"] = 0 .. 49 /\ power'["x25_cb"] = 0 .. 99
    BY <2>1, <2>5, BufferNames
  <2>7. ChainPowers'
    <3>1. Ones(0, 100, 100) = 0 .. 99
      BY DEF Ones
    <3> QED  BY <2>5, <2>6, <3>1 DEF ChainPowers
  <2> QED  BY <2>5, <2>7 DEF InverseInv
<1> QED  BY <1>1, <1>2, <1>3, <1>4, <1>5, <1>6

(* Single squarings.                                                        *)
LEMMA SquaresKeep ==
  ASSUME TopFits, InverseInv, InverseNext, line \in {2, 3, 4, 7}
  PROVE  InverseInv'
<1>0. FrameKept /\ ChainPowers /\ Counting
  BY DEF InverseInv
<1>1. CASE line = 2
  <2>1. sqrs = 0 /\ power["tmp1"] = {0}
    BY <1>0, <1>1 DEF Counting, ChainPowers
  <2>2. AdditionChain[2] = SqrLine("tmp2", "tmp1") /\ Doubled({0}) = {1}
    BY ChainLines DEF Doubled, Junk
  <2>3. Written(2, Named("tmp2"), Doubled(power["tmp1"]))
    BY <1>1, <2>2, SqrAt
  <2>4. {1} \in Exponents /\ "tmp2" \in Temps \cup {dst} /\ Written(2, "tmp2", {1})
    <3>1. {1} \in Exponents /\ "tmp2" \in Temps \cup {dst}
      BY DEF Exponents, TopFits, Temps
    <3> QED  BY <2>1, <2>2, <2>3, <3>1 DEF Named
  <2>5. /\ InverseTyped' /\ FrameKept' /\ line' = 3 /\ sqrs' = 0 /\ src1' = src1 /\ dst' = dst
        /\ Counting' /\ \A s \in AllBuffers : power'[s] = IF s = "tmp2" THEN {1} ELSE power[s]
    BY <1>1, <2>1, <2>4, WrittenKeeps
  <2>6. power'["tmp2"] = {1} /\ power'["tmp1"] = {0}
    BY <2>1, <2>5, BufferNames
  <2>7. ChainPowers'
    BY <2>5, <2>6 DEF ChainPowers
  <2> QED  BY <2>5, <2>7 DEF InverseInv
<1>2. CASE line = 3
  <2>1. sqrs = 0 /\ power["tmp1"] = {0} /\ power["tmp2"] = {1}
    BY <1>0, <1>2 DEF Counting, ChainPowers
  <2>2. AdditionChain[3] = SqrLine("tmp3", "tmp2") /\ Doubled({1}) = {2}
    BY ChainLines DEF Doubled, Junk
  <2>3. Written(3, Named("tmp3"), Doubled(power["tmp2"]))
    BY <1>2, <2>2, SqrAt
  <2>4. {2} \in Exponents /\ "tmp3" \in Temps \cup {dst} /\ Written(3, "tmp3", {2})
    <3>1. {2} \in Exponents /\ "tmp3" \in Temps \cup {dst}
      BY DEF Exponents, TopFits, Temps
    <3> QED  BY <2>1, <2>2, <2>3, <3>1 DEF Named
  <2>5. /\ InverseTyped' /\ FrameKept' /\ line' = 4 /\ sqrs' = 0 /\ src1' = src1 /\ dst' = dst
        /\ Counting' /\ \A s \in AllBuffers : power'[s] = IF s = "tmp3" THEN {2} ELSE power[s]
    BY <1>2, <2>1, <2>4, WrittenKeeps
  <2>6. power'["tmp3"] = {2} /\ power'["tmp1"] = {0} /\ power'["tmp2"] = {1}
    BY <2>1, <2>5, BufferNames
  <2>7. ChainPowers'
    BY <2>5, <2>6 DEF ChainPowers
  <2> QED  BY <2>5, <2>7 DEF InverseInv
<1>3. CASE line = 4
  <2>1. sqrs = 0 /\ power["tmp1"] = {0} /\ power["tmp2"] = {1} /\ power["tmp3"] = {2}
    BY <1>0, <1>3 DEF Counting, ChainPowers
  <2>2. AdditionChain[4] = SqrLine("tmp3", "tmp3") /\ Doubled({2}) = {3}
    BY ChainLines DEF Doubled, Junk
  <2>3. Written(4, Named("tmp3"), Doubled(power["tmp3"]))
    BY <1>3, <2>2, SqrAt
  <2>4. {3} \in Exponents /\ "tmp3" \in Temps \cup {dst} /\ Written(4, "tmp3", {3})
    <3>1. {3} \in Exponents /\ "tmp3" \in Temps \cup {dst}
      BY DEF Exponents, TopFits, Temps
    <3> QED  BY <2>1, <2>2, <2>3, <3>1 DEF Named
  <2>5. /\ InverseTyped' /\ FrameKept' /\ line' = 5 /\ sqrs' = 0 /\ src1' = src1 /\ dst' = dst
        /\ Counting' /\ \A s \in AllBuffers : power'[s] = IF s = "tmp3" THEN {3} ELSE power[s]
    BY <1>3, <2>1, <2>4, WrittenKeeps
  <2>6. power'["tmp3"] = {3} /\ power'["tmp1"] = {0} /\ power'["tmp2"] = {1}
    BY <2>1, <2>5, BufferNames
  <2>7. ChainPowers'
    BY <2>5, <2>6 DEF ChainPowers
  <2> QED  BY <2>5, <2>7 DEF InverseInv
<1>4. CASE line = 7
  <2>1. sqrs = 0 /\ power["tmp3"] = {0, 3} /\ power["x25_a"] = {0, 1, 3}
    BY <1>0, <1>4 DEF Counting, ChainPowers
  <2>2. AdditionChain[7] = SqrLine("tmp2", "x25_a") /\ Doubled({0, 1, 3}) = {1, 2, 4}
    BY ChainLines DEF Doubled, Junk
  <2>3. Written(7, Named("tmp2"), Doubled(power["x25_a"]))
    BY <1>4, <2>2, SqrAt
  <2>4. {1, 2, 4} \in Exponents /\ "tmp2" \in Temps \cup {dst} /\ Written(7, "tmp2", {1, 2, 4})
    <3>1. {1, 2, 4} \in Exponents /\ "tmp2" \in Temps \cup {dst}
      BY DEF Exponents, TopFits, Temps
    <3> QED  BY <2>1, <2>2, <2>3, <3>1 DEF Named
  <2>5. /\ InverseTyped' /\ FrameKept' /\ line' = 8 /\ sqrs' = 0 /\ src1' = src1 /\ dst' = dst
        /\ Counting' /\ \A s \in AllBuffers : power'[s] = IF s = "tmp2" THEN {1, 2, 4} ELSE power[s]
    BY <1>4, <2>1, <2>4, WrittenKeeps
  <2>6. power'["tmp2"] = {1, 2, 4} /\ power'["tmp3"] = {0, 3} /\ power'["x25_a"] = {0, 1, 3}
    BY <2>1, <2>5, BufferNames
  <2>7. ChainPowers'
    BY <2>5, <2>6 DEF ChainPowers
  <2> QED  BY <2>5, <2>7 DEF InverseInv
<1> QED  BY <1>1, <1>2, <1>3, <1>4

(* Products: the ones of the two factors never meet.                        *)
LEMMA ProductsKeep ==
  ASSUME TopFits, InverseInv, InverseNext, line \in {5, 6, 8, 11, 14, 17, 19, 22, 25, 27, 29}
  PROVE  InverseInv'
<1>0. FrameKept /\ ChainPowers /\ Counting
  BY DEF InverseInv
<1>1. CASE line = 5
  <2>1. sqrs = 0 /\ power["tmp1"] = {0} /\ power["tmp2"] = {1} /\ power["tmp3"] = {3}
    BY <1>0, <1>1 DEF Counting, ChainPowers
  <2>2. AdditionChain[5] = MulLine("tmp3", "tmp3", "tmp1") /\ Plus({3}, {0}) = {0, 3}
    <3>1. AdditionChain[5] = MulLine("tmp3", "tmp3", "tmp1")
      BY ChainLines
    <3>2. /\ {3} \in SUBSET (0 .. Top) /\ {0} \in SUBSET (0 .. Top) /\ ({3}) \cap ({0}) = {}
          /\ ({3}) \cup ({0}) = {0, 3} /\ Top \in Nat
      BY DEF TopFits
    <3>3. Plus({3}, {0}) = ({3}) \cup ({0})
      BY <3>2, DisjointSum
    <3> QED  BY <3>1, <3>2, <3>3
  <2>3. Written(5, Named("tmp3"), Plus(power["tmp3"], power["tmp1"]))
    BY <1>1, <2>2, MulAt
  <2>4. {0, 3} \in Exponents /\ "tmp3" \in Temps \cup {dst} /\ Written(5, "tmp3", {0, 3})
    <3>1. {0, 3} \in Exponents /\ "tmp3" \in Temps \cup {dst}
      BY DEF Exponents, TopFits, Temps
    <3> QED  BY <2>1, <2>2, <2>3, <3>1 DEF Named
  <2>5. /\ InverseTyped' /\ FrameKept' /\ line' = 6 /\ sqrs' = 0 /\ src1' = src1 /\ dst' = dst
        /\ Counting' /\ \A s \in AllBuffers : power'[s] = IF s = "tmp3" THEN {0, 3} ELSE power[s]
    BY <1>1, <2>1, <2>4, WrittenKeeps
  <2>6. power'["tmp3"] = {0, 3} /\ power'["tmp2"] = {1}
    BY <2>1, <2>5, BufferNames
  <2>7. ChainPowers'
    BY <2>5, <2>6 DEF ChainPowers
  <2> QED  BY <2>5, <2>7 DEF InverseInv
<1>2. CASE line = 6
  <2>1. sqrs = 0 /\ power["tmp2"] = {1} /\ power["tmp3"] = {0, 3}
    BY <1>0, <1>2 DEF Counting, ChainPowers
  <2>2. AdditionChain[6] = MulLine("x25_a", "tmp3", "tmp2") /\ Plus({0, 3}, {1}) = {0, 1, 3}
    <3>1. AdditionChain[6] = MulLine("x25_a", "tmp3", "tmp2")
      BY ChainLines
    <3>2. /\ {0, 3} \in SUBSET (0 .. Top) /\ {1} \in SUBSET (0 .. Top) /\ ({0, 3}) \cap ({1}) = {}
          /\ ({0, 3}) \cup ({1}) = {0, 1, 3} /\ Top \in Nat
      BY DEF TopFits
    <3>3. Plus({0, 3}, {1}) = ({0, 3}) \cup ({1})
      BY <3>2, DisjointSum
    <3> QED  BY <3>1, <3>2, <3>3
  <2>3. Written(6, Named("x25_a"), Plus(power["tmp3"], power["tmp2"]))
    BY <1>2, <2>2, MulAt
  <2>4. {0, 1, 3} \in Exponents /\ "x25_a" \in Temps \cup {dst} /\ Written(6, "x25_a", {0, 1, 3})
    <3>1. {0, 1, 3} \in Exponents /\ "x25_a" \in Temps \cup {dst}
      BY DEF Exponents, TopFits, Temps
    <3> QED  BY <2>1, <2>2, <2>3, <3>1 DEF Named
  <2>5. /\ InverseTyped' /\ FrameKept' /\ line' = 7 /\ sqrs' = 0 /\ src1' = src1 /\ dst' = dst
        /\ Counting' /\ \A s \in AllBuffers : power'[s] = IF s = "x25_a" THEN {0, 1, 3} ELSE power[s]
    BY <1>2, <2>1, <2>4, WrittenKeeps
  <2>6. power'["x25_a"] = {0, 1, 3} /\ power'["tmp3"] = {0, 3}
    BY <2>1, <2>5, BufferNames
  <2>7. ChainPowers'
    BY <2>5, <2>6 DEF ChainPowers
  <2> QED  BY <2>5, <2>7 DEF InverseInv
<1>3. CASE line = 8
  <2>1. sqrs = 0 /\ power["tmp3"] = {0, 3} /\ power["x25_a"] = {0, 1, 3} /\ power["tmp2"] = {1, 2, 4}
    BY <1>0, <1>3 DEF Counting, ChainPowers
  <2>2. AdditionChain[8] = MulLine("tmp2", "tmp2", "tmp3") /\ Plus({1, 2, 4}, {0, 3}) = 0 .. 4
    <3>1. AdditionChain[8] = MulLine("tmp2", "tmp2", "tmp3")
      BY ChainLines
    <3>2. /\ {1, 2, 4} \in SUBSET (0 .. Top) /\ {0, 3} \in SUBSET (0 .. Top) /\ ({1, 2, 4}) \cap ({0, 3}) = {}
          /\ ({1, 2, 4}) \cup ({0, 3}) = 0 .. 4 /\ Top \in Nat
      BY DEF TopFits
    <3>3. Plus({1, 2, 4}, {0, 3}) = ({1, 2, 4}) \cup ({0, 3})
      BY <3>2, DisjointSum
    <3> QED  BY <3>1, <3>2, <3>3
  <2>3. Written(8, Named("tmp2"), Plus(power["tmp2"], power["tmp3"]))
    BY <1>3, <2>2, MulAt
  <2>4. 0 .. 4 \in Exponents /\ "tmp2" \in Temps \cup {dst} /\ Written(8, "tmp2", 0 .. 4)
    <3>1. 0 .. 4 \in Exponents /\ "tmp2" \in Temps \cup {dst}
      BY DEF Exponents, TopFits, Temps
    <3> QED  BY <2>1, <2>2, <2>3, <3>1 DEF Named
  <2>5. /\ InverseTyped' /\ FrameKept' /\ line' = 9 /\ sqrs' = 0 /\ src1' = src1 /\ dst' = dst
        /\ Counting' /\ \A s \in AllBuffers : power'[s] = IF s = "tmp2" THEN 0 .. 4 ELSE power[s]
    BY <1>3, <2>1, <2>4, WrittenKeeps
  <2>6. power'["tmp2"] = 0 .. 4 /\ power'["x25_a"] = {0, 1, 3}
    BY <2>1, <2>5, BufferNames
  <2>7. ChainPowers'
    BY <2>5, <2>6 DEF ChainPowers
  <2> QED  BY <2>5, <2>7 DEF InverseInv
<1>4. CASE line = 11
  <2>1. sqrs = 0 /\ power["x25_a"] = {0, 1, 3} /\ power["tmp3"] = 0 .. 4 /\ power["tmp2"] = 5 .. 9
    BY <1>0, <1>4 DEF Counting, ChainPowers
  <2>2. AdditionChain[11] = MulLine("x25_b", "tmp2", "tmp3") /\ Plus(5 .. 9, 0 .. 4) = 0 .. 9
    <3>1. AdditionChain[11] = MulLine("x25_b", "tmp2", "tmp3")
      BY ChainLines
    <3>2. /\ 5 .. 9 \in SUBSET (0 .. Top) /\ 0 .. 4 \in SUBSET (0 .. Top) /\ (5 .. 9) \cap (0 .. 4) = {}
          /\ (5 .. 9) \cup (0 .. 4) = 0 .. 9 /\ Top \in Nat
      BY DEF TopFits
    <3>3. Plus(5 .. 9, 0 .. 4) = (5 .. 9) \cup (0 .. 4)
      BY <3>2, DisjointSum
    <3> QED  BY <3>1, <3>2, <3>3
  <2>3. Written(11, Named("x25_b"), Plus(power["tmp2"], power["tmp3"]))
    BY <1>4, <2>2, MulAt
  <2>4. 0 .. 9 \in Exponents /\ "x25_b" \in Temps \cup {dst} /\ Written(11, "x25_b", 0 .. 9)
    <3>1. 0 .. 9 \in Exponents /\ "x25_b" \in Temps \cup {dst}
      BY DEF Exponents, TopFits, Temps
    <3> QED  BY <2>1, <2>2, <2>3, <3>1 DEF Named
  <2>5. /\ InverseTyped' /\ FrameKept' /\ line' = 12 /\ sqrs' = 0 /\ src1' = src1 /\ dst' = dst
        /\ Counting' /\ \A s \in AllBuffers : power'[s] = IF s = "x25_b" THEN 0 .. 9 ELSE power[s]
    BY <1>4, <2>1, <2>4, WrittenKeeps
  <2>6. power'["x25_b"] = 0 .. 9 /\ power'["x25_a"] = {0, 1, 3}
    BY <2>1, <2>5, BufferNames
  <2>7. ChainPowers'
    BY <2>5, <2>6 DEF ChainPowers
  <2> QED  BY <2>5, <2>7 DEF InverseInv
<1>5. CASE line = 14
  <2>1. sqrs = 0 /\ power["x25_a"] = {0, 1, 3} /\ power["x25_b"] = 0 .. 9 /\ power["tmp2"] = 10 .. 19
    BY <1>0, <1>5 DEF Counting, ChainPowers
  <2>2. AdditionChain[14] = MulLine("tmp2", "tmp2", "x25_b") /\ Plus(10 .. 19, 0 .. 9) = 0 .. 19
    <3>1. AdditionChain[14] = MulLine("tmp2", "tmp2", "x25_b")
      BY ChainLines
    <3>2. /\ 10 .. 19 \in SUBSET (0 .. Top) /\ 0 .. 9 \in SUBSET (0 .. Top) /\ (10 .. 19) \cap (0 .. 9) = {}
          /\ (10 .. 19) \cup (0 .. 9) = 0 .. 19 /\ Top \in Nat
      BY DEF TopFits
    <3>3. Plus(10 .. 19, 0 .. 9) = (10 .. 19) \cup (0 .. 9)
      BY <3>2, DisjointSum
    <3> QED  BY <3>1, <3>2, <3>3
  <2>3. Written(14, Named("tmp2"), Plus(power["tmp2"], power["x25_b"]))
    BY <1>5, <2>2, MulAt
  <2>4. 0 .. 19 \in Exponents /\ "tmp2" \in Temps \cup {dst} /\ Written(14, "tmp2", 0 .. 19)
    <3>1. 0 .. 19 \in Exponents /\ "tmp2" \in Temps \cup {dst}
      BY DEF Exponents, TopFits, Temps
    <3> QED  BY <2>1, <2>2, <2>3, <3>1 DEF Named
  <2>5. /\ InverseTyped' /\ FrameKept' /\ line' = 15 /\ sqrs' = 0 /\ src1' = src1 /\ dst' = dst
        /\ Counting' /\ \A s \in AllBuffers : power'[s] = IF s = "tmp2" THEN 0 .. 19 ELSE power[s]
    BY <1>5, <2>1, <2>4, WrittenKeeps
  <2>6. power'["tmp2"] = 0 .. 19 /\ power'["x25_a"] = {0, 1, 3} /\ power'["x25_b"] = 0 .. 9
    BY <2>1, <2>5, BufferNames
  <2>7. ChainPowers'
    BY <2>5, <2>6 DEF ChainPowers
  <2> QED  BY <2>5, <2>7 DEF InverseInv
<1>6. CASE line = 17
  <2>1. sqrs = 0 /\ power["x25_a"] = {0, 1, 3} /\ power["x25_b"] = 0 .. 9 /\ power["tmp3"] = 0 .. 19 /\ power["tmp2"] = 20 .. 39
    BY <1>0, <1>6 DEF Counting, ChainPowers
  <2>2. AdditionChain[17] = MulLine("tmp2", "tmp2", "tmp3") /\ Plus(20 .. 39, 0 .. 19) = 0 .. 39
    <3>1. AdditionChain[17] = MulLine("tmp2", "tmp2", "tmp3")
      BY ChainLines
    <3>2. /\ 20 .. 39 \in SUBSET (0 .. Top) /\ 0 .. 19 \in SUBSET (0 .. Top) /\ (20 .. 39) \cap (0 .. 19) = {}
          /\ (20 .. 39) \cup (0 .. 19) = 0 .. 39 /\ Top \in Nat
      BY DEF TopFits
    <3>3. Plus(20 .. 39, 0 .. 19) = (20 .. 39) \cup (0 .. 19)
      BY <3>2, DisjointSum
    <3> QED  BY <3>1, <3>2, <3>3
  <2>3. Written(17, Named("tmp2"), Plus(power["tmp2"], power["tmp3"]))
    BY <1>6, <2>2, MulAt
  <2>4. 0 .. 39 \in Exponents /\ "tmp2" \in Temps \cup {dst} /\ Written(17, "tmp2", 0 .. 39)
    <3>1. 0 .. 39 \in Exponents /\ "tmp2" \in Temps \cup {dst}
      BY DEF Exponents, TopFits, Temps
    <3> QED  BY <2>1, <2>2, <2>3, <3>1 DEF Named
  <2>5. /\ InverseTyped' /\ FrameKept' /\ line' = 18 /\ sqrs' = 0 /\ src1' = src1 /\ dst' = dst
        /\ Counting' /\ \A s \in AllBuffers : power'[s] = IF s = "tmp2" THEN 0 .. 39 ELSE power[s]
    BY <1>6, <2>1, <2>4, WrittenKeeps
  <2>6. power'["tmp2"] = 0 .. 39 /\ power'["x25_a"] = {0, 1, 3} /\ power'["x25_b"] = 0 .. 9
    BY <2>1, <2>5, BufferNames
  <2>7. ChainPowers'
    <3>1. Ones(0, 10, 40) = 0 .. 39
      BY DEF Ones
    <3> QED  BY <2>5, <2>6, <3>1 DEF ChainPowers
  <2> QED  BY <2>5, <2>7 DEF InverseInv
<1>7. CASE line = 19
  <2>1. sqrs = 0 /\ power["x25_a"] = {0, 1, 3} /\ power["x25_b"] = 0 .. 9 /\ power["tmp2"] = 10 .. 49
    BY <1>0, <1>7 DEF Counting, ChainPowers
  <2>2. AdditionChain[19] = MulLine("x25_da", "tmp2", "x25_b") /\ Plus(10 .. 49, 0 .. 9) = 0 .. 49
    <3>1. AdditionChain[19] = MulLine("x25_da", "tmp2", "x25_b")
      BY ChainLines
    <3>2. /\ 10 .. 49 \in SUBSET (0 .. Top) /\ 0 .. 9 \in SUBSET (0 .. Top) /\ (10 .. 49) \cap (0 .. 9) = {}
          /\ (10 .. 49) \cup (0 .. 9) = 0 .. 49 /\ Top \in Nat
      BY DEF TopFits
    <3>3. Plus(10 .. 49, 0 .. 9) = (10 .. 49) \cup (0 .. 9)
      BY <3>2, DisjointSum
    <3> QED  BY <3>1, <3>2, <3>3
  <2>3. Written(19, Named("x25_da"), Plus(power["tmp2"], power["x25_b"]))
    BY <1>7, <2>2, MulAt
  <2>4. 0 .. 49 \in Exponents /\ "x25_da" \in Temps \cup {dst} /\ Written(19, "x25_da", 0 .. 49)
    <3>1. 0 .. 49 \in Exponents /\ "x25_da" \in Temps \cup {dst}
      BY DEF Exponents, TopFits, Temps
    <3> QED  BY <2>1, <2>2, <2>3, <3>1 DEF Named
  <2>5. /\ InverseTyped' /\ FrameKept' /\ line' = 20 /\ sqrs' = 0 /\ src1' = src1 /\ dst' = dst
        /\ Counting' /\ \A s \in AllBuffers : power'[s] = IF s = "x25_da" THEN 0 .. 49 ELSE power[s]
    BY <1>7, <2>1, <2>4, WrittenKeeps
  <2>6. power'["x25_da"] = 0 .. 49 /\ power'["x25_a"] = {0, 1, 3}
    BY <2>1, <2>5, BufferNames
  <2>7. ChainPowers'
    BY <2>5, <2>6 DEF ChainPowers
  <2> QED  BY <2>5, <2>7 DEF InverseInv
<1>8. CASE line = 22
  <2>1. sqrs = 0 /\ power["x25_a"] = {0, 1, 3} /\ power["x25_da"] = 0 .. 49 /\ power["tmp2"] = 50 .. 99
    BY <1>0, <1>8 DEF Counting, ChainPowers
  <2>2. AdditionChain[22] = MulLine("x25_cb", "tmp2", "x25_da") /\ Plus(50 .. 99, 0 .. 49) = 0 .. 99
    <3>1. AdditionChain[22] = MulLine("x25_cb", "tmp2", "x25_da")
      BY ChainLines
    <3>2. /\ 50 .. 99 \in SUBSET (0 .. Top) /\ 0 .. 49 \in SUBSET (0 .. Top) /\ (50 .. 99) \cap (0 .. 49) = {}
          /\ (50 .. 99) \cup (0 .. 49) = 0 .. 99 /\ Top \in Nat
      BY DEF TopFits
    <3>3. Plus(50 .. 99, 0 .. 49) = (50 .. 99) \cup (0 .. 49)
      BY <3>2, DisjointSum
    <3> QED  BY <3>1, <3>2, <3>3
  <2>3. Written(22, Named("x25_cb"), Plus(power["tmp2"], power["x25_da"]))
    BY <1>8, <2>2, MulAt
  <2>4. 0 .. 99 \in Exponents /\ "x25_cb" \in Temps \cup {dst} /\ Written(22, "x25_cb", 0 .. 99)
    <3>1. 0 .. 99 \in Exponents /\ "x25_cb" \in Temps \cup {dst}
      BY DEF Exponents, TopFits, Temps
    <3> QED  BY <2>1, <2>2, <2>3, <3>1 DEF Named
  <2>5. /\ InverseTyped' /\ FrameKept' /\ line' = 23 /\ sqrs' = 0 /\ src1' = src1 /\ dst' = dst
        /\ Counting' /\ \A s \in AllBuffers : power'[s] = IF s = "x25_cb" THEN 0 .. 99 ELSE power[s]
    BY <1>8, <2>1, <2>4, WrittenKeeps
  <2>6. power'["x25_cb"] = 0 .. 99 /\ power'["x25_a"] = {0, 1, 3} /\ power'["x25_da"] = 0 .. 49
    BY <2>1, <2>5, BufferNames
  <2>7. ChainPowers'
    BY <2>5, <2>6 DEF ChainPowers
  <2> QED  BY <2>5, <2>7 DEF InverseInv
<1>9. CASE line = 25
  <2>1. sqrs = 0 /\ power["x25_a"] = {0, 1, 3} /\ power["x25_da"] = 0 .. 49 /\ power["x25_cb"] = 0 .. 99 /\ power["tmp2"] = 100 .. 199
    BY <1>0, <1>9 DEF Counting, ChainPowers
  <2>2. AdditionChain[25] = MulLine("tmp2", "tmp2", "x25_cb") /\ Plus(100 .. 199, 0 .. 99) = 0 .. 199
    <3>1. AdditionChain[25] = MulLine("tmp2", "tmp2", "x25_cb")
      BY ChainLines
    <3>2. /\ 100 .. 199 \in SUBSET (0 .. Top) /\ 0 .. 99 \in SUBSET (0 .. Top) /\ (100 .. 199) \cap (0 .. 99) = {}
          /\ (100 .. 199) \cup (0 .. 99) = 0 .. 199 /\ Top \in Nat
      BY DEF TopFits
    <3>3. Plus(100 .. 199, 0 .. 99) = (100 .. 199) \cup (0 .. 99)
      BY <3>2, DisjointSum
    <3> QED  BY <3>1, <3>2, <3>3
  <2>3. Written(25, Named("tmp2"), Plus(power["tmp2"], power["x25_cb"]))
    BY <1>9, <2>2, MulAt
  <2>4. 0 .. 199 \in Exponents /\ "tmp2" \in Temps \cup {dst} /\ Written(25, "tmp2", 0 .. 199)
    <3>1. 0 .. 199 \in Exponents /\ "tmp2" \in Temps \cup {dst}
      BY DEF Exponents, TopFits, Temps
    <3> QED  BY <2>1, <2>2, <2>3, <3>1 DEF Named
  <2>5. /\ InverseTyped' /\ FrameKept' /\ line' = 26 /\ sqrs' = 0 /\ src1' = src1 /\ dst' = dst
        /\ Counting' /\ \A s \in AllBuffers : power'[s] = IF s = "tmp2" THEN 0 .. 199 ELSE power[s]
    BY <1>9, <2>1, <2>4, WrittenKeeps
  <2>6. power'["tmp2"] = 0 .. 199 /\ power'["x25_a"] = {0, 1, 3} /\ power'["x25_da"] = 0 .. 49
    BY <2>1, <2>5, BufferNames
  <2>7. ChainPowers'
    <3>1. Ones(0, 50, 200) = 0 .. 199
      BY DEF Ones
    <3> QED  BY <2>5, <2>6, <3>1 DEF ChainPowers
  <2> QED  BY <2>5, <2>7 DEF InverseInv
<1>10. CASE line = 27
  <2>1. sqrs = 0 /\ power["x25_a"] = {0, 1, 3} /\ power["x25_da"] = 0 .. 49 /\ power["tmp2"] = 50 .. 249
    BY <1>0, <1>10 DEF Counting, ChainPowers
  <2>2. AdditionChain[27] = MulLine("tmp2", "tmp2", "x25_da") /\ Plus(50 .. 249, 0 .. 49) = 0 .. 249
    <3>1. AdditionChain[27] = MulLine("tmp2", "tmp2", "x25_da")
      BY ChainLines
    <3>2. /\ 50 .. 249 \in SUBSET (0 .. Top) /\ 0 .. 49 \in SUBSET (0 .. Top) /\ (50 .. 249) \cap (0 .. 49) = {}
          /\ (50 .. 249) \cup (0 .. 49) = 0 .. 249 /\ Top \in Nat
      BY DEF TopFits
    <3>3. Plus(50 .. 249, 0 .. 49) = (50 .. 249) \cup (0 .. 49)
      BY <3>2, DisjointSum
    <3> QED  BY <3>1, <3>2, <3>3
  <2>3. Written(27, Named("tmp2"), Plus(power["tmp2"], power["x25_da"]))
    BY <1>10, <2>2, MulAt
  <2>4. 0 .. 249 \in Exponents /\ "tmp2" \in Temps \cup {dst} /\ Written(27, "tmp2", 0 .. 249)
    <3>1. 0 .. 249 \in Exponents /\ "tmp2" \in Temps \cup {dst}
      BY DEF Exponents, TopFits, Temps
    <3> QED  BY <2>1, <2>2, <2>3, <3>1 DEF Named
  <2>5. /\ InverseTyped' /\ FrameKept' /\ line' = 28 /\ sqrs' = 0 /\ src1' = src1 /\ dst' = dst
        /\ Counting' /\ \A s \in AllBuffers : power'[s] = IF s = "tmp2" THEN 0 .. 249 ELSE power[s]
    BY <1>10, <2>1, <2>4, WrittenKeeps
  <2>6. power'["tmp2"] = 0 .. 249 /\ power'["x25_a"] = {0, 1, 3}
    BY <2>1, <2>5, BufferNames
  <2>7. ChainPowers'
    <3>1. Ones(0, 5, 250) = 0 .. 249
      BY DEF Ones
    <3> QED  BY <2>5, <2>6, <3>1 DEF ChainPowers
  <2> QED  BY <2>5, <2>7 DEF InverseInv
<1>11. CASE line = 29
  <2>1. sqrs = 0 /\ power["x25_a"] = {0, 1, 3} /\ power["tmp2"] = 5 .. 254
    BY <1>0, <1>11 DEF Counting, ChainPowers
  <2>2. AdditionChain[29] = MulLine("dst", "tmp2", "x25_a") /\ Plus(5 .. 254, {0, 1, 3}) = PMinus2
    <3>1. AdditionChain[29] = MulLine("dst", "tmp2", "x25_a")
      BY ChainLines
    <3>2. /\ 5 .. 254 \in SUBSET (0 .. Top) /\ {0, 1, 3} \in SUBSET (0 .. Top) /\ (5 .. 254) \cap ({0, 1, 3}) = {}
          /\ (5 .. 254) \cup ({0, 1, 3}) = PMinus2 /\ Top \in Nat
      BY DEF TopFits, PMinus2
    <3>3. Plus(5 .. 254, {0, 1, 3}) = (5 .. 254) \cup ({0, 1, 3})
      BY <3>2, DisjointSum
    <3> QED  BY <3>1, <3>2, <3>3
  <2>3. Written(29, Named("dst"), Plus(power["tmp2"], power["x25_a"]))
    BY <1>11, <2>2, MulAt
  <2>4. PMinus2 \in Exponents /\ dst \in Temps \cup {dst} /\ Written(29, dst, PMinus2)
    <3>1. PMinus2 \in Exponents /\ dst \in Temps \cup {dst}
      BY DEF Exponents, TopFits, Temps, PMinus2
    <3> QED  BY <2>1, <2>2, <2>3, <3>1 DEF Named
  <2>5. /\ InverseTyped' /\ FrameKept' /\ line' = 30 /\ sqrs' = 0 /\ src1' = src1 /\ dst' = dst
        /\ Counting' /\ \A s \in AllBuffers : power'[s] = IF s = dst THEN PMinus2 ELSE power[s]
    BY <1>11, <2>1, <2>4, WrittenKeeps
  <2>6. power'[dst] = PMinus2
    BY <2>1, <2>5, BufferNames DEF InverseTyped
  <2>7. ChainPowers'
    BY <2>5, <2>6 DEF ChainPowers
  <2> QED  BY <2>5, <2>7 DEF InverseInv
<1> QED  BY <1>1, <1>2, <1>3, <1>4, <1>5, <1>6, <1>7, <1>8, <1>9, <1>10, <1>11

(* Loops of squarings.                                                      *)
LEMMA LoopsKeep ==
  ASSUME TopFits, InverseInv, InverseNext, line \in {10, 13, 16, 18, 21, 24, 26, 28}
  PROVE  InverseInv'
<1>0. FrameKept /\ ChainPowers /\ Counting
  BY DEF InverseInv
<1>1. CASE line = 10
  <2>1. sqrs <= 5 /\ power["tmp2"] = Ones(sqrs, 5, 5)
    BY <1>0, <1>1 DEF Counting, ChainPowers
  <2>2. power["x25_a"] = {0, 1, 3} /\ power["tmp3"] = 0 .. 4
    BY <1>0, <1>1 DEF ChainPowers
  <2>3. Squarings(10, 5, 5)
    BY <1>1, <2>1, ChainLines DEF Squarings
  <2>4. /\ InverseTyped' /\ FrameKept' /\ src1' = src1 /\ dst' = dst
        /\ \A r \in AllBuffers : r # "tmp2" => power'[r] = power[r]
        /\ Looped(10, 5, 5)
    BY <2>3, SqrnLeaves
  <2>5. power'["x25_a"] = {0, 1, 3} /\ power'["tmp3"] = 0 .. 4
    BY <2>2, <2>4, BufferNames
  <2>6. CASE line' = 10 /\ sqrs' \in 1 .. 5 /\ power'["tmp2"] = Ones(sqrs', 5, 5)
    BY <2>4, <2>5, <2>6 DEF InverseInv, Counting, ChainPowers
  <2>7. CASE line' = 10 + 1 /\ sqrs' = 0 /\ power'["tmp2"] = 5 .. 5 + (5 - 1)
    <3>1. line' = 11 /\ sqrs' = 0 /\ power'["tmp2"] = 5 .. 9
      BY <2>7
    <3> QED  BY <2>4, <2>5, <3>1 DEF InverseInv, Counting, ChainPowers
  <2> QED  BY <2>4, <2>6, <2>7 DEF Looped
<1>2. CASE line = 13
  <2>1. sqrs <= 10 /\ power["tmp2"] = Ones(sqrs, 10, 10)
    BY <1>0, <1>2 DEF Counting, ChainPowers
  <2>2. power["x25_a"] = {0, 1, 3} /\ power["x25_b"] = 0 .. 9
    BY <1>0, <1>2 DEF ChainPowers
  <2>3. Squarings(13, 10, 10)
    BY <1>2, <2>1, ChainLines DEF Squarings
  <2>4. /\ InverseTyped' /\ FrameKept' /\ src1' = src1 /\ dst' = dst
        /\ \A r \in AllBuffers : r # "tmp2" => power'[r] = power[r]
        /\ Looped(13, 10, 10)
    BY <2>3, SqrnLeaves
  <2>5. power'["x25_a"] = {0, 1, 3} /\ power'["x25_b"] = 0 .. 9
    BY <2>2, <2>4, BufferNames
  <2>6. CASE line' = 13 /\ sqrs' \in 1 .. 10 /\ power'["tmp2"] = Ones(sqrs', 10, 10)
    BY <2>4, <2>5, <2>6 DEF InverseInv, Counting, ChainPowers
  <2>7. CASE line' = 13 + 1 /\ sqrs' = 0 /\ power'["tmp2"] = 10 .. 10 + (10 - 1)
    <3>1. line' = 14 /\ sqrs' = 0 /\ power'["tmp2"] = 10 .. 19
      BY <2>7
    <3> QED  BY <2>4, <2>5, <3>1 DEF InverseInv, Counting, ChainPowers
  <2> QED  BY <2>4, <2>6, <2>7 DEF Looped
<1>3. CASE line = 16
  <2>1. sqrs <= 20 /\ power["tmp2"] = Ones(sqrs, 20, 20)
    BY <1>0, <1>3 DEF Counting, ChainPowers
  <2>2. power["x25_a"] = {0, 1, 3} /\ power["x25_b"] = 0 .. 9 /\ power["tmp3"] = 0 .. 19
    BY <1>0, <1>3 DEF ChainPowers
  <2>3. Squarings(16, 20, 20)
    BY <1>3, <2>1, ChainLines DEF Squarings
  <2>4. /\ InverseTyped' /\ FrameKept' /\ src1' = src1 /\ dst' = dst
        /\ \A r \in AllBuffers : r # "tmp2" => power'[r] = power[r]
        /\ Looped(16, 20, 20)
    BY <2>3, SqrnLeaves
  <2>5. power'["x25_a"] = {0, 1, 3} /\ power'["x25_b"] = 0 .. 9 /\ power'["tmp3"] = 0 .. 19
    BY <2>2, <2>4, BufferNames
  <2>6. CASE line' = 16 /\ sqrs' \in 1 .. 20 /\ power'["tmp2"] = Ones(sqrs', 20, 20)
    BY <2>4, <2>5, <2>6 DEF InverseInv, Counting, ChainPowers
  <2>7. CASE line' = 16 + 1 /\ sqrs' = 0 /\ power'["tmp2"] = 20 .. 20 + (20 - 1)
    <3>1. line' = 17 /\ sqrs' = 0 /\ power'["tmp2"] = 20 .. 39
      BY <2>7
    <3> QED  BY <2>4, <2>5, <3>1 DEF InverseInv, Counting, ChainPowers
  <2> QED  BY <2>4, <2>6, <2>7 DEF Looped
<1>4. CASE line = 18
  <2>1. sqrs <= 10 /\ power["tmp2"] = Ones(sqrs, 10, 40)
    BY <1>0, <1>4 DEF Counting, ChainPowers
  <2>2. power["x25_a"] = {0, 1, 3} /\ power["x25_b"] = 0 .. 9
    BY <1>0, <1>4 DEF ChainPowers
  <2>3. Squarings(18, 10, 40)
    BY <1>4, <2>1, ChainLines DEF Squarings
  <2>4. /\ InverseTyped' /\ FrameKept' /\ src1' = src1 /\ dst' = dst
        /\ \A r \in AllBuffers : r # "tmp2" => power'[r] = power[r]
        /\ Looped(18, 10, 40)
    BY <2>3, SqrnLeaves
  <2>5. power'["x25_a"] = {0, 1, 3} /\ power'["x25_b"] = 0 .. 9
    BY <2>2, <2>4, BufferNames
  <2>6. CASE line' = 18 /\ sqrs' \in 1 .. 10 /\ power'["tmp2"] = Ones(sqrs', 10, 40)
    BY <2>4, <2>5, <2>6 DEF InverseInv, Counting, ChainPowers
  <2>7. CASE line' = 18 + 1 /\ sqrs' = 0 /\ power'["tmp2"] = 10 .. 10 + (40 - 1)
    <3>1. line' = 19 /\ sqrs' = 0 /\ power'["tmp2"] = 10 .. 49
      BY <2>7
    <3> QED  BY <2>4, <2>5, <3>1 DEF InverseInv, Counting, ChainPowers
  <2> QED  BY <2>4, <2>6, <2>7 DEF Looped
<1>5. CASE line = 21
  <2>1. sqrs <= 50 /\ power["tmp2"] = Ones(sqrs, 50, 50)
    BY <1>0, <1>5 DEF Counting, ChainPowers
  <2>2. power["x25_a"] = {0, 1, 3} /\ power["x25_da"] = 0 .. 49
    BY <1>0, <1>5 DEF ChainPowers
  <2>3. Squarings(21, 50, 50)
    BY <1>5, <2>1, ChainLines DEF Squarings
  <2>4. /\ InverseTyped' /\ FrameKept' /\ src1' = src1 /\ dst' = dst
        /\ \A r \in AllBuffers : r # "tmp2" => power'[r] = power[r]
        /\ Looped(21, 50, 50)
    BY <2>3, SqrnLeaves
  <2>5. power'["x25_a"] = {0, 1, 3} /\ power'["x25_da"] = 0 .. 49
    BY <2>2, <2>4, BufferNames
  <2>6. CASE line' = 21 /\ sqrs' \in 1 .. 50 /\ power'["tmp2"] = Ones(sqrs', 50, 50)
    BY <2>4, <2>5, <2>6 DEF InverseInv, Counting, ChainPowers
  <2>7. CASE line' = 21 + 1 /\ sqrs' = 0 /\ power'["tmp2"] = 50 .. 50 + (50 - 1)
    <3>1. line' = 22 /\ sqrs' = 0 /\ power'["tmp2"] = 50 .. 99
      BY <2>7
    <3> QED  BY <2>4, <2>5, <3>1 DEF InverseInv, Counting, ChainPowers
  <2> QED  BY <2>4, <2>6, <2>7 DEF Looped
<1>6. CASE line = 24
  <2>1. sqrs <= 100 /\ power["tmp2"] = Ones(sqrs, 100, 100)
    BY <1>0, <1>6 DEF Counting, ChainPowers
  <2>2. power["x25_a"] = {0, 1, 3} /\ power["x25_da"] = 0 .. 49 /\ power["x25_cb"] = 0 .. 99
    BY <1>0, <1>6 DEF ChainPowers
  <2>3. Squarings(24, 100, 100)
    BY <1>6, <2>1, ChainLines DEF Squarings
  <2>4. /\ InverseTyped' /\ FrameKept' /\ src1' = src1 /\ dst' = dst
        /\ \A r \in AllBuffers : r # "tmp2" => power'[r] = power[r]
        /\ Looped(24, 100, 100)
    BY <2>3, SqrnLeaves
  <2>5. power'["x25_a"] = {0, 1, 3} /\ power'["x25_da"] = 0 .. 49 /\ power'["x25_cb"] = 0 .. 99
    BY <2>2, <2>4, BufferNames
  <2>6. CASE line' = 24 /\ sqrs' \in 1 .. 100 /\ power'["tmp2"] = Ones(sqrs', 100, 100)
    BY <2>4, <2>5, <2>6 DEF InverseInv, Counting, ChainPowers
  <2>7. CASE line' = 24 + 1 /\ sqrs' = 0 /\ power'["tmp2"] = 100 .. 100 + (100 - 1)
    <3>1. line' = 25 /\ sqrs' = 0 /\ power'["tmp2"] = 100 .. 199
      BY <2>7
    <3> QED  BY <2>4, <2>5, <3>1 DEF InverseInv, Counting, ChainPowers
  <2> QED  BY <2>4, <2>6, <2>7 DEF Looped
<1>7. CASE line = 26
  <2>1. sqrs <= 50 /\ power["tmp2"] = Ones(sqrs, 50, 200)
    BY <1>0, <1>7 DEF Counting, ChainPowers
  <2>2. power["x25_a"] = {0, 1, 3} /\ power["x25_da"] = 0 .. 49
    BY <1>0, <1>7 DEF ChainPowers
  <2>3. Squarings(26, 50, 200)
    BY <1>7, <2>1, ChainLines DEF Squarings
  <2>4. /\ InverseTyped' /\ FrameKept' /\ src1' = src1 /\ dst' = dst
        /\ \A r \in AllBuffers : r # "tmp2" => power'[r] = power[r]
        /\ Looped(26, 50, 200)
    BY <2>3, SqrnLeaves
  <2>5. power'["x25_a"] = {0, 1, 3} /\ power'["x25_da"] = 0 .. 49
    BY <2>2, <2>4, BufferNames
  <2>6. CASE line' = 26 /\ sqrs' \in 1 .. 50 /\ power'["tmp2"] = Ones(sqrs', 50, 200)
    BY <2>4, <2>5, <2>6 DEF InverseInv, Counting, ChainPowers
  <2>7. CASE line' = 26 + 1 /\ sqrs' = 0 /\ power'["tmp2"] = 50 .. 50 + (200 - 1)
    <3>1. line' = 27 /\ sqrs' = 0 /\ power'["tmp2"] = 50 .. 249
      BY <2>7
    <3> QED  BY <2>4, <2>5, <3>1 DEF InverseInv, Counting, ChainPowers
  <2> QED  BY <2>4, <2>6, <2>7 DEF Looped
<1>8. CASE line = 28
  <2>1. sqrs <= 5 /\ power["tmp2"] = Ones(sqrs, 5, 250)
    BY <1>0, <1>8 DEF Counting, ChainPowers
  <2>2. power["x25_a"] = {0, 1, 3}
    BY <1>0, <1>8 DEF ChainPowers
  <2>3. Squarings(28, 5, 250)
    BY <1>8, <2>1, ChainLines DEF Squarings
  <2>4. /\ InverseTyped' /\ FrameKept' /\ src1' = src1 /\ dst' = dst
        /\ \A r \in AllBuffers : r # "tmp2" => power'[r] = power[r]
        /\ Looped(28, 5, 250)
    BY <2>3, SqrnLeaves
  <2>5. power'["x25_a"] = {0, 1, 3}
    BY <2>2, <2>4, BufferNames
  <2>6. CASE line' = 28 /\ sqrs' \in 1 .. 5 /\ power'["tmp2"] = Ones(sqrs', 5, 250)
    BY <2>4, <2>5, <2>6 DEF InverseInv, Counting, ChainPowers
  <2>7. CASE line' = 28 + 1 /\ sqrs' = 0 /\ power'["tmp2"] = 5 .. 5 + (250 - 1)
    <3>1. line' = 29 /\ sqrs' = 0 /\ power'["tmp2"] = 5 .. 254
      BY <2>7
    <3> QED  BY <2>4, <2>5, <3>1 DEF InverseInv, Counting, ChainPowers
  <2> QED  BY <2>4, <2>6, <2>7 DEF Looped
<1> QED  BY <1>1, <1>2, <1>3, <1>4, <1>5, <1>6, <1>7, <1>8

LEMMA InitInverse ==
  ASSUME TopFits
  PROVE  InverseInit => InverseInv
<1> SUFFICES ASSUME InverseInit PROVE InverseInv
  OBVIOUS
<1>1. /\ line = 0 /\ sqrs = 0 /\ src1 \in AllBuffers /\ dst \in AllBuffers /\ canonical = FALSE
      /\ power = [r \in AllBuffers |-> Junk]
  BY DEF InverseInit
<1>2. power \in [AllBuffers -> Exponents \cup {Junk}] /\ canonical \in BOOLEAN
  BY <1>1
<1>3. 0 \in 0 .. 30 /\ 0 \in 0 .. 100
  OBVIOUS
<1>4. InverseTyped
  BY <1>1, <1>2, <1>3 DEF InverseTyped
<1> QED  BY <1>1, <1>4 DEF InverseInv, Counting, ChainPowers, FrameKept

LEMMA InverseCallKeeps ==
  ASSUME TopFits, InverseInv, InverseCall
  PROVE  InverseInv'
<1>1. /\ line = 0 /\ line' = 1 /\ sqrs' = sqrs /\ src1' \in AllBuffers /\ dst' \in AllBuffers
      /\ canonical' = FALSE /\ power' = [r \in AllBuffers |-> AtCall(r, src1')]
  BY DEF InverseCall
<1>2. sqrs = 0
  BY <1>1 DEF InverseInv, Counting
<1>3. /\ \A r \in AllBuffers : power'[r] = AtCall(r, src1')
      /\ \A r : AtCall(r, src1') \in Exponents \cup {Junk}
      /\ AtCall(src1', src1') = {0}
  BY <1>1 DEF AtCall, Exponents, TopFits
<1>4. InverseTyped'
  <2>1. power' \in [AllBuffers -> Exponents \cup {Junk}] /\ canonical' \in BOOLEAN
    BY <1>1, <1>3
  <2>2. 1 \in 0 .. 30 /\ 0 \in 0 .. 100
    OBVIOUS
  <2> QED  BY <1>1, <1>2, <2>1, <2>2 DEF InverseTyped
<1> QED  BY <1>1, <1>2, <1>3, <1>4 DEF InverseInv, Counting, ChainPowers, FrameKept

LEMMA ReduceResultKeeps ==
  ASSUME TopFits, InverseInv, ReduceResult
  PROVE  InverseInv'
<1>1. /\ line = 30 /\ line' = 0 /\ canonical' = TRUE /\ sqrs' = sqrs /\ power' = power
      /\ src1' = src1 /\ dst' = dst
  BY ChainLines DEF ReduceResult
<1>2. InverseTyped' /\ Counting'
  BY <1>1 DEF InverseInv, InverseTyped, Counting
<1> QED  BY <1>1, <1>2 DEF InverseInv, ChainPowers, FrameKept

LEMMA NextInverse ==
  ASSUME TopFits
  PROVE  InverseInv /\ [InverseNext]_inverseVars => InverseInv'
<1> SUFFICES ASSUME InverseInv, [InverseNext]_inverseVars PROVE InverseInv'
  OBVIOUS
<1>1. CASE UNCHANGED inverseVars
  BY <1>1 DEF inverseVars, InverseInv, InverseTyped, Counting, ChainPowers, FrameKept
<1>2. CASE InverseNext
  <2>1. line \in 0 .. 30
    BY DEF InverseInv, InverseTyped
  <2>2. CASE line = 0
    <3>1. InverseCall
      BY <1>2, <2>2, ChainLines
         DEF InverseNext, CallCopy, CallSqr, CallMul, SqrnBegin, SqrnStep, ReduceResult, At
    <3> QED  BY <3>1, InverseCallKeeps
  <2>3. CASE line = 30
    <3>1. ReduceResult
      BY <1>2, <2>3, ChainLines
         DEF InverseNext, InverseCall, CallCopy, CallSqr, CallMul, SqrnBegin, SqrnStep, At
    <3> QED  BY <3>1, ReduceResultKeeps
  <2>4. CASE line \in {1, 9, 12, 15, 20, 23}
    BY <1>2, <2>4, CopiesKeep
  <2>5. CASE line \in {2, 3, 4, 7}
    BY <1>2, <2>5, SquaresKeep
  <2>6. CASE line \in {5, 6, 8, 11, 14, 17, 19, 22, 25, 27, 29}
    BY <1>2, <2>6, ProductsKeep
  <2>7. CASE line \in {10, 13, 16, 18, 21, 24, 26, 28}
    BY <1>2, <2>7, LoopsKeep
  <2> QED  BY <2>1, <2>2, <2>3, <2>4, <2>5, <2>6, <2>7
<1> QED  BY <1>1, <1>2

LEMMA InverseInvariance ==
  ASSUME TopFits
  PROVE  InverseSpec => []InverseInv
<1> QED  BY InitInverse, NextInverse, PTL DEF InverseSpec

(***************************************************************************)
(* Types: no exponent of 2^255 or above is ever formed, in any buffer, and  *)
(* no loop of squarings runs over.                                          *)
(***************************************************************************)
THEOREM InverseTypeCorrect ==
  ASSUME TopFits
  PROVE  InverseSpec => []InverseTypeOK
<1>1. InverseInv => InverseTypeOK
  BY ChainLines DEF InverseInv, InverseTyped, InverseTypeOK
<1> QED  BY <1>1, InverseInvariance, PTL

(***************************************************************************)
(* fe25519_inv raises to p - 2, wherever its pointers point: in place, from *)
(* or into a buffer of the chain, whatever other buffers there are.         *)
(***************************************************************************)
THEOREM InversionRight ==
  ASSUME TopFits
  PROVE  InverseSpec => []InverseRight
<1>1. InverseInv => InverseRight
  BY DEF InverseInv, ChainPowers, InverseRight
<1> QED  BY <1>1, InverseInvariance, PTL

(***************************************************************************)
(* It writes the result and the seven buffers of the chain, and no other.   *)
(***************************************************************************)
THEOREM InversionFrameKept ==
  ASSUME TopFits
  PROVE  InverseSpec => []FrameKept
<1>1. InverseInv => FrameKept
  BY DEF InverseInv
<1> QED  BY <1>1, InverseInvariance, PTL

===============================================================================
