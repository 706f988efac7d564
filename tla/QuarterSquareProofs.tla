------------------------- MODULE QuarterSquareProofs -------------------------
(***************************************************************************)
(* Part 1: the multiplication of bytes and the two row loops, for every     *)
(* byte size and every element length.  Part 2: the exhaustive check of the *)
(* multiplication (module BruteCheck).                                      *)
(***************************************************************************)
EXTENDS BruteCheck, FiniteSetTheorems, TLAPS

(***************************************************************************)
(* Arithmetic.                                                              *)
(***************************************************************************)
LEMMA DivideByFour ==
  ASSUME NEW d \in Nat, NEW m \in Nat
  PROVE  (d + 4 * m) \div 4 = (d \div 4) + m
  OBVIOUS

(* The identity quarter-square multiplication is built on. *)
LEMMA QuarterSquares ==
  ASSUME NEW x \in Nat, NEW y \in Nat, NEW d \in Nat, d = x - y \/ d = y - x
  PROVE  Quarter(x + y) - Quarter(d) = x * y
<1>1. x * y \in Nat /\ d * d \in Nat
  OBVIOUS
<1>2. (x + y) * (x + y) = d * d + 4 * (x * y)
  <2>1. d * d = (x - y) * (x - y)
    <3>1. CASE d = x - y
      BY <3>1
    <3>2. CASE d = y - x
      <4>1. (y - x) * (y - x) = (x - y) * (x - y)
        OBVIOUS
      <4> QED  BY <3>2, <4>1
    <3> QED  BY <3>1, <3>2
  <2>2. (x + y) * (x + y) = (x - y) * (x - y) + 4 * (x * y)
    OBVIOUS
  <2> QED  BY <2>1, <2>2
<1>3. ((x + y) * (x + y)) \div 4 = ((d * d) \div 4) + x * y
  BY <1>1, <1>2, DivideByFour
<1>4. (d * d) \div 4 \in Int
  BY <1>1
<1>5. \A q \in Int, m \in Nat : (q + m) - q = m
  OBVIOUS
<1> QED  BY <1>1, <1>3, <1>4, <1>5 DEF Quarter

LEMMA ProductFits ==
  ASSUME NEW x \in Byte, NEW y \in Byte
  PROVE  x * y \in Pair
<1> USE ByteAssumption DEF Byte
<1>1. x * y <= (B - 1) * y
  OBVIOUS
<1>2. (B - 1) * y <= (B - 1) * (B - 1)
  OBVIOUS
<1>3. (B - 1) * (B - 1) <= B * B - 1 /\ x * y \in Nat
  OBVIOUS
<1> QED  BY <1>1, <1>2, <1>3 DEF Pair

(* What the branch-free addressing computes. *)
LEMMA Addressing ==
  ASSUME NEW y \in Byte, sumImm \in Byte, diffImm = sumImm
  PROVE  /\ SumIndex(y) = sumImm + y
         /\ SumIndex(y) \in Index
         /\ AbsDiff(y) \in Byte
         /\ AbsDiff(y) = sumImm - y \/ AbsDiff(y) = y - sumImm
<1> USE ByteAssumption DEF Byte, Index
<1>1. SumIndex(y) = sumImm + y
  <2>1. CASE sumImm + y < B
    <3>1. (sumImm + y) \div B = 0 /\ (sumImm + y) % B = sumImm + y
      BY <2>1
    <3> QED  BY <3>1 DEF SumIndex
  <2>2. CASE sumImm + y >= B
    <3>1. (sumImm + y) \div B = 1 /\ (sumImm + y) % B = sumImm + y - B
      BY <2>2
    <3> QED  BY <3>1 DEF SumIndex
  <2> QED  BY <2>1, <2>2
<1>2. CASE y >= diffImm
  <2>1. (y - diffImm) % B = y - diffImm
    BY <1>2
  <2> QED  BY <1>1, <1>2, <2>1 DEF AbsDiff
<1>3. CASE y < diffImm
  <2>1. (y - diffImm) % B = y - diffImm + B
    BY <1>3
  <2>2. ((B - 1 - (y - diffImm + B)) + 1) % B = diffImm - y
    BY <1>3
  <2> QED  BY <1>1, <1>3, <2>1, <2>2 DEF AbsDiff
<1> QED  BY <1>2, <1>3

(***************************************************************************)
(* ct_mul_8x8 is right once the table is, if both sites are baked with the  *)
(* same multiplicand.                                                       *)
(***************************************************************************)
LEMMA CtMulCorrect ==
  ASSUME NEW y \in Byte, sumImm \in Byte, diffImm = sumImm, TableBuilt
  PROVE  CtMul(y) = sumImm * y
<1>1. SumIndex(y) = sumImm + y /\ SumIndex(y) \in Index
  BY Addressing
<1>2. AbsDiff(y) \in Byte /\ (AbsDiff(y) = sumImm - y \/ AbsDiff(y) = y - sumImm)
  BY Addressing
<1>3. AbsDiff(y) \in Index
  BY <1>2, ByteAssumption DEF Byte, Index
<1>4. tab[SumIndex(y)] - tab[AbsDiff(y)] = sumImm * y
  <2>1. tab[SumIndex(y)] = Quarter(sumImm + y) /\ tab[AbsDiff(y)] = Quarter(AbsDiff(y))
    BY <1>1, <1>3 DEF TableBuilt
  <2>2. sumImm \in Nat /\ y \in Nat /\ AbsDiff(y) \in Nat
    BY <1>2, ByteAssumption DEF Byte
  <2>3. Quarter(sumImm + y) - Quarter(AbsDiff(y)) = sumImm * y
    BY <1>2, <2>2, QuarterSquares
  <2> QED  BY <2>1, <2>3
<1>5. sumImm * y \in Pair
  BY ProductFits
<1>6. \A m \in Pair : m % (B * B) = m
  BY ByteAssumption DEF Pair
<1> QED  BY <1>4, <1>5, <1>6 DEF CtMul

(***************************************************************************)
(* The invariant.  While the table is being built, sq_acc is the square of  *)
(* sq_i and the entries below sq_i are there; while a row is being made,    *)
(* both sites hold the multiplicand and the entries made so far are right.  *)
(***************************************************************************)
TableUnderWay ==
  pc = "sqtab" => acc = i * i /\ \A n \in Index : n < i => tab[n] = Quarter(n)

TableReady == pc \notin {"cold", "sqtab"} => TableBuilt

Baked == pc \in {"row", "onchip"} => sumImm = a /\ diffImm = a

RowUnderWay == pc = "row" => \A n \in Byte : n < b => staged[n] = a * n

OnchipUnderWay ==
  pc = "onchip" => \A j \in 0 .. N - 1 : j > b => staged[src2[j]] = a * src2[j]

IInv ==
  /\ TypeOK /\ TableUnderWay /\ TableReady /\ Baked
  /\ RowUnderWay /\ OnchipUnderWay /\ RowRight /\ OnchipRight

LEMMA Bounds ==
  /\ 0 \in 0 .. B * B * B - 1 /\ 0 \in 0 .. 2 * B
  /\ 0 \in Byte /\ 0 \in Pair /\ B * B - 1 \in Pair /\ 0 \in 0 .. N - 1 /\ N - 1 \in 0 .. N - 1
  /\ 0 \in Index /\ B * B \in Nat \ {0} /\ B * B * B \in Nat \ {0}
  /\ (\A n \in Byte : n < B) /\ (\A j \in 0 .. N - 1 : j >= 0)
  /\ \A n \in Int : n % (B * B) \in Pair /\ n % (B * B * B) \in 0 .. B * B * B - 1
<1>1. B * B \in Nat \ {0} /\ B * B * B \in Nat \ {0}
  BY ByteAssumption
<1>2. \A m \in Nat \ {0}, n \in Int : n % m \in 0 .. m - 1
  OBVIOUS
<1>3. \A n \in Int : n % (B * B) \in Pair /\ n % (B * B * B) \in 0 .. B * B * B - 1
  BY <1>1, <1>2 DEF Pair
<1>4. 0 \in 0 .. B * B * B - 1 /\ 0 \in Pair /\ B * B - 1 \in Pair
  BY <1>1 DEF Pair
<1>5. (\A n \in Byte : n < B) /\ (\A j \in 0 .. N - 1 : j >= 0)
  BY ByteAssumption DEF Byte
<1> QED  BY <1>1, <1>3, <1>4, <1>5, ByteAssumption DEF Byte, Index

(* The recurrence, and that sq_acc, its quarter and 2i + 1 do not overflow. *)
LEMMA Recurrence ==
  ASSUME NEW n \in Index
  PROVE  /\ ((n * n) \div 4) % (B * B) = Quarter(n)
         /\ (n * n + ((2 * n + 1) % (B * B))) % (B * B * B) = (n + 1) * (n + 1)
               \/ n + 1 = 2 * B
<1> USE ByteAssumption DEF Index
<1>1. n * n <= (2 * B - 1) * n /\ (2 * B - 1) * n <= (2 * B - 1) * (2 * B - 1) /\ n * n \in Nat
  OBVIOUS
<1>2. (2 * B - 1) * (2 * B - 1) = 4 * (B * B - B) + 1
  OBVIOUS
<1>3. B * B - B \in Nat /\ B * B - B < B * B /\ B * B \in Nat
  OBVIOUS
<1>4. (n * n) \div 4 \in 0 .. B * B - 1
  BY <1>1, <1>2, <1>3
<1>5. ((n * n) \div 4) % (B * B) = (n * n) \div 4
  BY <1>3, <1>4
<1>6. ASSUME n + 1 # 2 * B
      PROVE  (n * n + ((2 * n + 1) % (B * B))) % (B * B * B) = (n + 1) * (n + 1)
  <2>1. 2 * n + 1 < 4 * B /\ 4 * B <= B * B
    OBVIOUS
  <2>2. (2 * n + 1) % (B * B) = 2 * n + 1
    BY <2>1, <1>3
  <2>3. n * n + (2 * n + 1) = (n + 1) * (n + 1)
    OBVIOUS
  <2>4. (n + 1) * (n + 1) < B * B * B
    <3>1. n + 1 <= 2 * B - 1
      BY <1>6
    <3>2. (n + 1) * (n + 1) <= (2 * B - 1) * (n + 1) /\ (2 * B - 1) * (n + 1) <= (2 * B - 1) * (2 * B - 1)
      BY <3>1
    <3>3. (2 * B - 1) * (2 * B - 1) < 4 * (B * B)
      BY <1>2, <1>3
    <3>4. 4 * (B * B) <= B * (B * B) /\ B * (B * B) = B * B * B
      BY <1>3
    <3>5. (n + 1) * (n + 1) \in Int /\ (2 * B - 1) * (n + 1) \in Int /\ B * B * B \in Int
          /\ (2 * B - 1) * (2 * B - 1) \in Int /\ B * (B * B) \in Int /\ 4 * (B * B) \in Int
      OBVIOUS
    <3> HIDE ByteAssumption DEF Index
    <3> QED  BY <3>2, <3>3, <3>4, <3>5
  <2>5. (n + 1) * (n + 1) \in Nat /\ B * B * B \in Nat \ {0}
    BY Bounds
  <2>6. \A m \in Nat, k \in Nat \ {0} : m < k => m % k = m
    OBVIOUS
  <2>7. ((n + 1) * (n + 1)) % (B * B * B) = (n + 1) * (n + 1)
    BY <2>4, <2>5, <2>6
  <2> QED  BY <2>2, <2>3, <2>7
<1> QED  BY <1>5, <1>6 DEF Quarter

(***************************************************************************)
(* The steps.                                                               *)
(***************************************************************************)
LEMMA InitInvariant == Init => IInv
<1> SUFFICES ASSUME Init  PROVE IInv
  OBVIOUS
<1>1. TypeOK
  <2>1. tab \in [Index -> Pair] /\ staged \in [Byte -> Pair]
    BY Bounds DEF Init
  <2>2. src2 \in [0 .. N - 1 -> Byte]
    BY Bounds DEF Init
  <2>3. acc \in 0 .. B * B * B - 1 /\ i \in 0 .. 2 * B
    BY Bounds DEF Init
  <2> QED  BY <2>1, <2>2, <2>3, Bounds DEF Init, TypeOK
<1> QED
  BY <1>1 DEF Init, IInv, TableUnderWay, TableReady, Baked, RowUnderWay, OnchipUnderWay,
     RowRight, OnchipRight

(* Outside the loops nothing but the multiplicand and the buffers changes. *)
LEMMA QuietSteps ==
  ASSUME IInv, RowBegin \/ OnchipBegin \/ RowUsed \/ Sibling \/ UNCHANGED vars
  PROVE  IInv'
<1> USE DEF IInv
<1>1. CASE RowBegin
  <2>1. TypeOK'
    BY <1>1, Bounds DEF RowBegin, Bake, TypeOK
  <2>2. RowUnderWay'
    BY <1>1, ByteAssumption DEF RowBegin, RowUnderWay, Byte
  <2> QED
    BY <1>1, <2>1, <2>2 DEF RowBegin, Bake, TableUnderWay, TableReady, TableBuilt, Baked,
       OnchipUnderWay, RowRight, OnchipRight
<1>2. CASE OnchipBegin
  <2>1. TypeOK'
    BY <1>2, Bounds, ByteAssumption DEF OnchipBegin, Bake, TypeOK
  <2>2. OnchipUnderWay'
    BY <1>2, ByteAssumption DEF OnchipBegin, OnchipUnderWay
  <2> QED
    BY <1>2, <2>1, <2>2 DEF OnchipBegin, Bake, TableUnderWay, TableReady, TableBuilt, Baked,
       RowUnderWay, RowRight, OnchipRight
<1>3. CASE RowUsed
  BY <1>3 DEF RowUsed, TypeOK, TableUnderWay, TableReady, TableBuilt, Baked,
     RowUnderWay, OnchipUnderWay, RowRight, OnchipRight
<1>4. CASE Sibling
  <2>1. TypeOK'
    <3>1. staged' \in [Byte -> Pair]
      BY <1>4, Bounds DEF Sibling
    <3>2. sumImm' \in Byte /\ diffImm' \in Byte
      BY <1>4 DEF Sibling, Bake
    <3>3. UNCHANGED <<pc, tab, acc, i, a, b, src2>>
      BY <1>4 DEF Sibling
    <3> QED  BY <3>1, <3>2, <3>3 DEF TypeOK
  <2> QED
    BY <1>4, <2>1 DEF Sibling, Bake, TableUnderWay, TableReady, TableBuilt, Baked,
       RowUnderWay, OnchipUnderWay, RowRight, OnchipRight
<1>5. CASE UNCHANGED vars
  BY <1>5 DEF vars, TypeOK, TableUnderWay, TableReady, TableBuilt, Baked,
     RowUnderWay, OnchipUnderWay, RowRight, OnchipRight
<1> QED  BY <1>1, <1>2, <1>3, <1>4, <1>5

LEMMA SqtabSteps ==
  ASSUME IInv, SqtabBegin \/ SqtabStep
  PROVE  IInv'
<1> USE DEF IInv
<1>1. CASE SqtabBegin
  <2>1. TypeOK'
    <3>1. 0 < 2 * B
      BY ByteAssumption
    <3> QED  BY <1>1, <3>1, Bounds DEF SqtabBegin, TypeOK
  <2>2. TableUnderWay'
    BY <1>1, ByteAssumption DEF SqtabBegin, TableUnderWay, Index
  <2> QED
    BY <1>1, <2>1, <2>2 DEF SqtabBegin, TableReady, Baked, RowUnderWay,
       OnchipUnderWay, RowRight, OnchipRight
<1>2. CASE SqtabStep
  <2>1. i \in Index /\ acc = i * i /\ i \in Nat
    BY <1>2, ByteAssumption DEF SqtabStep, TypeOK, TableUnderWay, Index
  <2>2. tab' = [tab EXCEPT ![i] = Quarter(i)]
    BY <1>2, <2>1, Recurrence DEF SqtabStep
  <2>3. \A n \in Index : n < i + 1 => tab'[n] = Quarter(n)
    <3>1. \A n \in Index : n < i => tab[n] = Quarter(n)
      BY <1>2 DEF SqtabStep, TableUnderWay
    <3>2. \A n \in Index : n < i + 1 => n < i \/ n = i
      BY <2>1, ByteAssumption DEF Index
    <3> QED  BY <2>1, <2>2, <3>1, <3>2 DEF TypeOK
  <2>4. TypeOK'
    <3>1. tab' \in [Index -> Pair]
      <4>1. tab' = [tab EXCEPT ![i] = ((acc \div 4) % (B * B))] /\ acc \div 4 \in Int
        BY <1>2, <2>1 DEF SqtabStep
      <4> QED  BY <2>1, <4>1, Bounds DEF TypeOK
    <3>2. acc' \in 0 .. B * B * B - 1
      <4>1. acc' = (acc + ((2 * i + 1) % (B * B))) % (B * B * B)
        BY <1>2 DEF SqtabStep
      <4>2. (2 * i + 1) % (B * B) \in Nat /\ acc \in Nat
        BY <2>1, Bounds DEF Pair
      <4> QED  BY <4>1, <4>2, Bounds
    <3>3. i' \in 0 .. 2 * B /\ (pc' = "sqtab" => i' < 2 * B)
      BY <1>2, <2>1, ByteAssumption DEF SqtabStep, Index
    <3>4. pc' \in {"sqtab", "idle"}
      BY <1>2 DEF SqtabStep
    <3> QED  BY <1>2, <3>1, <3>2, <3>3, <3>4 DEF SqtabStep, TypeOK
  <2>5. TableUnderWay'
    <3> SUFFICES ASSUME pc' = "sqtab"
                 PROVE  acc' = i' * i' /\ \A n \in Index : n < i' => tab'[n] = Quarter(n)
      BY DEF TableUnderWay
    <3>1. i' = i + 1 /\ i + 1 # 2 * B
      BY <1>2 DEF SqtabStep
    <3>2. acc' = (i + 1) * (i + 1)
      BY <1>2, <2>1, <3>1, Recurrence DEF SqtabStep
    <3> QED  BY <2>3, <3>1, <3>2
  <2>6. TableReady'
    <3> SUFFICES ASSUME pc' \notin {"cold", "sqtab"}
                 PROVE  TableBuilt'
      BY DEF TableReady
    <3>1. i + 1 = 2 * B
      BY <1>2 DEF SqtabStep
    <3>2. \A n \in Index : n < i + 1
      BY <3>1, ByteAssumption DEF Index
    <3> QED  BY <2>3, <3>2 DEF TableBuilt
  <2>7. Baked' /\ RowUnderWay' /\ OnchipUnderWay' /\ RowRight' /\ OnchipRight'
    BY <1>2 DEF SqtabStep, Baked, RowUnderWay, OnchipUnderWay, RowRight, OnchipRight
  <2> QED  BY <2>4, <2>5, <2>6, <2>7
<1> QED  BY <1>1, <1>2

LEMMA RowLoop ==
  ASSUME IInv, RowStep
  PROVE  IInv'
<1> USE DEF IInv
<1>1. /\ pc = "row" /\ b \in Byte /\ TableBuilt
      /\ sumImm = a /\ diffImm = a /\ a \in Byte
  BY DEF RowStep, TypeOK, TableReady, Baked
<1>2. CtMul(b) = a * b /\ a * b \in Pair
  BY <1>1, CtMulCorrect, ProductFits
<1>3. staged' = [staged EXCEPT ![b] = a * b]
  BY <1>2 DEF RowStep
<1>4. \A n \in Byte : n < b + 1 => staged'[n] = a * n
  <2>1. \A n \in Byte : n < b => staged[n] = a * n
    BY <1>1 DEF RowUnderWay
  <2>2. \A n \in Byte : n < b + 1 => n < b \/ n = b
    BY <1>1, ByteAssumption DEF Byte
  <2> QED  BY <1>1, <1>3, <2>1, <2>2 DEF TypeOK
<1>5. \/ b + 1 < B /\ b' = b + 1 /\ pc' = "row"
      \/ b + 1 = B /\ b' = 0 /\ pc' = "row done"
  <2>1. b + 1 < B \/ b + 1 = B
    BY <1>1, ByteAssumption DEF Byte
  <2>2. b + 1 < B => (b + 1) % B = b + 1 /\ b + 1 # 0
    BY <1>1, ByteAssumption DEF Byte
  <2>3. B % B = 0
    BY ByteAssumption
  <2> QED  BY <2>1, <2>2, <2>3 DEF RowStep
<1>6. TypeOK'
  <2>1. staged' \in [Byte -> Pair]
    BY <1>1, <1>2, <1>3 DEF TypeOK
  <2>2. b' \in Byte /\ b' \in Nat
    <3>1. b \in Nat /\ (b + 1 < B => b + 1 \in Byte) /\ 0 \in Byte
      BY <1>1, ByteAssumption DEF Byte
    <3>2. (b' = b + 1 /\ b + 1 < B) \/ b' = 0
      BY <1>5
    <3> QED  BY <3>1, <3>2
  <2>3. pc' \in {"row", "row done"}
    BY <1>5
  <2> QED  BY <2>1, <2>2, <2>3 DEF RowStep, TypeOK
<1>7. RowUnderWay'
  BY <1>4, <1>5 DEF RowUnderWay, RowStep
<1>8. RowRight'
  <2> SUFFICES ASSUME pc' = "row done"
               PROVE  \A n \in Byte : staged'[n] = a * n
    BY DEF RowRight, RowStep
  <2>1. b + 1 = B
    BY <1>5
  <2> QED  BY <1>4, <2>1, Bounds
<1>9. TableUnderWay' /\ TableReady' /\ OnchipUnderWay' /\ OnchipRight'
  BY <1>1, <1>5 DEF RowStep, TableUnderWay, TableReady, TableBuilt, OnchipUnderWay, OnchipRight
<1>10. Baked'
  BY <1>1 DEF RowStep, Baked
<1> QED  BY <1>6, <1>7, <1>8, <1>9, <1>10

LEMMA OnchipLoop ==
  ASSUME IInv, OnchipStep
  PROVE  IInv'
<1> USE DEF IInv
<1>1. /\ pc = "onchip" /\ b \in 0 .. N - 1 /\ TableBuilt
      /\ sumImm = a /\ diffImm = a /\ a \in Byte /\ src2 \in [0 .. N - 1 -> Byte]
  BY DEF OnchipStep, TypeOK, TableReady, Baked
<1>2. src2[b] \in Byte /\ CtMul(src2[b]) = a * src2[b] /\ a * src2[b] \in Pair
  BY <1>1, CtMulCorrect, ProductFits
<1>3. staged' = [staged EXCEPT ![src2[b]] = a * src2[b]]
  BY <1>2 DEF OnchipStep
<1>4. \A j \in 0 .. N - 1 : j >= b => staged'[src2[j]] = a * src2[j]
  <2>1. \A j \in 0 .. N - 1 : j > b => staged[src2[j]] = a * src2[j]
    BY <1>1 DEF OnchipUnderWay
  <2>2. \A j \in 0 .. N - 1 : j >= b => j > b \/ j = b
    BY <1>1, ByteAssumption
  <2>3. \A j \in 0 .. N - 1 : src2[j] \in Byte
    BY <1>1
  <2> QED  BY <1>1, <1>2, <1>3, <2>1, <2>2, <2>3 DEF TypeOK
<1>5. \/ b # 0 /\ b' = b - 1 /\ pc' = "onchip"
      \/ b = 0 /\ b' = 0 /\ pc' = "onchip done"
  BY DEF OnchipStep
<1>6. TypeOK'
  <2>1. staged' \in [Byte -> Pair]
    BY <1>1, <1>2, <1>3 DEF TypeOK
  <2>2. b' \in 0 .. N - 1 /\ b' \in Nat
    <3>1. b \in Nat /\ (b # 0 => b - 1 \in 0 .. N - 1) /\ 0 \in 0 .. N - 1
      BY <1>1, ByteAssumption
    <3>2. (b # 0 /\ b' = b - 1) \/ b' = 0
      BY <1>5
    <3> QED  BY <3>1, <3>2
  <2>3. pc' \in {"onchip", "onchip done"}
    BY <1>5
  <2> QED  BY <2>1, <2>2, <2>3 DEF OnchipStep, TypeOK
<1>7. OnchipUnderWay'
  <2> SUFFICES ASSUME pc' = "onchip", NEW j \in 0 .. N - 1, j > b'
               PROVE  staged'[src2[j]] = a * src2[j]
    BY DEF OnchipUnderWay, OnchipStep
  <2>1. b' = b - 1
    BY <1>5
  <2>2. j >= b
    BY <1>1, <2>1, ByteAssumption
  <2> QED  BY <1>4, <2>2
<1>8. OnchipRight'
  <2> SUFFICES ASSUME pc' = "onchip done", NEW j \in 0 .. N - 1
               PROVE  staged'[src2[j]] = a * src2[j]
    BY DEF OnchipRight, OnchipStep
  <2>1. b = 0
    BY <1>5
  <2> QED  BY <1>4, <2>1, Bounds
<1>9. TableUnderWay' /\ TableReady' /\ RowUnderWay' /\ RowRight'
  BY <1>1, <1>5 DEF OnchipStep, TableUnderWay, TableReady, TableBuilt, RowUnderWay, RowRight
<1>10. Baked'
  BY <1>1 DEF OnchipStep, Baked
<1> QED  BY <1>6, <1>7, <1>8, <1>9, <1>10

LEMMA Invariance == Spec => []IInv
<1>1. IInv /\ [Next]_vars => IInv'
  BY QuietSteps, SqtabSteps, RowLoop, OnchipLoop DEF Next, Loop
<1> QED  BY <1>1, InitInvariant, PTL DEF Spec

(***************************************************************************)
(* Types: no table index out of range, no overflow, for every byte size.    *)
(***************************************************************************)
THEOREM TypeCorrect == Spec => []TypeOK
<1>1. IInv => TypeOK
  BY DEF IInv
<1> QED  BY <1>1, Invariance, PTL

(* Every row reu_mul_init makes is the row of products of its multiplicand. *)
THEOREM RowsCorrect == Spec => []RowRight
<1>1. IInv => RowRight
  BY DEF IInv
<1> QED  BY <1>1, Invariance, PTL

(* The on-chip generator makes every entry that is going to be read. *)
THEOREM OnchipRowsCorrect == Spec => []OnchipRight
<1>1. IInv => OnchipRight
  BY DEF IInv
<1> QED  BY <1>1, Invariance, PTL

(* Building the table again changes none of its entries. *)
THEOREM Idempotent == Spec => TableKept
<1>1. IInv /\ [Next]_vars => [TableBuilt => TableBuilt']_vars
  <2> SUFFICES ASSUME IInv, Next, TableBuilt
               PROVE  TableBuilt'
    BY DEF vars
  <2>1. CASE SqtabStep
    <3>1. i \in Index /\ acc = i * i
      BY <2>1, ByteAssumption DEF IInv, SqtabStep, TypeOK, TableUnderWay, Index
    <3>2. tab' = [tab EXCEPT ![i] = Quarter(i)]
      BY <2>1, <3>1, Recurrence DEF SqtabStep
    <3> QED  BY <3>1, <3>2 DEF TableBuilt, IInv, TypeOK
  <2>2. CASE ~ SqtabStep
    <3>1. tab' = tab
      BY <2>2 DEF Next, Loop, SqtabBegin, RowBegin, OnchipBegin, RowStep, OnchipStep,
         RowUsed, Sibling
    <3> QED  BY <3>1 DEF TableBuilt
  <2> QED  BY <2>1, <2>2
<1> QED  BY <1>1, Invariance, PTL DEF Spec, TableKept

(***************************************************************************)
(* Part 2: the exhaustive check (module BruteCheck).                        *)
(*                                                                          *)
(* The pairs in the order of the sweep, and the wrong ones before a place.  *)
(***************************************************************************)
Before(n) == {v \in Wrong : Place(v) < n}

LEMMA Places ==
  ASSUME NEW v \in Byte \X Byte
  PROVE  Place(v) \in Nat /\ Place(v) < B * B
<1> USE ByteAssumption DEF Byte
<1>1. v[1] \in Byte /\ v[2] \in Byte
  OBVIOUS
<1>2. B * v[1] <= B * (B - 1) /\ B * v[1] \in Nat /\ B * (B - 1) = B * B - B
  BY <1>1
<1> QED  BY <1>1, <1>2 DEF Place

LEMMA PlaceOfOne ==
  ASSUME NEW v \in Byte \X Byte, NEW w \in Byte \X Byte, Place(v) = Place(w)
  PROVE  v = w
<1> USE ByteAssumption DEF Byte
<1>1. v[1] \in Byte /\ v[2] \in Byte /\ w[1] \in Byte /\ w[2] \in Byte
      /\ v = <<v[1], v[2]>> /\ w = <<w[1], w[2]>>
  OBVIOUS
<1>2. \A c \in Byte, d \in Byte : c < d => B * d >= B * c + B
  <2>1. \A c \in Byte, d \in Byte : B * d = B * c + B * (d - c)
    OBVIOUS
  <2>2. \A k \in Nat : k >= 1 => B * k >= B
    OBVIOUS
  <2> QED  BY <2>1, <2>2
<1>3. \A c \in Byte : B * c \in Nat
  OBVIOUS
<1>4. v[1] = w[1]
  <2>1. B * v[1] + v[2] = B * w[1] + w[2]
    BY DEF Place
  <2>2. ~(v[1] < w[1])
    <3>1. v[1] < w[1] => B * w[1] >= B * v[1] + B
      BY <1>1, <1>2
    <3>2. B * v[1] \in Nat /\ B * w[1] \in Nat
      BY <1>1, <1>3
    <3> QED  BY <1>1, <2>1, <3>1, <3>2
  <2>3. ~(w[1] < v[1])
    <3>1. w[1] < v[1] => B * v[1] >= B * w[1] + B
      BY <1>1, <1>2
    <3>2. B * v[1] \in Nat /\ B * w[1] \in Nat
      BY <1>1, <1>3
    <3> QED  BY <1>1, <2>1, <3>1, <3>2
  <2> QED  BY <1>1, <2>2, <2>3
<1>5. v[2] = w[2]
  BY <1>1, <1>3, <1>4 DEF Place
<1> QED  BY <1>1, <1>4, <1>5

LEMMA BeforeFinite ==
  /\ IsFiniteSet(Wrong) /\ Wrong \subseteq Byte \X Byte
  /\ \A n : IsFiniteSet(Before(n)) /\ Cardinality(Before(n)) \in Nat
<1>1. IsFiniteSet(Byte)
  BY FS_Interval, ByteAssumption DEF Byte
<1>2. IsFiniteSet(Byte \X Byte)
  BY <1>1, FS_Product
<1>3. Wrong \in SUBSET (Byte \X Byte)
  BY DEF Wrong
<1>4. IsFiniteSet(Wrong)
  BY <1>2, <1>3, FS_Subset
<1>5. \A n : Before(n) \in SUBSET Wrong
  BY DEF Before
<1> QED  BY <1>3, <1>4, <1>5, FS_Subset, FS_CardinalityType

(* The sweep begins before every pair and ends behind the last, and between *)
(* two consecutive places is one pair.                                      *)
LEMMA BeforeEnds == Before(0) = {} /\ Before(B * B) = Wrong
<1>1. \A v \in Wrong : Place(v) \in Nat /\ Place(v) < B * B
  BY BeforeFinite, Places
<1> QED  BY <1>1 DEF Before

LEMMA BeforeNext ==
  ASSUME NEW v \in Byte \X Byte
  PROVE  /\ v \notin Before(Place(v))
         /\ v \in Wrong => Before(Place(v) + 1) = Before(Place(v)) \cup {v}
         /\ v \notin Wrong => Before(Place(v) + 1) = Before(Place(v))
<1>1. \A w \in Wrong : w \in Byte \X Byte /\ Place(w) \in Nat
  BY BeforeFinite, Places
<1>2. Place(v) \in Nat
  BY Places
<1>3. \A w \in Wrong : Place(w) < Place(v) + 1 <=> Place(w) < Place(v) \/ w = v
  <2> SUFFICES ASSUME NEW w \in Wrong
               PROVE  Place(w) < Place(v) + 1 <=> Place(w) < Place(v) \/ w = v
    OBVIOUS
  <2>1. Place(w) = Place(v) <=> w = v
    BY <1>1, PlaceOfOne
  <2> QED  BY <1>1, <1>2, <2>1
<1>4. v \notin Before(Place(v))
  BY <1>2 DEF Before
<1>5. \A w : w \in Before(Place(v) + 1) <=> w \in Before(Place(v)) \/ (w = v /\ v \in Wrong)
  BY <1>3 DEF Before
<1> QED  BY <1>4, <1>5

(***************************************************************************)
(* The invariant of the sweep: what is in the pages, what the sites hold,   *)
(* and that what was counted and kept so far are the wrong pairs before the *)
(* place reached, and the first five of them.                               *)
(***************************************************************************)
Reached == IF stage = "exit" THEN B * B ELSE B * outer + inner

SweepTyped ==
  /\ mutate \in BOOLEAN
  /\ outer \in Byte /\ inner \in Byte /\ zpB \in Byte
  /\ mismatches \in Nat
  /\ \E S : page \in [Byte -> S]
  /\ \E S : first \in Seq(S)

SweepCourse ==
  /\ stage \in {"none", "bake", "kernel", "compare", "exit"}
  /\ stage # "none" => pc = "idle" /\ TableBuilt
  /\ stage = "none" => mismatches = 0 /\ first = <<>>
  /\ stage \in {"bake", "kernel"} => inner = 0
  /\ exit # "running" => stage = "exit"

PagesRight ==
  /\ stage = "kernel" =>
       sumImm = outer /\ diffImm = outer /\ \A n \in Byte : n < zpB => Got(n) = Seen(outer, n)
  /\ stage = "compare" => \A n \in Byte : Got(n) = Seen(outer, n)

Kept(k) ==
  LET v == <<first[k][1], first[k][2]>>
  IN  v \in Wrong /\ Cardinality(Before(Place(v))) = k - 1

CountRight ==
  stage # "none" =>
    /\ mismatches = Cardinality(Before(Reached))
    /\ Len(first) = (IF mismatches < 5 THEN mismatches ELSE 5)
    /\ \A k \in DOMAIN first : Kept(k)

VerdictRight == exit # "running" => ((exit = "zero") <=> ((Wrong = {}) # mutate))

SweepInv == SweepTyped /\ SweepCourse /\ PagesRight /\ CountRight /\ VerdictRight

LEMMA BuiltTable ==
  ASSUME IInv, TableBuilt
  PROVE  tab = [k \in Index |-> Quarter(k)]
BY DEF IInv, TypeOK, TableBuilt

(* The wrong pairs are those of the body and the kernel under test. *)
LEMMA WrongSame ==
  ASSUME body' = body, mutate' = mutate
  PROVE  Wrong' = Wrong /\ \A n : Before(n)' = Before(n)
<1>1. Wrong' = Wrong
  BY DEF Wrong, Seen
<1> QED  BY <1>1 DEF Before

LEMMA SweepBegins ==
  ASSUME IInv, SweepInv, SweepBegin
  PROVE  SweepInv'
<1>1. /\ stage = "none" /\ stage' = "bake" /\ outer' = 0 /\ inner' = 0 /\ zpB' = zpB /\ exit' = exit
      /\ mutate' \in BOOLEAN /\ mismatches' = 0 /\ first' = <<>> /\ pc' = "idle" /\ tab' = tab
      /\ pc = "idle"
  BY DEF SweepBegin, SweepInv, SweepCourse, vars
<1>2. TableBuilt /\ TableBuilt'
  BY <1>1 DEF IInv, TableReady, TableBuilt
<1>3. SweepTyped'
  <2>1. \E v : page' = [n \in Byte |-> <<v, v>>]
    BY DEF SweepBegin
  <2>2. \E S : page' \in [Byte -> S]
    <3>1. PICK v : page' = [n \in Byte |-> <<v, v>>]
      BY <2>1
    <3> WITNESS {<<v, v>>}
    <3> QED  BY <3>1
  <2>3. first' \in Seq(Int)
    BY <1>1
  <2>4. 0 \in Byte /\ zpB \in Byte
    BY Bounds DEF SweepInv, SweepTyped
  <2> QED  BY <1>1, <2>2, <2>3, <2>4 DEF SweepTyped
<1>4. SweepCourse' /\ PagesRight' /\ VerdictRight'
  BY <1>1, <1>2 DEF SweepInv, SweepCourse, PagesRight, VerdictRight
<1>5. CountRight'
  <2>1. Reached' = 0
    BY <1>1, ByteAssumption DEF Reached
  <2>2. Before(0)' = {}
    <3>1. \A v \in Byte \X Byte : ~(Place(v) < 0)
      BY Places
    <3>2. Wrong' \subseteq Byte \X Byte
      BY DEF Wrong
    <3> QED  BY <3>1, <3>2 DEF Before
  <2>3. Cardinality({}) = 0
    BY FS_EmptySet
  <2>4. Before(Reached)' = {}
    BY <2>1, <2>2 DEF Before
  <2> QED  BY <1>1, <2>3, <2>4 DEF CountRight
<1> QED  BY <1>3, <1>4, <1>5 DEF SweepInv

(* What a step that only goes on leaves of the count. *)
LEMMA CountStays ==
  ASSUME CountRight, body' = body, mutate' = mutate, mismatches' = mismatches, first' = first,
         Reached' = Reached, stage # "none"
  PROVE  CountRight'
<1>1. \A n : Before(n)' = Before(n)
  BY WrongSame
<1>2. Before(Reached)' = Before(Reached) /\ Wrong' = Wrong
  BY WrongSame DEF Before
<1>3. ASSUME NEW k \in DOMAIN first PROVE Kept(k)'
  <2>1. Kept(k)
    BY <1>3 DEF CountRight
  <2> QED  BY <1>1, <1>2, <2>1 DEF Kept, Before
<1> QED  BY <1>2, <1>3 DEF CountRight

LEMMA BakeKeeps ==
  ASSUME IInv, SweepInv, BakeSites
  PROVE  SweepInv'
<1>1. /\ stage = "bake" /\ stage' = "kernel" /\ zpB' = 0 /\ sumImm' = outer /\ diffImm' = outer
      /\ pc' = pc /\ tab' = tab /\ body' = body /\ mutate' = mutate /\ outer' = outer
      /\ inner' = inner /\ page' = page /\ mismatches' = mismatches /\ first' = first /\ exit' = exit
  BY DEF BakeSites, Bake
<1>2. SweepTyped' /\ SweepCourse'
  BY <1>1, Bounds DEF SweepInv, SweepTyped, SweepCourse, TableBuilt
<1>3. PagesRight'
  <2>1. \A n \in Byte : ~(n < 0)
    BY ByteAssumption DEF Byte
  <2> QED  BY <1>1, <2>1 DEF PagesRight
<1>4. CountRight'
  <2>1. Reached' = Reached
    BY <1>1 DEF Reached
  <2> QED  BY <1>1, <2>1, CountStays DEF SweepInv
<1>5. VerdictRight'
  BY <1>1 DEF SweepInv, SweepCourse, VerdictRight
<1> QED  BY <1>2, <1>3, <1>4, <1>5 DEF SweepInv

LEMMA KernelKeeps ==
  ASSUME IInv, SweepInv, KernelStep
  PROVE  SweepInv'
<1> DEFINE q == ProductOf(body, tab, sumImm, diffImm, zpB)
           e == <<q[1], IF mutate THEN q[1] ELSE q[2]>>
<1>1. /\ stage = "kernel" /\ page' = [page EXCEPT ![zpB] = e] /\ zpB' = (zpB + 1) % B
      /\ stage' = (IF (zpB + 1) % B = 0 THEN "compare" ELSE "kernel")
      /\ body' = body /\ mutate' = mutate /\ outer' = outer
      /\ inner' = inner /\ mismatches' = mismatches /\ first' = first /\ exit' = exit
      /\ pc' = pc /\ tab' = tab /\ sumImm' = sumImm /\ diffImm' = diffImm
  BY DEF KernelStep, vars
<1>2. /\ zpB \in Byte /\ outer \in Byte /\ sumImm = outer /\ diffImm = outer
      /\ pc = "idle" /\ TableBuilt /\ inner = 0
      /\ \A n \in Byte : n < zpB => Got(n) = Seen(outer, n)
  BY <1>1 DEF SweepInv, SweepTyped, SweepCourse, PagesRight
<1>3. e[1] + B * e[2] = Seen(outer, zpB)
  <2>1. tab = [k \in Index |-> Quarter(k)]
    BY <1>2, BuiltTable
  <2>2. q = ProductOf(body, [k \in Index |-> Quarter(k)], outer, outer, zpB)
    BY <1>2, <2>1
  <2> HIDE DEF q
  <2>3. e[1] = q[1] /\ e[2] = IF mutate THEN q[1] ELSE q[2]
    OBVIOUS
  <2> QED  BY <2>2, <2>3 DEF Seen
<1> HIDE DEF e
<1>4. PICK S : page \in [Byte -> S]
  BY DEF SweepInv, SweepTyped
<1>5. /\ page' \in [Byte -> S \cup {e}] /\ page'[zpB] = e
      /\ \A n \in Byte : n # zpB => page'[n] = page[n]
  BY <1>1, <1>2, <1>4
<1>6. \A n \in Byte : n < zpB + 1 => Got(n)' = Seen(outer, n)
  <2> SUFFICES ASSUME NEW n \in Byte, n < zpB + 1 PROVE Got(n)' = Seen(outer, n)
    OBVIOUS
  <2>1. CASE n = zpB
    BY <1>2, <1>3, <1>5, <2>1 DEF Got
  <2>2. CASE n # zpB
    <3>1. n < zpB
      BY <1>2, <2>2, ByteAssumption DEF Byte
    <3>2. Got(n)' = Got(n)
      BY <1>5, <2>2 DEF Got
    <3> QED  BY <1>2, <3>1, <3>2
  <2> QED  BY <2>1, <2>2
<1>7. \A n : Seen(outer, n)' = Seen(outer, n)
  BY <1>1 DEF Seen
<1>8. \/ zpB + 1 < B /\ zpB' = zpB + 1 /\ stage' = "kernel"
      \/ zpB + 1 = B /\ zpB' = 0 /\ stage' = "compare"
  <2>1. zpB + 1 < B \/ zpB + 1 = B
    BY <1>2, ByteAssumption DEF Byte
  <2>2. zpB + 1 < B => (zpB + 1) % B = zpB + 1 /\ zpB + 1 # 0
    BY <1>2, ByteAssumption DEF Byte
  <2>3. B % B = 0
    BY ByteAssumption
  <2> QED  BY <1>1, <2>1, <2>2, <2>3
<1>9. SweepTyped'
  <2>1. zpB' \in Byte
    BY <1>2, <1>8, ByteAssumption DEF Byte
  <2>2. \E T : page' \in [Byte -> T]
    BY <1>5
  <2> QED  BY <1>1, <2>1, <2>2 DEF SweepInv, SweepTyped
<1>10. SweepCourse'
  BY <1>1, <1>2, <1>8 DEF SweepInv, SweepCourse, TableBuilt
<1>11. PagesRight'
  <2>1. zpB' = zpB + 1 \/ \A n \in Byte : n < zpB + 1
    BY <1>8, Bounds
  <2>2. CASE stage' = "kernel"
    BY <1>1, <1>2, <1>6, <1>7, <1>8, <2>2 DEF PagesRight
  <2>3. CASE stage' = "compare"
    BY <1>1, <1>6, <1>7, <1>8, <2>3, Bounds DEF PagesRight
  <2> QED  BY <1>8, <2>2, <2>3
<1>12. CountRight'
  <2>1. Reached' = Reached
    BY <1>1, <1>8 DEF Reached
  <2> QED  BY <1>1, <2>1, CountStays DEF SweepInv
<1>13. VerdictRight'
  BY <1>1 DEF SweepInv, SweepCourse, VerdictRight
<1> QED  BY <1>9, <1>10, <1>11, <1>12, <1>13 DEF SweepInv

(* One pair more: counted if it is wrong, and kept if it is among five. *)
LEMMA CountGoesOn ==
  ASSUME SweepInv, stage = "compare", Counted, body' = body, mutate' = mutate,
         stage' # "none", Reached' = B * outer + inner + 1
  PROVE  CountRight' /\ mismatches' \in Nat /\ (\E S : first' \in Seq(S))
<1>0. PICK v, n, c : v = <<outer, inner>> /\ n = Place(v) /\ c = mismatches
  OBVIOUS
<1>1. /\ v \in Byte \X Byte /\ Place(v) = B * outer + inner /\ outer \in Byte /\ inner \in Byte
      /\ mismatches \in Nat
  BY <1>0 DEF SweepInv, SweepTyped, Place
<1>2. /\ mismatches = Cardinality(Before(n)) /\ Reached' = n + 1
      /\ Len(first) = (IF mismatches < 5 THEN mismatches ELSE 5)
      /\ \A k \in DOMAIN first : Kept(k)
  BY <1>0, <1>1 DEF SweepInv, CountRight, Reached
<1>3. Got(inner) = Seen(outer, inner)
  BY <1>1 DEF SweepInv, PagesRight
<1>4. v \in Wrong <=> Got(inner) # outer * inner
  BY <1>0, <1>1, <1>3 DEF Wrong
<1>5. PICK S : first \in Seq(S)
  BY DEF SweepInv, SweepTyped
<1>6. /\ Wrong' = Wrong /\ \A m : Before(m)' = Before(m)
  BY WrongSame
<1>7. Before(Reached)' = Before(n + 1)
  BY <1>2, <1>6 DEF Before
<1>8. \A k \in DOMAIN first : first'[k] = first[k] => Kept(k)'
  <2> SUFFICES ASSUME NEW k \in DOMAIN first, first'[k] = first[k] PROVE Kept(k)'
    OBVIOUS
  <2>1. Kept(k)
    BY <1>2
  <2> QED  BY <1>6, <2>1 DEF Kept, Before
<1>9. CASE v \notin Wrong
  <2>1. mismatches' = mismatches /\ first' = first
    BY <1>4, <1>9 DEF Counted
  <2>2. Before(n + 1) = Before(n)
    BY <1>0, <1>1, <1>9, BeforeNext
  <2>3. Cardinality(Before(Reached)') = mismatches
    BY <1>2, <1>7, <2>2
  <2>4. \A k \in DOMAIN first : Kept(k)'
    BY <1>8, <2>1
  <2> QED  BY <1>1, <1>2, <1>5, <2>1, <2>3, <2>4 DEF CountRight
<1>10. CASE v \in Wrong
  <2>1. /\ mismatches' = mismatches + 1
        /\ first' = IF Len(first) < 5 THEN Append(first, <<outer, inner, Got(inner)>>) ELSE first
    BY <1>4, <1>10 DEF Counted
  <2>2. Cardinality(Before(n + 1)) = mismatches + 1
    <3>1. v \notin Before(n) /\ Before(n + 1) = Before(n) \cup {v}
      BY <1>0, <1>1, <1>10, BeforeNext
    <3>2. IsFiniteSet(Before(n))
      BY BeforeFinite
    <3> QED  BY <1>2, <3>1, <3>2, FS_AddElement
  <2>3. Cardinality(Before(Reached)') = mismatches'
    BY <1>7, <2>1, <2>2
  <2>4. CASE Len(first) >= 5
    <3>1. first' = first /\ mismatches >= 5
      BY <1>1, <1>2, <2>1, <2>4
    <3>2. \A k \in DOMAIN first : Kept(k)'
      BY <1>8, <3>1
    <3>3. Len(first') = (IF mismatches' < 5 THEN mismatches' ELSE 5)
      <4>1. Len(first) = 5 /\ mismatches \in Nat
        BY <1>1, <1>2, <3>1
      <4>2. Len(first') = 5
        BY <3>1, <4>1
      <4>3. ~(mismatches + 1 < 5)
        BY <3>1, <4>1
      <4> QED  BY <2>1, <4>2, <4>3
    <3>4. \A k \in DOMAIN first' : Kept(k)'
      BY <3>1, <3>2
    <3> QED  BY <1>1, <1>5, <2>1, <2>3, <3>1, <3>3, <3>4 DEF CountRight
  <2>5. CASE Len(first) < 5
    <3>1. first' = Append(first, <<outer, inner, Got(inner)>>) /\ Len(first) = mismatches
      BY <1>1, <1>2, <2>1, <2>5
    <3>2. /\ first' \in Seq(S \cup {<<outer, inner, Got(inner)>>}) /\ Len(first') = c + 1
          /\ first'[c + 1] = <<outer, inner, Got(inner)>>
          /\ \A k \in 1 .. c : first'[k] = first[k]
          /\ DOMAIN first' = 1 .. c + 1 /\ DOMAIN first = 1 .. c
      BY <1>0, <1>1, <1>5, <3>1
    <3>3. Kept(c + 1)'
      <4>1. <<first'[c + 1][1], first'[c + 1][2]>> = v
        BY <1>0, <3>2
      <4>2. v \in Wrong' /\ Before(n)' = Before(n)
        BY <1>6, <1>10
      <4>3. Cardinality(Before(n)) = (c + 1) - 1
        BY <1>0, <1>1, <1>2
      <4>4. v \in Wrong' /\ Cardinality(Before(Place(v)))' = (c + 1) - 1
        BY <1>0, <4>2, <4>3 DEF Before
      <4> QED  BY <4>1, <4>4 DEF Kept, Before
    <3>4. \A k \in 1 .. c + 1 : Kept(k)'
      <4>1. \A k \in 1 .. c : Kept(k)'
        BY <1>8, <3>2
      <4>2. \A k \in 1 .. c + 1 : k \in 1 .. c \/ k = c + 1
        BY <1>0, <1>1
      <4> QED  BY <3>3, <4>1, <4>2
    <3>5. Len(first') = (IF mismatches' < 5 THEN mismatches' ELSE 5)
      BY <1>0, <1>1, <2>1, <2>5, <3>1, <3>2
    <3>6. \A k \in DOMAIN first' : Kept(k)'
      BY <3>2, <3>4
    <3> QED  BY <1>1, <2>1, <2>3, <3>2, <3>5, <3>6 DEF CountRight
  <2>6. Len(first) \in Nat
    BY <1>5
  <2> QED  BY <2>4, <2>5, <2>6
<1> QED  BY <1>9, <1>10

LEMMA CompareKeeps ==
  ASSUME IInv, SweepInv, Compare
  PROVE  SweepInv'
<1>1. /\ stage = "compare" /\ Counted /\ inner' = (inner + 1) % B
      /\ (IF inner + 1 < B THEN stage' = stage /\ outer' = outer
          ELSE IF outer + 1 < B THEN stage' = "bake" /\ outer' = outer + 1
          ELSE stage' = "exit" /\ outer' = outer)
      /\ body' = body /\ mutate' = mutate /\ zpB' = zpB /\ page' = page /\ exit' = exit
      /\ pc' = pc /\ tab' = tab /\ sumImm' = sumImm /\ diffImm' = diffImm
  BY DEF Compare, vars
<1>2. /\ inner \in Byte /\ outer \in Byte /\ zpB \in Byte /\ mutate \in BOOLEAN
      /\ pc = "idle" /\ TableBuilt /\ exit = "running"
      /\ \A n \in Byte : Got(n) = Seen(outer, n)
  BY <1>1 DEF SweepInv, SweepTyped, SweepCourse, PagesRight
<1>3. \/ inner + 1 < B /\ inner' = inner + 1
      \/ inner + 1 = B /\ inner' = 0
  <2>1. inner + 1 < B \/ inner + 1 = B
    BY <1>2, ByteAssumption DEF Byte
  <2>2. inner + 1 < B => (inner + 1) % B = inner + 1
    BY <1>2, ByteAssumption DEF Byte
  <2>3. B % B = 0
    BY ByteAssumption
  <2> QED  BY <1>1, <2>1, <2>2, <2>3
<1>4. /\ stage' \in {"compare", "bake", "exit"} /\ inner' \in Byte /\ outer' \in Byte
      /\ stage' = "bake" => inner' = 0
      /\ stage' = "compare" => outer' = outer
      /\ Reached' = B * outer + inner + 1
  <2>1. CASE inner + 1 < B
    <3>1. stage' = "compare" /\ outer' = outer /\ inner' = inner + 1
      BY <1>1, <1>2, <1>3, <2>1, ByteAssumption DEF Byte
    <3>2. Reached' = B * outer + (inner + 1)
      BY <3>1 DEF Reached
    <3> QED  BY <1>2, <2>1, <3>1, <3>2, ByteAssumption DEF Byte
  <2>2. CASE ~(inner + 1 < B) /\ outer + 1 < B
    <3>1. stage' = "bake" /\ outer' = outer + 1 /\ inner' = 0 /\ inner + 1 = B
      BY <1>1, <1>3, <2>2
    <3>2. Reached' = B * (outer + 1) + 0
      BY <3>1 DEF Reached
    <3>3. B * (outer + 1) + 0 = B * outer + inner + 1 /\ outer + 1 \in Byte /\ 0 \in Byte
      BY <1>2, <2>2, <3>1, ByteAssumption DEF Byte
    <3> QED  BY <3>1, <3>2, <3>3
  <2>3. CASE ~(inner + 1 < B) /\ ~(outer + 1 < B)
    <3>1. stage' = "exit" /\ outer' = outer /\ inner' = 0 /\ inner + 1 = B /\ outer + 1 = B
      BY <1>1, <1>2, <1>3, <2>3, ByteAssumption DEF Byte
    <3>2. Reached' = B * B
      BY <3>1 DEF Reached
    <3>3. B * B = B * outer + inner + 1 /\ 0 \in Byte
      <4>1. B * (outer + 1) = B * outer + B
        BY <1>2, ByteAssumption DEF Byte
      <4> QED  BY <1>2, <3>1, <4>1, ByteAssumption DEF Byte
    <3> QED  BY <1>2, <3>1, <3>2, <3>3
  <2> QED  BY <2>1, <2>2, <2>3
<1>5. CountRight' /\ mismatches' \in Nat /\ (\E S : first' \in Seq(S))
  BY <1>1, <1>4, CountGoesOn
<1>6. SweepTyped'
  <2>1. (\E S : page \in [Byte -> S])'
    BY <1>1 DEF SweepInv, SweepTyped
  <2> QED  BY <1>1, <1>2, <1>4, <1>5, <2>1 DEF SweepTyped
<1>7. SweepCourse'
  BY <1>1, <1>2, <1>4 DEF SweepCourse, TableBuilt
<1>8. PagesRight'
  <2>1. \A n \in Byte : Got(n)' = Got(n) /\ Seen(outer, n)' = Seen(outer', n)
    BY <1>1 DEF Got, Seen
  <2> QED  BY <1>1, <1>2, <1>4, <2>1 DEF PagesRight, Seen
<1>9. VerdictRight'
  BY <1>1, <1>2 DEF VerdictRight
<1> QED  BY <1>5, <1>6, <1>7, <1>8, <1>9 DEF SweepInv

LEMMA ExitKeeps ==
  ASSUME IInv, SweepInv, Exit
  PROVE  SweepInv'
<1>1. /\ stage = "exit" /\ stage' = "exit" /\ outer' = outer /\ inner' = inner /\ zpB' = zpB
      /\ exit' = (IF (mismatches = 0) # mutate THEN "zero" ELSE "one")
      /\ body' = body /\ mutate' = mutate /\ page' = page /\ mismatches' = mismatches /\ first' = first
      /\ pc' = pc /\ tab' = tab
  BY DEF Exit, vars
<1>2. SweepTyped' /\ SweepCourse' /\ PagesRight'
  BY <1>1 DEF SweepInv, SweepTyped, SweepCourse, PagesRight, TableBuilt
<1>3. CountRight'
  <2>1. Reached' = Reached
    BY <1>1 DEF Reached
  <2> QED  BY <1>1, <2>1, CountStays DEF SweepInv
<1>4. VerdictRight'
  <2>1. mismatches = Cardinality(Wrong)
    BY <1>1, BeforeEnds DEF SweepInv, CountRight, Reached
  <2>2. mismatches = 0 <=> Wrong = {}
    BY <2>1, BeforeFinite, FS_EmptySet
  <2>3. Wrong' = Wrong
    BY <1>1, WrongSame
  <2>4. ((mismatches = 0) # mutate) <=> ((Wrong = {}) # mutate)
    BY <2>2
  <2> QED  BY <1>1, <2>3, <2>4 DEF VerdictRight
<1> QED  BY <1>2, <1>3, <1>4 DEF SweepInv

(* Before the sweep; and when nothing changes. *)
LEMMA RestKeeps ==
  ASSUME IInv, SweepInv, UNCHANGED bruteVars, stage = "none" \/ UNCHANGED vars
  PROVE  SweepInv'
<1>1. /\ body' = body /\ mutate' = mutate /\ stage' = stage /\ outer' = outer /\ inner' = inner
      /\ zpB' = zpB /\ page' = page /\ mismatches' = mismatches /\ first' = first /\ exit' = exit
  BY DEF bruteVars
<1>2. SweepTyped'
  BY <1>1 DEF SweepInv, SweepTyped
<1>3. stage # "none" => pc' = pc /\ tab' = tab /\ sumImm' = sumImm /\ diffImm' = diffImm
  BY DEF vars
<1>4. SweepCourse' /\ PagesRight'
  BY <1>1, <1>3 DEF SweepInv, SweepCourse, PagesRight, TableBuilt, Got, Seen
<1>5. CountRight'
  <2>1. CASE stage = "none"
    BY <1>1, <2>1 DEF CountRight
  <2>2. CASE stage # "none"
    <3>1. Reached' = Reached
      BY <1>1 DEF Reached
    <3> QED  BY <1>1, <2>2, <3>1, CountStays DEF SweepInv
  <2> QED  BY <2>1, <2>2
<1>6. VerdictRight'
  <2>1. Wrong' = Wrong
    BY <1>1, WrongSame
  <2> QED  BY <1>1, <2>1 DEF SweepInv, VerdictRight
<1> QED  BY <1>2, <1>4, <1>5, <1>6 DEF SweepInv

(* Nothing of the program is under way while the sweep is. *)
LEMMA TableDuringSweep ==
  ASSUME IInv, SweepInv, [BruteNext]_allVars
  PROVE  IInv'
<1>1. CASE UNCHANGED vars
  BY <1>1, QuietSteps
<1>2. CASE Next
  BY <1>2, QuietSteps, SqtabSteps, RowLoop, OnchipLoop DEF Next, Loop
<1>3. CASE BakeSites
  <2>1. /\ pc = "idle" /\ outer \in Byte /\ sumImm' = outer /\ diffImm' = outer
        /\ UNCHANGED <<pc, tab, acc, i, a, b, src2, staged>>
    BY <1>3 DEF BakeSites, Bake, SweepInv, SweepCourse, SweepTyped
  <2>2. TypeOK'
    BY <2>1 DEF IInv, TypeOK
  <2> QED
    BY <2>1, <2>2 DEF IInv, TableUnderWay, TableReady, TableBuilt, Baked, RowUnderWay,
       OnchipUnderWay, RowRight, OnchipRight
<1> QED
  BY <1>1, <1>2, <1>3 DEF BruteNext, Sweep, SweepBegin, KernelStep, Compare, Exit, Over, allVars

LEMMA InitSweep == BruteInit => IInv /\ SweepInv
<1> SUFFICES ASSUME BruteInit PROVE IInv /\ SweepInv
  OBVIOUS
<1>1. /\ Init /\ mutate = FALSE /\ stage = "none" /\ outer = 0 /\ inner = 0 /\ zpB = 0
      /\ page = [n \in Byte |-> <<0, 0>>] /\ mismatches = 0 /\ first = <<>> /\ exit = "running"
  BY DEF BruteInit
<1>2. SweepTyped
  <2>1. \E S : page \in [Byte -> S]
    <3> WITNESS {<<0, 0>>}
    <3> QED  BY <1>1
  <2>2. first \in Seq(Int)
    BY <1>1
  <2>3. mutate \in BOOLEAN /\ mismatches \in Nat
    BY <1>1
  <2> QED  BY <1>1, <2>1, <2>2, <2>3, Bounds DEF SweepTyped
<1> QED
  BY <1>1, <1>2, InitInvariant DEF SweepInv, SweepCourse, PagesRight, CountRight, VerdictRight

LEMMA SweepInvariance == BruteSpec => [](IInv /\ SweepInv)
<1>1. IInv /\ SweepInv /\ [BruteNext]_allVars => IInv' /\ SweepInv'
  <2> SUFFICES ASSUME IInv, SweepInv, [BruteNext]_allVars PROVE SweepInv'
    BY TableDuringSweep
  <2>1. CASE Sweep
    BY <2>1, SweepBegins, BakeKeeps, KernelKeeps, CompareKeeps, ExitKeeps DEF Sweep
  <2>2. CASE stage = "none" /\ UNCHANGED bruteVars
    BY <2>2, RestKeeps
  <2>3. CASE UNCHANGED allVars
    BY <2>3, RestKeeps DEF allVars
  <2> QED  BY <2>1, <2>2, <2>3 DEF BruteNext, Over
<1> QED  BY <1>1, InitSweep, PTL DEF BruteSpec

(***************************************************************************)
(* ct_mul_brute_check.py counts exactly the pairs a body gets wrong, and    *)
(* prints the first five of them in order, for every body, byte size and    *)
(* content of the pages and sites; and its exit code says so, inverted      *)
(* under --mutate.                                                          *)
(***************************************************************************)
THEOREM SweepsAreExact == BruteSpec => []BruteExact
<1>1. IInv /\ SweepInv => BruteExact
  <2> SUFFICES ASSUME SweepInv, exit # "running"
               PROVE  /\ mismatches = Cardinality(Wrong)
                      /\ Len(first) = (IF mismatches < 5 THEN mismatches ELSE 5)
                      /\ \A k \in DOMAIN first :
                           LET v == <<first[k][1], first[k][2]>>
                           IN  v \in Wrong /\ Cardinality({w \in Wrong : Place(w) < Place(v)}) = k - 1
                      /\ (exit = "zero") <=> ((Wrong = {}) # mutate)
    BY DEF BruteExact
  <2>1. stage = "exit" /\ Reached = B * B
    BY DEF SweepInv, SweepCourse, Reached
  <2>2. mismatches = Cardinality(Wrong) /\ Len(first) = (IF mismatches < 5 THEN mismatches ELSE 5)
    BY <2>1, BeforeEnds DEF SweepInv, CountRight
  <2>3. \A k \in DOMAIN first : Kept(k)
    BY <2>1 DEF SweepInv, CountRight
  <2>4. (exit = "zero") <=> ((Wrong = {}) # mutate)
    BY DEF SweepInv, VerdictRight
  <2> QED  BY <2>2, <2>3, <2>4 DEF Kept, Before
<1> QED  BY <1>1, SweepInvariance, PTL
===============================================================================
