------------------------------- MODULE MCByteOps -------------------------------
(***************************************************************************)
(* The routines of fe25519.s: the byte loops over a field of five bytes of  *)
(* six values, and the inversion by its exponents.  A behaviour is calls of *)
(* the multiplication and the square, or of one other routine.              *)
(***************************************************************************)
EXTENDS WideSquare, A24Product, MaskedOps, FeInv, TLC

VARIABLE routine      \* what this behaviour calls

maskedOnly == <<op, buf, y, mask, addMask, round, old>>
chainOnly  == <<line, sqrs, power, canonical>>
squareOnly == <<pending, dmaK, pairs>>
byteVars   == <<routine, pc, src1, src2, dst, wide, i, x, carry, squareOnly, maskedOnly, chainOnly>>

(***************************************************************************)
(* 2^256 is 2P + 4 here, and a24, 65, has the shape of 121665.  Operands:   *)
(* all bytes 0 or the largest; the neighbours of P, of 2P and of 2^256,     *)
(* where decisions turn; a square whose folds carry out twice; and two      *)
(* whose product with a24 wraps.                                            *)
(***************************************************************************)
Extremes == [0 .. N - 1 -> {0, B - 1}]
Turns    == {1, P - 1, P, P + 1, 2 * P - 1, 2 * P, 2 * P + 1, R - 2, 6435, 598, 957}

MCOperands == Extremes \cup {Digits(v) : v \in Turns}

ASSUME InstanceFits ==
  RadixFits /\ OperandsFit /\ UnrollFits /\ SqrFits /\ A24Fits /\ TopFits

NoWide  == wide = 0 /\ i = 0
NoRows  == x = 0 /\ pending = 0 /\ dmaK = 0 /\ pairs = 0
NoMasks == op = 0 /\ buf = 0 /\ y = 0 /\ mask = 0 /\ addMask = 0 /\ round = 0 /\ old = 0
NoChain == line = 0 /\ sqrs = 0 /\ power = 0 /\ canonical = FALSE

ByteInit ==
  \/ routine = "product" /\ SqrInit /\ NoMasks /\ NoChain
  \/ routine = "mul_a24" /\ A24Init /\ src2 = 0 /\ NoRows /\ NoMasks /\ NoChain
  \/ routine = "masked"  /\ MaskedInit /\ NoWide /\ NoRows /\ NoChain
  \/ routine = "inv"     /\ InverseInit /\ pc = "idle" /\ src2 = 0 /\ carry = 0
                         /\ NoWide /\ NoRows /\ NoMasks

ByteNext ==
  /\ UNCHANGED routine
  /\ \/ /\ routine = "product" /\ WideNext
        /\ UNCHANGED <<maskedOnly, chainOnly>>
     \/ /\ routine = "mul_a24" /\ A24Next
        /\ UNCHANGED <<src2, x, squareOnly, maskedOnly, chainOnly>>
     \/ /\ routine = "masked" /\ MaskedNext
        /\ UNCHANGED <<wide, i, x, squareOnly, chainOnly>>
     \/ /\ routine = "inv" /\ InverseNext
        /\ UNCHANGED <<pc, src2, wide, i, x, carry, squareOnly, maskedOnly>>

ByteSpec == ByteInit /\ [][ByteNext]_byteVars

Interchangeable == Permutations(Buffers)

(* Types, each of the routine that is called. *)
ByteTypes ==
  /\ routine = "product" => WideTypeOK
  /\ routine = "mul_a24" => A24TypeOK
  /\ routine = "masked"  => MaskedTypeOK
  /\ routine = "inv"     => InverseTypeOK
===============================================================================
