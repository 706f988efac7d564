-------------------------------- MODULE FeInv --------------------------------
(***************************************************************************)
(* fe25519_inv (src/src/fe25519.s): inversion by raising to the power p - 2 *)
(* with an addition chain that keeps five intermediate powers in buffers    *)
(* the ladder uses as well.                                                 *)
(*                                                                          *)
(* A buffer's value is a power of z, the operand: z^e is represented by e,  *)
(* and e by the set of its one bits.  So one run stands for every operand,  *)
(* and the exponent is exact.  The pointers fe25519_src1 and fe25519_dst    *)
(* may name any buffer, those of the chain included.                        *)
(***************************************************************************)
EXTENDS FeScratch, Sequences

CONSTANTS
  Top,         \* p = 2^(Top + 1) - 19, so the exponent has bits 0 .. Top  (254)
  Other        \* the buffers the chain does not use

Temps == {"tmp1", "tmp2", "tmp3", "x25_a", "x25_b", "x25_da", "x25_cb"}

AllBuffers == Temps \cup Other

TopFits == Top = 254

(***************************************************************************)
(* Exponents.  Squaring doubles, which is a shift; a product adds, and bit  *)
(* n is carried into when below it comes a run of ones in either summand    *)
(* that starts where both have a one.                                       *)
(***************************************************************************)
Exponents == SUBSET (0 .. Top)

Junk == {-1}                 \* not a power of z that matters

Doubled(s) == IF s = Junk THEN Junk ELSE {n + 1 : n \in s}

Plus(s, t) ==
  LET both     == s \cap t
      either   == s \cup t
      Carry(n) == \E k \in both : k < n /\ k + 1 .. n - 1 \subseteq either
  IN  IF s = Junk \/ t = Junk THEN Junk
      ELSE {n \in 0 .. Top + 1 : (n \in s) # ((n \in t) # Carry(n))}

VARIABLES
  line,             \* the next line of the chain; 0 when no call is under way
  sqrs,             \* fe_inv_sqr_cnt
  power,            \* the buffers: exponents
  canonical         \* whether the result is known to be below p

inverseVars == <<line, sqrs, power, src1, dst, canonical>>

(***************************************************************************)
(* The chain: what each call writes, and from what.  "sqrs" squares tmp2 in *)
(* place, n times (fe_inv_sqrn_tmp2).                                       *)
(***************************************************************************)
MulLine(d, s, t) == [op |-> "mul", d |-> d, s |-> s, t |-> t, n |-> 0]
SqrLine(d, s)    == [op |-> "sqr", d |-> d, s |-> s, t |-> s, n |-> 0]
CopyLine(d, s)   == [op |-> "copy", d |-> d, s |-> s, t |-> s, n |-> 0]
SqrnLine(n)      == [op |-> "sqrn", d |-> "tmp2", s |-> "tmp2", t |-> "tmp2", n |-> n]

ChainReusingTmp3 == <<    \* faulty: the copy of z_10_0 is looked for in tmp3
  CopyLine("tmp1", "src"),
  SqrLine("tmp2", "tmp1"), SqrLine("tmp3", "tmp2"), SqrLine("tmp3", "tmp3"),
  MulLine("tmp3", "tmp3", "tmp1"), MulLine("x25_a", "tmp3", "tmp2"),
  SqrLine("tmp2", "x25_a"), MulLine("tmp2", "tmp2", "tmp3"), CopyLine("tmp3", "tmp2"),
  SqrnLine(5),   MulLine("x25_b", "tmp2", "tmp3"), CopyLine("tmp2", "x25_b"),
  SqrnLine(10),  MulLine("tmp2", "tmp2", "tmp3"), CopyLine("tmp3", "tmp2"),
  SqrnLine(20),  MulLine("tmp2", "tmp2", "tmp3"),
  SqrnLine(10),  MulLine("x25_da", "tmp2", "x25_b"), CopyLine("tmp2", "x25_da"),
  SqrnLine(50),  MulLine("x25_cb", "tmp2", "x25_da"), CopyLine("tmp2", "x25_cb"),
  SqrnLine(100), MulLine("tmp2", "tmp2", "x25_cb"),
  SqrnLine(50),  MulLine("tmp2", "tmp2", "x25_da"),
  SqrnLine(5),   MulLine("dst", "tmp2", "x25_a") >>

AdditionChain == <<
  CopyLine("tmp1", "src"),            \* z
  SqrLine("tmp2", "tmp1"),            \* z^2
  SqrLine("tmp3", "tmp2"),            \* z^4
  SqrLine("tmp3", "tmp3"),            \* z^8
  MulLine("tmp3", "tmp3", "tmp1"),    \* z^9
  MulLine("x25_a", "tmp3", "tmp2"),   \* z^11
  SqrLine("tmp2", "x25_a"),           \* z^22
  MulLine("tmp2", "tmp2", "tmp3"),    \* z^(2^5 - 1)
  CopyLine("tmp3", "tmp2"),
  SqrnLine(5),   MulLine("x25_b", "tmp2", "tmp3"),     \* z^(2^10 - 1)
  CopyLine("tmp2", "x25_b"),
  SqrnLine(10),  MulLine("tmp2", "tmp2", "x25_b"),     \* z^(2^20 - 1)
  CopyLine("tmp3", "tmp2"),
  SqrnLine(20),  MulLine("tmp2", "tmp2", "tmp3"),      \* z^(2^40 - 1)
  SqrnLine(10),  MulLine("x25_da", "tmp2", "x25_b"),   \* z^(2^50 - 1)
  CopyLine("tmp2", "x25_da"),
  SqrnLine(50),  MulLine("x25_cb", "tmp2", "x25_da"),  \* z^(2^100 - 1)
  CopyLine("tmp2", "x25_cb"),
  SqrnLine(100), MulLine("tmp2", "tmp2", "x25_cb"),    \* z^(2^200 - 1)
  SqrnLine(50),  MulLine("tmp2", "tmp2", "x25_da"),    \* z^(2^250 - 1)
  SqrnLine(5),   MulLine("dst", "tmp2", "x25_a") >>

Final == Len(AdditionChain) + 1               \* fe25519_reduce_final, and return

(* Faulty: fe_inv_dst is saved from the source pointer. *)
NamedSwapped(name) == IF name \in {"src", "dst"} THEN src1 ELSE name

Named(name) == CASE name = "src" -> src1 [] name = "dst" -> dst [] OTHER -> name

Line == AdditionChain[line]

At(op) == line \in 1 .. Len(AdditionChain) /\ Line.op = op

InverseInit ==
  /\ line = 0 /\ sqrs = 0
  /\ src1 \in AllBuffers /\ dst \in AllBuffers
  /\ power = [r \in AllBuffers |-> Junk]
  /\ canonical = FALSE

AtCall(r, z) == IF r = z THEN {0} ELSE Junk

(***************************************************************************)
(* A call: z is what the source holds, the rest is what other code left.    *)
(***************************************************************************)
InverseCall ==
  /\ line = 0
  /\ src1' \in AllBuffers /\ dst' \in AllBuffers
  /\ power' = [r \in AllBuffers |-> AtCall(r, src1')]
  /\ canonical' = FALSE
  /\ line' = 1
  /\ UNCHANGED sqrs

Writes(v) == power' = [power EXCEPT ![Named(Line.d)] = v]

CallCopy ==
  /\ At("copy")
  /\ Writes(power[Named(Line.s)])
  /\ line' = line + 1
  /\ UNCHANGED <<sqrs, src1, dst, canonical>>

CallSqr ==
  /\ At("sqr")
  /\ Writes(Doubled(power[Line.s]))
  /\ line' = line + 1
  /\ UNCHANGED <<sqrs, src1, dst, canonical>>

(* The destination pointer is restored for the last one. *)
CallMul ==
  /\ At("mul")
  /\ Writes(Plus(power[Line.s], power[Line.t]))
  /\ line' = line + 1
  /\ UNCHANGED <<sqrs, src1, dst, canonical>>

(* fe_inv_sqrn_tmp2: the counter is decremented after each squaring. *)
SqrnBeginExtra ==    \* faulty: a squaring too many
  /\ At("sqrn") /\ sqrs = 0
  /\ sqrs' = Line.n + 1
  /\ UNCHANGED <<line, power, src1, dst, canonical>>

SqrnBegin ==
  /\ At("sqrn") /\ sqrs = 0
  /\ sqrs' = Line.n
  /\ UNCHANGED <<line, power, src1, dst, canonical>>

SqrnStep ==
  /\ At("sqrn") /\ sqrs > 0
  /\ Writes(Doubled(power[Line.s]))
  /\ sqrs' = sqrs - 1
  /\ line' = IF sqrs - 1 = 0 THEN line + 1 ELSE line
  /\ UNCHANGED <<src1, dst, canonical>>

(* The last product, and the pointer fe25519_reduce_final works on. *)
ReduceResult ==
  /\ line = Final
  /\ canonical' = TRUE
  /\ line' = 0
  /\ UNCHANGED <<sqrs, power, src1, dst>>

InverseNext ==
  InverseCall \/ CallCopy \/ CallSqr \/ CallMul \/ SqrnBegin \/ SqrnStep \/ ReduceResult

InverseSpec == InverseInit /\ [][InverseNext]_inverseVars

(***************************************************************************)
(* Properties.                                                              *)
(***************************************************************************)

(* Types; and no power with an exponent of 2^255 or above is ever formed. *)
InverseTypeOK ==
  /\ line \in 0 .. Final
  /\ sqrs \in 0 .. 100
  /\ power \in [AllBuffers -> Exponents \cup {Junk}]
  /\ src1 \in AllBuffers /\ dst \in AllBuffers /\ canonical \in BOOLEAN

(* p - 2 = 2^255 - 21: all bits but those of 20. *)
PMinus2 == (0 .. Top) \ {2, 4}

(***************************************************************************)
(* The result is z^(p - 2), canonical, wherever operand and result are:     *)
(* in place, in a buffer of the chain, or in two of them.                   *)
(***************************************************************************)
InverseRight == line = 0 /\ canonical => power[dst] = PMinus2

(***************************************************************************)
(* Nothing but the result and the seven buffers of the chain is written;    *)
(* the ladder relies on x_2 still being there when the result is            *)
(* multiplied with it.                                                      *)
(***************************************************************************)
FrameKept ==
  line # 0 \/ canonical => \A r \in AllBuffers \ (Temps \cup {dst}) : power[r] = AtCall(r, src1)
===============================================================================
