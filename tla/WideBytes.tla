------------------------------- MODULE WideBytes -------------------------------
(***************************************************************************)
(* The 64-byte buffer fe_wide of src/src/fe25519.s, which the multiplication,*)
(* the squaring and the multiplication by the curve constant share, and the *)
(* carry ripple all three are full of.                                      *)
(***************************************************************************)
EXTENDS FieldOps

CONSTANTS
  B,          \* the values of a byte                                   (256)
  N           \* bytes of a field element                                (32)

Byte     == 0 .. B - 1
Elements == [0 .. N - 1 -> Byte]

\* What byte k of a number counts for: B^k.
Weight[k \in 0 .. 2 * N + 2] == IF k = 0 THEN 1 ELSE B * Weight[k - 1]

\* What the code rests on: the instances assert it.
RadixFits ==
  B \in Nat /\ N \in Nat \ {0} /\ Weight[N] = R /\ Fold < B

(* What other routines leave in fe_wide. *)
StaleWide == {[k \in 0 .. 2 * N - 1 |-> v] : v \in {0, B - 1}}

(***************************************************************************)
(* Adding v at byte `from` and rippling the carry: the carries into each    *)
(* byte, and the buffer afterwards, up to byte `to`.                        *)
(***************************************************************************)
Carries(w, from, v) ==
  LET c[k \in from .. 2 * N] ==
        IF k = from THEN v ELSE (w[k - 1] + c[k - 1]) \div B
  IN  c

Rippled(w, from, to, v) ==
  LET c == Carries(w, from, v)
  IN  [k \in DOMAIN w |-> IF k \in from .. to THEN (w[k] + c[k]) % B ELSE w[k]]

(* The value of bytes from .. to of a buffer, with byte `from` as the lowest. *)
Value(w, from, to) ==
  LET v[k \in from .. to + 1] == IF k = to + 1 THEN 0 ELSE w[k] + B * v[k + 1]
  IN  v[from]
===============================================================================
