------------------------------- MODULE MCX25519 -------------------------------
(***************************************************************************)
(* X25519 over a small field, against the group law of its curve: the       *)
(* values of the run.  The inputs are on the curve and on its twist, at 0,  *)
(* not canonical, and with the bit above the field's set.                   *)
(***************************************************************************)
EXTENDS X25519Curve

SmallU       == {0, 1, 5, 9, 28, 29, 31, 41, 61, 63}
AllScalars   == Scalar
SmallLeftover == {63}
===============================================================================
