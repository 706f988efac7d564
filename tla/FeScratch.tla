------------------------------- MODULE FeScratch -------------------------------
(***************************************************************************)
(* What the routines of src/src/fe25519.s have in common, apart from the    *)
(* arithmetic: the pointers their callers set, the buffer fe_wide, the byte *)
(* counters and fe_carry.  None is initialised by its owner; each routine   *)
(* finds what the others left.                                              *)
(***************************************************************************)
EXTENDS WideBytes

CONSTANT Operands    \* the operands the callers use

OperandsFit == Operands \subseteq Elements

VARIABLES
  pc,                \* "idle", or where the routine under way is
  src1, src2, dst,   \* what fe25519_src1, fe25519_src2 and fe25519_dst point to
  wide,              \* fe_wide
  i, x,              \* fe_mul_i and the X register
  carry              \* fe_carry; the carry flag where it is handed on

Zeros == [k \in 0 .. N - 1 |-> 0]
================================================================================
