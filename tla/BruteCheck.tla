----------------------------- MODULE BruteCheck -----------------------------
(***************************************************************************)
(* src/tools/ct_mul_brute_check.py: the sweep of ct_mul_8x8 over all pairs  *)
(* of bytes, in a fresh VICE that shows the menu.  The host bakes a, a      *)
(* kernel on the C64 multiplies it by every b and stores the products in    *)
(* two pages, and the host compares.  What it says of a body of ct_mul_8x8, *)
(* right or wrong, is the question; with --mutate the kernel itself is      *)
(* wrong, and the tool has to say so.                                       *)
(***************************************************************************)
EXTENDS QuarterSquare, Sequences, FiniteSets

VARIABLES
  body,         \* the body of ct_mul_8x8 in the build under test
  mutate,       \* --mutate
  stage,        \* "none", "bake", "kernel", "compare", "exit"
  outer, inner, \* the host's a and b
  zpB,          \* $FB
  page,         \* $C000 and $C100: pairs <<low, high>>
  mismatches, first, exit

bruteVars == <<body, mutate, stage, outer, inner, zpB, page, mismatches, first, exit>>
allVars   == <<vars, bruteVars>>

(***************************************************************************)
(* Bodies somebody may write: the one there is, the one before it with a    *)
(* branch, and slips in the page of the sum, the sign of the difference and *)
(* the borrow between the bytes.                                            *)
(***************************************************************************)
Bodies == {"canonical", "branching", "no page", "no negate", "no borrow"}

ProductOf(which, t, s, d, y) ==
  LET sum  == IF which = "no page" THEN (s + y) % B ELSE s + y
      raw  == (y - d) % B
      diff == IF y >= d \/ which = "no negate" THEN raw ELSE d - y
      low  == (t[sum] % B) - (t[diff] % B)
      lend == IF low < 0 /\ which # "no borrow" THEN 1 ELSE 0
  IN  <<low % B, ((t[sum] \div B) - (t[diff] \div B) - lend) % B>>

BruteInit ==
  /\ Init
  /\ body = "canonical" /\ mutate = FALSE /\ stage = "none" /\ outer = 0 /\ inner = 0 /\ zpB = 0
  /\ page = [n \in Byte |-> <<0, 0>>]
  /\ mismatches = 0 /\ first = <<>> /\ exit = "running"

(* The menu is there: the table is built, and nothing was multiplied yet. *)
SweepBegin ==
  /\ stage = "none" /\ pc = "idle" /\ src2 = [j \in 0 .. N - 1 |-> 0] /\ a = 0
  /\ body' \in Bodies /\ mutate' \in BOOLEAN
  /\ stage' = "bake" /\ outer' = 0 /\ inner' = 0
  /\ \E v \in {0, B - 1} : page' = [n \in Byte |-> <<v, v>>]       \* what is in RAM
  /\ UNCHANGED vars
  /\ UNCHANGED <<zpB, mismatches, first, exit>>

(* write_bytes to smc_sum_a_imm + 1 and smc_diff_a_imm + 1; ldx #0, stx $FB. *)
BakeOneSite ==        \* faulty: the site of the difference keeps what it had
  /\ stage = "bake"
  /\ BakeSum(outer)
  /\ stage' = "kernel" /\ zpB' = 0
  /\ UNCHANGED <<pc, tab, acc, i, a, b, src2, staged>>
  /\ UNCHANGED <<body, mutate, outer, inner, page, mismatches, first, exit>>

BakeSites ==
  /\ stage = "bake"
  /\ Bake(outer)
  /\ stage' = "kernel" /\ zpB' = 0
  /\ UNCHANGED <<pc, tab, acc, i, a, b, src2, staged>>
  /\ UNCHANGED <<body, mutate, outer, inner, page, mismatches, first, exit>>

(* A turn of the kernel; $FB wraps after the last. *)
KernelStep ==
  LET p == ProductOf(body, tab, sumImm, diffImm, zpB)
  IN  /\ stage = "kernel"
      /\ page' = [page EXCEPT ![zpB] = <<p[1], IF mutate THEN p[1] ELSE p[2]>>]
      /\ zpB' = (zpB + 1) % B
      /\ stage' = IF (zpB + 1) % B = 0 THEN "compare" ELSE "kernel"
      /\ UNCHANGED vars
      /\ UNCHANGED <<body, mutate, outer, inner, mismatches, first, exit>>

(* Both pages are read back and compared, for b = 0, 1, ... *)
Got(n) == page[n][1] + B * page[n][2]

Counted ==
  IF Got(inner) = outer * inner
  THEN UNCHANGED <<mismatches, first>>
  ELSE /\ mismatches' = mismatches + 1
       /\ first' = IF Len(first) < 5 THEN Append(first, <<outer, inner, Got(inner)>>) ELSE first

Compare ==
  /\ stage = "compare"
  /\ Counted
  /\ inner' = (inner + 1) % B
  /\ IF inner + 1 < B
     THEN UNCHANGED <<stage, outer>>
     ELSE IF outer + 1 < B
     THEN stage' = "bake" /\ outer' = outer + 1
     ELSE stage' = "exit" /\ UNCHANGED outer
  /\ UNCHANGED vars
  /\ UNCHANGED <<body, mutate, zpB, page, exit>>

(* The exit code is inverted under --mutate. *)
Exit ==
  /\ stage = "exit" /\ exit = "running"
  /\ exit' = IF (mismatches = 0) # mutate THEN "zero" ELSE "one"
  /\ UNCHANGED vars
  /\ UNCHANGED <<body, mutate, stage, outer, inner, zpB, page, mismatches, first>>

Over == exit # "running" /\ UNCHANGED allVars

Sweep == SweepBegin \/ BakeSites \/ KernelStep \/ Compare \/ Exit

BruteNext == Sweep \/ (stage = "none" /\ Next /\ UNCHANGED bruteVars) \/ Over

BruteSpec == BruteInit /\ [][BruteNext]_allVars

(***************************************************************************)
(* Properties.                                                              *)
(***************************************************************************)

(***************************************************************************)
(* The count and the first five are exact for every body, whatever the      *)
(* pages and the sites held before: the tool reports the pairs for which    *)
(* this kernel and this body make something else than the product, and no   *)
(* others; so it exits with 0 exactly when the body is right for every pair *)
(* or, under --mutate, when the wrong kernel made a wrong product.          *)
(***************************************************************************)
Seen(v, n) ==
  LET p == ProductOf(body, [k \in Index |-> Quarter(k)], v, v, n)
  IN  p[1] + B * (IF mutate THEN p[1] ELSE p[2])

Wrong == {v \in Byte \X Byte : Seen(v[1], v[2]) # v[1] * v[2]}

Place(v) == B * v[1] + v[2]

BruteExact ==
  exit # "running" =>
    /\ mismatches = Cardinality(Wrong)
    /\ Len(first) = (IF mismatches < 5 THEN mismatches ELSE 5)
    /\ \A k \in DOMAIN first :
         LET v == <<first[k][1], first[k][2]>>
         IN  v \in Wrong /\ Cardinality({w \in Wrong : Place(w) < Place(v)}) = k - 1
    /\ (exit = "zero") <=> ((Wrong = {}) # mutate)
=============================================================================
