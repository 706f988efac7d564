---- MODULE MCCycleBench ----
(* CycleBench with short bodies; x25519_base copies and clamps before it    *)
(* masks interrupts.                                                        *)
EXTENDS CycleBench

Work(k) == [n \in 1 .. k |-> "work"]

MCBody ==
  [routine \in {"fe25519_mul", "fe25519_sqr", "fe25519_inv", "fe25519_add", "fe25519_sub",
                "fe25519_reduce_final", "fe25519_mul_a24", "fe25519_cswap", "x25519_base"} |->
     CASE routine = "x25519_base" -> <<"work", "php", "sei">> \o Work(24) \o <<"plp", "rts">>
       [] routine = "fe25519_mul" -> Work(9)
       [] routine = "fe25519_inv" -> Work(14)
       [] routine \in {"fe25519_sqr", "fe25519_mul_a24"} -> Work(6)
       [] OTHER -> Work(2)]
====
