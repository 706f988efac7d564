---- MODULE MCU64Session ----
(* Instances of U64Session: two sessions, their command lines, and the      *)
(* configurations they may find.                                            *)
EXTENDS U64Session

CONSTANTS ada, bob

MCTools == {ada, bob}

Full     == [speeds |-> {1, 48},  stock |-> TRUE,  skip |-> TRUE]
Short    == [speeds |-> {48},     stock |-> FALSE, skip |-> FALSE]
TooQuick == [speeds |-> {48, 64}, stock |-> TRUE,  skip |-> TRUE]

MCPlans == {[t \in MCTools |-> IF t = ada THEN p[1] ELSE p[2]] :
              p \in {<<Full, Short>>, <<Short, Short>>, <<TooQuick, Short>>}}

MCFound == {[turbo |-> 1, reu |-> FALSE], [turbo |-> 48, reu |-> TRUE]}
====
