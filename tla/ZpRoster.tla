------------------------------- MODULE ZpRoster -------------------------------
(****************************************************************************)
(* The zero-page slots of zp_config.s and their reconciliation               *)
(* (tools/check_zp_roster.py).                                               *)
(*                                                                           *)
(* A slot is its name, first address and size; whether it is a line of the    *)
(* macro x25519_zp_roster (listed), whose asserts and markers cover those     *)
(* only; and, for one declared beside the roster, whether it is exported      *)
(* always, never, or unless ZP_CONFIG_NO_EXPORTS is defined ("guarded", what  *)
(* the roster's lines are).                                                  *)
(****************************************************************************)
EXTENDS Naturals, FiniteSets, FiniteSetsExt

Span(x) == x.addr .. x.addr + x.size - 1

(* What the macros assert of the slots they go over, pass 1 and pass 2.       *)
Apart(slots) ==
    /\ \A x \in slots : x.addr >= 2 /\ x.addr + x.size <= 256
    /\ \A x, y \in slots : x.name # y.name =>
          x.addr + x.size <= y.addr \/ y.addr + y.size <= x.addr

Listed(slots) == {x \in slots : x.listed}
Bytes(slots) == MapThenSumSet(LAMBDA x : x.size, slots)
Located(slots) == {[name |-> x.name, addr |-> x.addr] : x \in slots}

(* What zp_config.o exports.                                                  *)
Exports(slots, noExports) ==
    Located({x \in slots : x.export = "always" \/ (x.export = "guarded" /\ ~noExports)})

-----------------------------------------------------------------------------
(* A symbol of the file that is not a roster slot, unless the build defined it. *)
OverrideIgnored(slots, passed) == {}
Outside(slots, passed) == {x \in slots : ~x.listed /\ x.name \notin passed}

RosterPasses(slots, passed, exports, noExports, usage) ==
    /\ Apart(Listed(slots))
    /\ Listed(slots) # {}
    /\ Outside(slots, passed) = {}
    /\ exports = IF noExports THEN {} ELSE Located(Listed(slots))
    /\ usage = Bytes(Listed(slots))
==============================================================================
