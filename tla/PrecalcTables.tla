---------------------------- MODULE PrecalcTables ----------------------------
(****************************************************************************)
(* The comparison of tools/check_precalc_enumeration.py: the page-aligned     *)
(* tables of a link against the entries LIB_PRECALC_TABLE declares.          *)
(*                                                                           *)
(* A label is an exported name of a data segment with its linked address;     *)
(* `size` is the size of what stands there, which the tool does not know: it  *)
(* measures up to the next label of the member, or to the member's end.  An   *)
(* entry is LIB_X25519_PRECALC_<name>_{SIZE,REGION}; `prefixed` says that     *)
(* <name> is x25519_ and a symbol, `name` that symbol.                        *)
(****************************************************************************)
EXTENDS Naturals, FiniteSetsExt

CONSTANT Exempt      \* the staging buffers, which are not tables

Page == 256

Extent(labels, end, a) == Min({l.at : l \in {x \in labels : x.at > a}} \cup {end}) - a

Larger(labels, end, a) == Extent(labels, end, a) > Page
LargeEnough(labels, end, a) == Extent(labels, end, a) >= Page

(* Of one member: names that share an address are one table.                  *)
Tables(labels, end) ==
    LET at == {l.at : l \in labels}
        table(a) == [names |-> {l.name : l \in {x \in labels : x.at = a}},
                     extent |-> Extent(labels, end, a)]
    IN  {table(a) : a \in {b \in at : b % Page = 0 /\ LargeEnough(labels, end, b)}}

Entries(table, entries) == {e \in entries : e.prefixed /\ e.name \in table.names}

(* Where two of a table's names have an entry the tool takes the first.       *)
Enumerated(table, entries) ==
    LET hit == CHOOSE e \in Entries(table, entries) : TRUE
    IN  /\ Entries(table, entries) # {}
        /\ hit.size = table.extent
        /\ hit.region = "rodata"

EnumerationPasses(tables, entries) ==
    /\ tables # {} /\ entries # {}
    /\ \A t \in tables :
          IF Entries(t, entries) # {} THEN Enumerated(t, entries)
          ELSE t.names \cap Exempt # {}
==============================================================================
