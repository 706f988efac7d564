----------------------------- MODULE ArchiveGates -----------------------------
(****************************************************************************)
(* The gates that end `make lib-verify-isolation`, -footprint, -zp and        *)
(* -precalc: four tools of tools/ over what the build tree holds by then.    *)
(*                                                                           *)
(* A source is what the assembler would make of it, as far as the gate looks: *)
(* per knobs and member the exported names and the segment sizes, the         *)
(* equates the manifest declares, the fill ld65 puts between members and the  *)
(* segments the stub pulls in, the zero-page slots, the tables.  The          *)
(* isolation gate lists the members of the archive and reads the loose        *)
(* objects beside it; the footprint gate extracts the archive and reads the   *)
(* labels and the map of the stub link; the roster gate assembles             *)
(* zp_config.s once more and reads two of the loose objects; the enumeration  *)
(* gate reads the link and the loose objects.                                 *)
(****************************************************************************)
EXTENDS BuildTree, ZpRoster, PrecalcTables

CONSTANTS Sources,       \* gate -> the sources considered
          Manifest,      \* the member that exports the equates
          ZpConfig,      \* the member that exports the zero-page slots
          Expect,        \* knobs -> the bare names the Makefile expects, by family
          NoExports,     \* the knobs with ZP_CONFIG_NO_EXPORTS
          Passed,        \* knobs -> the names they define with -D
          MinMembers     \* the gate refuses an archive with fewer

ASSUME NamesAreFinite ==
    \A s \in Sources["isolation"], k \in Knobs, m \in Members : IsFiniteSet(s.exports[k][m])
ASSUME ManifestIsAMember == Manifest \in Members

Measured == {"code", "data", "init"}     \* the segments with a row in the map

(* An equate is a number; a segment that is not in the map, because the link  *)
(* pulls nothing of it, has no fill either.                                   *)
ASSUME MapIsTheLinkers ==
    \A s \in Sources["footprint"] :
        /\ \A k \in Knobs : \A e \in {"resident", "cold", "window", "region"} :
              s.equate[k][e] \in Nat
        /\ \A seg \in Measured \cup {"sqtab"} : seg \notin s.rows \cap Measured => s.fill[seg] = 0

(* The assembler takes a name once in a file.                                 *)
ASSUME SlotsAreTheAssemblers ==
    \A s \in Sources["zp"], k \in Knobs :
        /\ IsFiniteSet(s.slots[k])
        /\ \A x \in s.slots[k] : x.addr \in Nat /\ x.size \in Nat
        /\ \A x, y \in s.slots[k] : x.name = y.name => x = y

(* What stands at a label ends before the next label of the member and before *)
(* the member's end.                                                          *)
ASSUME LabelsAreTheLinkers ==
    \A s \in Sources["precalc"], k \in Knobs, m \in Members :
        /\ s.end[k][m] \in Nat
        /\ \A l \in s.labels[k][m] :
              /\ l.at \in Nat /\ l.size \in Nat
              /\ l.at + l.size <= s.end[k][m]
              /\ \A o \in s.labels[k][m] : o.at > l.at => l.at + l.size <= o.at

(* A name: its family, and whether od65 prints it without a space before the  *)
(* quote, which it does at length 24.                                         *)
Families(names) == {n.family : n \in names}
Bare(names, family) == {n \in names : n.family = family}

SumOf(f) == MapThenSumSet(LAMBDA m : f[m], Members)

-----------------------------------------------------------------------------
(* check_member_isolation.py *)

(* The names read out of a dump; --unsafe-extract takes the second word of    *)
(* each line, which is not the name when nothing separates them.              *)
Extracted(names, unsafe) == IF unsafe THEN {n \in names : ~n.glued} ELSE names

Unreconciled(parsed, declared) == FALSE
Dropped(parsed, declared) == Cardinality(parsed) # Cardinality(declared)

Mixes(names) ==
    \/ {"precalc", "aggregate"} \subseteq Families(names)
    \/ {"precalc", "version"} \subseteq Families(names)
    \/ {"version", "aggregate"} \subseteq Families(names)

MemberFails(names, unsafe) ==
    LET parsed == Extracted(names, unsafe)
    IN  Dropped(parsed, names) \/ Mixes(parsed)

(* The totals count what was read, the members that fail included.            *)
Total(exports, family, unsafe) ==
    SumOf([m \in Members |-> Cardinality(Bare(Extracted(exports[m], unsafe), family))])

IsolationPasses(exports, k, unsafe) ==
    /\ Cardinality(Members) >= MinMembers
    /\ \A m \in Members : ~MemberFails(exports[m], unsafe)
    /\ \A family \in {"precalc", "version"} :
          Total(exports, family, unsafe) = Expect[k][family]

(* ar65 t and od65 fail on an empty file, and a near-empty archive is refused *)
(* rather than found clean.                                                   *)
Readable(f) == \A m \in Members : f[m] \in Knobs

Isolation(s) ==
    /\ run.at = "isolation"
    /\ LET unsafe == run.goal = "isolation-negative"
           readable == Readable(tree.arch) /\ Readable(tree.copy)
           exports == [m \in Members |-> s.exports[tree.copy[m]][m]]
           passes == IsolationPasses(exports, run.knobs, unsafe)
       IN  \/ /\ readable /\ passes
              /\ Claim([by |-> "isolation", knobs |-> run.knobs, src |-> s, unsafe |-> unsafe])
           \/ readable /\ ~passes /\ Stop /\ UNCHANGED said
           \/ ~readable /\ Stop /\ UNCHANGED said
    /\ UNCHANGED <<tree, stamp, touched>>

-----------------------------------------------------------------------------
(* check_footprint.py *)

SegmentTotal(sizes, seg) == SumOf([m \in Members |-> sizes[m][seg]])

(* The map's spans: a segment the stub pulls nothing of has no row.           *)
Placed(s, linked) ==
    [seg \in {g \in Measured : g \in s.rows} |->
        SegmentTotal([m \in Members |-> s.size[linked[m]][m]], seg) + s.fill[seg]]

(* Each measured segment's object sizes add up to the span that was placed;   *)
(* one without a row has no size.                                             *)
LinkFillUnchecked(sizes, spans) ==
    \A seg \in Measured \ DOMAIN spans : SegmentTotal(sizes, seg) = 0
LinkFillPasses(sizes, spans) ==
    \A seg \in Measured :
        IF seg \in DOMAIN spans THEN spans[seg] = SegmentTotal(sizes, seg)
        ELSE SegmentTotal(sizes, seg) = 0

FootprintPasses(sizes, equate, spans) ==
    LET code == SegmentTotal(sizes, "code")
        data == SegmentTotal(sizes, "data")
        init == SegmentTotal(sizes, "init")
    IN  /\ equate.region >= equate.window
        /\ SegmentTotal(sizes, "sqtab") = 0
        /\ equate.resident = code + data + equate.window
        /\ equate.cold = init
        /\ DOMAIN spans # {}
        /\ LinkFillPasses(sizes, spans)

(* The archive is extracted; the equates come from the labels of the stub,    *)
(* which an emptied stub does not have.                                       *)
Footprint(s) ==
    /\ run.at = "footprint"
    /\ LET readable == Readable(tree.arch) /\ Readable(tree.stub)
           passes == FootprintPasses([m \in Members |-> s.size[tree.arch[m]][m]],
                                     s.equate[tree.stub[Manifest]],
                                     Placed(s, tree.stub))
       IN  \/ /\ readable /\ passes
              /\ Claim([by |-> "footprint", knobs |-> run.knobs, src |-> s])
           \/ readable /\ ~passes /\ Stop /\ UNCHANGED said
           \/ ~readable /\ Stop /\ UNCHANGED said
    /\ UNCHANGED <<tree, stamp, touched>>

-----------------------------------------------------------------------------
(* check_zp_roster.py *)

(* zp_config.s is assembled afresh with the knobs of this run; the exports and *)
(* the usage equate are read from the copies.                                 *)
Roster(s) ==
    /\ run.at = "zp"
    /\ LET readable == Readable(tree.copy)
           exports == Exports(s.slots[tree.copy[ZpConfig]], tree.copy[ZpConfig] \in NoExports)
           usage == s.usage[tree.copy[Manifest]]
           passes == RosterPasses(s.slots[run.knobs], Passed[run.knobs], exports,
                                  run.knobs \in NoExports, usage)
       IN  \/ /\ readable /\ passes
              /\ Claim([by |-> "zp", knobs |-> run.knobs, src |-> s])
           \/ readable /\ ~passes /\ Stop /\ UNCHANGED said
           \/ ~readable /\ Stop /\ UNCHANGED said
    /\ UNCHANGED <<tree, stamp, touched>>

-----------------------------------------------------------------------------
(* check_precalc_enumeration.py *)

Enumeration(s) ==
    /\ run.at = "precalc"
    /\ LET readable == Readable(tree.arch) /\ Readable(tree.copy) /\ Readable(tree.stub)
           names(m) == {l.name : l \in s.labels[tree.copy[m]][m]}
           tables == UNION {Tables({l \in s.labels[tree.stub[m]][m] : l.name \in names(m)},
                                   s.end[tree.stub[m]][m]) : m \in Members}
           entries == UNION {s.entries[tree.copy[m]][m] : m \in Members}
       IN  \/ /\ readable /\ EnumerationPasses(tables, entries)
              /\ Claim([by |-> "precalc", knobs |-> run.knobs, src |-> s])
           \/ readable /\ ~EnumerationPasses(tables, entries) /\ Stop /\ UNCHANGED said
           \/ ~readable /\ Stop /\ UNCHANGED said
    /\ UNCHANGED <<tree, stamp, touched>>

-----------------------------------------------------------------------------
Next ==
    \/ TreeNext
    \/ \E s \in Sources["isolation"] : Isolation(s)
    \/ \E s \in Sources["footprint"] : Footprint(s)
    \/ \E s \in Sources["zp"] : Roster(s)
    \/ \E s \in Sources["precalc"] : Enumeration(s)

Spec == TreeInit /\ [][Next]_treeVars

-----------------------------------------------------------------------------
(* The isolation gate passes an archive only if, of the library that these    *)
(* knobs build from this source, no member mixes a displaceable name with     *)
(* another family and the displaceable names are the expected number; and     *)
(* with the unsafe extraction only if there was no name for it to lose.       *)
IsolationSound ==
    Claimed("isolation") =>
        LET exports == said.src.exports[said.knobs]
        IN  /\ \A m \in Members :
                  Cardinality(Families(exports[m]) \cap {"version", "precalc", "aggregate"}) <= 1
            /\ \A family \in {"version", "precalc"} :
                  SumOf([m \in Members |-> Cardinality(Bare(exports[m], family))])
                      = Expect[said.knobs][family]
            /\ said.unsafe => \A m \in Members : \A n \in exports[m] : ~n.glued

(* The footprint gate passes only if the equates a consumer budgets with are  *)
(* no smaller than what a link of this source with these knobs places, fill   *)
(* included, the window is reserved, and nothing is counted twice.            *)
FootprintSound ==
    Claimed("footprint") =>
        LET s == said.src
            equate == s.equate[said.knobs]
            placed(seg) == SegmentTotal(s.size[said.knobs], seg) + s.fill[seg]
        IN  /\ equate.resident >= placed("code") + placed("data") + equate.window
            /\ equate.cold >= placed("init")
            /\ equate.region >= equate.window
            /\ placed("sqtab") = 0

(* The roster gate passes only if the slots zp_config.s declares with these   *)
(* knobs are apart from each other and from the processor port, whether they  *)
(* are listed in the roster or not, and the equate a consumer budgets zero    *)
(* page with is the number of bytes they cover.  Excepted, as the tool says:  *)
(* a name that is not in the roster and that the build passed with -D.        *)
RosterSound ==
    Claimed("zp") =>
        LET slots == {x \in said.src.slots[said.knobs] :
                         x.listed \/ x.name \notin Passed[said.knobs]}
        IN  /\ Apart(slots)
            /\ said.src.usage[said.knobs] = Cardinality(UNION {Span(x) : x \in slots})

(* The enumeration gate passes only if each exported page-aligned table of    *)
(* 256 bytes or more that these knobs link has an entry under the library's   *)
(* prefix that declares all of its bytes, and declares them constant.         *)
EnumerationSound ==
    Claimed("precalc") =>
        LET labels == UNION {said.src.labels[said.knobs][m] : m \in Members}
            entries == UNION {said.src.entries[said.knobs][m] : m \in Members}
            names(l) == {o.name : o \in {x \in labels : x.at = l.at}}
        IN  \A l \in labels :
               l.at % Page = 0 /\ l.size >= Page /\ names(l) \cap Exempt = {} =>
                  \E e \in entries : /\ e.prefixed /\ e.name \in names(l)
                                     /\ e.size >= l.size /\ e.region = "rodata"
==============================================================================
