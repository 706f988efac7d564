--------------------------- MODULE BuildTreeProofs ---------------------------
(****************************************************************************)
(* Whatever builds, queries, touches, kills and deletions came before, a      *)
(* claim of make or of a gate is about an archive of the knobs that were      *)
(* asked for, and what the four gates vouch for is so: for any knobs, any     *)
(* members and any sources.                                                  *)
(*                                                                           *)
(* None of the properties is inductive.  What carries them is that the stamp  *)
(* never names knobs other than those of the files (an invariant of every     *)
(* step but the guard's, which therefore deletes first), that the archives    *)
(* are never part one thing and part another, and that a running make past    *)
(* its guard has the knobs of the stamp: what a gate can read then has the    *)
(* knobs of its run.  The rest is what each gate's comparisons mean of the    *)
(* source: sums and sets that are compared where the property counts bytes.   *)
(****************************************************************************)
EXTENDS ArchiveGates, FiniteSetTheorems, TLAPS

Partly == [Members -> {None, Hollow, stamp}]
Evenly == {Nothing, Whole(Hollow), Whole(stamp)}

Files == tree \in [obj : Partly, copy : Partly, arch : Evenly, canon : Evenly, stub : Evenly]
Steps == {"idle", "rm", "objs", "arch", "copies", "canon", "link"} \cup Goals
Running == run \in [at : Steps, knobs : Knobs, goal : Goals]
Stamped == stamp \in Knobs /\ stamp \notin touched
PastGuard == run.at \notin {"idle", "rm"} => run.knobs = stamp
ObjectsThere == run.at = "arch" => \A m \in Members : tree.obj[m] # None
ArchiveThere == run.at \in {"copies", "canon"} => tree.arch \in {Whole(Hollow), Whole(stamp)}
NothingSaidYet == run.at # "idle" => said = Silent

TreeInv ==
    /\ Files /\ Running /\ Stamped /\ PastGuard
    /\ ObjectsThere /\ ArchiveThere /\ NothingSaidYet

LEMMA Marks == None \notin Knobs /\ Hollow \notin Knobs /\ None # Hollow
  BY MarksAreNoKnobs DEF None, Hollow

LEMMA EmptiedFiles ==
    Emptied \in [obj : Partly, copy : Partly, arch : Evenly, canon : Evenly, stub : Evenly]
  BY DEF Emptied, Nothing, Whole, Partly, Evenly

LEMMA InitInv == TreeInit => TreeInv
  <1> SUFFICES ASSUME TreeInit PROVE TreeInv
    OBVIOUS
  <1>1. Files
    BY EmptiedFiles DEF TreeInit, Files
  <1>2. Running
    BY PlainIsAKnob DEF TreeInit, Running, Idle, Goals, Steps
  <1>3. QED
    BY <1>1, <1>2, PlainIsAKnob
    DEF TreeInit, TreeInv, Stamped, PastGuard, ObjectsThere, ArchiveThere, NothingSaidYet, Idle, Silent

-----------------------------------------------------------------------------
(* A step that leaves the files and the stamp alone and ends the run, or      *)
(* leaves the run alone while it is idle.                                    *)
LEMMA IdleStep ==
    ASSUME TreeInv, UNCHANGED <<tree, stamp, touched>>,
           run' = Idle \/ (run' = run /\ run.at = "idle")
    PROVE  TreeInv'
  <1>1. Files' /\ Stamped'
    BY DEF TreeInv, Files, Stamped, Partly, Evenly, Nothing, Whole
  <1>2. Running' /\ run'.at = "idle"
    BY PlainIsAKnob DEF TreeInv, Running, Idle, Goals, Steps
  <1>3. QED
    BY <1>1, <1>2 DEF TreeInv, PastGuard, ObjectsThere, ArchiveThere, NothingSaidYet

LEMMA StartStep ==
    ASSUME TreeInv, NEW k \in Knobs, NEW goal \in Goals, NEW opaque \in BOOLEAN,
           Start(k, goal, opaque)
    PROVE  TreeInv'
  <1>1. UNCHANGED <<tree, stamp, touched>> /\ said' = Silent /\ run.at = "idle"
    BY DEF Start
  <1>2. Files' /\ Stamped' /\ NothingSaidYet'
    BY <1>1 DEF TreeInv, Files, Stamped, Partly, Evenly, Nothing, Whole, NothingSaidYet
  <1>3. CASE run' = Idle
    BY <1>1, <1>3, IdleStep
  <1>4. CASE Guard("real", k, opaque) = "same" /\ run' = [at |-> "objs", knobs |-> k, goal |-> goal]
    <2>1. k = stamp
      BY <1>4 DEF Guard, NoExec
    <2>2. Running' /\ run'.at = "objs" /\ run'.knobs = stamp'
      BY <1>1, <1>4, <2>1 DEF Running, Steps
    <2>3. QED
      BY <1>2, <2>2 DEF TreeInv, PastGuard, ObjectsThere, ArchiveThere
  <1>5. CASE run' = [at |-> "rm", knobs |-> k, goal |-> goal]
    <2>1. Running' /\ run'.at = "rm"
      BY <1>5 DEF Running, Steps
    <2>2. QED
      BY <1>2, <2>1 DEF TreeInv, PastGuard, ObjectsThere, ArchiveThere
  <1>6. QED
    BY <1>3, <1>4, <1>5 DEF Start

LEMMA InvalidateStep == ASSUME TreeInv, InvalidateOutputs PROVE TreeInv'
  <1>1. /\ tree' = Emptied /\ stamp' = run.knobs /\ touched' = {}
        /\ run' = [run EXCEPT !.at = "objs"] /\ said' = said /\ run.at = "rm"
    BY DEF InvalidateOutputs, Invalidated, Go
  <1>2. Files'
    BY <1>1 DEF Files, Emptied, Nothing, Whole, Partly, Evenly
  <1>3. /\ Running' /\ run'.at = "objs" /\ run'.knobs = stamp'
        /\ Stamped'
    BY <1>1 DEF TreeInv, Running, Stamped, Steps
  <1>4. QED
    BY <1>1, <1>2, <1>3
    DEF TreeInv, PastGuard, ObjectsThere, ArchiveThere, NothingSaidYet

LEMMA KilledStep == ASSUME TreeInv, KilledInRm PROVE TreeInv'
  <1>1. /\ run' = Idle /\ said' = said /\ run.at = "rm"
        /\ stamp' \in IF tree' = Emptied THEN {stamp, Plain} ELSE {stamp}
        /\ touched' = IF tree' = Emptied THEN {} ELSE touched
    BY DEF KilledInRm, Stop
  <1>2. /\ Running' /\ run'.at = "idle"
    BY <1>1, PlainIsAKnob DEF TreeInv, Running, Idle, Goals, Steps
  <1>3. Stamped'
    BY <1>1, PlainIsAKnob DEF TreeInv, Stamped
  <1>4. Files'
    <2>1. CASE tree' = Emptied
      BY <2>1 DEF Files, Emptied, Nothing, Whole, Partly, Evenly
    <2>2. CASE tree' # Emptied
      <3>1. stamp' = stamp
        BY <1>1, <2>2
      <3>2. \A f \in Partly, left \in SUBSET Members : Remaining(f, left) \in Partly
        BY DEF Remaining, Partly
      <3>3. tree' \in [obj : Partly, copy : Partly, arch : Evenly, canon : Evenly, stub : Evenly]
        <4>1. Nothing \in Partly /\ Nothing \in Evenly
          BY DEF Nothing, Whole, Partly, Evenly
        <4>2. CASE \E left \in SUBSET Members : tree' = [tree EXCEPT !.obj = Remaining(@, left)]
          BY <3>2, <4>2 DEF TreeInv, Files
        <4>3. CASE \E left \in SUBSET Members :
                     tree' = [tree EXCEPT !.obj = Nothing, !.copy = Remaining(@, left)]
          BY <3>2, <4>1, <4>3 DEF TreeInv, Files
        <4>4. CASE tree' = [Emptied EXCEPT !.canon = tree.canon, !.stub = tree.stub]
          BY <4>1, <4>4 DEF TreeInv, Files, Emptied
        <4>5. CASE tree' = [Emptied EXCEPT !.stub = tree.stub]
          BY <4>1, <4>5 DEF TreeInv, Files, Emptied
        <4>6. QED
          BY <2>2, <4>2, <4>3, <4>4, <4>5 DEF KilledInRm
      <3>4. QED
        BY <3>1, <3>3 DEF Files, Partly, Evenly, Nothing, Whole
    <2>3. QED
      BY <2>1, <2>2
  <1>5. QED
    BY <1>2, <1>3, <1>4 DEF TreeInv, PastGuard, ObjectsThere, ArchiveThere, NothingSaidYet

-----------------------------------------------------------------------------
(* The rules.  What they write has the knobs of the run, which past the guard *)
(* are those of the stamp.                                                   *)
LEMMA AssembleStep == ASSUME TreeInv, Assemble PROVE TreeInv'
  <1>1. /\ run.at = "objs" /\ UNCHANGED <<stamp, said, touched>>
        /\ run.knobs = stamp
    BY DEF Assemble, MakeGroup, TreeInv, PastGuard
  <1>2. PICK redone \in SUBSET Members :
           /\ tree' = [tree EXCEPT !["obj"] =
                          [m \in Members |-> IF m \in redone THEN Whole(run.knobs)[m] ELSE tree.obj[m]]]
           /\ \/ (\A m \in Members \ redone : tree.obj[m] # None) /\ run' = [run EXCEPT !.at = "arch"]
              \/ run' = Idle
    BY DEF Assemble, MakeGroup, Go, Stop
  <1>3. [m \in Members |-> IF m \in redone THEN Whole(run.knobs)[m] ELSE tree.obj[m]] \in Partly
    BY <1>1 DEF TreeInv, Files, Partly, Whole
  <1>4. Files'
    BY <1>1, <1>2, <1>3 DEF TreeInv, Files, Partly, Evenly, Nothing, Whole
  <1>5. Running' /\ run'.at \in {"arch", "idle"} /\ (run'.at = "arch" => run'.knobs = stamp')
    BY <1>1, <1>2, PlainIsAKnob DEF TreeInv, Running, Idle, Goals, Steps
  <1>6. ObjectsThere'
    <2> SUFFICES ASSUME run'.at = "arch", NEW m \in Members PROVE tree'.obj[m] # None
      BY DEF ObjectsThere
    <2>1. \A x \in Members \ redone : tree.obj[x] # None
      BY <1>2 DEF Idle
    <2>2. tree'.obj[m] = IF m \in redone THEN run.knobs ELSE tree.obj[m]
      BY <1>2 DEF Whole, TreeInv, Files
    <2>3. run.knobs # None
      BY Marks DEF TreeInv, Running
    <2>4. QED
      BY <2>1, <2>2, <2>3
  <1>7. QED
    BY <1>1, <1>4, <1>5, <1>6 DEF TreeInv, Stamped, PastGuard, ArchiveThere, NothingSaidYet

LEMMA ArchiveStep == ASSUME TreeInv, MakeArchive PROVE TreeInv'
  <1>1. /\ run.at = "arch" /\ UNCHANGED <<stamp, said, touched>>
        /\ run.knobs = stamp
    BY DEF MakeArchive, TreeInv, PastGuard
  <1>2. ASSUME tree' = tree \/ tree' = [tree EXCEPT !.arch = tree.obj],
               tree'.arch \in {Whole(Hollow), Whole(stamp)},
               run' = [run EXCEPT !.at = "copies"]
        PROVE  TreeInv'
    <2>1. Files'
      BY <1>1, <1>2 DEF TreeInv, Files, Partly, Evenly, Nothing, Whole
    <2>2. Running' /\ run'.at = "copies" /\ run'.knobs = stamp'
      BY <1>1, <1>2 DEF TreeInv, Running, Steps
    <2>3. ArchiveThere'
      BY <1>1, <1>2 DEF ArchiveThere, Whole
    <2>4. QED
      BY <1>1, <2>1, <2>2, <2>3 DEF TreeInv, Stamped, PastGuard, ObjectsThere, NothingSaidYet
  <1>3. CASE tree.arch # Nothing /\ UNCHANGED tree /\ Go("copies")
    BY <1>2, <1>3 DEF TreeInv, Files, Evenly, Go
  <1>4. CASE /\ \A m \in Members : tree.obj[m] # Hollow
             /\ tree' = [tree EXCEPT !.arch = tree.obj]
             /\ Go("copies")
    <2>1. tree.obj = Whole(stamp)
      BY <1>1, <1>4 DEF TreeInv, Files, Partly, ObjectsThere, Whole
    <2>2. tree'.arch = Whole(stamp)
      BY <1>4, <2>1 DEF TreeInv, Files
    <2>3. QED
      BY <1>2, <1>4, <2>2 DEF Go
  <1>5. CASE tree' = [tree EXCEPT !.arch = Nothing] /\ Stop
    <2>1. Files'
      BY <1>1, <1>5 DEF TreeInv, Files, Partly, Evenly, Nothing, Whole
    <2>2. Running' /\ run'.at = "idle"
      BY <1>5, PlainIsAKnob DEF Stop, Running, Idle, Goals, Steps
    <2>3. QED
      BY <1>1, <2>1, <2>2
      DEF TreeInv, Stamped, PastGuard, ObjectsThere, ArchiveThere, NothingSaidYet
  <1>6. QED
    BY <1>3, <1>4, <1>5 DEF MakeArchive

LEMMA CopiesStep == ASSUME TreeInv, CopyObjects PROVE TreeInv'
  <1>1. /\ run.at = "copies" /\ UNCHANGED <<stamp, said, touched>>
        /\ run.knobs = stamp /\ tree.arch \in {Whole(Hollow), Whole(stamp)}
    BY DEF CopyObjects, MakeGroup, TreeInv, PastGuard, ArchiveThere
  <1>2. PICK redone \in SUBSET Members :
           /\ tree' = [tree EXCEPT !["copy"] =
                          [m \in Members |-> IF m \in redone THEN tree.obj[m] ELSE tree.copy[m]]]
           /\ run' = [run EXCEPT !.at = "canon"] \/ run' = Idle
    BY DEF CopyObjects, MakeGroup, Go, Stop
  <1>3. [m \in Members |-> IF m \in redone THEN tree.obj[m] ELSE tree.copy[m]] \in Partly
    BY DEF TreeInv, Files, Partly
  <1>4. Files' /\ tree'.arch = tree.arch
    BY <1>1, <1>2, <1>3 DEF TreeInv, Files, Partly, Evenly, Nothing, Whole
  <1>5. Running' /\ run'.at \in {"canon", "idle"} /\ (run'.at = "canon" => run'.knobs = stamp')
    BY <1>1, <1>2, PlainIsAKnob DEF TreeInv, Running, Idle, Goals, Steps
  <1>6. ArchiveThere'
    BY <1>1, <1>4 DEF ArchiveThere, Whole
  <1>7. QED
    BY <1>1, <1>4, <1>5, <1>6 DEF TreeInv, Stamped, PastGuard, ObjectsThere, NothingSaidYet

LEMMA CanonStep == ASSUME TreeInv, CopyCanon PROVE TreeInv'
  <1>1. /\ run.at = "canon" /\ UNCHANGED <<stamp, touched>>
        /\ tree' = [tree EXCEPT !.canon = tree.arch]
        /\ run.knobs = stamp
    BY DEF CopyCanon, TreeInv, PastGuard
  <1>2. Files'
    BY <1>1 DEF TreeInv, Files, Partly, Evenly, Nothing, Whole
  <1>3. CASE run' = Idle
    <2>1. Running' /\ run'.at = "idle"
      BY <1>3, PlainIsAKnob DEF Running, Idle, Goals, Steps
    <2>2. QED
      BY <1>1, <1>2, <2>1
      DEF TreeInv, Stamped, PastGuard, ObjectsThere, ArchiveThere, NothingSaidYet
  <1>4. ASSUME NEW at \in {"link", "zp", "isolation"}, run' = [run EXCEPT !.at = at], said' = said
        PROVE  TreeInv'
    <2>1. Running' /\ run'.at = at /\ run'.knobs = stamp'
      BY <1>1, <1>4 DEF TreeInv, Running, Goals, Steps
    <2>2. QED
      BY <1>1, <1>2, <1>4, <2>1
      DEF TreeInv, Stamped, PastGuard, ObjectsThere, ArchiveThere, NothingSaidYet
  <1>5. QED
    BY <1>3, <1>4 DEF CopyCanon, Claim, Go

LEMMA LinkStep == ASSUME TreeInv, Link PROVE TreeInv'
  <1>1. /\ run.at = "link" /\ UNCHANGED <<stamp, said, touched>> /\ run.knobs = stamp
        /\ tree' = tree \/ tree' = [tree EXCEPT !.stub = tree.arch]
        /\ run' = [run EXCEPT !.at = run.goal] \/ run' = Idle
    BY DEF Link, Go, Stop, TreeInv, PastGuard
  <1>2. Files'
    BY <1>1 DEF TreeInv, Files, Partly, Evenly, Nothing, Whole
  <1>3. Running' /\ run'.at \in Goals \cup {"idle"} /\ (run'.at # "idle" => run'.knobs = stamp')
    BY <1>1, PlainIsAKnob DEF TreeInv, Running, Idle, Goals, Steps
  <1>4. QED
    BY <1>1, <1>2, <1>3
    DEF TreeInv, Stamped, PastGuard, ObjectsThere, ArchiveThere, NothingSaidYet, Goals

-----------------------------------------------------------------------------
LEMMA TouchStep ==
    ASSUME TreeInv, NEW k \in Knobs, NEW goal \in {"lib", "stub"}, NEW opaque \in BOOLEAN,
           Touch(k, goal, opaque)
    PROVE  TreeInv'
  <1>1. run.at = "idle" /\ run' = run /\ said' = Silent
    BY DEF Touch
  <1>2. Guard("t", k, opaque) # "invalidate"
    BY DEF Guard, NoExec
  <1>3. Running' /\ run'.at = "idle"
    BY <1>1 DEF TreeInv, Running
  <1>4. Stamped'
    BY <1>2 DEF Touch, TreeInv, Stamped
  <1>5. Files'
    <2>1. CASE UNCHANGED <<tree, stamp>>
      BY <2>1 DEF TreeInv, Files, Partly, Evenly, Nothing, Whole
    <2>2. CASE tree' = Touching(tree, goal) /\ stamp' = stamp
      <3>1. \A f \in Partly : FillIn(f) \in Partly
        BY DEF FillIn, Partly
      <3>2. \A f \in Evenly : FillIn(f) \in Evenly
        BY Marks DEF FillIn, Evenly, Nothing, Whole, TreeInv, Stamped
      <3>3. tree' \in [obj : Partly, copy : Partly, arch : Evenly, canon : Evenly, stub : Evenly]
        BY <2>2, <3>1, <3>2 DEF Touching, TreeInv, Files
      <3>4. QED
        BY <2>2, <3>3 DEF Files, Partly, Evenly, Nothing, Whole
    <2>3. QED
      BY <1>2, <2>1, <2>2 DEF Touch
  <1>6. QED
    BY <1>1, <1>3, <1>4, <1>5
    DEF TreeInv, PastGuard, ObjectsThere, ArchiveThere, NothingSaidYet

LEMMA RemovalStep ==
    ASSUME TreeInv, Clean \/ \E file \in {"arch", "canon", "stub"} : Delete(file)
    PROVE  TreeInv'
  <1>1. Running' /\ run'.at = "idle"
    BY DEF Clean, Delete, TreeInv, Running
  <1>2. CASE Clean
    <2>1. Files' /\ Stamped'
      BY <1>2, PlainIsAKnob DEF Clean, Files, Stamped, Emptied, Nothing, Whole, Partly, Evenly
    <2>2. QED
      BY <1>1, <2>1 DEF TreeInv, PastGuard, ObjectsThere, ArchiveThere, NothingSaidYet
  <1>3. CASE \E file \in {"arch", "canon", "stub"} : Delete(file)
    <2>1. Files' /\ Stamped'
      BY <1>3 DEF Delete, TreeInv, Files, Stamped, Nothing, Whole, Partly, Evenly
    <2>2. QED
      BY <1>1, <2>1 DEF TreeInv, PastGuard, ObjectsThere, ArchiveThere, NothingSaidYet
  <1>4. QED
    BY <1>2, <1>3

LEMMA StepInv == TreeInv /\ [Next]_treeVars => TreeInv'
  <1> SUFFICES ASSUME TreeInv, [Next]_treeVars PROVE TreeInv'
    OBVIOUS
  <1>1. CASE \E k \in Knobs, goal \in Goals, opaque \in BOOLEAN : Start(k, goal, opaque)
    BY <1>1, StartStep
  <1>2. CASE InvalidateOutputs
    BY <1>2, InvalidateStep
  <1>3. CASE KilledInRm
    BY <1>3, KilledStep
  <1>4. CASE RefuseOffScope \/ Kill
    BY <1>4, IdleStep DEF RefuseOffScope, Kill, Stop
  <1>5. CASE Assemble
    BY <1>5, AssembleStep
  <1>6. CASE MakeArchive
    BY <1>6, ArchiveStep
  <1>7. CASE CopyObjects
    BY <1>7, CopiesStep
  <1>8. CASE CopyCanon
    BY <1>8, CanonStep
  <1>9. CASE Link
    BY <1>9, LinkStep
  <1>10. CASE \E k \in Knobs, file \in {"arch", "canon"}, opaque \in BOOLEAN : Query(k, file, opaque)
    BY <1>10, IdleStep DEF Query
  <1>11. CASE \E k \in Knobs, goal \in {"lib", "stub"}, opaque \in BOOLEAN : Touch(k, goal, opaque)
    BY <1>11, TouchStep
  <1>12. CASE Clean \/ \E file \in {"arch", "canon", "stub"} : Delete(file)
    BY <1>12, RemovalStep
  <1>13. CASE \E s \in Sources["isolation"] : Isolation(s)
    BY <1>13, IdleStep DEF Isolation, Claim, Stop
  <1>14. CASE \E s \in Sources["footprint"] : Footprint(s)
    BY <1>14, IdleStep DEF Footprint, Claim, Stop
  <1>15. CASE \E s \in Sources["zp"] : Roster(s)
    BY <1>15, IdleStep DEF Roster, Claim, Stop
  <1>16. CASE \E s \in Sources["precalc"] : Enumeration(s)
    BY <1>16, IdleStep DEF Enumeration, Claim, Stop
  <1>17. CASE UNCHANGED treeVars
    BY <1>17 DEF treeVars, TreeInv, Files, Running, Stamped, PastGuard, ObjectsThere, ArchiveThere,
                 NothingSaidYet, Partly, Evenly, Nothing, Whole
  <1>18. QED
    BY <1>1, <1>2, <1>3, <1>4, <1>5, <1>6, <1>7, <1>8, <1>9, <1>10, <1>11, <1>12, <1>13, <1>14,
       <1>15, <1>16, <1>17
    DEF Next, TreeNext

(* The inductive invariant: at every step of every history, killed or not,    *)
(* the files have nothing but the knobs of the stamp in them.                *)
THEOREM TreeInvariance == Spec => []TreeInv
  BY InitInv, StepInv, PTL DEF Spec

-----------------------------------------------------------------------------
(* Only the end of lib's recipe and a query claim an archive; every other     *)
(* step of a running make leaves silence, and every other step of an idle     *)
(* tree takes the old claim back.                                            *)
LEMMA ArtifactStep ==
    TreeInv /\ ArtifactOfTheKnobs /\ [Next]_treeVars => ArtifactOfTheKnobs'
  <1> SUFFICES ASSUME TreeInv, ArtifactOfTheKnobs, [Next]_treeVars PROVE ArtifactOfTheKnobs'
    OBVIOUS
  <1>1. CASE said' = Silent \/ (said' = said /\ run.at # "idle")
    BY <1>1 DEF TreeInv, NothingSaidYet, Silent, None, ArtifactOfTheKnobs, Claimed
  <1>2. CASE said'.by \in {"isolation", "footprint", "zp", "precalc"}
    BY <1>2 DEF ArtifactOfTheKnobs, Claimed
  <1>3. CASE CopyCanon /\ said' = [by |-> "build", knobs |-> run.knobs]
    <2>1. run.knobs = stamp /\ stamp \notin touched /\ touched' = touched
      BY <1>3 DEF CopyCanon, TreeInv, PastGuard, Stamped
    <2>2. tree'.canon \in {Whole(Hollow), Whole(stamp)}
      BY <1>3 DEF CopyCanon, TreeInv, ArchiveThere, Files
    <2>3. QED
      BY <1>3, <2>1, <2>2 DEF ArtifactOfTheKnobs, Claimed, Whole
  <1>4. ASSUME NEW k \in Knobs, NEW file \in {"arch", "canon"}, NEW opaque \in BOOLEAN,
               Query(k, file, opaque), said' # Silent
        PROVE  ArtifactOfTheKnobs'
    <2>1. /\ Guard("q", k, opaque) = "same" /\ tree[file] # Nothing
          /\ said' = [by |-> "query", knobs |-> k, file |-> file]
          /\ tree' = tree /\ touched' = touched
      BY <1>4 DEF Query
    <2>2. k = stamp
      BY <2>1 DEF Guard, NoExec
    <2>3. tree[file] \in {Whole(Hollow), Whole(stamp)}
      BY <2>1 DEF TreeInv, Files, Evenly
    <2>4. QED
      BY <2>1, <2>2, <2>3 DEF ArtifactOfTheKnobs, Claimed, Whole, TreeInv, Stamped
  <1>5. CASE UNCHANGED treeVars
    BY <1>5 DEF treeVars, ArtifactOfTheKnobs, Claimed, Whole
  <1>6. CASE TreeNext
    <2>1. CASE \E k \in Knobs, goal \in Goals, opaque \in BOOLEAN : Start(k, goal, opaque)
      BY <1>1, <2>1 DEF Start
    <2>2. CASE InvalidateOutputs \/ KilledInRm \/ RefuseOffScope \/ Kill
      BY <1>1, <2>2 DEF InvalidateOutputs, KilledInRm, RefuseOffScope, Kill
    <2>3. CASE Assemble \/ MakeArchive \/ CopyObjects \/ Link
      BY <1>1, <2>3 DEF Assemble, CopyObjects, MakeGroup, MakeArchive, Link
    <2>4. CASE CopyCanon
      BY <1>1, <1>3, <2>4 DEF CopyCanon, Claim
    <2>5. CASE \E k \in Knobs, file \in {"arch", "canon"}, opaque \in BOOLEAN : Query(k, file, opaque)
      BY <1>1, <1>4, <2>5
    <2>6. CASE \E k \in Knobs, goal \in {"lib", "stub"}, opaque \in BOOLEAN : Touch(k, goal, opaque)
      BY <1>1, <2>6 DEF Touch
    <2>7. CASE Clean \/ \E file \in {"arch", "canon", "stub"} : Delete(file)
      BY <1>1, <2>7 DEF Clean, Delete
    <2>8. QED
      BY <1>6, <2>1, <2>2, <2>3, <2>4, <2>5, <2>6, <2>7 DEF TreeNext
  <1>7. CASE \E s \in Sources["isolation"] : Isolation(s)
    BY <1>1, <1>2, <1>7 DEF Isolation, Claim
  <1>8. CASE \E s \in Sources["footprint"] : Footprint(s)
    BY <1>1, <1>2, <1>8 DEF Footprint, Claim
  <1>9. CASE \E s \in Sources["zp"] : Roster(s)
    BY <1>1, <1>2, <1>9 DEF Roster, Claim
  <1>10. CASE \E s \in Sources["precalc"] : Enumeration(s)
    BY <1>1, <1>2, <1>10 DEF Enumeration, Claim
  <1>11. QED
    BY <1>5, <1>6, <1>7, <1>8, <1>9, <1>10 DEF Next

(* What make says it has built, or says is up to date, has the knobs it was   *)
(* asked with.                                                               *)
THEOREM ArtifactRight == Spec => []ArtifactOfTheKnobs
  <1>1. TreeInit => ArtifactOfTheKnobs
    BY DEF TreeInit, ArtifactOfTheKnobs, Claimed, Silent, None
  <1>2. QED
    BY <1>1, InitInv, StepInv, ArtifactStep, PTL DEF Spec

-----------------------------------------------------------------------------
(* An extraction that keeps the count keeps the names.                        *)
LEMMA NothingDropped ==
    ASSUME NEW names, IsFiniteSet(names), NEW unsafe \in BOOLEAN,
           ~Dropped(Extracted(names, unsafe), names)
    PROVE  Extracted(names, unsafe) = names
  <1>1. Extracted(names, unsafe) \subseteq names
    BY DEF Extracted
  <1>2. Cardinality(Extracted(names, unsafe)) = Cardinality(names)
    BY DEF Dropped
  <1>3. QED
    BY <1>1, <1>2, FS_Subset

(* The copies a gate can read all have the knobs of the run.                  *)
LEMMA CopiesOfTheRun ==
    ASSUME TreeInv, run.at \notin {"idle", "rm"}, Readable(tree.copy)
    PROVE  \A m \in Members : tree.copy[m] = run.knobs
  BY Marks DEF TreeInv, PastGuard, Files, Partly, Readable

(* And so have the members of an archive and of a stub program it can read.   *)
LEMMA MembersOfTheRun ==
    ASSUME TreeInv, run.at \notin {"idle", "rm"}, NEW file \in {"arch", "stub"},
           Readable(tree[file])
    PROVE  \A m \in Members : tree[file][m] = run.knobs
  BY Marks DEF TreeInv, PastGuard, Files, Evenly, Readable, Nothing, Whole

(* What the gate's comparisons mean of the exports they were made of.         *)
LEMMA GateMeans ==
    ASSUME NEW exports, NEW k, NEW unsafe \in BOOLEAN,
           \A m \in Members : IsFiniteSet(exports[m]),
           IsolationPasses(exports, k, unsafe)
    PROVE  /\ \A m \in Members : ~Mixes(exports[m])
           /\ \A family \in {"precalc", "version"} :
                 SumOf([m \in Members |-> Cardinality(Bare(exports[m], family))])
                     = Expect[k][family]
           /\ unsafe => \A m \in Members : \A n \in exports[m] : ~n.glued
  <1>1. \A m \in Members : Extracted(exports[m], unsafe) = exports[m]
    BY NothingDropped DEF IsolationPasses, MemberFails
  <1>2. \A m \in Members : ~Mixes(exports[m])
    BY <1>1 DEF IsolationPasses, MemberFails
  <1>3. ASSUME NEW family \in {"precalc", "version"}
        PROVE  SumOf([m \in Members |-> Cardinality(Bare(exports[m], family))])
                   = Expect[k][family]
    <2>1. [m \in Members |-> Cardinality(Bare(Extracted(exports[m], unsafe), family))]
            = [m \in Members |-> Cardinality(Bare(exports[m], family))]
      BY <1>1
    <2>2. Total(exports, family, unsafe) = Expect[k][family]
      BY DEF IsolationPasses
    <2>3. QED
      BY <2>1, <2>2 DEF Total
  <1>4. unsafe => \A m \in Members : \A n \in exports[m] : ~n.glued
    BY <1>1 DEF Extracted
  <1>5. QED
    BY <1>2, <1>3, <1>4

LEMMA OneFamily ==
    ASSUME NEW names, ~Mixes(names)
    PROVE  Cardinality(Families(names) \cap {"version", "precalc", "aggregate"}) <= 1
  <1> DEFINE F == Families(names) \cap {"version", "precalc", "aggregate"}
  <1>1. F = {} \/ F = {"version"} \/ F = {"precalc"} \/ F = {"aggregate"}
    BY DEF Mixes
  <1>2. Cardinality(F) \in {0, 1}
    BY <1>1, FS_EmptySet, FS_Singleton, Zenon
  <1>3. QED
    BY <1>2

(* A gate's claim comes from that gate only, and a claim of another kind is    *)
(* none of its own.                                                          *)
LEMMA WhoClaims ==
    ASSUME [Next]_treeVars
    PROVE  \/ said' = said
           \/ said'.by \in {None, "build", "query"}
           \/ \E s \in Sources["isolation"] : Isolation(s) /\ said'.by = "isolation"
           \/ \E s \in Sources["footprint"] : Footprint(s) /\ said'.by = "footprint"
           \/ \E s \in Sources["zp"] : Roster(s) /\ said'.by = "zp"
           \/ \E s \in Sources["precalc"] : Enumeration(s) /\ said'.by = "precalc"
  <1>1. CASE TreeNext
    <2>1. CASE said' = Silent
      BY <2>1 DEF Silent
    <2>2. CASE CopyCanon
      BY <2>2 DEF CopyCanon, Claim
    <2>3. CASE \E k \in Knobs, file \in {"arch", "canon"}, opaque \in BOOLEAN : Query(k, file, opaque)
      BY <2>1, <2>3 DEF Query
    <2>4. CASE InvalidateOutputs \/ KilledInRm \/ RefuseOffScope \/ Kill
      BY <2>4 DEF InvalidateOutputs, KilledInRm, RefuseOffScope, Kill
    <2>5. CASE Assemble \/ MakeArchive \/ CopyObjects \/ Link
      BY <2>5 DEF Assemble, CopyObjects, MakeGroup, MakeArchive, Link
    <2>6. QED
      BY <1>1, <2>1, <2>2, <2>3, <2>4, <2>5 DEF TreeNext, Start, Touch, Clean, Delete
  <1>2. ASSUME NEW s \in Sources["isolation"], Isolation(s) PROVE said' = said \/ said'.by = "isolation"
    <2>1. said' = said \/ \E c : said' = c /\ c.by = "isolation"
      BY <1>2 DEF Isolation, Claim
    <2>2. QED
      BY <2>1
  <1>3. ASSUME NEW s \in Sources["footprint"], Footprint(s) PROVE said' = said \/ said'.by = "footprint"
    <2>1. said' = said \/ \E c : said' = c /\ c.by = "footprint"
      BY <1>3 DEF Footprint, Claim
    <2>2. QED
      BY <2>1
  <1>4. ASSUME NEW s \in Sources["zp"], Roster(s) PROVE said' = said \/ said'.by = "zp"
    <2>1. said' = said \/ \E c : said' = c /\ c.by = "zp"
      BY <1>4 DEF Roster, Claim
    <2>2. QED
      BY <2>1
  <1>5. ASSUME NEW s \in Sources["precalc"], Enumeration(s) PROVE said' = said \/ said'.by = "precalc"
    <2>1. said' = said \/ \E c : said' = c /\ c.by = "precalc"
      BY <1>5 DEF Enumeration, Claim
    <2>2. QED
      BY <2>1
  <1>6. QED
    BY <1>1, <1>2, <1>3, <1>4, <1>5 DEF Next, treeVars

LEMMA IsolationStep == TreeInv /\ IsolationSound /\ [Next]_treeVars => IsolationSound'
  <1> SUFFICES ASSUME TreeInv, IsolationSound, [Next]_treeVars PROVE IsolationSound'
    OBVIOUS
  <1>1. CASE said' = said
    BY <1>1 DEF IsolationSound, Claimed
  <1>2. CASE said'.by # "isolation"
    BY <1>2 DEF IsolationSound, Claimed
  <1>3. ASSUME NEW s \in Sources["isolation"], Isolation(s), said' # said
        PROVE  IsolationSound'
    <2> DEFINE unsafe == run.goal = "isolation-negative"
               seen == [m \in Members |-> s.exports[tree.copy[m]][m]]
               real == s.exports[run.knobs]
    <2>1. /\ run.at = "isolation" /\ Readable(tree.copy)
          /\ IsolationPasses(seen, run.knobs, unsafe)
          /\ said' = [by |-> "isolation", knobs |-> run.knobs, src |-> s, unsafe |-> unsafe]
      BY <1>3 DEF Isolation, Claim
    <2>2. \A m \in Members : seen[m] = real[m]
      BY <2>1, CopiesOfTheRun
    <2>3. \A m \in Members : IsFiniteSet(seen[m])
      BY <2>2, NamesAreFinite DEF TreeInv, Running
    <2>4. /\ \A m \in Members : ~Mixes(seen[m])
          /\ \A family \in {"precalc", "version"} :
                SumOf([m \in Members |-> Cardinality(Bare(seen[m], family))])
                    = Expect[run.knobs][family]
          /\ unsafe => \A m \in Members : \A n \in seen[m] : ~n.glued
      <3> HIDE DEF seen, unsafe
      <3>1. unsafe \in BOOLEAN
        BY DEF unsafe
      <3>2. QED
        BY <2>1, <2>3, <3>1, GateMeans
    <2>5. \A m \in Members :
             Cardinality(Families(real[m]) \cap {"version", "precalc", "aggregate"}) <= 1
      BY <2>2, <2>4, OneFamily
    <2>6. ASSUME NEW family \in {"precalc", "version"}
          PROVE  SumOf([m \in Members |-> Cardinality(Bare(real[m], family))])
                     = Expect[run.knobs][family]
      <3>1. [m \in Members |-> Cardinality(Bare(real[m], family))]
              = [m \in Members |-> Cardinality(Bare(seen[m], family))]
        BY <2>2
      <3>2. QED
        BY <2>4, <3>1
    <2>7. unsafe => \A m \in Members : \A n \in real[m] : ~n.glued
      BY <2>2, <2>4
    <2>8. said'.src = s /\ said'.knobs = run.knobs /\ said'.unsafe = unsafe
      BY <2>1
    <2>9. QED
      BY <2>5, <2>6, <2>7, <2>8 DEF IsolationSound
  <1>4. QED
    BY <1>1, <1>2, <1>3, WhoClaims DEF None

(* The isolation gate never passes on what another build left behind, nor on  *)
(* names its extraction lost.                                                *)
THEOREM IsolationRight == Spec => []IsolationSound
  <1>1. TreeInit => IsolationSound
    BY DEF TreeInit, IsolationSound, Claimed, Silent, None
  <1>2. QED
    BY <1>1, InitInv, StepInv, IsolationStep, PTL DEF Spec


-----------------------------------------------------------------------------
(* With one set of knobs in the archive and in the stub program the sizes     *)
(* taken apart and the sizes that were linked are the same totals.            *)
LEMMA FootprintMeans ==
    ASSUME NEW s \in Sources["footprint"], NEW k \in Knobs,
           FootprintPasses([m \in Members |-> s.size[k][m]], s.equate[k], Placed(s, Whole(k)))
    PROVE  LET placed(seg) == SegmentTotal(s.size[k], seg) + s.fill[seg]
           IN  /\ s.equate[k].resident >= placed("code") + placed("data") + s.equate[k].window
               /\ s.equate[k].cold >= placed("init")
               /\ s.equate[k].region >= s.equate[k].window
               /\ placed("sqtab") = 0
  <1> DEFINE sizes == [m \in Members |-> s.size[k][m]]
             total(seg) == SegmentTotal(s.size[k], seg)
  <1>1. \A seg : SegmentTotal(sizes, seg) = total(seg)
    BY DEF SegmentTotal
  <1>2. ASSUME NEW seg \in Measured PROVE total(seg) + s.fill[seg] = total(seg)
    <2>1. DOMAIN Placed(s, Whole(k)) = {g \in Measured : g \in s.rows}
      BY DEF Placed
    <2>2. CASE seg \in s.rows
      <3>1. [m \in Members |-> s.size[Whole(k)[m]][m]] = sizes
        BY DEF Whole
      <3>2. Placed(s, Whole(k))[seg] = SegmentTotal(sizes, seg) + s.fill[seg]
        BY <2>2, <3>1 DEF Placed
      <3>3. Placed(s, Whole(k))[seg] = SegmentTotal(sizes, seg)
        BY <2>1, <2>2 DEF FootprintPasses, LinkFillPasses
      <3>4. QED
        BY <1>1, <3>2, <3>3
    <2>3. CASE seg \notin s.rows
      <3>1. total(seg) = 0
        BY <1>1, <2>1, <2>3 DEF FootprintPasses, LinkFillPasses
      <3>2. s.fill[seg] = 0
        BY <2>3, MapIsTheLinkers
      <3>3. QED
        BY <3>1, <3>2
    <2>4. QED
      BY <2>2, <2>3
  <1>3. total("sqtab") + s.fill["sqtab"] = 0
    <2>1. total("sqtab") = 0
      BY <1>1 DEF FootprintPasses
    <2>2. s.fill["sqtab"] = 0
      BY MapIsTheLinkers DEF Measured
    <2>3. QED
      BY <2>1, <2>2
  <1>4. /\ s.equate[k].resident \in Nat /\ s.equate[k].cold \in Nat
    BY MapIsTheLinkers
  <1>5. /\ s.equate[k].region >= s.equate[k].window
        /\ s.equate[k].resident = total("code") + total("data") + s.equate[k].window
        /\ s.equate[k].cold = total("init")
    BY <1>1 DEF FootprintPasses
  <1>6. /\ total("code") + s.fill["code"] = total("code")
        /\ total("data") + s.fill["data"] = total("data")
        /\ total("init") + s.fill["init"] = total("init")
    BY <1>2 DEF Measured
  <1> HIDE DEF total
  <1>7. QED
    BY <1>3, <1>4, <1>5, <1>6 DEF total

LEMMA FootprintStep == TreeInv /\ FootprintSound /\ [Next]_treeVars => FootprintSound'
  <1> SUFFICES ASSUME TreeInv, FootprintSound, [Next]_treeVars PROVE FootprintSound'
    OBVIOUS
  <1>1. CASE said' = said
    BY <1>1 DEF FootprintSound, Claimed
  <1>2. CASE said'.by # "footprint"
    BY <1>2 DEF FootprintSound, Claimed
  <1>3. ASSUME NEW s \in Sources["footprint"], Footprint(s), said' # said
        PROVE  FootprintSound'
    <2>1. PICK k \in Knobs : k = run.knobs
      BY DEF TreeInv, Running
    <2>2. /\ run.at = "footprint" /\ Readable(tree.arch) /\ Readable(tree.stub)
          /\ FootprintPasses([m \in Members |-> s.size[tree.arch[m]][m]],
                             s.equate[tree.stub[Manifest]], Placed(s, tree.stub))
          /\ said' = [by |-> "footprint", knobs |-> k, src |-> s]
      BY <1>3, <2>1 DEF Footprint, Claim
    <2>3. /\ \A m \in Members : tree.arch[m] = k
          /\ \A m \in Members : tree.stub[m] = k
      BY <2>1, <2>2, MembersOfTheRun
    <2>4. tree.stub = Whole(k)
      BY <2>3 DEF TreeInv, Files, Evenly, Nothing, Whole
    <2>5. [m \in Members |-> s.size[tree.arch[m]][m]] = [m \in Members |-> s.size[k][m]]
      BY <2>3
    <2>6. FootprintPasses([m \in Members |-> s.size[k][m]], s.equate[k], Placed(s, Whole(k)))
      BY <2>2, <2>3, <2>4, <2>5, ManifestIsAMember
    <2>7. said'.src = s /\ said'.knobs = k
      BY <2>2
    <2>8. QED
      BY <2>6, <2>7, FootprintMeans DEF FootprintSound
  <1>4. QED
    BY <1>1, <1>2, <1>3, WhoClaims DEF None

(* The footprint gate never passes on equates smaller than what a link places. *)
THEOREM FootprintRight == Spec => []FootprintSound
  <1>1. TreeInit => FootprintSound
    BY DEF TreeInit, FootprintSound, Claimed, Silent, None
  <1>2. QED
    BY <1>1, InitInv, StepInv, FootprintStep, PTL DEF Spec


-----------------------------------------------------------------------------
(* Induction on the naturals as a fact about sets, from finite cardinals: a   *)
(* set that has 0 and is closed under the successor has every number.  Were n *)
(* outside it, the successor would map what it has up to n, a finite set, one  *)
(* to one into itself without reaching 0.                                    *)
LEMMA SetInduction ==
    ASSUME NEW T \in SUBSET Nat, 0 \in T, \A n \in T : n + 1 \in T
    PROVE  T = Nat
  <1> SUFFICES ASSUME NEW n \in Nat, n \notin T PROVE FALSE
    OBVIOUS
  <1> DEFINE U == T \cap (0 .. n)
             f == [m \in U |-> m + 1]
  <1>1. IsFiniteSet(U)
    <2>1. IsFiniteSet(0 .. n)
      BY FS_Interval
    <2>2. QED
      BY <2>1, FS_Subset
  <1>2. f \in [U -> U]
    <2>1. ASSUME NEW m \in U PROVE m + 1 \in U
      BY m # n
    <2>2. QED
      BY <2>1
  <1>3. f \in Injection(U, U)
    <2>1. \A a, b \in U : f[a] = f[b] => a = b
      OBVIOUS
    <2>2. QED
      BY <1>2, <2>1 DEF Injection, IsInjective
  <1>4. f \in Surjection(U, U)
    <2> HIDE DEF f, U
    <2>1. QED
      BY <1>1, <1>3, FS_Injection DEF Bijection
  <1>5. 0 \in U /\ \A m \in U : f[m] # 0
    OBVIOUS
  <1>6. QED
    BY <1>4, <1>5 DEF Surjection

LEMMA LeastNumber ==
    ASSUME NEW S \in SUBSET Nat, S # {}
    PROVE  Min(S) \in S
  <1>1. \E x \in S : \A y \in S : x <= y
    <2> SUFFICES ASSUME \A x \in S : \E y \in S : ~(x <= y) PROVE FALSE
      OBVIOUS
    <2> DEFINE T == {n \in Nat : \A y \in S : n <= y}
    <2>1. 0 \in T
      OBVIOUS
    <2>2. ASSUME NEW n \in T PROVE n + 1 \in T
      <3>1. n \notin S
        OBVIOUS
      <3>2. \A y \in S : n + 1 <= y
        BY <3>1
      <3>3. QED
        BY <3>2
    <2>3. T = Nat
      <3> HIDE DEF T
      <3>1. T \in SUBSET Nat
        BY DEF T
      <3>2. QED
        BY <2>1, <2>2, <3>1, SetInduction
    <2>4. PICK y \in S : TRUE
      OBVIOUS
    <2>5. y + 1 \in T
      BY <2>3
    <2>6. QED
      BY <2>5
  <1>2. QED
    BY <1>1 DEF Min

(* What the tool measures from a label on is no less than what stands there.  *)
LEMMA ExtentCovers ==
    ASSUME NEW labels, NEW end \in Nat, NEW l \in labels,
           \A o \in labels : o.at \in Nat,
           l.size \in Nat, l.at + l.size <= end,
           \A o \in labels : o.at > l.at => l.at + l.size <= o.at
    PROVE  Extent(labels, end, l.at) \in Nat /\ Extent(labels, end, l.at) >= l.size
  <1> DEFINE S == {o.at : o \in {x \in labels : x.at > l.at}} \cup {end}
  <1>1. S \in SUBSET Nat /\ S # {} /\ \A n \in S : l.at + l.size <= n
    OBVIOUS
  <1>2. Min(S) \in S
    BY <1>1, LeastNumber
  <1>3. Extent(labels, end, l.at) = Min(S) - l.at
    BY DEF Extent
  <1>4. QED
    BY <1>1, <1>2, <1>3

(* What a pass means of a member's own labels.                                *)
LEMMA EnumerationMeans ==
    ASSUME NEW labels, NEW end \in Nat, NEW entries, NEW tables,
           Tables(labels, end) \subseteq tables,
           EnumerationPasses(tables, entries),
           NEW l \in labels,
           \A o \in labels : o.at \in Nat,
           l.size \in Nat, l.at + l.size <= end,
           \A o \in labels : o.at > l.at => l.at + l.size <= o.at,
           l.at % Page = 0, l.size >= Page,
           {o.name : o \in {x \in labels : x.at = l.at}} \cap Exempt = {}
    PROVE  \E e \in entries :
              /\ e.prefixed /\ e.name \in {o.name : o \in {x \in labels : x.at = l.at}}
              /\ e.size >= l.size /\ e.region = "rodata"
  <1> DEFINE t == [names |-> {o.name : o \in {x \in labels : x.at = l.at}},
                   extent |-> Extent(labels, end, l.at)]
  <1>1. t.extent \in Nat /\ t.extent >= l.size
    BY ExtentCovers
  <1>2. LargeEnough(labels, end, l.at)
    BY <1>1 DEF LargeEnough, Page
  <1>3. t \in Tables(labels, end)
    BY <1>2 DEF Tables
  <1>4. t.names \cap Exempt = {}
    OBVIOUS
  <1> HIDE DEF t
  <1>5. Entries(t, entries) # {} /\ Enumerated(t, entries)
    BY <1>3, <1>4 DEF EnumerationPasses
  <1>6. PICK hit \in Entries(t, entries) : hit.size = t.extent /\ hit.region = "rodata"
    BY <1>5 DEF Enumerated
  <1>7. hit \in entries /\ hit.prefixed /\ hit.name \in t.names
    BY <1>6 DEF Entries
  <1>8. t.names = {o.name : o \in {x \in labels : x.at = l.at}}
    BY DEF t
  <1>9. QED
    BY <1>1, <1>6, <1>7, <1>8


LEMMA EnumerationStep == TreeInv /\ EnumerationSound /\ [Next]_treeVars => EnumerationSound'
  <1> SUFFICES ASSUME TreeInv, EnumerationSound, [Next]_treeVars PROVE EnumerationSound'
    OBVIOUS
  <1>1. CASE said' = said
    BY <1>1 DEF EnumerationSound, Claimed
  <1>2. CASE said'.by # "precalc"
    BY <1>2 DEF EnumerationSound, Claimed
  <1>3. ASSUME NEW s \in Sources["precalc"], Enumeration(s), said' # said
        PROVE  EnumerationSound'
    <2>1. PICK k \in Knobs : k = run.knobs
      BY DEF TreeInv, Running
    <2> DEFINE names(m) == {l.name : l \in s.labels[tree.copy[m]][m]}
               linked(m) == {l \in s.labels[tree.stub[m]][m] : l.name \in names(m)}
               tables == UNION {Tables(linked(m), s.end[tree.stub[m]][m]) : m \in Members}
               declared == UNION {s.entries[tree.copy[m]][m] : m \in Members}
               labels == UNION {s.labels[k][m] : m \in Members}
               entries == UNION {s.entries[k][m] : m \in Members}
    <2>2. /\ run.at = "precalc" /\ Readable(tree.copy) /\ Readable(tree.stub)
          /\ EnumerationPasses(tables, declared)
          /\ said' = [by |-> "precalc", knobs |-> k, src |-> s]
      BY <1>3, <2>1 DEF Enumeration, Claim
    <2>3. /\ \A m \in Members : tree.copy[m] = k
          /\ \A m \in Members : tree.stub[m] = k
      BY <2>1, <2>2, CopiesOfTheRun, MembersOfTheRun
    <2>4. \A m \in Members : linked(m) = s.labels[k][m]
      BY <2>3
    <2>5. declared = entries
      BY <2>3
    <2>6. \A m \in Members : Tables(s.labels[k][m], s.end[k][m]) \subseteq tables
      BY <2>3, <2>4
    <2>7. ASSUME NEW l \in labels, l.at % Page = 0, l.size >= Page,
                 {o.name : o \in {x \in labels : x.at = l.at}} \cap Exempt = {}
          PROVE  \E e \in entries :
                    /\ e.prefixed /\ e.name \in {o.name : o \in {x \in labels : x.at = l.at}}
                    /\ e.size >= l.size /\ e.region = "rodata"
      <3>1. PICK m \in Members : l \in s.labels[k][m]
        OBVIOUS
      <3> DEFINE own == s.labels[k][m]
                 there == {o.name : o \in {x \in own : x.at = l.at}}
      <3>2. there \subseteq {o.name : o \in {x \in labels : x.at = l.at}}
        OBVIOUS
      <3>3. /\ s.end[k][m] \in Nat /\ \A o \in own : o.at \in Nat
            /\ l.size \in Nat /\ l.at + l.size <= s.end[k][m]
            /\ \A o \in own : o.at > l.at => l.at + l.size <= o.at
        BY <3>1, LabelsAreTheLinkers
      <3>4. there \cap Exempt = {}
        BY <2>7, <3>2
      <3> HIDE DEF names, linked, tables, declared, labels, entries
      <3>5. EnumerationPasses(tables, entries) /\ Tables(own, s.end[k][m]) \subseteq tables
        BY <2>2, <2>5, <2>6
      <3>6. \E e \in entries : /\ e.prefixed /\ e.name \in there
                               /\ e.size >= l.size /\ e.region = "rodata"
        BY <2>7, <3>1, <3>3, <3>4, <3>5, EnumerationMeans
      <3>7. QED
        BY <3>2, <3>6
    <2>8. said'.src = s /\ said'.knobs = k
      BY <2>2
    <2> HIDE DEF names, linked, tables, declared
    <2>9. QED
      BY <2>7, <2>8 DEF EnumerationSound
  <1>4. QED
    BY <1>1, <1>2, <1>3, WhoClaims DEF None

(* The enumeration gate never passes with a table of a page or more that no    *)
(* entry declares in full and constant.                                      *)
THEOREM EnumerationRight == Spec => []EnumerationSound
  <1>1. TreeInit => EnumerationSound
    BY DEF TreeInit, EnumerationSound, Claimed, Silent, None
  <1>2. QED
    BY <1>1, InitInv, StepInv, EnumerationStep, PTL DEF Spec


-----------------------------------------------------------------------------
(* The bytes of slots that are apart are counted once by the sum of the sizes. *)
Covered(slots) == UNION {Span(x) : x \in slots}
OneOf(slots) == CHOOSE x \in slots : TRUE

Sound(slots) ==
    /\ IsFiniteSet(slots) /\ Apart(slots)
    /\ \A x \in slots : x.addr \in Nat /\ x.size \in Nat
    /\ \A x, y \in slots : x.name = y.name => x = y

LEMMA CoveredIsFinite ==
    ASSUME NEW slots, Sound(slots), NEW s \in SUBSET slots
    PROVE  IsFiniteSet(Covered(s))
  <1>1. \A x \in slots : Span(x) \subseteq 2 .. 255
    BY DEF Sound, Apart, Span
  <1>2. Covered(s) \in SUBSET (2 .. 255)
    BY <1>1 DEF Covered
  <1>3. IsFiniteSet(2 .. 255)
    BY 2 \in Int, 255 \in Int, FS_Interval
  <1>4. QED
    BY <1>2, <1>3, FS_Subset

LEMMA OneSlotMore ==
    ASSUME NEW slots, Sound(slots), NEW s \in SUBSET slots, NEW x \in s
    PROVE  Cardinality(Covered(s)) = x.size + Cardinality(Covered(s \ {x}))
  <1> DEFINE rest == Covered(s \ {x})
  <1>1. x.addr \in Nat /\ x.size \in Nat
    BY DEF Sound
  <1>2. IsFiniteSet(Span(x)) /\ Cardinality(Span(x)) = x.size
    <2>1. x.addr \in Int /\ x.addr + x.size - 1 \in Int
      BY <1>1
    <2>2. /\ IsFiniteSet(Span(x))
          /\ Cardinality(Span(x)) = IF x.addr > x.addr + x.size - 1 THEN 0
                                    ELSE (x.addr + x.size - 1) - x.addr + 1
      BY <2>1, FS_Interval DEF Span
    <2>3. QED
      BY <1>1, <2>2
  <1>3. IsFiniteSet(rest)
    BY CoveredIsFinite
  <1>4. Covered(s) = Span(x) \cup rest
    BY DEF Covered
  <1>5. Span(x) \cap rest = {}
    <2>1. ASSUME NEW y \in s \ {x} PROVE Span(x) \cap Span(y) = {}
      <3>1. x.name # y.name /\ y.addr \in Nat /\ y.size \in Nat
        BY <2>1 DEF Sound
      <3>2. x.addr + x.size <= y.addr \/ y.addr + y.size <= x.addr
        BY <3>1 DEF Sound, Apart
      <3>3. QED
        BY <1>1, <3>1, <3>2 DEF Span
    <2>2. QED
      BY <2>1 DEF Covered
  <1> HIDE DEF rest
  <1>6. Cardinality(Span(x) \cup rest) = Cardinality(Span(x)) + Cardinality(rest) - 0
    BY <1>2, <1>3, <1>5, FS_Union, FS_EmptySet
  <1>7. Cardinality(rest) \in Nat
    BY <1>3, FS_CardinalityType
  <1>8. QED
    BY <1>1, <1>2, <1>4, <1>6, <1>7 DEF rest

(* The sum is a recursive function on the sets of slots.  The count of the    *)
(* bytes covered satisfies its equation, so there is one; and by induction on  *)
(* the number of slots there is no other.                                    *)
LEMMA SizesCountBytes ==
    ASSUME NEW slots, Sound(slots)
    PROVE  Bytes(slots) = Cardinality(Covered(slots))
  <1> DEFINE Solves(h) == h = [s \in SUBSET slots |->
                                  IF s = {} THEN 0 ELSE OneOf(s).size + h[s \ {OneOf(s)}]]
             count == [s \in SUBSET slots |-> Cardinality(Covered(s))]
             iter == CHOOSE h : Solves(h)
  <1>1. \A s \in SUBSET slots : s # {} => OneOf(s) \in s
    BY DEF OneOf
  <1>2. Solves(count)
    <2>1. ASSUME NEW s \in SUBSET slots
          PROVE  count[s] = IF s = {} THEN 0 ELSE OneOf(s).size + count[s \ {OneOf(s)}]
      <3>1. CASE s = {}
        <4>1. Covered(s) = {}
          BY <3>1 DEF Covered
        <4>2. QED
          BY <3>1, <4>1, FS_EmptySet
      <3>2. CASE s # {}
        <4>1. Cardinality(Covered(s)) = OneOf(s).size + Cardinality(Covered(s \ {OneOf(s)}))
          BY <1>1, <3>2, OneSlotMore
        <4>2. QED
          BY <3>2, <4>1
      <3>3. QED
        BY <3>1, <3>2
    <2>2. QED
      BY <2>1
  <1>3. Solves(iter)
    BY <1>2
  <1>4. Bytes(slots) = iter[slots]
    BY DEF Bytes, MapThenSumSet, MapThenFoldSet, OneOf
  <1>5. ASSUME NEW s \in SUBSET slots
        PROVE  iter[s] = IF s = {} THEN 0 ELSE OneOf(s).size + iter[s \ {OneOf(s)}]
    BY <1>3
  <1>6. ASSUME NEW s \in SUBSET slots
        PROVE  count[s] = IF s = {} THEN 0 ELSE OneOf(s).size + count[s \ {OneOf(s)}]
    BY <1>2
  <1> HIDE DEF iter, count
  <1> DEFINE T == {n \in Nat : \A s \in SUBSET slots : Cardinality(s) = n => iter[s] = count[s]}
  <1>7. ASSUME NEW s \in SUBSET slots
        PROVE  IsFiniteSet(s) /\ Cardinality(s) \in Nat /\ (Cardinality(s) = 0 <=> s = {})
    BY FS_Subset, FS_CardinalityType, FS_EmptySet DEF Sound
  <1>8. 0 \in T
    <2>1. \A s \in SUBSET slots : Cardinality(s) = 0 => iter[s] = count[s]
      BY <1>5, <1>6, <1>7
    <2>2. QED
      BY <2>1
  <1>9. ASSUME NEW n \in T PROVE n + 1 \in T
    <2>1. ASSUME NEW s \in SUBSET slots, Cardinality(s) = n + 1 PROVE iter[s] = count[s]
      <3>1. s # {}
        BY <1>7, <2>1
      <3>2. OneOf(s) \in s
        BY <1>1, <3>1
      <3>3. Cardinality(s \ {OneOf(s)}) = n
        BY <1>7, <2>1, <3>2, FS_RemoveElement
      <3>4. iter[s \ {OneOf(s)}] = count[s \ {OneOf(s)}]
        BY <3>3
      <3>5. QED
        BY <1>5, <1>6, <3>1, <3>4
    <2>2. QED
      BY <2>1
  <1> HIDE DEF T
  <1>10. T = Nat
    <2>1. T \in SUBSET Nat
      BY DEF T
    <2>2. QED
      BY <1>8, <1>9, <2>1, SetInduction
  <1>11. Cardinality(slots) \in Nat
    BY <1>7
  <1>12. iter[slots] = count[slots]
    BY <1>10, <1>11 DEF T
  <1>13. QED
    BY <1>4, <1>12 DEF count


LEMMA RosterStep == TreeInv /\ RosterSound /\ [Next]_treeVars => RosterSound'
  <1> SUFFICES ASSUME TreeInv, RosterSound, [Next]_treeVars PROVE RosterSound'
    OBVIOUS
  <1>1. CASE said' = said
    BY <1>1 DEF RosterSound, Claimed
  <1>2. CASE said'.by # "zp"
    BY <1>2 DEF RosterSound, Claimed
  <1>3. ASSUME NEW s \in Sources["zp"], Roster(s), said' # said
        PROVE  RosterSound'
    <2>1. PICK k \in Knobs : k = run.knobs
      BY DEF TreeInv, Running
    <2> DEFINE slots == s.slots[k]
               kept == {x \in slots : x.listed \/ x.name \notin Passed[k]}
    <2>2. /\ run.at = "zp" /\ Readable(tree.copy)
          /\ Apart(Listed(slots)) /\ Outside(slots, Passed[k]) = {}
          /\ s.usage[tree.copy[Manifest]] = Bytes(Listed(slots))
          /\ said' = [by |-> "zp", knobs |-> k, src |-> s]
      BY <1>3, <2>1 DEF Roster, Claim, RosterPasses
    <2>3. tree.copy[Manifest] = k
      BY <2>1, <2>2, CopiesOfTheRun, ManifestIsAMember
    <2>4. kept = Listed(slots)
      BY <2>2 DEF Outside, Listed
    <2>5. Sound(kept)
      <3>1. /\ IsFiniteSet(slots)
            /\ \A x \in slots : x.addr \in Nat /\ x.size \in Nat
            /\ \A x, y \in slots : x.name = y.name => x = y
        BY SlotsAreTheAssemblers
      <3>2. kept \in SUBSET slots
        OBVIOUS
      <3>3. IsFiniteSet(kept)
        BY <3>1, <3>2, FS_Subset
      <3>4. Apart(kept)
        BY <2>2, <2>4
      <3>5. QED
        BY <3>1, <3>2, <3>3, <3>4 DEF Sound
    <2> HIDE DEF kept
    <2>6. s.usage[k] = Cardinality(Covered(kept))
      BY <2>2, <2>3, <2>4, <2>5, SizesCountBytes
    <2>7. said'.src = s /\ said'.knobs = k
      BY <2>2
    <2>8. Apart(kept)
      BY <2>5 DEF Sound
    <2>9. QED
      BY <2>6, <2>7, <2>8 DEF RosterSound, Covered, kept
  <1>4. QED
    BY <1>1, <1>2, <1>3, WhoClaims DEF None

(* The roster gate never passes slots that share a byte with each other or     *)
(* with the processor port, nor a usage equate other than the bytes covered.  *)
THEOREM RosterRight == Spec => []RosterSound
  <1>1. TreeInit => RosterSound
    BY DEF TreeInit, RosterSound, Claimed, Silent, None
  <1>2. QED
    BY <1>1, InitInv, StepInv, RosterStep, PTL DEF Spec
================================================================================
