------------------------------ MODULE BuildTree ------------------------------
(****************************************************************************)
(* The build directory and the knob guard of the Makefile.  make sees file   *)
(* times, never the -D knobs a file was assembled with; so the Makefile      *)
(* keeps the knobs of the tree in a stamp, compares them while it is parsed, *)
(* and on a difference deletes every output before it writes the new stamp.  *)
(* Parsing happens under -n, -q and -t too, where nothing may be deleted:    *)
(* there the difference makes every existing output answer as if it were     *)
(* gone.  A run may be killed at any step and a touch (-t) leaves empty      *)
(* files where there was none.                                               *)
(*                                                                           *)
(* A file is told by the knobs it was made with, None, or Hollow (0 bytes);  *)
(* an archive by those of each member.  An existing file is rebuilt or kept  *)
(* freely: times have whole-second granularity, and which of two files is    *)
(* newer is left open.  One make runs at a time (lockf).                     *)
(****************************************************************************)
EXTENDS Naturals, FiniteSets

CONSTANTS Knobs,     \* the values of ALL_DEFINES
          Plain,     \* the empty value, which is also what a missing stamp reads as
          Members    \* the library's objects, LIB_OBJS

ASSUME PlainIsAKnob == Plain \in Knobs
ASSUME MarksAreNoKnobs == {"none", "hollow"} \cap Knobs = {}

VARIABLES tree,      \* the outputs a knob change invalidates
          stamp,     \* .contract-defines.stamp
          run,       \* the make that is running: its step, knobs and goal
          said,      \* what the last make to end claimed, None when it claimed nothing
          touched    \* knobs of -t runs that found them changed, since the last invalidation

treeVars == <<tree, stamp, run, said, touched>>

None == "none"
Hollow == "hollow"
Whole(c) == [m \in Members |-> c]
Nothing == Whole(None)
Emptied == [obj |-> Nothing, copy |-> Nothing, arch |-> Nothing,
            canon |-> Nothing, stub |-> Nothing]

Idle == [at |-> "idle", knobs |-> Plain, goal |-> "lib"]
Silent == [by |-> None]
Goals == {"lib", "isolation", "isolation-negative", "footprint", "precalc", "zp"}

TreeInit ==
    /\ tree = Emptied
    /\ stamp = Plain
    /\ run = Idle
    /\ said = Silent
    /\ touched = {}

-----------------------------------------------------------------------------
(* The guard, evaluated while the Makefile is parsed.  "opaque": MFLAGS was   *)
(* set on the command line, so the mode cannot be read from it.               *)
NoExecWithoutT(mode) == mode \in {"n", "q"}
NoExec(mode) == mode \in {"n", "q", "t"}

Guard(mode, k, opaque) ==
    IF k = stamp THEN "same"
    ELSE IF opaque THEN "refuse"
    ELSE IF NoExec(mode) THEN "force"
    ELSE "invalidate"

(* What a knob change leaves of the tree (X25519_KNOB_OUTPUTS).               *)
KeepsArchives(t) == [Emptied EXCEPT !.arch = t.arch, !.canon = t.canon]
Invalidated(t) == Emptied

-----------------------------------------------------------------------------
(* A real run.  Every step after the guard may be the last one before a kill. *)
Go(at) == run' = [run EXCEPT !.at = at]
Stop == run' = Idle
Claim(c) == run' = Idle /\ said' = c

Start(k, goal, opaque) ==
    /\ run.at = "idle"
    /\ said' = Silent
    /\ \/ Guard("real", k, opaque) = "same" /\ run' = [at |-> "objs", knobs |-> k, goal |-> goal]
       \/ Guard("real", k, opaque) = "invalidate" /\ run' = [at |-> "rm", knobs |-> k, goal |-> goal]
       \/ Guard("real", k, opaque) = "refuse" /\ run' = Idle
    /\ UNCHANGED <<tree, stamp, touched>>

(* rm -f of the outputs, then the stamp; killed in the middle, rm has removed *)
(* the first files of its list and the stamp is the old one, or it is cut to  *)
(* nothing, which reads as no knobs, once the outputs are gone.               *)
Remaining(f, left) == [m \in Members |-> IF m \in left THEN f[m] ELSE None]

InvalidateOutputs ==
    /\ run.at = "rm"
    /\ tree' = Invalidated(tree)
    /\ stamp' = run.knobs
    /\ touched' = {}
    /\ Go("objs")
    /\ UNCHANGED said

KilledInRm ==
    /\ run.at = "rm"
    /\ \/ \E left \in SUBSET Members :
             tree' = [tree EXCEPT !.obj = Remaining(@, left)]
       \/ \E left \in SUBSET Members :
             tree' = [tree EXCEPT !.obj = Nothing, !.copy = Remaining(@, left)]
       \/ tree' = [Emptied EXCEPT !.canon = tree.canon, !.stub = tree.stub]
       \/ tree' = [Emptied EXCEPT !.stub = tree.stub]
       \/ tree' = Emptied
    /\ stamp' \in IF tree' = Emptied THEN {stamp, Plain} ELSE {stamp}
    /\ touched' = IF tree' = Emptied THEN {} ELSE touched
    /\ Stop
    /\ UNCHANGED said

(* One group of files with a rule each: every absent one is made, an existing *)
(* one may be; a kill leaves any part of it done.                             *)
MakeGroup(group, made, next) ==
    \E redone \in SUBSET Members :
        /\ tree' = [tree EXCEPT ![group] =
                       [m \in Members |-> IF m \in redone THEN made[m] ELSE tree[group][m]]]
        /\ \/ (\A m \in Members \ redone : tree[group][m] # None) /\ Go(next)
           \/ Stop
        /\ UNCHANGED <<stamp, said, touched>>

(* The negative isolation leg is refused under any but the plain knobs, while  *)
(* the rest of the Makefile is parsed: after the guard, before any rule.      *)
OffScope == run.goal = "isolation-negative" /\ run.knobs # Plain
RefuseOffScope ==
    /\ run.at = "objs" /\ OffScope
    /\ Stop
    /\ UNCHANGED <<tree, stamp, said, touched>>

Assemble == run.at = "objs" /\ ~OffScope /\ MakeGroup("obj", Whole(run.knobs), "arch")
CopyObjects == run.at = "copies" /\ MakeGroup("copy", tree.obj, "canon")

(* rm -f, then ar65, which refuses an empty object.                           *)
MakeArchive ==
    /\ run.at = "arch"
    /\ \/ tree.arch # Nothing /\ UNCHANGED tree /\ Go("copies")
       \/ /\ \A m \in Members : tree.obj[m] # Hollow
          /\ tree' = [tree EXCEPT !.arch = tree.obj]
          /\ Go("copies")
       \/ tree' = [tree EXCEPT !.arch = Nothing] /\ Stop
    /\ UNCHANGED <<stamp, said, touched>>

(* The recipe of lib: x25519.a is always a fresh copy.                        *)
CopyCanon ==
    /\ run.at = "canon"
    /\ tree' = [tree EXCEPT !.canon = tree.arch]
    /\ \/ run.goal = "lib" /\ Claim([by |-> "build", knobs |-> run.knobs])
       \/ run.goal \in {"footprint", "precalc"} /\ Go("link") /\ UNCHANGED said
       \/ run.goal = "zp" /\ Go("zp") /\ UNCHANGED said
       \/ run.goal \in {"isolation", "isolation-negative"} /\ Go("isolation") /\ UNCHANGED said
    /\ UNCHANGED <<stamp, touched>>

(* The stub program; ld65 also writes its labels and its map.  The recipe     *)
(* fails on an empty archive.                                                 *)
Link ==
    /\ run.at = "link"
    /\ \/ tree.stub # Nothing /\ UNCHANGED tree /\ Go(run.goal)
       \/ tree.arch # Whole(Hollow) /\ tree' = [tree EXCEPT !.stub = tree.arch] /\ Go(run.goal)
       \/ tree.arch = Whole(Hollow) /\ UNCHANGED tree /\ Stop
    /\ UNCHANGED <<stamp, said, touched>>

Kill == run.at # "idle" /\ Stop /\ UNCHANGED <<tree, stamp, said, touched>>

-----------------------------------------------------------------------------
(* -q on one of the two archives: 0, up to date, is a claim.  x25519.a has no *)
(* rule: it is up to date when it is there, unless the guard forces it.       *)
Query(k, file, opaque) ==
    /\ run.at = "idle"
    /\ \/ /\ Guard("q", k, opaque) = "same"
          /\ tree[file] # Nothing
          /\ \/ said' = [by |-> "query", knobs |-> k, file |-> file]
             \/ file = "arch" /\ said' = Silent
       \/ Guard("q", k, opaque) # "same" /\ said' = Silent
       \/ tree[file] = Nothing /\ said' = Silent
    /\ UNCHANGED <<tree, stamp, run, touched>>

(* -t gives every absent target of the goal an empty file and the others a    *)
(* new time.  What lib's own recipe makes, x25519.a, is not touched.          *)
FillIn(f) == [m \in Members |-> IF f[m] = None THEN Hollow ELSE f[m]]
Touching(t, goal) ==
    [t EXCEPT !.obj = FillIn(@), !.arch = FillIn(@),
              !.copy = IF goal = "stub" THEN @ ELSE FillIn(@),
              !.stub = IF goal = "lib" THEN @ ELSE FillIn(@)]

Touch(k, goal, opaque) ==
    /\ run.at = "idle"
    /\ said' = Silent
    /\ LET g == Guard("t", k, opaque)
       IN  \/ /\ g # "refuse"
              /\ tree' = Touching(IF g = "invalidate" THEN Invalidated(tree) ELSE tree, goal)
              /\ stamp' = IF g = "invalidate" THEN k ELSE stamp
              /\ touched' = touched \cup (IF k = stamp THEN {} ELSE {k})
           \/ g = "refuse" /\ UNCHANGED <<tree, stamp, touched>>
    /\ UNCHANGED run

(* clean, and a file removed by hand (as the footprint leg's own rm does).    *)
Clean ==
    /\ run.at = "idle"
    /\ tree' = Emptied
    /\ stamp' = Plain
    /\ said' = Silent
    /\ touched' = {}
    /\ UNCHANGED run

Delete(file) ==
    /\ run.at = "idle"
    /\ tree' = [tree EXCEPT ![file] = Nothing]
    /\ said' = Silent
    /\ UNCHANGED <<stamp, run, touched>>

TreeNext ==
    \/ \E k \in Knobs, goal \in Goals, opaque \in BOOLEAN : Start(k, goal, opaque)
    \/ InvalidateOutputs \/ KilledInRm \/ RefuseOffScope
    \/ Assemble \/ MakeArchive \/ CopyObjects \/ CopyCanon \/ Link
    \/ Kill
    \/ \E k \in Knobs, file \in {"arch", "canon"}, opaque \in BOOLEAN : Query(k, file, opaque)
    \/ \E k \in Knobs, goal \in {"lib", "stub"}, opaque \in BOOLEAN : Touch(k, goal, opaque)
    \/ Clean
    \/ \E file \in {"arch", "canon", "stub"} : Delete(file)

-----------------------------------------------------------------------------
Claimed(by) == said.by = by

(* Whoever is told by make that an archive is built or up to date gets an     *)
(* archive of the knobs they asked with, whatever runs came before, killed    *)
(* where they may be.  An empty one is possible after -t, but never for the   *)
(* knobs of a -t run that found them changed: what the stamp still names are  *)
(* the other ones (the boundary the Makefile describes).                      *)
ArtifactOfTheKnobs ==
    Claimed("build") \/ Claimed("query") =>
        LET file == IF said.by = "query" THEN said.file ELSE "canon"
        IN  \/ tree[file] = Whole(said.knobs)
            \/ tree[file] = Whole(Hollow) /\ said.knobs \notin touched
==============================================================================
