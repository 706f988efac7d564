----------------------------- MODULE BenchRecord -----------------------------
(***************************************************************************)
(* tools/bench_record.py: a row of docs/perf_history.csv.  The row names a  *)
(* commit, gives the sizes in build/labels.txt and the figures of two tools *)
(* that rebuild the program and measure it in an emulator, a quarter of an  *)
(* hour later.  All of it goes through one working tree and one build       *)
(* directory, in which people edit and commit and other runs of make build  *)
(* with other -D knobs.                                                     *)
(*                                                                          *)
(* A top-level make holds .make.lock while it runs, and is refused at once  *)
(* when another does; a make started by a make does not ask.  So            *)
(* `make bench-record` keeps other runs out to the end, and the bare script *)
(* only while one of its own is running.  (Without lockf on the system      *)
(* nothing is kept out; that is left aside.)                                *)
(***************************************************************************)
EXTENDS Integers, TLC

CONSTANTS
  Sources,     \* contents of the source tree
  Broken,      \* those that do not assemble
  Knobs,       \* settings of the -D knobs
  MaxEdits,    \* bound: edits during one recording
  MaxMakes     \* bound: other runs of make during one recording

ASSUME BenchRecordAssumption ==
  /\ Broken \subseteq Sources /\ Sources \ Broken # {} /\ Knobs # {}
  /\ "none" \notin Sources
  /\ MaxEdits \in Nat /\ MaxMakes \in Nat

Tools == {"scalarmult", "fe_ops"}

\* What x25519.prg or labels.txt was linked from.
Build(s, k) == [src |-> s, knobs |-> k]
Absent      == [src |-> "none", knobs |-> "none"]

\* A figure: the program that ran, and the labels it was driven by.
NoFigure == [program |-> Absent, labels |-> Absent]

EmptyRow == [sizes |-> Absent, sha |-> "none", dirty |-> FALSE, figure |-> [t \in Tools |-> NoFigure]]

NotAsked == [via |-> FALSE, knobs |-> "none", skip |-> {}]

VARIABLES
  head, work,      \* the source tree: as committed, and as it is
  csvChanged,      \* perf_history.csv has rows that are not committed
  prg, labels,     \* build/x25519.prg and build/labels.txt
  lock,            \* who holds .make.lock: "nobody", "record" or "other"
  other,           \* another make: "none", "running" or "linked"
  otherKnobs,      \* its knobs
  asked,           \* the recording: through make or not, its knobs, the tools skipped
  step, who,       \* its next step, and the script that takes it
  read,            \* the labels the tool under way has read
  row,             \* the row so far
  edits, makes,    \* history: edits and other makes during it
  torn,            \* history: it found labels older than an up-to-date program
  moved,           \* history: edits were committed between its two questions to git
  made,            \* history: the tools whose own make succeeded
  last             \* the row just appended, with its history

tree     == <<head, work, csvChanged>>
built    == <<prg, labels>>
others   == <<other, otherKnobs>>
bookkept == <<edits, makes, torn, moved, made>>
vars     == <<tree, built, lock, others, asked, step, who, read, row, bookkept, last>>

NoRow == [row |-> EmptyRow, asked |-> NotAsked, edited |-> FALSE, torn |-> FALSE, moved |-> FALSE, made |-> {}]

Recording == step # "idle"

Init ==
  /\ head \in Sources \ Broken /\ work = head /\ csvChanged = FALSE
  /\ prg = Absent /\ labels = Absent
  /\ lock = "nobody"
  /\ other = "none" /\ otherKnobs \in Knobs
  /\ asked = NotAsked /\ step = "idle" /\ who = "record" /\ read = Absent /\ row = EmptyRow
  /\ edits = 0 /\ makes = 0 /\ torn = FALSE /\ moved = FALSE /\ made = {} /\ last = NoRow

(***************************************************************************)
(* make in this tree.                                                       *)
(***************************************************************************)
\* Faulty: make bench-record gives the lock back before its recipe.
HeldOnlyToStart(via) == FALSE

\* A recording through make holds the lock to its end.
Held(via) == via

\* A top-level make finds the lock held.
Refused == ~asked.via /\ lock # "nobody"

\* The guard deletes what was built with other knobs.
Kept(file, k) == IF file.knobs = k THEN file ELSE Absent

Invalidate(k) == prg' = Kept(prg, k) /\ labels' = Kept(labels, k)

UpToDate(k) == prg = Build(work, k)

\* The program is up to date, or it and the labels are made; labels are no
\* target of their own.
Makes(k) ==
  /\ work \notin Broken
  /\ \/ UpToDate(k) /\ UNCHANGED labels
     \/ labels' = Build(work, k)
  /\ prg' = Build(work, k)

MakeFails(k) == work \in Broken /\ Invalidate(k)

Cleans == prg' = Absent /\ labels' = Absent

(***************************************************************************)
(* The others.                                                              *)
(***************************************************************************)
Edit ==
  /\ ~Recording \/ edits < MaxEdits
  /\ work' \in Sources \ {work}
  /\ edits' = IF Recording THEN edits + 1 ELSE edits
  /\ UNCHANGED <<head, csvChanged, built, lock, others, asked, step, who, read, row, makes, torn, moved, made, last>>

Commit ==
  /\ head # work \/ csvChanged
  /\ head' = work /\ csvChanged' = FALSE
  /\ moved' = (moved \/ (step = "status" /\ head # work))
  /\ UNCHANGED <<work, built, lock, others, asked, step, who, read, row, edits, makes, torn, made, last>>

OtherBegin ==
  /\ other = "none" /\ (~Recording \/ makes < MaxMakes)
  /\ lock = "nobody" /\ lock' = "other"
  /\ other' = "running" /\ otherKnobs' \in Knobs
  /\ Invalidate(otherKnobs')
  /\ makes' = IF Recording THEN makes + 1 ELSE makes
  /\ UNCHANGED <<tree, asked, step, who, read, row, edits, torn, moved, made, last>>

OtherClean ==
  /\ other = "running" /\ Cleans
  /\ UNCHANGED <<tree, lock, others, asked, step, who, read, row, bookkept, last>>

OtherLink ==
  /\ other = "running" /\ work \notin Broken /\ ~UpToDate(otherKnobs)
  /\ prg' = Build(work, otherKnobs) /\ other' = "linked"
  /\ UNCHANGED <<tree, labels, lock, otherKnobs, asked, step, who, read, row, bookkept, last>>

\* sed turns the linker's labels into labels.txt.
OtherLabels ==
  /\ other = "linked"
  /\ labels' = prg /\ other' = "running"
  /\ UNCHANGED <<tree, prg, lock, otherKnobs, asked, step, who, read, row, bookkept, last>>

\* It ends, or is killed; the kernel drops the lock.
OtherEnd ==
  /\ other # "none" /\ other' = "none"
  /\ lock' = IF lock = "other" THEN "nobody" ELSE lock
  /\ UNCHANGED <<tree, built, otherKnobs, asked, step, who, read, row, bookkept, last>>

(***************************************************************************)
(* bench_record.py.                                                         *)
(***************************************************************************)
Start ==
  /\ ~Recording
  /\ \E via \in BOOLEAN, k \in Knobs, skip \in (SUBSET Tools) \ {Tools} :
       /\ via => skip = {} /\ lock = "nobody"
       /\ asked' = [via |-> via, knobs |-> k, skip |-> skip]
       /\ step' = (IF via THEN "prerequisite" ELSE "make") /\ who' = "record"
       /\ torn' = (UpToDate(k) /\ labels # prg)
       /\ lock' = IF Held(via) THEN "record" ELSE lock
  /\ read' = Absent /\ row' = EmptyRow /\ edits' = 0 /\ makes' = 0 /\ moved' = FALSE /\ made' = {}
  /\ last' = NoRow
  /\ UNCHANGED <<tree, built, others>>

Goes(next, script) == step' = next /\ who' = script /\ UNCHANGED <<lock, asked, edits, makes, torn, moved>>

\* The tools that are not skipped, in this order, and then the row.
GoesToNextTool ==
  \/ who = "record" /\ "scalarmult" \notin asked.skip /\ Goes("clean", "scalarmult")
  \/ who = "record" /\ "scalarmult" \in asked.skip    /\ Goes("clean", "fe_ops")
  \/ who = "scalarmult" /\ "fe_ops" \notin asked.skip /\ Goes("clean", "fe_ops")
  \/ who = "scalarmult" /\ "fe_ops" \in asked.skip    /\ Goes("append", "record")
  \/ who = "fe_ops" /\ Goes("append", "record")

Released == IF lock = "record" THEN "nobody" ELSE lock

\* The script ends, and with it its row.
Ends ==
  /\ step' = "idle" /\ who' = "record" /\ asked' = NotAsked /\ lock' = Released
  /\ read' = Absent /\ row' = EmptyRow
  /\ edits' = 0 /\ makes' = 0 /\ torn' = FALSE /\ moved' = FALSE /\ made' = {}

AfterMake == IF step = "prerequisite" THEN "make" ELSE IF who = "record" THEN "sizes" ELSE "read labels"

\* make, as the prerequisite of bench-record, by bench_record.py, and by
\* bench_x25519.py: a failure or a refusal is the end.
MakeChecked ==
  /\ step \in {"prerequisite", "make"} /\ who # "fe_ops"
  /\ \/ ~Refused /\ Makes(asked.knobs) /\ Goes(AfterMake, who)
          /\ made' = made \cup {who} /\ UNCHANGED <<read, row>>
     \/ ~Refused /\ MakeFails(asked.knobs) /\ Ends
     \/ Refused /\ Ends /\ UNCHANGED built
  /\ UNCHANGED <<tree, others, last>>

\* By bench_fe_ops.py: it only looks whether there is a program afterwards.
MakeUnchecked ==
  /\ step = "make" /\ who = "fe_ops"
  /\ \/ ~Refused /\ Makes(asked.knobs)
     \/ ~Refused /\ MakeFails(asked.knobs)
     \/ Refused /\ UNCHANGED built
  /\ \/ prg' = Absent /\ Ends
     \/ /\ prg' # Absent /\ Goes("read labels", who) /\ UNCHANGED <<read, row>>
        /\ made' = IF Refused \/ work \in Broken THEN made ELSE made \cup {who}
  /\ UNCHANGED <<tree, others, last>>

\* make clean, by either tool, whatever it returns.
MakeClean ==
  /\ step = "clean" /\ Goes("make", who)
  /\ IF Refused THEN UNCHANGED built ELSE Cleans
  /\ UNCHANGED <<tree, others, read, row, made, last>>

\* _read_labels, for the sizes and the version.
ReadSizes ==
  /\ step = "sizes" /\ labels # Absent /\ Goes("sha", who)
  /\ row' = [row EXCEPT !.sizes = labels]
  /\ UNCHANGED <<tree, built, others, read, made, last>>

\* _git_sha_with_dirty: git rev-parse HEAD, and then git status --porcelain.
ReadSha ==
  /\ step = "sha" /\ Goes("status", who)
  /\ row' = [row EXCEPT !.sha = head]
  /\ UNCHANGED <<tree, built, others, read, made, last>>

ReadDirty ==
  /\ step = "status" /\ GoesToNextTool
  /\ row' = [row EXCEPT !.dirty = head # work \/ csvChanged]
  /\ UNCHANGED <<tree, built, others, read, made, last>>

\* A tool reads the labels it will call and read by.
ReadLabels ==
  /\ step = "read labels" /\ labels # Absent /\ Goes("measure", who)
  /\ read' = labels
  /\ UNCHANGED <<tree, built, others, row, made, last>>

\* The emulator loads the program, the tool measures, writes its sidecar, and
\* bench_record.py takes the figures; the program on the disk may change
\* meanwhile.
Measure ==
  /\ step = "measure" /\ prg # Absent /\ GoesToNextTool
  /\ row' = [row EXCEPT !.figure[who] = [program |-> prg, labels |-> read]]
  /\ read' = Absent
  /\ UNCHANGED <<tree, built, others, made, last>>

\* No labels, a git that fails, no program, no banner, a call that times out: an
\* exception or an exit code, and no row.
Fails ==
  /\ (step \in {"sizes", "read labels"} /\ labels = Absent) \/ step \in {"sha", "status", "measure"}
  /\ Ends
  /\ UNCHANGED <<tree, built, others, last>>

AppendRow ==
  /\ step = "append" /\ Ends
  /\ csvChanged' = TRUE
  /\ last' = [row |-> row, asked |-> asked, edited |-> edits > 0, torn |-> torn,
              moved |-> moved, made |-> made]
  /\ UNCHANGED <<head, work, built, others>>

Record == \/ Start \/ MakeChecked \/ MakeUnchecked \/ MakeClean \/ ReadSizes \/ ReadSha \/ ReadDirty
          \/ ReadLabels \/ Measure \/ Fails \/ AppendRow

Others == Edit \/ Commit \/ OtherBegin \/ OtherClean \/ OtherLink \/ OtherLabels \/ OtherEnd

Next == Record \/ Others

Spec == Init /\ [][Next]_vars

Interchangeable == Permutations(Knobs)

(***************************************************************************)
(* Properties.                                                              *)
(***************************************************************************)
Appended == last # NoRow

Measured(t) == t \notin last.asked.skip

\* A row appended by `make bench-record` is of one build.  However many other
\* runs of make were tried meanwhile, and whatever lay in build/ before, each
\* figure is of the program its labels describe, built with the knobs asked
\* for from the source tree, as long as nobody edited that; the sizes are
\* those of the same build, unless a make killed at the wrong moment had left
\* old labels beside an up-to-date program; and a commit without "-dirty" is
\* the source of all of it, unless edits made before the recording were
\* committed between rev-parse and status: the first has then named the commit
\* before, and the second finds nothing changed.
RowOfOneBuild ==
  Appended /\ last.asked.via /\ ~last.edited =>
    \E s \in Sources :
      LET b == Build(s, last.asked.knobs)
      IN /\ \A t \in Tools : Measured(t) => last.row.figure[t] = [program |-> b, labels |-> b]
         /\ last.torn \/ last.row.sizes = b
         /\ last.row.dirty \/ last.moved \/ last.row.sha = s

\* bench_fe_ops.py:429 cleans before it makes, because it "would otherwise
\* reuse stale .o files and measure the wrong build": with one make at a time,
\* its figure is of the knobs it was started with, whenever its own make has
\* not made sure of that.
RebuiltFirst ==
  Appended /\ Measured("fe_ops") =>
    "fe_ops" \in last.made \/ last.row.figure["fe_ops"].program.knobs = last.asked.knobs
=============================================================================
