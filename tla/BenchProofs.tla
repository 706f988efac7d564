---------------------------- MODULE BenchProofs ----------------------------
(***************************************************************************)
(* The benchmark tools.  A row appended by `make bench-record` is of one    *)
(* build, for any number of source trees, settings of the knobs, edits and  *)
(* other runs of make; and a timing bracket of util.s reads the cycles of   *)
(* the routine and its scaffold, or the jiffies in which interrupts were    *)
(* allowed, and gives back what it found, for every routine, number of      *)
(* calls, capacity of the timers and length of a period.                    *)
(***************************************************************************)
EXTENDS BenchRecord, CycleBench, FiniteSetTheorems, SequenceTheorems, TLAPS

Builds == [src : Sources \cup {"none"}, knobs : Knobs \cup {"none"}]

Figures == [program : Builds, labels : Builds]

Rows == [sizes : Builds, sha : Sources \cup {"none"}, dirty : BOOLEAN, figure : [Tools -> Figures]]

Asked == [via : BOOLEAN, knobs : Knobs \cup {"none"}, skip : SUBSET Tools]

Phases == {"idle", "prerequisite", "make", "sizes", "sha", "status", "clean", "read labels", "measure", "append"}

(***************************************************************************)
(* Types, as far as the argument needs them.                                *)
(***************************************************************************)
TreeOK == head \in Sources /\ work \in Sources /\ csvChanged \in BOOLEAN

BuiltOK == prg \in Builds /\ labels \in Builds /\ read \in Builds

RecordingOK ==
  /\ step \in Phases /\ who \in Tools \cup {"record"}
  /\ asked \in Asked /\ row \in Rows
  /\ edits \in Nat /\ torn \in BOOLEAN /\ moved \in BOOLEAN
  /\ otherKnobs \in Knobs

(***************************************************************************)
(* The lock: a recording through make has it until it ends, and no other    *)
(* make runs without it.                                                    *)
(***************************************************************************)
LockKept ==
  /\ lock = "record" <=> asked.via
  /\ lock = "other" <=> other # "none"
  /\ asked.via => step # "idle" /\ asked.skip = {}
  /\ step # "idle" => asked.knobs \in Knobs

(***************************************************************************)
(* What a recording through make has found so far, unless somebody edited   *)
(* the tree: B is the one build it is about.                                *)
(***************************************************************************)
B == Build(work, asked.knobs)

Both == [program |-> B, labels |-> B]

Undisturbed == asked.via /\ edits = 0

FirstSteps ==
  /\ step = "prerequisite" => who = "record"
  /\ step \in {"prerequisite", "make"} /\ who = "record" => torn \/ (prg = B => labels = B)
  /\ step \in {"sizes", "sha", "status"} => who = "record"
  /\ step = "sizes" => torn \/ labels = B
  /\ step = "status" => moved \/ row.sha = head

ToolsFound ==
  /\ step \in {"clean", "read labels", "measure"} => who # "record"
  /\ step = "make" /\ who # "record" => prg = Absent /\ labels = Absent
  /\ step = "read labels" => prg = B /\ labels = B
  /\ step = "measure" => prg = B /\ read = B

RowFound ==
  /\ step \notin {"prerequisite", "sizes"} /\ ~(step = "make" /\ who = "record") =>
       torn \/ row.sizes = B
  /\ step = "append" \/ (step # "idle" /\ who # "record") =>
       row.dirty \/ moved \/ row.sha = work
  /\ step = "append" \/ who = "fe_ops" => row.figure["scalarmult"] = Both
  /\ step = "append" => row.figure["fe_ops"] = Both

Found == Undisturbed => FirstSteps /\ ToolsFound /\ RowFound

IInv == TreeOK /\ BuiltOK /\ RecordingOK /\ LockKept /\ Found /\ RowOfOneBuild

(***************************************************************************)
(* Facts about files and rows.                                              *)
(***************************************************************************)
LEMMA BuildIsBuild ==
  ASSUME NEW s \in Sources, NEW k \in Knobs
  PROVE  Build(s, k) \in Builds /\ Build(s, k) # Absent
  BY BenchRecordAssumption DEF Build, Builds, Absent

LEMMA AbsentIsBuild == Absent \in Builds
  BY DEF Absent, Builds

LEMMA EmptyRowIsRow == EmptyRow \in Rows
  BY AbsentIsBuild DEF EmptyRow, Rows, Figures, NoFigure

LEMMA KeptIsBuild ==
  ASSUME NEW f \in Builds, NEW k
  PROVE  Kept(f, k) \in Builds /\ Kept(Absent, k) = Absent
  BY AbsentIsBuild DEF Kept

-----------------------------------------------------------------------------
(***************************************************************************)
(* The first state.                                                         *)
(***************************************************************************)
LEMMA InitIInv == Init => IInv
  <1> SUFFICES ASSUME Init PROVE IInv
    OBVIOUS
  <1>1. TreeOK /\ BuiltOK
    BY AbsentIsBuild DEF Init, TreeOK, BuiltOK
  <1>2. RecordingOK
    BY EmptyRowIsRow DEF Init, RecordingOK, Phases, Asked, NotAsked, Tools
  <1>3. LockKept /\ Found
    BY DEF Init, LockKept, Found, Undisturbed, NotAsked
  <1>4. RowOfOneBuild
    BY DEF Init, RowOfOneBuild, Appended
  <1>5. QED
    BY <1>1, <1>2, <1>3, <1>4 DEF IInv

(***************************************************************************)
(* The script ends: nothing is left to be said of the recording.            *)
(***************************************************************************)
LEMMA EndsKeeps ==
  ASSUME RecordingOK, LockKept, Ends, UNCHANGED others
  PROVE  RecordingOK' /\ LockKept' /\ Found' /\ read' \in Builds
  <1>1. RecordingOK'
    BY EmptyRowIsRow DEF RecordingOK, Ends, others, Phases, Asked, NotAsked, Tools
  <1>2. ~asked'.via
    BY DEF Ends, NotAsked
  <1>3. LockKept'
    BY <1>2 DEF LockKept, Ends, Released, others
  <1>4. Found' /\ read' \in Builds
    BY <1>2, AbsentIsBuild DEF Found, Undisturbed, Ends
  <1>5. QED
    BY <1>1, <1>3, <1>4

LEMMA LastKept == ASSUME RowOfOneBuild, last' = last PROVE RowOfOneBuild'
  BY DEF RowOfOneBuild, Appended, Measured

(***************************************************************************)
(* The others: what they do to the tree counts as an edit, and a make of    *)
(* theirs means that the recording did not come through make.               *)
(***************************************************************************)
LEMMA OthersKeep == IInv /\ Others => IInv'
  <1> SUFFICES ASSUME IInv, Others PROVE IInv'
    OBVIOUS
  <1> USE DEF IInv
  <1>0. RowOfOneBuild'
    BY LastKept DEF Others, Edit, Commit, OtherBegin, OtherClean, OtherLink, OtherLabels, OtherEnd
  <1>1. CASE Edit
    <2>1. TreeOK' /\ BuiltOK' /\ RecordingOK' /\ LockKept'
      BY <1>1 DEF Edit, TreeOK, BuiltOK, RecordingOK, LockKept, built, others
    <2>2. ~Undisturbed'
      BY <1>1 DEF Edit, Undisturbed, Recording, RecordingOK, LockKept, Asked
    <2>3. QED
      BY <1>0, <2>1, <2>2 DEF Found
  <1>2. CASE Commit
    <2>1. TreeOK' /\ BuiltOK' /\ RecordingOK' /\ LockKept'
      BY <1>2 DEF Commit, TreeOK, BuiltOK, RecordingOK, LockKept, built, others
    <2>2. Found'
      <3> SUFFICES ASSUME Undisturbed' PROVE FirstSteps' /\ ToolsFound' /\ RowFound'
        BY DEF Found
      <3>1. /\ Undisturbed /\ B' = B /\ Both' = Both
            /\ UNCHANGED <<work, built, step, who, read, row, torn>>
        BY <1>2 DEF Commit, Undisturbed, B, Both
      <3>2. FirstSteps /\ ToolsFound /\ RowFound
        BY <3>1 DEF Found
      <3>3. moved' = (moved \/ (step = "status" /\ head # work)) /\ head' = work
        BY <1>2 DEF Commit
      <3>4. FirstSteps'
        BY <3>1, <3>2, <3>3 DEF FirstSteps, built
      <3>5. ToolsFound'
        BY <3>1, <3>2 DEF ToolsFound, built
      <3>6. RowFound'
        BY <3>1, <3>2, <3>3 DEF RowFound
      <3>7. QED
        BY <3>4, <3>5, <3>6
    <2>3. QED
      BY <1>0, <2>1, <2>2
  <1>3. CASE OtherBegin
    <2>1. ~asked.via /\ asked' = asked
      BY <1>3 DEF OtherBegin, LockKept
    <2>2. BuiltOK'
      BY <1>3, KeptIsBuild DEF OtherBegin, Invalidate, BuiltOK
    <2>3. TreeOK' /\ RecordingOK' /\ LockKept'
      BY <1>3, <2>1 DEF OtherBegin, TreeOK, tree, RecordingOK, LockKept
    <2>4. QED
      BY <1>0, <2>1, <2>2, <2>3 DEF Found, Undisturbed
  <1>4. CASE OtherClean \/ OtherLink \/ OtherLabels \/ OtherEnd
    <2>1. ~asked.via /\ asked' = asked
      BY <1>4 DEF OtherClean, OtherLink, OtherLabels, OtherEnd, LockKept
    <2>2. BuiltOK'
      BY <1>4, AbsentIsBuild, BuildIsBuild
      DEF OtherClean, OtherLink, OtherLabels, OtherEnd, Cleans, BuiltOK, built, TreeOK, RecordingOK
    <2>3. TreeOK' /\ RecordingOK'
      BY <1>4
      DEF OtherClean, OtherLink, OtherLabels, OtherEnd, TreeOK, tree, RecordingOK, others, bookkept
    <2>4. LockKept'
      BY <1>4, <2>1 DEF OtherClean, OtherLink, OtherLabels, OtherEnd, LockKept, others
    <2>5. QED
      BY <1>0, <2>1, <2>2, <2>3, <2>4 DEF Found, Undisturbed
  <1>5. QED
    BY <1>1, <1>2, <1>3, <1>4 DEF Others

-----------------------------------------------------------------------------
(***************************************************************************)
(* The recording.                                                           *)
(***************************************************************************)
LEMMA StartKeeps == IInv /\ Start => IInv'
  <1> SUFFICES ASSUME IInv, Start PROVE IInv'
    OBVIOUS
  <1> USE DEF IInv
  <1>1. TreeOK' /\ BuiltOK'
    BY AbsentIsBuild DEF Start, TreeOK, tree, BuiltOK, built
  <1>2. PICK via \in BOOLEAN, k \in Knobs, skip \in (SUBSET Tools) \ {Tools} :
          /\ via => skip = {} /\ lock = "nobody"
          /\ asked' = [via |-> via, knobs |-> k, skip |-> skip]
          /\ step' = (IF via THEN "prerequisite" ELSE "make") /\ who' = "record"
          /\ torn' = (UpToDate(k) /\ labels # prg)
          /\ lock' = IF Held(via) THEN "record" ELSE lock
    BY DEF Start
  <1>3. asked' \in Asked /\ asked'.via = via /\ asked'.knobs = k /\ asked'.skip = skip
    BY <1>2 DEF Asked
  <1>4. RecordingOK'
    BY <1>2, <1>3, EmptyRowIsRow DEF Start, RecordingOK, others, Phases
  <1>5. LockKept'
    BY <1>2, <1>3 DEF Start, Recording, LockKept, Held, others
  <1>6. B' = Build(work, k)
    BY <1>3 DEF Start, B, tree
  <1>7. Found'
    <2> SUFFICES ASSUME asked'.via PROVE FirstSteps' /\ ToolsFound' /\ RowFound'
      BY DEF Found, Undisturbed
    <2>1. step' = "prerequisite" /\ who' = "record"
      BY <1>2, <1>3
    <2>2. torn' \/ (prg' = B' => labels' = B')
      BY <1>2, <1>6 DEF Start, UpToDate, built
    <2>3. QED
      BY <2>1, <2>2 DEF FirstSteps, ToolsFound, RowFound
  <1>8. RowOfOneBuild'
    BY DEF Start, RowOfOneBuild, Appended
  <1>9. QED
    BY <1>1, <1>4, <1>5, <1>7, <1>8

(***************************************************************************)
(* make leaves builds, and the program of this tree when it succeeds.       *)
(***************************************************************************)
LEMMA MakesBuilds ==
  ASSUME TreeOK, BuiltOK, NEW k \in Knobs, Makes(k)
  PROVE  /\ prg' = Build(work, k) /\ prg' \in Builds /\ labels' \in Builds
         /\ labels' = Build(work, k) \/ (prg = Build(work, k) /\ labels' = labels)
  BY BuildIsBuild DEF Makes, UpToDate, TreeOK, BuiltOK

LEMMA MakeFailsBuilds ==
  ASSUME BuiltOK, NEW k, MakeFails(k)
  PROVE  prg' \in Builds /\ labels' \in Builds /\ (prg = Absent => prg' = Absent)
  BY KeptIsBuild DEF MakeFails, Invalidate, BuiltOK

(***************************************************************************)
(* The next step of a recording that goes on.                               *)
(***************************************************************************)
LEMMA GoesKeeps ==
  ASSUME RecordingOK, LockKept, step # "idle", UNCHANGED others, row' \in Rows,
         NEW next \in Phases \ {"idle"}, NEW script \in Tools \cup {"record"}, Goes(next, script)
  PROVE  RecordingOK' /\ LockKept'
  BY DEF RecordingOK, LockKept, Goes, others

LEMMA NextTool ==
  ASSUME RecordingOK, LockKept, GoesToNextTool
  PROVE  /\ \E next \in {"clean", "append"}, script \in Tools \cup {"record"} : Goes(next, script)
         /\ asked.via => \/ who = "record" /\ step' = "clean" /\ who' = "scalarmult"
                         \/ who = "scalarmult" /\ step' = "clean" /\ who' = "fe_ops"
                         \/ who = "fe_ops" /\ step' = "append" /\ who' = "record"
         /\ asked' = asked /\ edits' = edits /\ torn' = torn /\ moved' = moved
  <1>1. \E next \in {"clean", "append"}, script \in Tools \cup {"record"} : Goes(next, script)
    BY DEF GoesToNextTool, Tools
  <1>2. asked.via => \/ who = "record" /\ step' = "clean" /\ who' = "scalarmult"
                     \/ who = "scalarmult" /\ step' = "clean" /\ who' = "fe_ops"
                     \/ who = "fe_ops" /\ step' = "append" /\ who' = "record"
    BY DEF GoesToNextTool, Goes, LockKept
  <1>3. asked' = asked /\ edits' = edits /\ torn' = torn /\ moved' = moved
    BY <1>1 DEF Goes
  <1>4. QED
    BY <1>1, <1>2, <1>3

LEMMA MakeCheckedKeeps == IInv /\ MakeChecked => IInv'
  <1> SUFFICES ASSUME IInv, MakeChecked PROVE IInv'
    OBVIOUS
  <1> USE DEF IInv
  <1>1. TreeOK' /\ RowOfOneBuild' /\ UNCHANGED <<tree, others>>
    BY LastKept DEF MakeChecked, TreeOK, tree
  <1>2. step \in {"prerequisite", "make"} /\ who # "fe_ops" /\ asked.knobs \in Knobs
    BY DEF MakeChecked, LockKept
  <1>3. CASE Ends /\ (MakeFails(asked.knobs) \/ UNCHANGED built)
    <2>1. RecordingOK' /\ LockKept' /\ Found' /\ read' \in Builds
      BY <1>1, <1>3, EndsKeeps
    <2>2. BuiltOK'
      BY <1>3, <2>1, MakeFailsBuilds DEF BuiltOK, built
    <2>3. QED
      BY <1>1, <2>1, <2>2
  <1>4. CASE /\ Makes(asked.knobs) /\ Goes(AfterMake, who)
             /\ made' = made \cup {who} /\ UNCHANGED <<read, row>>
    <2>1. AfterMake \in Phases \ {"idle"} /\ who \in Tools \cup {"record"} /\ row' \in Rows
      BY <1>4 DEF AfterMake, Phases, RecordingOK
    <2>2. RecordingOK' /\ LockKept'
      BY <1>1, <1>2, <1>4, <2>1, GoesKeeps
    <2>3. /\ prg' = B /\ prg' \in Builds /\ labels' \in Builds
          /\ labels' = B \/ (prg = B /\ labels' = labels)
      BY <1>2, <1>4, MakesBuilds DEF B
    <2>4. BuiltOK'
      BY <1>4, <2>3 DEF BuiltOK
    <2>5. Found'
      <3> SUFFICES ASSUME Undisturbed' PROVE FirstSteps' /\ ToolsFound' /\ RowFound'
        BY DEF Found
      <3>1. Undisturbed /\ B' = B /\ Both' = Both /\ torn' = torn /\ moved' = moved /\ step' = AfterMake /\ who' = who
        BY <1>1, <1>4 DEF Undisturbed, Goes, B, Both, tree
      <3>2. FirstSteps /\ ToolsFound /\ RowFound
        BY <3>1 DEF Found
      <3>3. FirstSteps'
        BY <1>2, <2>3, <3>1, <3>2 DEF FirstSteps, AfterMake, RecordingOK, Tools
      <3>4. B # Absent
        BY <1>2, BuildIsBuild DEF B, TreeOK
      <3>5. ToolsFound'
        BY <1>2, <2>3, <3>1, <3>2, <3>4 DEF ToolsFound, FirstSteps, AfterMake, RecordingOK, Tools
      <3>6. RowFound'
        BY <1>1, <1>2, <1>4, <3>1, <3>2 DEF RowFound, FirstSteps, AfterMake, RecordingOK, Tools, tree
      <3>7. QED
        BY <3>3, <3>5, <3>6
    <2>6. QED
      BY <1>1, <2>2, <2>4, <2>5
  <1>5. QED
    BY <1>3, <1>4 DEF MakeChecked

LEMMA MakeUncheckedKeeps == IInv /\ MakeUnchecked => IInv'
  <1> SUFFICES ASSUME IInv, MakeUnchecked PROVE IInv'
    OBVIOUS
  <1> USE DEF IInv
  <1>1. TreeOK' /\ RowOfOneBuild' /\ UNCHANGED <<tree, others>>
    BY LastKept DEF MakeUnchecked, TreeOK, tree
  <1>2. step = "make" /\ who = "fe_ops" /\ asked.knobs \in Knobs
    BY DEF MakeUnchecked, LockKept
  <1>3. prg' \in Builds /\ labels' \in Builds
    BY <1>2, MakesBuilds, MakeFailsBuilds DEF MakeUnchecked, BuiltOK, built
  <1>4. CASE Ends
    BY <1>1, <1>3, <1>4, EndsKeeps DEF BuiltOK
  <1>5. CASE prg' # Absent /\ Goes("read labels", who) /\ UNCHANGED <<read, row>>
    <2>1. "read labels" \in Phases \ {"idle"} /\ who \in Tools \cup {"record"} /\ row' \in Rows
      BY <1>5 DEF Phases, RecordingOK
    <2>2. RecordingOK' /\ LockKept'
      BY <1>1, <1>2, <1>5, <2>1, GoesKeeps
    <2>3. BuiltOK'
      BY <1>3, <1>5 DEF BuiltOK
    <2>4. Found'
      <3> SUFFICES ASSUME Undisturbed' PROVE FirstSteps' /\ ToolsFound' /\ RowFound'
        BY DEF Found
      <3>1. /\ Undisturbed /\ B' = B /\ Both' = Both /\ torn' = torn /\ moved' = moved
            /\ step' = "read labels" /\ who' = who /\ row' = row /\ work' = work
        BY <1>1, <1>5 DEF Undisturbed, Goes, B, Both, tree
      <3>2. FirstSteps /\ ToolsFound /\ RowFound /\ B # Absent
        BY <1>2, <3>1, BuildIsBuild DEF Found, B, TreeOK
      <3>3. prg = Absent /\ ~Refused
        BY <1>2, <3>1, <3>2 DEF ToolsFound, Undisturbed, Refused
      <3>4. ~MakeFails(asked.knobs)
        BY <1>5, <3>3, MakeFailsBuilds
      <3>5. prg' = B /\ labels' = B
        BY <1>2, <3>2, <3>3, <3>4, MakesBuilds DEF MakeUnchecked, B
      <3>6. FirstSteps' /\ ToolsFound'
        BY <1>2, <3>1, <3>5 DEF FirstSteps, ToolsFound
      <3>7. RowFound'
        BY <1>2, <3>1, <3>2 DEF RowFound
      <3>8. QED
        BY <3>6, <3>7
    <2>5. QED
      BY <1>1, <2>2, <2>3, <2>4
  <1>6. QED
    BY <1>4, <1>5 DEF MakeUnchecked

LEMMA MakeCleanKeeps == IInv /\ MakeClean => IInv'
  <1> SUFFICES ASSUME IInv, MakeClean PROVE IInv'
    OBVIOUS
  <1> USE DEF IInv
  <1>1. /\ TreeOK' /\ RowOfOneBuild' /\ UNCHANGED <<tree, others, row, read>>
        /\ step = "clean" /\ Goes("make", who)
    BY LastKept DEF MakeClean, TreeOK, tree
  <1>2. "make" \in Phases \ {"idle"} /\ who \in Tools \cup {"record"} /\ row' \in Rows
    BY <1>1 DEF Phases, RecordingOK
  <1>3. RecordingOK' /\ LockKept'
    BY <1>1, <1>2, GoesKeeps
  <1>4. BuiltOK'
    BY <1>1, AbsentIsBuild DEF MakeClean, Cleans, BuiltOK, built
  <1>5. Found'
    <2> SUFFICES ASSUME Undisturbed' PROVE FirstSteps' /\ ToolsFound' /\ RowFound'
      BY DEF Found
    <2>1. /\ Undisturbed /\ B' = B /\ Both' = Both /\ torn' = torn /\ moved' = moved
          /\ step' = "make" /\ who' = who /\ row' = row /\ work' = work
      BY <1>1 DEF Undisturbed, Goes, B, Both, tree
    <2>2. FirstSteps /\ ToolsFound /\ RowFound
      BY <2>1 DEF Found
    <2>3. who # "record" /\ prg' = Absent /\ labels' = Absent
      BY <1>1, <2>1, <2>2 DEF ToolsFound, MakeClean, Refused, Undisturbed, Cleans
    <2>4. FirstSteps' /\ ToolsFound'
      BY <2>1, <2>3 DEF FirstSteps, ToolsFound
    <2>5. RowFound'
      BY <1>1, <2>1, <2>2, <2>3 DEF RowFound
    <2>6. QED
      BY <2>4, <2>5
  <1>6. QED
    BY <1>1, <1>3, <1>4, <1>5

LEMMA ReadSizesKeeps == IInv /\ ReadSizes => IInv'
  <1> SUFFICES ASSUME IInv, ReadSizes PROVE IInv'
    OBVIOUS
  <1> USE DEF IInv
  <1>1. /\ TreeOK' /\ RowOfOneBuild' /\ UNCHANGED <<tree, built, others, read>>
        /\ step = "sizes" /\ Goes("sha", who)
    BY LastKept DEF ReadSizes, TreeOK, tree
  <1>2. "sha" \in Phases \ {"idle"} /\ who \in Tools \cup {"record"}
    BY DEF Phases, RecordingOK
  <1>3. row' \in Rows /\ row'.sizes = labels
    BY DEF ReadSizes, Rows, RecordingOK, BuiltOK
  <1>4. RecordingOK' /\ LockKept'
    BY <1>1, <1>2, <1>3, GoesKeeps
  <1>5. BuiltOK'
    BY <1>1 DEF BuiltOK, built
  <1>6. Found'
    <2> SUFFICES ASSUME Undisturbed' PROVE FirstSteps' /\ ToolsFound' /\ RowFound'
      BY DEF Found
    <2>1. /\ Undisturbed /\ B' = B /\ torn' = torn /\ moved' = moved /\ step' = "sha" /\ who' = who
      BY <1>1 DEF Undisturbed, Goes, B, tree
    <2>2. FirstSteps /\ ToolsFound /\ RowFound
      BY <2>1 DEF Found
    <2>3. FirstSteps' /\ ToolsFound'
      BY <1>1, <2>1, <2>2 DEF FirstSteps, ToolsFound
    <2>4. RowFound'
      BY <1>1, <1>3, <2>1, <2>2 DEF RowFound, FirstSteps
    <2>5. QED
      BY <2>3, <2>4
  <1>7. QED
    BY <1>1, <1>4, <1>5, <1>6

LEMMA ReadShaKeeps == IInv /\ ReadSha => IInv'
  <1> SUFFICES ASSUME IInv, ReadSha PROVE IInv'
    OBVIOUS
  <1> USE DEF IInv
  <1>1. /\ TreeOK' /\ RowOfOneBuild' /\ UNCHANGED <<tree, built, others, read>>
        /\ step = "sha" /\ Goes("status", who)
    BY LastKept DEF ReadSha, TreeOK, tree
  <1>2. "status" \in Phases \ {"idle"} /\ who \in Tools \cup {"record"}
    BY DEF Phases, RecordingOK
  <1>3. row' \in Rows /\ row'.sizes = row.sizes /\ row'.sha = head
    BY DEF ReadSha, Rows, RecordingOK, TreeOK
  <1>4. RecordingOK' /\ LockKept'
    BY <1>1, <1>2, <1>3, GoesKeeps
  <1>5. BuiltOK'
    BY <1>1 DEF BuiltOK, built
  <1>6. Found'
    <2> SUFFICES ASSUME Undisturbed' PROVE FirstSteps' /\ ToolsFound' /\ RowFound'
      BY DEF Found
    <2>1. Undisturbed /\ B' = B /\ torn' = torn /\ head' = head /\ step' = "status" /\ who' = who
      BY <1>1 DEF Undisturbed, Goes, B, tree
    <2>2. FirstSteps /\ ToolsFound /\ RowFound
      BY <2>1 DEF Found
    <2>3. FirstSteps' /\ ToolsFound'
      BY <1>1, <1>3, <2>1, <2>2 DEF FirstSteps, ToolsFound
    <2>4. RowFound'
      BY <1>1, <1>3, <2>1, <2>2 DEF RowFound, FirstSteps
    <2>5. QED
      BY <2>3, <2>4
  <1>7. QED
    BY <1>1, <1>4, <1>5, <1>6

(***************************************************************************)
(* A tree without changes is the commit that HEAD names now.                *)
(***************************************************************************)
LEMMA ReadDirtyKeeps == IInv /\ ReadDirty => IInv'
  <1> SUFFICES ASSUME IInv, ReadDirty PROVE IInv'
    OBVIOUS
  <1> USE DEF IInv
  <1>1. /\ TreeOK' /\ RowOfOneBuild' /\ UNCHANGED <<tree, built, others, read>>
        /\ step = "status" /\ GoesToNextTool
    BY LastKept DEF ReadDirty, TreeOK, tree
  <1>2. /\ row' \in Rows /\ row'.sizes = row.sizes
        /\ row'.sha = row.sha /\ row'.dirty = (head # work \/ csvChanged)
    BY DEF ReadDirty, Rows, RecordingOK, TreeOK
  <1>3. RecordingOK' /\ LockKept'
    BY <1>1, <1>2, GoesKeeps, NextTool DEF Phases
  <1>4. BuiltOK'
    BY <1>1 DEF BuiltOK, built
  <1>5. Found'
    <2> SUFFICES ASSUME Undisturbed' PROVE FirstSteps' /\ ToolsFound' /\ RowFound'
      BY DEF Found
    <2>1. /\ Undisturbed /\ B' = B /\ torn' = torn /\ moved' = moved /\ work' = work
      BY <1>1, NextTool DEF Undisturbed, B, tree
    <2>2. FirstSteps /\ ToolsFound /\ RowFound
      BY <2>1 DEF Found
    <2>3. who = "record" /\ step' = "clean" /\ who' = "scalarmult"
      BY <1>1, <2>1, <2>2, NextTool DEF FirstSteps, Undisturbed
    <2>4. FirstSteps' /\ ToolsFound'
      BY <2>3 DEF FirstSteps, ToolsFound
    <2>5. row'.dirty \/ moved' \/ row'.sha = work'
      BY <1>1, <1>2, <2>1, <2>2 DEF FirstSteps
    <2>6. RowFound'
      BY <1>1, <1>2, <2>1, <2>2, <2>3, <2>5 DEF RowFound
    <2>7. QED
      BY <2>4, <2>6
  <1>6. QED
    BY <1>1, <1>3, <1>4, <1>5

LEMMA ReadLabelsKeeps == IInv /\ ReadLabels => IInv'
  <1> SUFFICES ASSUME IInv, ReadLabels PROVE IInv'
    OBVIOUS
  <1> USE DEF IInv
  <1>1. /\ TreeOK' /\ RowOfOneBuild' /\ UNCHANGED <<tree, built, others, row>>
        /\ step = "read labels" /\ read' = labels /\ Goes("measure", who)
    BY LastKept DEF ReadLabels, TreeOK, tree
  <1>2. "measure" \in Phases \ {"idle"} /\ who \in Tools \cup {"record"} /\ row' \in Rows
    BY <1>1 DEF Phases, RecordingOK
  <1>3. RecordingOK' /\ LockKept'
    BY <1>1, <1>2, GoesKeeps
  <1>4. BuiltOK'
    BY <1>1 DEF BuiltOK, built
  <1>5. Found'
    <2> SUFFICES ASSUME Undisturbed' PROVE FirstSteps' /\ ToolsFound' /\ RowFound'
      BY DEF Found
    <2>1. /\ Undisturbed /\ B' = B /\ Both' = Both /\ torn' = torn /\ moved' = moved /\ work' = work
          /\ step' = "measure" /\ who' = who /\ row' = row /\ prg' = prg
      BY <1>1 DEF Undisturbed, Goes, B, Both, tree, built
    <2>2. FirstSteps /\ ToolsFound /\ RowFound
      BY <2>1 DEF Found
    <2>3. FirstSteps' /\ ToolsFound'
      BY <1>1, <2>1, <2>2 DEF FirstSteps, ToolsFound
    <2>4. RowFound'
      BY <1>1, <2>1, <2>2 DEF RowFound
    <2>5. QED
      BY <2>3, <2>4
  <1>6. QED
    BY <1>1, <1>3, <1>4, <1>5

LEMMA MeasureKeeps == IInv /\ Measure => IInv'
  <1> SUFFICES ASSUME IInv, Measure PROVE IInv'
    OBVIOUS
  <1> USE DEF IInv
  <1>1. /\ TreeOK' /\ RowOfOneBuild' /\ UNCHANGED <<tree, built, others>>
        /\ step = "measure" /\ GoesToNextTool /\ read' = Absent
    BY LastKept DEF Measure, TreeOK, tree
  <1>2. /\ row'.sizes = row.sizes /\ row'.sha = row.sha /\ row'.dirty = row.dirty
        /\ row'.figure = [row.figure EXCEPT ![who] = [program |-> prg, labels |-> read]]
    BY DEF Measure, Rows, RecordingOK
  <1>3. row' \in Rows
    <2>1. [program |-> prg, labels |-> read] \in Figures
      BY DEF Figures, BuiltOK
    <2>2. row.figure \in [Tools -> Figures]
      BY DEF RecordingOK, Rows
    <2>3. row'.figure \in [Tools -> Figures]
      BY <1>2, <2>1, <2>2
    <2>4. row' = [row EXCEPT !.figure = row'.figure]
      BY <1>2 DEF Measure, Rows, RecordingOK
    <2>5. QED
      BY <2>3, <2>4 DEF Rows, RecordingOK
  <1>4. RecordingOK' /\ LockKept'
    BY <1>1, <1>3, GoesKeeps, NextTool DEF Phases
  <1>5. BuiltOK'
    BY <1>1, AbsentIsBuild DEF BuiltOK, built
  <1>6. Found'
    <2> SUFFICES ASSUME Undisturbed' PROVE FirstSteps' /\ ToolsFound' /\ RowFound'
      BY DEF Found
    <2>1. /\ Undisturbed /\ B' = B /\ Both' = Both /\ torn' = torn /\ moved' = moved /\ work' = work
      BY <1>1, NextTool DEF Undisturbed, B, Both, tree
    <2>2. FirstSteps /\ ToolsFound /\ RowFound
      BY <2>1 DEF Found
    <2>3. \/ who = "scalarmult" /\ step' = "clean" /\ who' = "fe_ops"
          \/ who = "fe_ops" /\ step' = "append" /\ who' = "record"
      BY <1>1, <2>1, <2>2, NextTool DEF ToolsFound, Undisturbed
    <2>4. row'.figure[who] = Both
      BY <1>1, <1>2, <2>2, <2>3 DEF ToolsFound, Both, RecordingOK, Rows, Tools
    <2>5. who = "fe_ops" => row'.figure["scalarmult"] = Both
      BY <1>1, <1>2, <2>2 DEF RowFound, RecordingOK, Rows, Tools
    <2>6. FirstSteps' /\ ToolsFound'
      BY <2>3 DEF FirstSteps, ToolsFound
    <2>7. RowFound'
      BY <1>1, <1>2, <2>1, <2>2, <2>3, <2>4, <2>5 DEF RowFound
    <2>8. QED
      BY <2>6, <2>7
  <1>7. QED
    BY <1>1, <1>4, <1>5, <1>6

LEMMA FailsKeeps == IInv /\ Fails => IInv'
  <1> SUFFICES ASSUME IInv, Fails PROVE IInv'
    OBVIOUS
  <1> USE DEF IInv
  <1>1. TreeOK' /\ RowOfOneBuild' /\ UNCHANGED <<tree, built, others>> /\ Ends
    BY LastKept DEF Fails, TreeOK, tree
  <1>2. QED
    BY <1>1, EndsKeeps DEF BuiltOK, built

(***************************************************************************)
(* The row: every clause of the property was found on the way.              *)
(***************************************************************************)
LEMMA AppendRowKeeps == IInv /\ AppendRow => IInv'
  <1> SUFFICES ASSUME IInv, AppendRow PROVE IInv'
    OBVIOUS
  <1> USE DEF IInv
  <1>1. /\ UNCHANGED <<head, work, built, others>> /\ Ends /\ step = "append" /\ csvChanged' = TRUE
        /\ last' = [row |-> row, asked |-> asked, edited |-> edits > 0, torn |-> torn,
                      moved |-> moved, made |-> made]
    BY DEF AppendRow
  <1>2. TreeOK' /\ RecordingOK' /\ LockKept' /\ Found' /\ BuiltOK'
    BY <1>1, EndsKeeps DEF TreeOK, BuiltOK, built
  <1>3. RowOfOneBuild'
    <2>1. /\ last'.row = row /\ last'.asked = asked /\ last'.torn = torn /\ last'.moved = moved
          /\ last'.edited = (edits > 0)
      BY <1>1
    <2>2. work \in Sources /\ edits \in Nat
      BY DEF TreeOK, RecordingOK
    <2>3. CASE ~asked.via \/ edits > 0
      BY <2>1, <2>3 DEF RowOfOneBuild
    <2>4. CASE asked.via /\ ~(edits > 0)
      <3>1. RowFound
        BY <2>2, <2>4 DEF Found, Undisturbed
      <3>2. /\ \A t \in Tools : row.figure[t] = [program |-> B, labels |-> B]
            /\ torn \/ row.sizes = B
            /\ row.dirty \/ moved \/ row.sha = work
        BY <1>1, <3>1 DEF RowFound, Both, Tools
      <3> HIDE DEF IInv
      <3>3. QED
        BY <2>1, <2>2, <3>2 DEF RowOfOneBuild, Measured, B
    <2>5. QED
      BY <2>3, <2>4
  <1>4. QED
    BY <1>2, <1>3

-----------------------------------------------------------------------------
LEMMA NextIInv == IInv /\ [Next]_vars => IInv'
  <1>1. IInv /\ Record => IInv'
    BY StartKeeps, MakeCheckedKeeps, MakeUncheckedKeeps, MakeCleanKeeps, ReadSizesKeeps,
       ReadShaKeeps, ReadDirtyKeeps, ReadLabelsKeeps, MeasureKeeps, FailsKeeps, AppendRowKeeps
    DEF Record
  <1>2. ASSUME IInv, UNCHANGED vars PROVE IInv'
    <2>1. UNCHANGED <<tree, built, lock, others, asked, step, who, read, row, bookkept, last>>
      BY <1>2 DEF vars
    <2>2. TreeOK' /\ BuiltOK' /\ RecordingOK'
      BY <1>2, <2>1 DEF IInv, TreeOK, BuiltOK, RecordingOK, tree, built, others, bookkept
    <2>3. LockKept'
      BY <1>2, <2>1 DEF IInv, LockKept, others
    <2>4. B' = B /\ Both' = Both /\ Undisturbed' = Undisturbed /\ torn' = torn /\ moved' = moved
      BY <2>1 DEF B, Both, Undisturbed, tree, bookkept
    <2>5. FirstSteps' = FirstSteps
      BY <2>1, <2>4 DEF FirstSteps, built, tree
    <2>6. ToolsFound' = ToolsFound
      BY <2>1, <2>4 DEF ToolsFound, built
    <2>7. RowFound' = RowFound
      BY <2>1, <2>4 DEF RowFound, tree
    <2>8. RowOfOneBuild'
      BY <1>2, <2>1, LastKept DEF IInv
    <2>9. QED
      BY <1>2, <2>2, <2>3, <2>4, <2>5, <2>6, <2>7, <2>8 DEF IInv, Found
  <1>3. QED
    BY <1>1, <1>2, OthersKeep DEF Next

(***************************************************************************)
(* bench_record.py: a row appended by `make bench-record` without an edit   *)
(* meanwhile has every figure and the sizes of one build, with the knobs    *)
(* asked for, and is marked dirty or names the commit it was built from.    *)
(* Excepted are labels that a killed make had left old, and earlier edits   *)
(* committed between rev-parse and status.                                  *)
(***************************************************************************)
THEOREM RowIsOfOneBuild == Spec => []RowOfOneBuild
  <1>1. IInv => RowOfOneBuild
    BY DEF IInv
  <1>2. QED
    BY <1>1, InitIInv, NextIInv, PTL DEF Spec

(***************************************************************************)
(* The lock: while a recording through make is under way, no other make of  *)
(* the tree is.                                                             *)
(***************************************************************************)
THEOREM LockIsKept == Spec => []LockKept
  <1>1. IInv => LockKept
    BY DEF IInv
  <1>2. QED
    BY <1>1, InitIInv, NextIInv, PTL DEF Spec

-----------------------------------------------------------------------------
(***************************************************************************)
(* The timing brackets.  The instructions of a measurement are laid out in  *)
(* parts, the brackets, the scaffold and the body, and the invariant says   *)
(* what holds before each instruction of each part: AtPart(m, s, k).  What  *)
(* the timers hold is the window counted so far (Sum = window), which is    *)
(* the instructions since it opened and the cycles stolen (Running); a body *)
(* is opaque but for the depth of its statuses on the stack (Nested).       *)
(***************************************************************************)

(***************************************************************************)
(* The plans of the tools.                                                  *)
(***************************************************************************)
Forms == {"thunk", "subroutine", "jiffies", "jiffy_thunk", "three_calls"}

Looped(m) == m.form \in {"thunk", "jiffy_thunk"}

Measurements ==
  {m \in [form : Forms, routine : Routines, n : Nat \ {0}, blank : BOOLEAN] :
     /\ ~Looped(m) => m.n = 1
     /\ ~CountsCycles(m) => ~m.blank}

\* A measurement as the tools ask for it is one of these.
LEMMA MeasurementsMade ==
  ASSUME NEW form \in Forms, NEW routine \in Routines, NEW n \in Nat \ {0}, NEW blank \in BOOLEAN,
         form \in {"thunk", "jiffy_thunk"} \/ n = 1,
         form \in {"jiffies", "jiffy_thunk"} => ~blank
  PROVE  M(form, routine, n, blank) \in Measurements
BY DEF M, Measurements, Looped, CountsCycles, Forms

LEMMA FeOpsMade == ASSUME NEW blank \in BOOLEAN PROVE FeOps(blank) \in Seq(Measurements)
<1>1. \A r \in Routines : Single(r) \in Measurements
  BY DEF Single, M, Measurements, Looped, CountsCycles, Forms
<1>2. \A r \in Routines : Batch(r, blank) \in Measurements
  BY MeasurementsMade, CycleAssumption DEF Batch, Forms
<1> QED BY <1>1, <1>2 DEF FeOps, Routines

\* Every plan is a sequence of measurements.
LEMMA PlansMade == \A tool \in Plans : tool \in Seq(Measurements)
<1>1. \A b \in BOOLEAN : FeOps(b) \in Seq(Measurements)
  BY FeOpsMade
<1>2. \A b \in BOOLEAN : BenchX25519(b) \in Seq(Measurements)
  <2>1. \A b \in BOOLEAN : M("subroutine", "x25519_base", 1, b) \in Measurements
    BY MeasurementsMade DEF Forms, Routines
  <2> QED BY <2>1 DEF BenchX25519
<1>3. BenchFeMul \in Seq(Measurements) /\ AroundMasked \in Seq(Measurements)
  <2> DEFINE J(r) == M("jiffies", r, 1, FALSE)
  <2>1. \A r \in Routines : J(r) \in Measurements
    BY DEF M, Measurements, Looped, CountsCycles, Forms
  <2>2. BenchFeMul = <<J("fe25519_mul"), J("fe25519_mul"), J("fe25519_sqr"), J("fe25519_sqr")>>
    BY DEF BenchFeMul
  <2>3. AroundMasked = <<J("x25519_base")>>
    BY DEF AroundMasked
  <2> HIDE DEF J
  <2> QED BY <2>1, <2>2, <2>3 DEF Routines
<1>4. CtGuard \in Seq(Measurements)
  <2> DEFINE T == M("jiffy_thunk", "fe25519_mul", BatchN, FALSE)
  <2>1. T \in Measurements
    BY CycleAssumption DEF M, Measurements, Looped, CountsCycles, Forms, Routines
  <2>2. CtGuard = <<T, T>>
    BY DEF CtGuard
  <2> HIDE DEF T
  <2> QED BY <2>1, <2>2
<1>5. OptVic \in Seq(Measurements)
  <2> DEFINE T == M("three_calls", "fe25519_mul", 1, FALSE)
             U == M("three_calls", "fe25519_mul", 1, TRUE)
  <2>1. T \in Measurements /\ U \in Measurements
    BY DEF M, Measurements, Looped, CountsCycles, Forms, Routines
  <2>2. OptVic = <<T, U>>
    BY DEF OptVic
  <2> HIDE DEF T, U
  <2> QED BY <2>1, <2>2
<1> QED BY <1>1, <1>2, <1>3, <1>4, <1>5 DEF Plans

(***************************************************************************)
(* The parts of a measurement: each is in one of its calls, after a number  *)
(* of instructions that depends on the body only by its length.             *)
(***************************************************************************)
Length(m) == Len(Body[m.routine])

Parts(m) ==
  (IF m.blank THEN {"blank", "unblank"} ELSE {}) \cup
  CASE m.form = "thunk"       -> {"start", "ldx", "jsr", "body", "again", "stop"}
    [] m.form = "subroutine"  -> {"start", "jsr", "body", "stop"}
    [] m.form = "three_calls" -> {"start", "body", "stop"}
    [] m.form = "jiffies"     -> {"zero", "body", "snap"}
    [] OTHER                  -> {"zero", "ldx", "jsr", "body", "again", "snap"}

Part(m, s) ==
  CASE s \in {"blank"} -> <<"vic_blank">>
    [] s = "start"   -> BenchCyclesStart
    [] s = "ldx"     -> <<"ldx">>
    [] s = "jsr"     -> <<"jsr">>
    [] s = "body"    -> Body[m.routine]
    [] s = "again"   -> <<"dec", "bne">>
    [] s = "stop"    -> BenchCyclesStop
    [] s = "unblank" -> <<"vic_unblank">>
    [] s = "zero"    -> BenchStart
    [] OTHER         -> BenchStop

Blanking(m) == IF m.blank THEN 1 ELSE 0

CallOf(m, s) ==
  CASE m.form = "three_calls" ->
         (CASE s = "blank" -> 1 [] s = "start" -> Blanking(m) + 1 [] s = "body" -> Blanking(m) + 2
            [] s = "stop" -> Blanking(m) + 3 [] OTHER -> 5)
    [] m.form = "jiffies" -> (CASE s = "zero" -> 1 [] s = "body" -> 2 [] OTHER -> 3)
    [] OTHER -> 1

Off(m, s) ==
  CASE m.form = "thunk" ->
         (CASE s = "blank" -> 0 [] s = "start" -> Blanking(m) [] s = "ldx" -> Blanking(m) + 10
            [] s = "jsr" -> Blanking(m) + 11 [] s = "body" -> Blanking(m) + 12
            [] s = "again" -> Blanking(m) + 12 + Length(m) [] s = "stop" -> Blanking(m) + 14 + Length(m)
            [] OTHER -> Blanking(m) + 19 + Length(m))
    [] m.form = "subroutine" ->
         (CASE s = "blank" -> 0 [] s = "start" -> Blanking(m) [] s = "jsr" -> Blanking(m) + 10
            [] s = "body" -> Blanking(m) + 11 [] s = "stop" -> Blanking(m) + 11 + Length(m)
            [] OTHER -> Blanking(m) + 16 + Length(m))
    [] m.form = "jiffy_thunk" ->
         (CASE s = "zero" -> 0 [] s = "ldx" -> 5 [] s = "jsr" -> 6 [] s = "body" -> 7
            [] s = "again" -> 7 + Length(m) [] OTHER -> 9 + Length(m))
    [] OTHER -> 0

Instructions ==
  BodyOps \cup {"vic_blank", "vic_unblank", "ldx", "jsr", "dec", "bne", "zero_high", "zero_low",
    "snap_high", "snap_low", "save_p", "stop_A", "stop_B", "mask_ICR", "ack_ICR", "latch_A",
    "latch_B", "start_A", "start_B", "count_low", "count_high", "restore_p"}

\* The instructions of d are those of c from the (o+1)st on.
Joined(c, d, o) ==
  /\ o \in Nat /\ o + Len(d) <= Len(c)
  /\ \A k \in 1 .. Len(d) : c[o + k] = d[k]

LEMMA JoinedWhole == ASSUME NEW c \in Seq(Instructions) PROVE Joined(c, c, 0)
BY DEF Joined

LEMMA JoinedLeft ==
  ASSUME NEW c \in Seq(Instructions), NEW d \in Seq(Instructions), NEW s \in Seq(Instructions), NEW o, Joined(c, s, o)
  PROVE  Joined(c \o d, s, o)
BY DEF Joined

LEMMA JoinedRight ==
  ASSUME NEW c \in Seq(Instructions), NEW d \in Seq(Instructions)
  PROVE  Joined(c \o d, d, Len(c))
BY DEF Joined

LEMMA JoinedBoth ==
  ASSUME NEW c \in Seq(Instructions), NEW d \in Seq(Instructions), NEW s \in Seq(Instructions), NEW o,
         Joined(d, s, o)
  PROVE  Joined(c \o d, s, Len(c) + o)
BY DEF Joined

LEMMA BodyType ==
  ASSUME NEW r \in Routines
  PROVE  Body[r] \in Seq(BodyOps) /\ Len(Body[r]) \in Nat \ {0} /\ Balanced(Body[r])
<1>1. Body[r] \in Seq(BodyOps) /\ Body[r] # <<>> /\ Balanced(Body[r])
  BY BodyAssumption
<1> QED BY <1>1
LEMMA Concatenated ==
  ASSUME NEW c \in Seq(Instructions), NEW d \in Seq(Instructions)
  PROVE  c \o d \in Seq(Instructions) /\ Len(c \o d) = Len(c) + Len(d)
OBVIOUS

LEMMA BracketTypes ==
  /\ BenchCyclesStart \in Seq(Instructions) /\ Len(BenchCyclesStart) = 10
  /\ BenchCyclesStop \in Seq(Instructions) /\ Len(BenchCyclesStop) = 5
  /\ BenchStart \in Seq(Instructions) /\ Len(BenchStart) = 5
  /\ BenchStop \in Seq(Instructions) /\ Len(BenchStop) = 5
<1>1. BenchCyclesStart \in Seq(Instructions) /\ Len(BenchCyclesStart) = 10
  BY DEF BenchCyclesStart, Instructions, BodyOps
<1>2. BenchCyclesStop \in Seq(Instructions) /\ Len(BenchCyclesStop) = 5
  BY DEF BenchCyclesStop, Instructions, BodyOps
<1>3. BenchStart \in Seq(Instructions) /\ Len(BenchStart) = 5
  BY DEF BenchStart, Instructions, BodyOps
<1>4. BenchStop \in Seq(Instructions) /\ Len(BenchStop) = 5
  BY DEF BenchStop, Instructions, BodyOps
<1> QED BY <1>1, <1>2, <1>3, <1>4

LEMMA BodyTyped ==
  ASSUME NEW r \in Routines
  PROVE  Body[r] \in Seq(Instructions) /\ Len(Body[r]) \in Nat \ {0}
<1>1. \A op \in BodyOps : op \in Instructions
  BY DEF Instructions
<1> QED BY <1>1, BodyType

\* The instruction before the bracket of a blanked measurement, or none.
Before(m) == If(m.blank, <<"vic_blank">>)
Behind(m) == If(m.blank, <<"vic_unblank">>)

LEMMA BlankingTypes ==
  ASSUME NEW m \in Measurements
  PROVE  /\ Before(m) \in Seq(Instructions) /\ Len(Before(m)) = Blanking(m)
         /\ Behind(m) \in Seq(Instructions) /\ Len(Behind(m)) = Blanking(m)
         /\ Blanking(m) \in {0, 1} /\ m.blank \in BOOLEAN
         /\ m.blank => Before(m) = <<"vic_blank">> /\ Behind(m) = <<"vic_unblank">>
<1>1. m.blank \in BOOLEAN
  BY DEF Measurements
<1>2. CASE m.blank
  BY <1>2 DEF Before, Behind, Blanking, If, Instructions
<1>3. CASE ~m.blank
  <2>1. Before(m) = <<>> /\ Behind(m) = <<>> /\ Blanking(m) = 0
    BY <1>3 DEF Before, Behind, Blanking, If
  <2>2. <<>> \in Seq(Instructions) /\ Len(<<>>) = 0
    OBVIOUS
  <2> QED BY <1>1, <1>3, <2>1, <2>2
<1> QED BY <1>1, <1>2, <1>3

LEMMA MeasurementFields ==
  ASSUME NEW m \in Measurements
  PROVE  /\ m.form \in Forms /\ m.routine \in Routines /\ m.n \in Nat \ {0} /\ m.blank \in BOOLEAN
         /\ ~Looped(m) => m.n = 1
         /\ ~CountsCycles(m) => ~m.blank
BY DEF Measurements

\* The loop of a thunk, taken apart.
LEMMA LoopParts ==
  ASSUME NEW m \in Measurements
  PROVE  /\ Loop(m) \in Seq(Instructions) /\ Len(Loop(m)) = Length(m) + 4
         /\ Length(m) \in Nat \ {0}
         /\ Joined(Loop(m), <<"ldx">>, 0) /\ Joined(Loop(m), <<"jsr">>, 1)
         /\ Joined(Loop(m), Body[m.routine], 2)
         /\ Joined(Loop(m), <<"dec", "bne">>, 2 + Length(m))
<1> DEFINE entry == <<"ldx", "jsr">>
           tail == <<"dec", "bne">>
           b    == Body[m.routine]
<1>1. entry \in Seq(Instructions) /\ tail \in Seq(Instructions) /\ Len(entry) = 2 /\ Len(tail) = 2
  BY DEF Instructions
<1>2. b \in Seq(Instructions) /\ Len(b) \in Nat \ {0} /\ Len(b) = Length(m)
  BY BodyTyped, MeasurementFields DEF Length
<1>3. <<"ldx">> \in Seq(Instructions) /\ <<"jsr">> \in Seq(Instructions)
  BY DEF Instructions
<1>4. Joined(entry, <<"ldx">>, 0) /\ Joined(entry, <<"jsr">>, 1)
  BY DEF Joined
<1>5. (entry \o b) \in Seq(Instructions) /\ Len(entry \o b) = 2 + Len(b)
  BY <1>1, <1>2
<1>6. Loop(m) = (entry \o b) \o tail
  BY DEF Loop
<1> HIDE DEF entry, tail, b
<1>7. Joined(entry \o b, <<"ldx">>, 0) /\ Joined(entry \o b, <<"jsr">>, 1) /\ Joined(entry \o b, b, 2)
  BY <1>1, <1>2, <1>3, <1>4, JoinedLeft, JoinedRight
<1>8. Joined(Loop(m), <<"ldx">>, 0) /\ Joined(Loop(m), <<"jsr">>, 1) /\ Joined(Loop(m), b, 2)
  BY <1>1, <1>2, <1>3, <1>5, <1>6, <1>7, JoinedLeft
<1>9. Joined(Loop(m), tail, 2 + Length(m))
  BY <1>1, <1>2, <1>5, <1>6, JoinedRight
<1>10. Loop(m) \in Seq(Instructions) /\ Len(Loop(m)) = Length(m) + 4
  BY <1>1, <1>2, <1>5, <1>6
<1> QED BY <1>2, <1>8, <1>9, <1>10 DEF b, tail

(***************************************************************************)
(* Where the parts are.                                                     *)
(***************************************************************************)
Within(m, s) ==
  /\ CallOf(m, s) \in 1 .. Len(Calls(m))
  /\ Joined(Calls(m)[CallOf(m, s)], Part(m, s), Off(m, s))

LEMMA ThunkLayout ==
  ASSUME NEW m \in Measurements, m.form = "thunk"
  PROVE  /\ \A s \in Parts(m) : Within(m, s)
         /\ Calls(m)[1] \in Seq(Instructions)
         /\ Len(Calls(m)) = 1 /\ Len(Calls(m)[1]) = 19 + Length(m) + 2 * Blanking(m)
<1> DEFINE c1 == Before(m) \o BenchCyclesStart
           c2 == c1 \o Loop(m)
           c3 == c2 \o BenchCyclesStop
           c4 == c3 \o Behind(m)
<1>1. Calls(m) = <<c4>>
  BY DEF Calls, BatchThunk, Before, Behind
<1>a. /\ BenchCyclesStart \in Seq(Instructions) /\ Len(BenchCyclesStart) = 10
      /\ BenchCyclesStop \in Seq(Instructions) /\ Len(BenchCyclesStop) = 5
  BY BracketTypes
<1>b. /\ Before(m) \in Seq(Instructions) /\ Len(Before(m)) = Blanking(m)
      /\ Behind(m) \in Seq(Instructions) /\ Len(Behind(m)) = Blanking(m)
      /\ Blanking(m) \in {0, 1}
      /\ m.blank => Before(m) = <<"vic_blank">> /\ Behind(m) = <<"vic_unblank">>
  BY BlankingTypes
<1>c. Loop(m) \in Seq(Instructions) /\ Len(Loop(m)) = Length(m) + 4 /\ Length(m) \in Nat \ {0}
  BY LoopParts
<1>d. /\ Joined(Loop(m), <<"ldx">>, 0) /\ Joined(Loop(m), <<"jsr">>, 1)
      /\ Joined(Loop(m), Body[m.routine], 2)
      /\ Joined(Loop(m), <<"dec", "bne">>, 2 + Length(m))
  BY LoopParts
<1>2. c1 \in Seq(Instructions) /\ Len(c1) = Blanking(m) + 10
  <2>1. c1 \in Seq(Instructions) /\ Len(c1) = Len(Before(m)) + Len(BenchCyclesStart)
    BY <1>a, <1>b, Concatenated
  <2> HIDE DEF c1
  <2> QED BY <2>1, <1>a, <1>b
<1>3. c2 \in Seq(Instructions) /\ Len(c2) = Blanking(m) + Length(m) + 14
  <2>1. c2 \in Seq(Instructions) /\ Len(c2) = Len(c1) + Len(Loop(m))
    <3> HIDE DEF c1
    <3> QED BY <1>2, <1>c, Concatenated
  <2> HIDE DEF c2
  <2> QED BY <2>1, <1>2, <1>b, <1>c
<1>4. c3 \in Seq(Instructions) /\ Len(c3) = Blanking(m) + Length(m) + 19
  <2>1. c3 \in Seq(Instructions) /\ Len(c3) = Len(c2) + Len(BenchCyclesStop)
    <3> HIDE DEF c2
    <3> QED BY <1>3, <1>a, Concatenated
  <2>2. Len(BenchCyclesStop) = 5
    BY <1>a
  <2>3. Blanking(m) \in {0, 1} /\ Length(m) \in Nat
    BY <1>b, <1>c
  <2> HIDE DEF c2, c3
  <2> QED BY <2>1, <2>2, <2>3, <1>3
<1>5. c4 \in Seq(Instructions) /\ Len(c4) = 19 + Length(m) + 2 * Blanking(m)
  <2>1. c4 \in Seq(Instructions) /\ Len(c4) = Len(c3) + Len(Behind(m))
    <3> HIDE DEF c3
    <3> QED BY <1>4, <1>b, Concatenated
  <2> HIDE DEF c3, c4
  <2>2. Blanking(m) \in {0, 1} /\ Length(m) \in Nat
    BY <1>b, <1>c
  <2>3. Len(c4) = (Blanking(m) + Length(m) + 19) + Blanking(m)
    BY <2>1, <1>4, <1>b
  <2> QED BY <2>1, <2>2, <2>3
<1> USE <1>a, <1>b, <1>c
<1> DEFINE Here(d, o) == Joined(c4, d, o)
<1>6. ASSUME NEW d \in Seq(Instructions), NEW o, Joined(c3, d, o) PROVE Here(d, o)
  <2> HIDE DEF c3
  <2> QED BY <1>4, <1>6, JoinedLeft
<1>7. ASSUME NEW d \in Seq(Instructions), NEW o, Joined(c2, d, o) PROVE Here(d, o)
  <2>1. Joined(c3, d, o)
    <3> HIDE DEF c2
    <3> QED BY <1>3, <1>7, JoinedLeft
  <2> QED BY <2>1, <1>6
<1>8. ASSUME NEW d \in Seq(Instructions), NEW o, Joined(c1, d, o) PROVE Here(d, o)
  <2>1. Joined(c2, d, o)
    <3> HIDE DEF c1
    <3> QED BY <1>2, <1>8, JoinedLeft
  <2> QED BY <2>1, <1>7
<1>9. ASSUME NEW d \in Seq(Instructions), NEW o, Joined(Loop(m), d, o) PROVE Here(d, Blanking(m) + 10 + o)
  <2>1. Joined(c2, d, Len(c1) + o)
    <3> HIDE DEF c1
    <3> QED BY <1>2, <1>9, JoinedBoth
  <2> HIDE DEF c1, c2, Here
  <2> QED BY <2>1, <1>2, <1>7
<1>10. Here(BenchCyclesStart, Blanking(m))
  <2>1. Joined(c1, BenchCyclesStart, Blanking(m))
    BY JoinedRight
  <2> QED BY <2>1, <1>8
<1>11. Here(BenchCyclesStop, Blanking(m) + 14 + Length(m))
  <2>1. Joined(c3, BenchCyclesStop, Len(c2))
    <3> HIDE DEF c2
    <3> QED BY <1>3, JoinedRight
  <2>2. Here(BenchCyclesStop, Len(c2))
    BY <2>1, <1>6
  <2> HIDE DEF c2, Here
  <2> QED BY <2>2, <1>3
<1>12. Here(Behind(m), Blanking(m) + 19 + Length(m))
  <2>1. Joined(c4, Behind(m), Len(c3))
    <3> HIDE DEF c3
    <3> QED BY <1>4, JoinedRight
  <2> HIDE DEF c3
  <2> QED BY <2>1, <1>4
<1>13. Here(Before(m), 0)
  <2>1. Joined(c1, Before(m), 0)
    BY JoinedWhole, JoinedLeft
  <2> QED BY <2>1, <1>8
<1>14. <<"ldx">> \in Seq(Instructions) /\ <<"jsr">> \in Seq(Instructions) /\ <<"dec", "bne">> \in Seq(Instructions)
  BY DEF Instructions
<1>15. Body[m.routine] \in Seq(Instructions)
  BY BodyTyped, MeasurementFields
<1> HIDE DEF c4, Here
<1>16. /\ Here(<<"ldx">>, Blanking(m) + 10) /\ Here(<<"jsr">>, Blanking(m) + 11)
       /\ Here(Body[m.routine], Blanking(m) + 12) /\ Here(<<"dec", "bne">>, Blanking(m) + 12 + Length(m))
  <2>1. Here(<<"ldx">>, Blanking(m) + 10 + 0) /\ Here(<<"jsr">>, Blanking(m) + 10 + 1)
    BY <1>9, <1>14, <1>d
  <2>2. Here(Body[m.routine], Blanking(m) + 10 + 2)
    BY <1>9, <1>15, <1>d
  <2>3. Here(<<"dec", "bne">>, Blanking(m) + 10 + (2 + Length(m)))
    BY <1>9, <1>14, <1>d
  <2>4. Blanking(m) \in Nat /\ Length(m) \in Nat
    BY <1>b, <1>c
  <2>5. /\ Blanking(m) + 10 + 0 = Blanking(m) + 10 /\ Blanking(m) + 10 + 1 = Blanking(m) + 11
        /\ Blanking(m) + 10 + 2 = Blanking(m) + 12
        /\ Blanking(m) + 10 + (2 + Length(m)) = Blanking(m) + 12 + Length(m)
    BY <2>4
  <2> QED BY <2>1, <2>2, <2>3, <2>5, Zenon
<1>17. \A s \in Parts(m) : Here(Part(m, s), Off(m, s)) /\ CallOf(m, s) = 1
  <2> SUFFICES ASSUME NEW s \in Parts(m) PROVE Here(Part(m, s), Off(m, s)) /\ CallOf(m, s) = 1
    OBVIOUS
  <2>1. CallOf(m, s) = 1
    BY DEF CallOf
  <2>2. CASE s \in {"blank", "unblank"} /\ m.blank
    BY <2>1, <2>2, <1>12, <1>13, <1>b DEF Part, Off
  <2>3. CASE s \in {"start", "stop"}
    BY <2>1, <2>3, <1>10, <1>11 DEF Part, Off
  <2>4. CASE s \in {"ldx", "jsr", "body", "again"}
    BY <2>1, <2>4, <1>16 DEF Part, Off
  <2> QED BY <2>2, <2>3, <2>4 DEF Parts
<1>18. c4 = Calls(m)[1] /\ Len(Calls(m)) = 1
  BY <1>1
<1>19. \A s \in Parts(m) : Within(m, s)
  BY <1>17, <1>18 DEF Within, Here
<1> QED BY <1>5, <1>18, <1>19

LEMMA SubroutineLayout ==
  ASSUME NEW m \in Measurements, m.form = "subroutine"
  PROVE  /\ \A s \in Parts(m) : Within(m, s)
         /\ Calls(m)[1] \in Seq(Instructions)
         /\ Len(Calls(m)) = 1 /\ Len(Calls(m)[1]) = 16 + Length(m) + 2 * Blanking(m)
<1> DEFINE b  == Body[m.routine]
           c1 == Before(m) \o BenchCyclesStart
           c2 == c1 \o <<"jsr">>
           c3 == c2 \o b
           c4 == c3 \o BenchCyclesStop
           c5 == c4 \o Behind(m)
<1>1. Calls(m) = <<c5>>
  BY DEF Calls, BenchSubroutine, Before, Behind
<1>a. /\ BenchCyclesStart \in Seq(Instructions) /\ Len(BenchCyclesStart) = 10
      /\ BenchCyclesStop \in Seq(Instructions) /\ Len(BenchCyclesStop) = 5
  BY BracketTypes
<1>b. /\ Before(m) \in Seq(Instructions) /\ Len(Before(m)) = Blanking(m)
      /\ Behind(m) \in Seq(Instructions) /\ Len(Behind(m)) = Blanking(m)
      /\ Blanking(m) \in {0, 1}
      /\ m.blank => Before(m) = <<"vic_blank">> /\ Behind(m) = <<"vic_unblank">>
  BY BlankingTypes
<1>c. b \in Seq(Instructions) /\ Len(b) = Length(m) /\ Length(m) \in Nat \ {0}
  BY BodyTyped, MeasurementFields DEF Length
<1>d. <<"jsr">> \in Seq(Instructions) /\ Len(<<"jsr">>) = 1
  BY DEF Instructions
<1> HIDE DEF b
<1>2. c1 \in Seq(Instructions) /\ Len(c1) = Blanking(m) + 10
  <2>1. c1 \in Seq(Instructions) /\ Len(c1) = Len(Before(m)) + Len(BenchCyclesStart)
    BY <1>a, <1>b, Concatenated
  <2> HIDE DEF c1
  <2> QED BY <2>1, <1>a, <1>b
<1>3. c2 \in Seq(Instructions) /\ Len(c2) = Blanking(m) + 11
  <2>1. c2 \in Seq(Instructions) /\ Len(c2) = Len(c1) + Len(<<"jsr">>)
    <3> HIDE DEF c1
    <3> QED BY <1>2, <1>d, Concatenated
  <2> HIDE DEF c1, c2
  <2> QED BY <2>1, <1>2, <1>b
<1>4. c3 \in Seq(Instructions) /\ Len(c3) = Blanking(m) + 11 + Length(m)
  <2>1. c3 \in Seq(Instructions) /\ Len(c3) = Len(c2) + Len(b)
    <3> HIDE DEF c2
    <3> QED BY <1>3, <1>c, Concatenated
  <2> HIDE DEF c2, c3
  <2> QED BY <2>1, <1>3, <1>b, <1>c
<1>5. c4 \in Seq(Instructions) /\ Len(c4) = Blanking(m) + 16 + Length(m)
  <2>1. c4 \in Seq(Instructions) /\ Len(c4) = Len(c3) + Len(BenchCyclesStop)
    <3> HIDE DEF c3
    <3> QED BY <1>4, <1>a, Concatenated
  <2> HIDE DEF c3, c4
  <2> QED BY <2>1, <1>4, <1>a, <1>b, <1>c
<1>6. c5 \in Seq(Instructions) /\ Len(c5) = 16 + Length(m) + 2 * Blanking(m)
  <2>1. c5 \in Seq(Instructions) /\ Len(c5) = Len(c4) + Len(Behind(m))
    <3> HIDE DEF c4
    <3> QED BY <1>5, <1>b, Concatenated
  <2> HIDE DEF c4, c5
  <2>2. Blanking(m) \in {0, 1} /\ Length(m) \in Nat
    BY <1>b, <1>c
  <2>3. Len(c5) = (Blanking(m) + 16 + Length(m)) + Blanking(m)
    BY <2>1, <1>5, <1>b
  <2> QED BY <2>1, <2>2, <2>3
<1> DEFINE Here(d, o) == Joined(c5, d, o)
<1>7. ASSUME NEW d \in Seq(Instructions), NEW o, Joined(c4, d, o) PROVE Here(d, o)
  <2> HIDE DEF c4
  <2> QED BY <1>5, <1>7, <1>b, JoinedLeft
<1>8. ASSUME NEW d \in Seq(Instructions), NEW o, Joined(c3, d, o) PROVE Here(d, o)
  <2>1. Joined(c4, d, o)
    <3> HIDE DEF c3
    <3> QED BY <1>4, <1>8, <1>a, JoinedLeft
  <2> QED BY <2>1, <1>7
<1>9. ASSUME NEW d \in Seq(Instructions), NEW o, Joined(c2, d, o) PROVE Here(d, o)
  <2>1. Joined(c3, d, o)
    <3> HIDE DEF c2
    <3> QED BY <1>3, <1>9, <1>c, JoinedLeft
  <2> QED BY <2>1, <1>8
<1>10. ASSUME NEW d \in Seq(Instructions), NEW o, Joined(c1, d, o) PROVE Here(d, o)
  <2>1. Joined(c2, d, o)
    <3> HIDE DEF c1
    <3> QED BY <1>2, <1>10, <1>d, JoinedLeft
  <2> QED BY <2>1, <1>9
<1>11. Here(Before(m), 0) /\ Here(BenchCyclesStart, Blanking(m))
  <2>1. Joined(c1, Before(m), 0) /\ Joined(c1, BenchCyclesStart, Blanking(m))
    BY <1>a, <1>b, JoinedWhole, JoinedLeft, JoinedRight
  <2> QED BY <2>1, <1>10, <1>a, <1>b
<1>12. Here(<<"jsr">>, Blanking(m) + 10)
  <2>1. Joined(c2, <<"jsr">>, Len(c1))
    <3> HIDE DEF c1
    <3> QED BY <1>2, <1>d, JoinedRight
  <2>2. Here(<<"jsr">>, Len(c1))
    BY <2>1, <1>9, <1>d
  <2> HIDE DEF c1, Here
  <2> QED BY <2>2, <1>2
<1>13. Here(b, Blanking(m) + 11)
  <2>1. Joined(c3, b, Len(c2))
    <3> HIDE DEF c2
    <3> QED BY <1>3, <1>c, JoinedRight
  <2>2. Here(b, Len(c2))
    BY <2>1, <1>8, <1>c
  <2> HIDE DEF c2, Here
  <2> QED BY <2>2, <1>3
<1>14. Here(BenchCyclesStop, Blanking(m) + 11 + Length(m))
  <2>1. Joined(c4, BenchCyclesStop, Len(c3))
    <3> HIDE DEF c3
    <3> QED BY <1>4, <1>a, JoinedRight
  <2>2. Here(BenchCyclesStop, Len(c3))
    BY <2>1, <1>7, <1>a
  <2> HIDE DEF c3, Here
  <2> QED BY <2>2, <1>4
<1>15. Here(Behind(m), Blanking(m) + 16 + Length(m))
  <2>1. Joined(c5, Behind(m), Len(c4))
    <3> HIDE DEF c4
    <3> QED BY <1>5, <1>b, JoinedRight
  <2> HIDE DEF c4
  <2> QED BY <2>1, <1>5
<1> HIDE DEF c5, Here
<1>16. \A s \in Parts(m) : Here(Part(m, s), Off(m, s)) /\ CallOf(m, s) = 1
  <2> SUFFICES ASSUME NEW s \in Parts(m) PROVE Here(Part(m, s), Off(m, s)) /\ CallOf(m, s) = 1
    OBVIOUS
  <2>1. CallOf(m, s) = 1
    BY DEF CallOf
  <2>2. CASE s \in {"blank", "unblank"} /\ m.blank
    BY <2>1, <2>2, <1>b, <1>11, <1>15 DEF Part, Off
  <2>3. CASE s \in {"start", "stop"}
    BY <2>1, <2>3, <1>11, <1>14 DEF Part, Off
  <2>4. CASE s \in {"jsr", "body"}
    BY <2>1, <2>4, <1>12, <1>13 DEF Part, Off, b
  <2> QED BY <2>2, <2>3, <2>4 DEF Parts
<1>17. c5 = Calls(m)[1] /\ Len(Calls(m)) = 1
  BY <1>1
<1>18. \A s \in Parts(m) : Within(m, s)
  BY <1>16, <1>17 DEF Within, Here
<1> QED BY <1>6, <1>17, <1>18

LEMMA JiffyThunkLayout ==
  ASSUME NEW m \in Measurements, m.form = "jiffy_thunk"
  PROVE  /\ \A s \in Parts(m) : Within(m, s)
         /\ Calls(m)[1] \in Seq(Instructions)
         /\ Len(Calls(m)) = 1 /\ Len(Calls(m)[1]) = 14 + Length(m)
<1> DEFINE c1 == BenchStart \o Loop(m)
           c2 == c1 \o BenchStop
<1>1. Calls(m) = <<c2>>
  BY DEF Calls
<1>a. /\ BenchStart \in Seq(Instructions) /\ Len(BenchStart) = 5
      /\ BenchStop \in Seq(Instructions) /\ Len(BenchStop) = 5
  BY BracketTypes
<1>b. ~m.blank
  BY MeasurementFields DEF CountsCycles
<1>c. Loop(m) \in Seq(Instructions) /\ Len(Loop(m)) = Length(m) + 4 /\ Length(m) \in Nat \ {0}
  BY LoopParts
<1>d. /\ Joined(Loop(m), <<"ldx">>, 0) /\ Joined(Loop(m), <<"jsr">>, 1)
      /\ Joined(Loop(m), Body[m.routine], 2)
      /\ Joined(Loop(m), <<"dec", "bne">>, 2 + Length(m))
  BY LoopParts
<1>e. /\ <<"ldx">> \in Seq(Instructions) /\ <<"jsr">> \in Seq(Instructions) /\ <<"dec", "bne">> \in Seq(Instructions)
      /\ Body[m.routine] \in Seq(Instructions)
  BY BodyTyped, MeasurementFields DEF Instructions
<1>2. c1 \in Seq(Instructions) /\ Len(c1) = Length(m) + 9
  <2>1. c1 \in Seq(Instructions) /\ Len(c1) = Len(BenchStart) + Len(Loop(m))
    BY <1>a, <1>c, Concatenated
  <2> HIDE DEF c1
  <2> QED BY <2>1, <1>a, <1>c
<1>3. c2 \in Seq(Instructions) /\ Len(c2) = 14 + Length(m)
  <2>1. c2 \in Seq(Instructions) /\ Len(c2) = Len(c1) + Len(BenchStop)
    <3> HIDE DEF c1
    <3> QED BY <1>2, <1>a, Concatenated
  <2> HIDE DEF c1, c2
  <2> QED BY <2>1, <1>2, <1>a, <1>c
<1> DEFINE Here(d, o) == Joined(c2, d, o)
<1>4. ASSUME NEW d \in Seq(Instructions), NEW o, Joined(c1, d, o) PROVE Here(d, o)
  <2> HIDE DEF c1
  <2> QED BY <1>2, <1>4, <1>a, JoinedLeft
<1>5. ASSUME NEW d \in Seq(Instructions), NEW o, Joined(Loop(m), d, o) PROVE Here(d, 5 + o)
  <2>1. Joined(c1, d, Len(BenchStart) + o)
    BY <1>5, <1>a, <1>c, JoinedBoth
  <2> HIDE DEF c1, Here
  <2> QED BY <2>1, <1>4, <1>a
<1>6. Here(BenchStart, 0)
  <2>1. Joined(c1, BenchStart, 0)
    BY <1>a, <1>c, JoinedWhole, JoinedLeft
  <2> QED BY <2>1, <1>4, <1>a
<1>7. Here(BenchStop, 9 + Length(m))
  <2>1. Joined(c2, BenchStop, Len(c1))
    <3> HIDE DEF c1
    <3> QED BY <1>2, <1>a, JoinedRight
  <2>2. Here(BenchStop, Len(c1))
    BY <2>1
  <2> HIDE DEF c1, Here
  <2> QED BY <2>2, <1>2, <1>c
<1> HIDE DEF c2, Here
<1>8. /\ Here(<<"ldx">>, 5) /\ Here(<<"jsr">>, 6)
      /\ Here(Body[m.routine], 7) /\ Here(<<"dec", "bne">>, 7 + Length(m))
  <2>1. Here(<<"ldx">>, 5 + 0) /\ Here(<<"jsr">>, 5 + 1)
    BY <1>5, <1>e, <1>d
  <2>2. Here(Body[m.routine], 5 + 2)
    BY <1>5, <1>e, <1>d
  <2>3. Here(<<"dec", "bne">>, 5 + (2 + Length(m)))
    BY <1>5, <1>e, <1>d
  <2> QED BY <2>1, <2>2, <2>3, <1>c
<1>9. \A s \in Parts(m) : Here(Part(m, s), Off(m, s)) /\ CallOf(m, s) = 1
  <2> SUFFICES ASSUME NEW s \in Parts(m) PROVE Here(Part(m, s), Off(m, s)) /\ CallOf(m, s) = 1
    OBVIOUS
  <2>1. CallOf(m, s) = 1
    BY DEF CallOf
  <2>2. CASE s \in {"zero", "snap"}
    BY <2>1, <2>2, <1>6, <1>7 DEF Part, Off
  <2>3. CASE s \in {"ldx", "jsr", "body", "again"}
    BY <2>1, <2>3, <1>8 DEF Part, Off
  <2> QED BY <2>2, <2>3, <1>b DEF Parts
<1>10. c2 = Calls(m)[1] /\ Len(Calls(m)) = 1
  BY <1>1
<1>11. \A s \in Parts(m) : Within(m, s)
  BY <1>9, <1>10 DEF Within, Here
<1> QED BY <1>3, <1>10, <1>11

LEMMA FiveCalls ==
  ASSUME NEW a, NEW b, NEW c, NEW d, NEW e, NEW s, s = (<<a>> \o <<b, c, d>>) \o <<e>>
  PROVE  Len(s) = 5 /\ s[1] = a /\ s[2] = b /\ s[3] = c /\ s[4] = d /\ s[5] = e
<1> DEFINE t == <<a>> \o <<b, c, d>>
<1>1. t \in Seq({a, b, c, d}) /\ Len(t) = 4 /\ t[1] = a /\ t[2] = b /\ t[3] = c /\ t[4] = d
  OBVIOUS
<1> HIDE DEF t
<1>2. t \in Seq({a, b, c, d, e}) /\ <<e>> \in Seq({a, b, c, d, e}) /\ Len(<<e>>) = 1
  BY <1>1
<1>3. s = t \o <<e>>
  BY DEF t
<1> QED BY <1>1, <1>2, <1>3

LEMMA CallsLayout ==
  ASSUME NEW m \in Measurements, m.form \in {"jiffies", "three_calls"}
  PROVE  /\ \A s \in Parts(m) : Within(m, s) /\ Calls(m)[CallOf(m, s)] = Part(m, s)
         /\ m.form = "jiffies" => Len(Calls(m)) = 3
         /\ m.form = "three_calls" => Len(Calls(m)) = 3 + 2 * Blanking(m)
<1>1. m.blank \in BOOLEAN /\ (m.form = "jiffies" => ~m.blank)
  BY MeasurementFields DEF CountsCycles
<1>2. Body[m.routine] \in Seq(Instructions)
  BY BodyTyped, MeasurementFields
<1>3. \A s \in Parts(m) : Part(m, s) \in Seq(Instructions) /\ Off(m, s) = 0
  <2> SUFFICES ASSUME NEW s \in Parts(m) PROVE Part(m, s) \in Seq(Instructions) /\ Off(m, s) = 0
    OBVIOUS
  <2>1. Off(m, s) = 0
    BY DEF Off
  <2>2. CASE s \in {"blank", "unblank"}
    BY <2>1, <2>2 DEF Part, Instructions
  <2>3. CASE s \in {"start", "stop", "zero", "snap", "body"}
    BY <2>1, <2>3, <1>2, BracketTypes DEF Part
  <2> QED BY <2>2, <2>3 DEF Parts
<1>4. CASE m.form = "jiffies"
  <2>1. Calls(m) = <<BenchStart, Body[m.routine], BenchStop>>
    BY <1>4 DEF Calls
  <2>2. Parts(m) = {"zero", "body", "snap"}
    BY <1>1, <1>4 DEF Parts
  <2>3. \A s \in Parts(m) : CallOf(m, s) \in 1 .. 3 /\ Calls(m)[CallOf(m, s)] = Part(m, s)
    BY <1>4, <2>1, <2>2 DEF CallOf, Part
  <2>4. Len(Calls(m)) = 3
    BY <2>1
  <2>5. \A s \in Parts(m) : Joined(Part(m, s), Part(m, s), 0)
    BY <1>3, JoinedWhole
  <2> QED BY <1>3, <1>4, <2>3, <2>4, <2>5 DEF Within
<1>5. CASE m.form = "three_calls" /\ m.blank
  <2>1. /\ Len(Calls(m)) = 5
        /\ Calls(m)[1] = <<"vic_blank">> /\ Calls(m)[2] = BenchCyclesStart
        /\ Calls(m)[3] = Body[m.routine] /\ Calls(m)[4] = BenchCyclesStop
        /\ Calls(m)[5] = <<"vic_unblank">>
    <3>1. Calls(m) = (<<<<"vic_blank">>>> \o <<BenchCyclesStart, Body[m.routine], BenchCyclesStop>>)
                       \o <<<<"vic_unblank">>>>
      BY <1>5 DEF Calls
    <3> QED BY <3>1, FiveCalls
  <2>2. Parts(m) = {"blank", "unblank", "start", "body", "stop"} /\ Blanking(m) = 1
    BY <1>5 DEF Parts, Blanking
  <2>3. \A s \in Parts(m) : CallOf(m, s) \in 1 .. 5 /\ Calls(m)[CallOf(m, s)] = Part(m, s)
    BY <1>5, <2>1, <2>2 DEF CallOf, Part
  <2>4. Len(Calls(m)) = 5
    BY <2>1
  <2>5. \A s \in Parts(m) : Joined(Part(m, s), Part(m, s), 0)
    BY <1>3, JoinedWhole
  <2> QED BY <1>3, <1>5, <2>2, <2>3, <2>4, <2>5 DEF Within
<1>6. CASE m.form = "three_calls" /\ ~m.blank
  <2>1. Calls(m) = <<BenchCyclesStart, Body[m.routine], BenchCyclesStop>>
    <3> DEFINE b == Body[m.routine]
    <3>1. Calls(m) = (<<>> \o <<BenchCyclesStart, b, BenchCyclesStop>>) \o <<>>
      BY <1>6 DEF Calls
    <3> HIDE DEF b
    <3>2. (<<>> \o <<BenchCyclesStart, b, BenchCyclesStop>>) \o <<>> = <<BenchCyclesStart, b, BenchCyclesStop>>
      OBVIOUS
    <3> QED BY <3>1, <3>2 DEF b
  <2>2. Parts(m) = {"start", "body", "stop"} /\ Blanking(m) = 0
    BY <1>6 DEF Parts, Blanking
  <2>3. \A s \in Parts(m) : CallOf(m, s) \in 1 .. 3 /\ Calls(m)[CallOf(m, s)] = Part(m, s)
    BY <1>6, <2>1, <2>2 DEF CallOf, Part
  <2>4. Len(Calls(m)) = 3
    BY <2>1
  <2>5. \A s \in Parts(m) : Joined(Part(m, s), Part(m, s), 0)
    BY <1>3, JoinedWhole
  <2> QED BY <1>3, <1>6, <2>2, <2>3, <2>4, <2>5 DEF Within
<1> QED BY <1>1, <1>4, <1>5, <1>6

(***************************************************************************)
(* What follows a part in its call, and where the bne goes.                 *)
(***************************************************************************)
LEMMA PartTypes ==
  ASSUME NEW m \in Measurements, NEW s \in Parts(m)
  PROVE  /\ Part(m, s) \in Seq(Instructions) /\ Len(Part(m, s)) \in Nat \ {0}
         /\ s \in {"blank", "unblank", "ldx", "jsr"} => Len(Part(m, s)) = 1
         /\ s = "start" => Len(Part(m, s)) = 10
         /\ s \in {"stop", "zero", "snap"} => Len(Part(m, s)) = 5
         /\ s = "again" => Len(Part(m, s)) = 2
         /\ s = "body" => Len(Part(m, s)) = Length(m)
         /\ Length(m) \in Nat \ {0} /\ Blanking(m) \in {0, 1}
         /\ s \in {"blank", "unblank", "start", "ldx", "jsr", "body", "again", "stop", "zero", "snap"}
<1>1. s \in {"blank", "unblank", "start", "ldx", "jsr", "body", "again", "stop", "zero", "snap"}
  BY DEF Parts
<1>2. Body[m.routine] \in Seq(Instructions) /\ Length(m) \in Nat \ {0} /\ Len(Body[m.routine]) = Length(m)
  BY BodyTyped, MeasurementFields DEF Length
<1>3. Blanking(m) \in {0, 1}
  BY BlankingTypes
<1>4. CASE s \in {"blank", "unblank", "ldx", "jsr"}
  <2>1. Part(m, s) \in {<<"vic_blank">>, <<"vic_unblank">>, <<"ldx">>, <<"jsr">>}
    BY <1>4 DEF Part
  <2>2. \A t \in {<<"vic_blank">>, <<"vic_unblank">>, <<"ldx">>, <<"jsr">>} : t \in Seq(Instructions) /\ Len(t) = 1
    BY DEF Instructions
  <2>3. Part(m, s) \in Seq(Instructions) /\ Len(Part(m, s)) = 1
    BY <1>2, <2>1, <2>2
  <2> QED BY <1>2, <1>3, <1>4, <2>3
<1>5. CASE s = "again"
  <2>1. Part(m, s) = <<"dec", "bne">>
    BY <1>5 DEF Part
  <2>2. <<"dec", "bne">> \in Seq(Instructions) /\ Len(<<"dec", "bne">>) = 2
    BY DEF Instructions
  <2>3. Part(m, s) \in Seq(Instructions) /\ Len(Part(m, s)) = 2
    BY <1>2, <2>1, <2>2
  <2>4. s \notin {"blank", "unblank", "ldx", "jsr"} /\ s \notin {"stop", "zero", "snap"} /\ s # "body" /\ s # "start"
    BY <1>5
  <2>5. Len(Part(m, s)) \in Nat \ {0}
    BY <2>3
  <2> QED BY <1>1, <1>2, <1>3, <2>3, <2>4, <2>5
<1>6. CASE s = "start"
  <2>1. Part(m, s) = BenchCyclesStart
    BY <1>6 DEF Part
  <2>3. Part(m, s) \in Seq(Instructions) /\ Len(Part(m, s)) = 10
    BY <1>2, <2>1, BracketTypes
  <2>4. s \notin {"blank", "unblank", "ldx", "jsr"} /\ s \notin {"stop", "zero", "snap"} /\ s # "body" /\ s # "again"
    BY <1>6
  <2>5. Len(Part(m, s)) \in Nat \ {0}
    BY <2>3
  <2> QED BY <1>1, <1>2, <1>3, <2>3, <2>4, <2>5
<1>7. CASE s \in {"stop", "zero", "snap"}
  <2>1. Part(m, s) \in {BenchCyclesStop, BenchStart, BenchStop}
    BY <1>7 DEF Part
  <2>3. Part(m, s) \in Seq(Instructions) /\ Len(Part(m, s)) = 5
    BY <1>2, <2>1, BracketTypes
  <2> QED BY <1>2, <1>3, <1>7, <2>3
<1>8. CASE s = "body"
  <2>1. Part(m, s) = Body[m.routine]
    BY <1>8 DEF Part
  <2>3. Part(m, s) \in Seq(Instructions) /\ Len(Part(m, s)) = Length(m)
    BY <1>2, <2>1
  <2> QED BY <1>2, <1>3, <1>8, <2>3
<1> QED BY <1>1, <1>4, <1>5, <1>6, <1>7, <1>8

EndsCall(m, s) ==
  \/ m.form \in {"jiffies", "three_calls"}
  \/ s \in {"snap", "unblank"}
  \/ s = "stop" /\ ~m.blank

After(m, s) ==
  CASE s = "blank" -> "start"
    [] s = "start" -> IF Looped(m) THEN "ldx" ELSE IF m.form = "subroutine" THEN "jsr" ELSE "body"
    [] s = "zero"  -> IF Looped(m) THEN "ldx" ELSE "body"
    [] s = "ldx"   -> "jsr"
    [] s = "jsr"   -> "body"
    [] s = "body"  -> IF Looped(m) THEN "again" ELSE IF m.form = "jiffies" THEN "snap" ELSE "stop"
    [] s = "again" -> IF m.form = "thunk" THEN "stop" ELSE "snap"
    [] OTHER       -> "unblank"

\* No part of the measurement follows.
Closes(m, s) == s \in {"snap", "unblank"} \/ (s = "stop" /\ ~m.blank)

LEMMA Following ==
  ASSUME NEW m \in Measurements, NEW s \in Parts(m)
  PROVE  IF EndsCall(m, s)
         THEN Len(Calls(m)[CallOf(m, s)]) = Off(m, s) + Len(Part(m, s))
         ELSE /\ After(m, s) \in Parts(m) /\ CallOf(m, After(m, s)) = CallOf(m, s)
              /\ Off(m, After(m, s)) = Off(m, s) + Len(Part(m, s))
<1>w. /\ Len(Part(m, s)) \in Nat /\ Length(m) \in Nat /\ Blanking(m) \in {0, 1}
      /\ s \in {"blank", "unblank", "ldx", "jsr"} => Len(Part(m, s)) = 1
      /\ s = "start" => Len(Part(m, s)) = 10
      /\ s \in {"stop", "zero", "snap"} => Len(Part(m, s)) = 5
      /\ s = "again" => Len(Part(m, s)) = 2
      /\ s = "body" => Len(Part(m, s)) = Length(m)
  BY PartTypes
<1>b. m.blank \in BOOLEAN /\ (m.blank => Blanking(m) = 1) /\ (~m.blank => Blanking(m) = 0)
  BY MeasurementFields DEF Blanking
<1>1. CASE m.form = "thunk"
  <2>1. CallOf(m, s) = 1 /\ CallOf(m, After(m, s)) = 1
    BY <1>1 DEF CallOf
  <2>2. Parts(m) = (IF m.blank THEN {"blank", "unblank"} ELSE {}) \cup {"start", "ldx", "jsr", "body", "again", "stop"}
    BY <1>1 DEF Parts
  <2>3. Len(Calls(m)[1]) = 19 + Length(m) + 2 * Blanking(m)
    BY <1>1, ThunkLayout
  <2>4. CASE s = "blank" /\ m.blank
    <3>1. After(m, s) = "start" /\ ~EndsCall(m, s)
      BY <1>1, <2>4 DEF After, EndsCall, Looped
    <3>2. Off(m, s) = 0
      BY <1>1, <2>4 DEF Off
    <3>3. Off(m, After(m, s)) = Blanking(m)
      BY <1>1, <3>1 DEF Off
    <3>4. After(m, s) \in Parts(m)
      BY <2>2, <2>4, <3>1
    <3>5. Len(Part(m, s)) = 1
      BY <1>w, <2>4
    <3>6. CallOf(m, After(m, s)) = CallOf(m, s)
      BY <2>1
    <3>7. Off(m, After(m, s)) = Off(m, s) + Len(Part(m, s))
      BY <1>w, <1>b, <3>2, <3>3, <3>5, <2>4
    <3> QED BY <3>1, <3>4, <3>6, <3>7
  <2>5. CASE s = "start"
    <3>1. After(m, s) = "ldx" /\ ~EndsCall(m, s)
      BY <1>1, <2>5 DEF After, EndsCall, Looped
    <3>2. Off(m, s) = Blanking(m)
      BY <1>1, <2>5 DEF Off
    <3>3. Off(m, After(m, s)) = Blanking(m) + 10
      BY <1>1, <3>1 DEF Off
    <3>4. After(m, s) \in Parts(m)
      BY <2>2, <2>5, <3>1
    <3>5. Len(Part(m, s)) = 10
      BY <1>w, <2>5
    <3>6. CallOf(m, After(m, s)) = CallOf(m, s)
      BY <2>1
    <3>7. Off(m, After(m, s)) = Off(m, s) + Len(Part(m, s))
      BY <1>w, <1>b, <3>2, <3>3, <3>5
    <3> QED BY <3>1, <3>4, <3>6, <3>7
  <2>6. CASE s = "ldx"
    <3>1. After(m, s) = "jsr" /\ ~EndsCall(m, s)
      BY <1>1, <2>6 DEF After, EndsCall, Looped
    <3>2. Off(m, s) = Blanking(m) + 10
      BY <1>1, <2>6 DEF Off
    <3>3. Off(m, After(m, s)) = Blanking(m) + 11
      BY <1>1, <3>1 DEF Off
    <3>4. After(m, s) \in Parts(m)
      BY <2>2, <2>6, <3>1
    <3>5. Len(Part(m, s)) = 1
      BY <1>w, <2>6
    <3>6. CallOf(m, After(m, s)) = CallOf(m, s)
      BY <2>1
    <3>7. Off(m, After(m, s)) = Off(m, s) + Len(Part(m, s))
      BY <1>w, <1>b, <3>2, <3>3, <3>5
    <3> QED BY <3>1, <3>4, <3>6, <3>7
  <2>7. CASE s = "jsr"
    <3>1. After(m, s) = "body" /\ ~EndsCall(m, s)
      BY <1>1, <2>7 DEF After, EndsCall, Looped
    <3>2. Off(m, s) = Blanking(m) + 11
      BY <1>1, <2>7 DEF Off
    <3>3. Off(m, After(m, s)) = Blanking(m) + 12
      BY <1>1, <3>1 DEF Off
    <3>4. After(m, s) \in Parts(m)
      BY <2>2, <2>7, <3>1
    <3>5. Len(Part(m, s)) = 1
      BY <1>w, <2>7
    <3>6. CallOf(m, After(m, s)) = CallOf(m, s)
      BY <2>1
    <3>7. Off(m, After(m, s)) = Off(m, s) + Len(Part(m, s))
      BY <1>w, <1>b, <3>2, <3>3, <3>5
    <3> QED BY <3>1, <3>4, <3>6, <3>7
  <2>8. CASE s = "body"
    <3>1. After(m, s) = "again" /\ ~EndsCall(m, s)
      BY <1>1, <2>8 DEF After, EndsCall, Looped
    <3>2. Off(m, s) = Blanking(m) + 12
      BY <1>1, <2>8 DEF Off
    <3>3. Off(m, After(m, s)) = Blanking(m) + 12 + Length(m)
      BY <1>1, <3>1 DEF Off
    <3>4. After(m, s) \in Parts(m)
      BY <2>2, <2>8, <3>1
    <3>5. Len(Part(m, s)) = Length(m)
      BY <1>w, <2>8
    <3>6. CallOf(m, After(m, s)) = CallOf(m, s)
      BY <2>1
    <3>7. Off(m, After(m, s)) = Off(m, s) + Len(Part(m, s))
      BY <1>w, <1>b, <3>2, <3>3, <3>5
    <3> QED BY <3>1, <3>4, <3>6, <3>7
  <2>9. CASE s = "again"
    <3>1. After(m, s) = "stop" /\ ~EndsCall(m, s)
      BY <1>1, <2>9 DEF After, EndsCall, Looped
    <3>2. Off(m, s) = Blanking(m) + 12 + Length(m)
      BY <1>1, <2>9 DEF Off
    <3>3. Off(m, After(m, s)) = Blanking(m) + 14 + Length(m)
      BY <1>1, <3>1 DEF Off
    <3>4. After(m, s) \in Parts(m)
      BY <2>2, <2>9, <3>1
    <3>5. Len(Part(m, s)) = 2
      BY <1>w, <2>9
    <3>6. CallOf(m, After(m, s)) = CallOf(m, s)
      BY <2>1
    <3>7. Off(m, After(m, s)) = Off(m, s) + Len(Part(m, s))
      BY <1>w, <1>b, <3>2, <3>3, <3>5
    <3> QED BY <3>1, <3>4, <3>6, <3>7
  <2>10. CASE s = "stop" /\ m.blank
    <3>1. After(m, s) = "unblank" /\ ~EndsCall(m, s)
      BY <1>1, <2>10 DEF After, EndsCall
    <3>2. Off(m, s) = Blanking(m) + 14 + Length(m)
      BY <1>1, <2>10 DEF Off
    <3>3. Off(m, After(m, s)) = Blanking(m) + 19 + Length(m)
      BY <1>1, <3>1 DEF Off
    <3>4. After(m, s) \in Parts(m)
      BY <2>2, <2>10, <3>1
    <3>5. Len(Part(m, s)) = 5
      BY <1>w, <2>10
    <3>6. CallOf(m, After(m, s)) = CallOf(m, s)
      BY <2>1
    <3>7. Off(m, After(m, s)) = Off(m, s) + Len(Part(m, s))
      BY <1>w, <1>b, <3>2, <3>3, <3>5, <2>10
    <3> QED BY <3>1, <3>4, <3>6, <3>7
  <2>11. CASE s = "stop" /\ ~m.blank
    <3>1. EndsCall(m, s)
      BY <2>11 DEF EndsCall
    <3>2. Off(m, s) = Blanking(m) + 14 + Length(m)
      BY <1>1, <2>11 DEF Off
    <3>3. Len(Part(m, s)) = 5
      BY <1>w, <2>11
    <3>4. Len(Calls(m)[CallOf(m, s)]) = Off(m, s) + Len(Part(m, s))
      <4>1. Calls(m)[CallOf(m, s)] = Calls(m)[1]
        BY <2>1
      <4>2. Blanking(m) = 0
        BY <1>b, <2>11
      <4>3. Length(m) \in Nat
        BY <1>w
      <4> QED BY <2>3, <3>2, <3>3, <4>1, <4>2, <4>3
    <3> QED BY <3>1, <3>4
  <2>12. CASE s = "unblank" /\ m.blank
    <3>1. EndsCall(m, s)
      BY <2>12 DEF EndsCall
    <3>2. Off(m, s) = Blanking(m) + 19 + Length(m)
      BY <1>1, <2>12 DEF Off
    <3>3. Len(Part(m, s)) = 1
      BY <1>w, <2>12
    <3>4. Len(Calls(m)[CallOf(m, s)]) = Off(m, s) + Len(Part(m, s))
      <4>1. Calls(m)[CallOf(m, s)] = Calls(m)[1]
        BY <2>1
      <4>2. Blanking(m) = 1
        BY <1>b, <2>12
      <4>3. Length(m) \in Nat
        BY <1>w
      <4> QED BY <2>3, <3>2, <3>3, <4>1, <4>2, <4>3
    <3> QED BY <3>1, <3>4
  <2> QED BY <1>b, <2>2, <2>4, <2>5, <2>6, <2>7, <2>8, <2>9, <2>10, <2>11, <2>12
<1>2. CASE m.form = "subroutine"
  <2>1. CallOf(m, s) = 1 /\ CallOf(m, After(m, s)) = 1
    BY <1>2 DEF CallOf
  <2>2. Parts(m) = (IF m.blank THEN {"blank", "unblank"} ELSE {}) \cup {"start", "jsr", "body", "stop"}
    BY <1>2 DEF Parts
  <2>3. Len(Calls(m)[1]) = 16 + Length(m) + 2 * Blanking(m)
    BY <1>2, SubroutineLayout
  <2>4. CASE s = "blank" /\ m.blank
    <3>1. After(m, s) = "start" /\ ~EndsCall(m, s)
      BY <1>2, <2>4 DEF After, EndsCall, Looped
    <3>2. Off(m, s) = 0
      BY <1>2, <2>4 DEF Off
    <3>3. Off(m, After(m, s)) = Blanking(m)
      BY <1>2, <3>1 DEF Off
    <3>4. After(m, s) \in Parts(m)
      BY <2>2, <2>4, <3>1
    <3>5. Len(Part(m, s)) = 1
      BY <1>w, <2>4
    <3>6. CallOf(m, After(m, s)) = CallOf(m, s)
      BY <2>1
    <3>7. Off(m, After(m, s)) = Off(m, s) + Len(Part(m, s))
      BY <1>w, <1>b, <3>2, <3>3, <3>5, <2>4
    <3> QED BY <3>1, <3>4, <3>6, <3>7
  <2>5. CASE s = "start"
    <3>1. After(m, s) = "jsr" /\ ~EndsCall(m, s)
      BY <1>2, <2>5 DEF After, EndsCall, Looped
    <3>2. Off(m, s) = Blanking(m)
      BY <1>2, <2>5 DEF Off
    <3>3. Off(m, After(m, s)) = Blanking(m) + 10
      BY <1>2, <3>1 DEF Off
    <3>4. After(m, s) \in Parts(m)
      BY <2>2, <2>5, <3>1
    <3>5. Len(Part(m, s)) = 10
      BY <1>w, <2>5
    <3>6. CallOf(m, After(m, s)) = CallOf(m, s)
      BY <2>1
    <3>7. Off(m, After(m, s)) = Off(m, s) + Len(Part(m, s))
      BY <1>w, <1>b, <3>2, <3>3, <3>5
    <3> QED BY <3>1, <3>4, <3>6, <3>7
  <2>6. CASE s = "jsr"
    <3>1. After(m, s) = "body" /\ ~EndsCall(m, s)
      BY <1>2, <2>6 DEF After, EndsCall, Looped
    <3>2. Off(m, s) = Blanking(m) + 10
      BY <1>2, <2>6 DEF Off
    <3>3. Off(m, After(m, s)) = Blanking(m) + 11
      BY <1>2, <3>1 DEF Off
    <3>4. After(m, s) \in Parts(m)
      BY <2>2, <2>6, <3>1
    <3>5. Len(Part(m, s)) = 1
      BY <1>w, <2>6
    <3>6. CallOf(m, After(m, s)) = CallOf(m, s)
      BY <2>1
    <3>7. Off(m, After(m, s)) = Off(m, s) + Len(Part(m, s))
      BY <1>w, <1>b, <3>2, <3>3, <3>5
    <3> QED BY <3>1, <3>4, <3>6, <3>7
  <2>7. CASE s = "body"
    <3>1. After(m, s) = "stop" /\ ~EndsCall(m, s)
      BY <1>2, <2>7 DEF After, EndsCall, Looped
    <3>2. Off(m, s) = Blanking(m) + 11
      BY <1>2, <2>7 DEF Off
    <3>3. Off(m, After(m, s)) = Blanking(m) + 11 + Length(m)
      BY <1>2, <3>1 DEF Off
    <3>4. After(m, s) \in Parts(m)
      BY <2>2, <2>7, <3>1
    <3>5. Len(Part(m, s)) = Length(m)
      BY <1>w, <2>7
    <3>6. CallOf(m, After(m, s)) = CallOf(m, s)
      BY <2>1
    <3>7. Off(m, After(m, s)) = Off(m, s) + Len(Part(m, s))
      BY <1>w, <1>b, <3>2, <3>3, <3>5
    <3> QED BY <3>1, <3>4, <3>6, <3>7
  <2>8. CASE s = "stop" /\ m.blank
    <3>1. After(m, s) = "unblank" /\ ~EndsCall(m, s)
      BY <1>2, <2>8 DEF After, EndsCall
    <3>2. Off(m, s) = Blanking(m) + 11 + Length(m)
      BY <1>2, <2>8 DEF Off
    <3>3. Off(m, After(m, s)) = Blanking(m) + 16 + Length(m)
      BY <1>2, <3>1 DEF Off
    <3>4. After(m, s) \in Parts(m)
      BY <2>2, <2>8, <3>1
    <3>5. Len(Part(m, s)) = 5
      BY <1>w, <2>8
    <3>6. CallOf(m, After(m, s)) = CallOf(m, s)
      BY <2>1
    <3>7. Off(m, After(m, s)) = Off(m, s) + Len(Part(m, s))
      BY <1>w, <1>b, <3>2, <3>3, <3>5, <2>8
    <3> QED BY <3>1, <3>4, <3>6, <3>7
  <2>9. CASE s = "stop" /\ ~m.blank
    <3>1. EndsCall(m, s)
      BY <2>9 DEF EndsCall
    <3>2. Off(m, s) = Blanking(m) + 11 + Length(m)
      BY <1>2, <2>9 DEF Off
    <3>3. Len(Part(m, s)) = 5
      BY <1>w, <2>9
    <3>4. Len(Calls(m)[CallOf(m, s)]) = Off(m, s) + Len(Part(m, s))
      <4>1. Calls(m)[CallOf(m, s)] = Calls(m)[1]
        BY <2>1
      <4>2. Blanking(m) = 0
        BY <1>b, <2>9
      <4>3. Length(m) \in Nat
        BY <1>w
      <4> QED BY <2>3, <3>2, <3>3, <4>1, <4>2, <4>3
    <3> QED BY <3>1, <3>4
  <2>10. CASE s = "unblank" /\ m.blank
    <3>1. EndsCall(m, s)
      BY <2>10 DEF EndsCall
    <3>2. Off(m, s) = Blanking(m) + 16 + Length(m)
      BY <1>2, <2>10 DEF Off
    <3>3. Len(Part(m, s)) = 1
      BY <1>w, <2>10
    <3>4. Len(Calls(m)[CallOf(m, s)]) = Off(m, s) + Len(Part(m, s))
      <4>1. Calls(m)[CallOf(m, s)] = Calls(m)[1]
        BY <2>1
      <4>2. Blanking(m) = 1
        BY <1>b, <2>10
      <4>3. Length(m) \in Nat
        BY <1>w
      <4> QED BY <2>3, <3>2, <3>3, <4>1, <4>2, <4>3
    <3> QED BY <3>1, <3>4
  <2> QED BY <1>b, <2>2, <2>4, <2>5, <2>6, <2>7, <2>8, <2>9, <2>10
<1>3. CASE m.form = "jiffy_thunk"
  <2>1. CallOf(m, s) = 1 /\ CallOf(m, After(m, s)) = 1
    BY <1>3 DEF CallOf
  <2>2. Parts(m) = {"zero", "ldx", "jsr", "body", "again", "snap"}
    BY <1>3, MeasurementFields DEF Parts, CountsCycles
  <2>3. Len(Calls(m)[1]) = 14 + Length(m)
    BY <1>3, JiffyThunkLayout
  <2>4. CASE s = "zero"
    <3>1. After(m, s) = "ldx" /\ ~EndsCall(m, s)
      BY <1>3, <2>4 DEF After, EndsCall, Looped
    <3>2. Off(m, s) = 0
      BY <1>3, <2>4 DEF Off
    <3>3. Off(m, After(m, s)) = 5
      BY <1>3, <3>1 DEF Off
    <3>4. After(m, s) \in Parts(m)
      BY <2>2, <2>4, <3>1
    <3>5. Len(Part(m, s)) = 5
      BY <1>w, <2>4
    <3>6. CallOf(m, After(m, s)) = CallOf(m, s)
      BY <2>1
    <3>7. Off(m, After(m, s)) = Off(m, s) + Len(Part(m, s))
      BY <3>2, <3>3, <3>5
    <3> QED BY <3>1, <3>4, <3>6, <3>7
  <2>5. CASE s = "ldx"
    <3>1. After(m, s) = "jsr" /\ ~EndsCall(m, s)
      BY <1>3, <2>5 DEF After, EndsCall, Looped
    <3>2. Off(m, s) = 5
      BY <1>3, <2>5 DEF Off
    <3>3. Off(m, After(m, s)) = 6
      BY <1>3, <3>1 DEF Off
    <3>4. After(m, s) \in Parts(m)
      BY <2>2, <2>5, <3>1
    <3>5. Len(Part(m, s)) = 1
      BY <1>w, <2>5
    <3>6. CallOf(m, After(m, s)) = CallOf(m, s)
      BY <2>1
    <3>7. Off(m, After(m, s)) = Off(m, s) + Len(Part(m, s))
      BY <1>w, <1>b, <3>2, <3>3, <3>5
    <3> QED BY <3>1, <3>4, <3>6, <3>7
  <2>6. CASE s = "jsr"
    <3>1. After(m, s) = "body" /\ ~EndsCall(m, s)
      BY <1>3, <2>6 DEF After, EndsCall, Looped
    <3>2. Off(m, s) = 6
      BY <1>3, <2>6 DEF Off
    <3>3. Off(m, After(m, s)) = 7
      BY <1>3, <3>1 DEF Off
    <3>4. After(m, s) \in Parts(m)
      BY <2>2, <2>6, <3>1
    <3>5. Len(Part(m, s)) = 1
      BY <1>w, <2>6
    <3>6. CallOf(m, After(m, s)) = CallOf(m, s)
      BY <2>1
    <3>7. Off(m, After(m, s)) = Off(m, s) + Len(Part(m, s))
      BY <1>w, <1>b, <3>2, <3>3, <3>5
    <3> QED BY <3>1, <3>4, <3>6, <3>7
  <2>7. CASE s = "body"
    <3>1. After(m, s) = "again" /\ ~EndsCall(m, s)
      BY <1>3, <2>7 DEF After, EndsCall, Looped
    <3>2. Off(m, s) = 7
      BY <1>3, <2>7 DEF Off
    <3>3. Off(m, After(m, s)) = 7 + Length(m)
      BY <1>3, <3>1 DEF Off
    <3>4. After(m, s) \in Parts(m)
      BY <2>2, <2>7, <3>1
    <3>5. Len(Part(m, s)) = Length(m)
      BY <1>w, <2>7
    <3>6. CallOf(m, After(m, s)) = CallOf(m, s)
      BY <2>1
    <3>7. Off(m, After(m, s)) = Off(m, s) + Len(Part(m, s))
      BY <1>w, <1>b, <3>2, <3>3, <3>5
    <3> QED BY <3>1, <3>4, <3>6, <3>7
  <2>8. CASE s = "again"
    <3>1. After(m, s) = "snap" /\ ~EndsCall(m, s)
      BY <1>3, <2>8 DEF After, EndsCall, Looped
    <3>2. Off(m, s) = 7 + Length(m)
      BY <1>3, <2>8 DEF Off
    <3>3. Off(m, After(m, s)) = 9 + Length(m)
      BY <1>3, <3>1 DEF Off
    <3>4. After(m, s) \in Parts(m)
      BY <2>2, <2>8, <3>1
    <3>5. Len(Part(m, s)) = 2
      BY <1>w, <2>8
    <3>6. CallOf(m, After(m, s)) = CallOf(m, s)
      BY <2>1
    <3>7. Off(m, After(m, s)) = Off(m, s) + Len(Part(m, s))
      BY <1>w, <1>b, <3>2, <3>3, <3>5
    <3> QED BY <3>1, <3>4, <3>6, <3>7
  <2>9. CASE s = "snap"
    <3>1. EndsCall(m, s)
      BY <2>9 DEF EndsCall
    <3>2. Off(m, s) = 9 + Length(m)
      BY <1>3, <2>9 DEF Off
    <3>3. Len(Part(m, s)) = 5
      BY <1>w, <2>9
    <3>4. Len(Calls(m)[CallOf(m, s)]) = Off(m, s) + Len(Part(m, s))
      <4>1. Calls(m)[CallOf(m, s)] = Calls(m)[1]
        BY <2>1
      <4>3. Length(m) \in Nat
        BY <1>w
      <4> QED BY <2>3, <3>2, <3>3, <4>1, <4>3
    <3> QED BY <3>1, <3>4
  <2> QED BY <2>2, <2>4, <2>5, <2>6, <2>7, <2>8, <2>9
<1>4. CASE m.form \in {"jiffies", "three_calls"}
  <2>1. Calls(m)[CallOf(m, s)] = Part(m, s)
    BY <1>4, CallsLayout
  <2>2. Off(m, s) = 0
    BY <1>4 DEF Off
  <2>3. EndsCall(m, s)
    BY <1>4 DEF EndsCall
  <2> QED BY <1>w, <2>1, <2>2, <2>3
<1> QED BY <1>1, <1>2, <1>3, <1>4, MeasurementFields DEF Forms

LEMMA Layout ==
  ASSUME NEW m \in Measurements, NEW s \in Parts(m)
  PROVE  /\ CallOf(m, s) \in 1 .. Len(Calls(m))
         /\ Off(m, s) \in Nat
         /\ Off(m, s) + Len(Part(m, s)) <= Len(Calls(m)[CallOf(m, s)])
         /\ \A k \in 1 .. Len(Part(m, s)) : Calls(m)[CallOf(m, s)][Off(m, s) + k] = Part(m, s)[k]
<1>1. Within(m, s)
  BY ThunkLayout, SubroutineLayout, JiffyThunkLayout, CallsLayout, MeasurementFields DEF Forms
<1> QED BY <1>1 DEF Within, Joined

\* Every instruction of a loop belongs to a part.
LEMMA Covered ==
  ASSUME NEW m \in Measurements, Looped(m), NEW i \in 1 .. Len(Calls(m)[1])
  PROVE  \E s \in Parts(m) : \E k \in 1 .. Len(Part(m, s)) : i = Off(m, s) + k
<1> DEFINE Spot(s, o, w) == s \in Parts(m) /\ Off(m, s) = o /\ Len(Part(m, s)) = w
<1>b. /\ m.blank \in BOOLEAN /\ (m.blank => Blanking(m) = 1) /\ (~m.blank => Blanking(m) = 0)
      /\ Length(m) \in Nat
  BY MeasurementFields, LoopParts DEF Blanking
<1>s. ASSUME NEW o \in Int, NEW w \in Int, \E s : Spot(s, o, w), i \in Int, o < i, i <= o + w
      PROVE  \E s \in Parts(m) : \E k \in 1 .. Len(Part(m, s)) : i = Off(m, s) + k
  <2>1. PICK s : Spot(s, o, w)
    BY <1>s
  <2>2. i - o \in 1 .. w /\ i = o + (i - o)
    BY <1>s
  <2> QED BY <2>1, <2>2
<1>1. CASE m.form = "thunk"
  <2>1. Len(Calls(m)[1]) = 19 + Length(m) + 2 * Blanking(m)
    BY <1>1, ThunkLayout
  <2>2. m.blank => \E s : Spot(s, 0, 1)
    <3> SUFFICES ASSUME NEW s, s = "blank", m.blank PROVE Spot(s, 0, 1)
      OBVIOUS
    <3>1. s \in Parts(m)
      BY <1>1, MeasurementFields DEF Parts, CountsCycles
    <3>2. Off(m, s) = 0
      BY <1>1, <3>1 DEF Off
    <3>3. Len(Part(m, s)) = 1
      BY <3>1, PartTypes
    <3> QED BY <3>1, <3>2, <3>3
  <2>3. \E s : Spot(s, Blanking(m), 10)
    <3> SUFFICES ASSUME NEW s, s = "start" PROVE Spot(s, Blanking(m), 10)
      OBVIOUS
    <3>1. s \in Parts(m)
      BY <1>1, MeasurementFields DEF Parts, CountsCycles
    <3>2. Off(m, s) = Blanking(m)
      BY <1>1, <3>1 DEF Off
    <3>3. Len(Part(m, s)) = 10
      BY <3>1, PartTypes
    <3> QED BY <3>1, <3>2, <3>3
  <2>4. \E s : Spot(s, Blanking(m) + 10, 1)
    <3> SUFFICES ASSUME NEW s, s = "ldx" PROVE Spot(s, Blanking(m) + 10, 1)
      OBVIOUS
    <3>1. s \in Parts(m)
      BY <1>1, MeasurementFields DEF Parts, CountsCycles
    <3>2. Off(m, s) = Blanking(m) + 10
      BY <1>1, <3>1 DEF Off
    <3>3. Len(Part(m, s)) = 1
      BY <3>1, PartTypes
    <3> QED BY <3>1, <3>2, <3>3
  <2>5. \E s : Spot(s, Blanking(m) + 11, 1)
    <3> SUFFICES ASSUME NEW s, s = "jsr" PROVE Spot(s, Blanking(m) + 11, 1)
      OBVIOUS
    <3>1. s \in Parts(m)
      BY <1>1, MeasurementFields DEF Parts, CountsCycles
    <3>2. Off(m, s) = Blanking(m) + 11
      BY <1>1, <3>1 DEF Off
    <3>3. Len(Part(m, s)) = 1
      BY <3>1, PartTypes
    <3> QED BY <3>1, <3>2, <3>3
  <2>6. \E s : Spot(s, Blanking(m) + 12, Length(m))
    <3> SUFFICES ASSUME NEW s, s = "body" PROVE Spot(s, Blanking(m) + 12, Length(m))
      OBVIOUS
    <3>1. s \in Parts(m)
      BY <1>1, MeasurementFields DEF Parts, CountsCycles
    <3>2. Off(m, s) = Blanking(m) + 12
      BY <1>1, <3>1 DEF Off
    <3>3. Len(Part(m, s)) = Length(m)
      BY <3>1, PartTypes
    <3> QED BY <3>1, <3>2, <3>3
  <2>7. \E s : Spot(s, Blanking(m) + 12 + Length(m), 2)
    <3> SUFFICES ASSUME NEW s, s = "again" PROVE Spot(s, Blanking(m) + 12 + Length(m), 2)
      OBVIOUS
    <3>1. s \in Parts(m)
      BY <1>1, MeasurementFields DEF Parts, CountsCycles
    <3>2. Off(m, s) = Blanking(m) + 12 + Length(m)
      BY <1>1, <3>1 DEF Off
    <3>3. Len(Part(m, s)) = 2
      BY <3>1, PartTypes
    <3> QED BY <3>1, <3>2, <3>3
  <2>8. \E s : Spot(s, Blanking(m) + 14 + Length(m), 5)
    <3> SUFFICES ASSUME NEW s, s = "stop" PROVE Spot(s, Blanking(m) + 14 + Length(m), 5)
      OBVIOUS
    <3>1. s \in Parts(m)
      BY <1>1, MeasurementFields DEF Parts, CountsCycles
    <3>2. Off(m, s) = Blanking(m) + 14 + Length(m)
      BY <1>1, <3>1 DEF Off
    <3>3. Len(Part(m, s)) = 5
      BY <3>1, PartTypes
    <3> QED BY <3>1, <3>2, <3>3
  <2>9. m.blank => \E s : Spot(s, Blanking(m) + 19 + Length(m), 1)
    <3> SUFFICES ASSUME NEW s, s = "unblank", m.blank PROVE Spot(s, Blanking(m) + 19 + Length(m), 1)
      OBVIOUS
    <3>1. s \in Parts(m)
      BY <1>1, MeasurementFields DEF Parts, CountsCycles
    <3>2. Off(m, s) = Blanking(m) + 19 + Length(m)
      BY <1>1, <3>1 DEF Off
    <3>3. Len(Part(m, s)) = 1
      BY <3>1, PartTypes
    <3> QED BY <3>1, <3>2, <3>3
  <2> HIDE DEF Spot
  <2>10. CASE m.blank /\ i \in 0 + 1 .. 0 + 1
    BY <1>b, <1>s, <2>2, <2>10
  <2>11. CASE i \in Blanking(m) + 1 .. Blanking(m) + 10
    BY <1>b, <1>s, <2>3, <2>11
  <2>12. CASE i \in Blanking(m) + 10 + 1 .. Blanking(m) + 10 + 1
    BY <1>b, <1>s, <2>4, <2>12
  <2>13. CASE i \in Blanking(m) + 11 + 1 .. Blanking(m) + 11 + 1
    BY <1>b, <1>s, <2>5, <2>13
  <2>14. CASE i \in Blanking(m) + 12 + 1 .. Blanking(m) + 12 + Length(m)
    BY <1>b, <1>s, <2>6, <2>14
  <2>15. CASE i \in Blanking(m) + 12 + Length(m) + 1 .. Blanking(m) + 12 + Length(m) + 2
    BY <1>b, <1>s, <2>7, <2>15
  <2>16. CASE i \in Blanking(m) + 14 + Length(m) + 1 .. Blanking(m) + 14 + Length(m) + 5
    BY <1>b, <1>s, <2>8, <2>16
  <2>17. CASE m.blank /\ i \in Blanking(m) + 19 + Length(m) + 1 .. Blanking(m) + 19 + Length(m) + 1
    BY <1>b, <1>s, <2>9, <2>17
  <2>18. CASE m.blank
    <3>1. Blanking(m) = 1 /\ i \in Int /\ i >= 1 /\ i <= 21 + Length(m) /\ Length(m) \in Nat
      BY <1>b, <2>1, <2>18
    <3> QED BY <3>1, <2>18, <2>10, <2>11, <2>12, <2>13, <2>14, <2>15, <2>16, <2>17
  <2>19. CASE ~m.blank
    <3>1. Blanking(m) = 0 /\ i \in Int /\ i >= 1 /\ i <= 19 + Length(m) /\ Length(m) \in Nat
      BY <1>b, <2>1, <2>19
    <3> QED BY <3>1, <2>19, <2>10, <2>11, <2>12, <2>13, <2>14, <2>15, <2>16, <2>17
  <2> QED BY <1>b, <2>18, <2>19
<1>2. CASE m.form = "jiffy_thunk"
  <2>1. Len(Calls(m)[1]) = 14 + Length(m)
    BY <1>2, JiffyThunkLayout
  <2>2. \E s : Spot(s, 0, 5)
    <3> SUFFICES ASSUME NEW s, s = "zero" PROVE Spot(s, 0, 5)
      OBVIOUS
    <3>1. s \in Parts(m)
      BY <1>2, MeasurementFields DEF Parts, CountsCycles
    <3>2. Off(m, s) = 0
      BY <1>2, <3>1 DEF Off
    <3>3. Len(Part(m, s)) = 5
      BY <3>1, PartTypes
    <3> QED BY <3>1, <3>2, <3>3
  <2>3. \E s : Spot(s, 5, 1)
    <3> SUFFICES ASSUME NEW s, s = "ldx" PROVE Spot(s, 5, 1)
      OBVIOUS
    <3>1. s \in Parts(m)
      BY <1>2, MeasurementFields DEF Parts, CountsCycles
    <3>2. Off(m, s) = 5
      BY <1>2, <3>1 DEF Off
    <3>3. Len(Part(m, s)) = 1
      BY <3>1, PartTypes
    <3> QED BY <3>1, <3>2, <3>3
  <2>4. \E s : Spot(s, 6, 1)
    <3> SUFFICES ASSUME NEW s, s = "jsr" PROVE Spot(s, 6, 1)
      OBVIOUS
    <3>1. s \in Parts(m)
      BY <1>2, MeasurementFields DEF Parts, CountsCycles
    <3>2. Off(m, s) = 6
      BY <1>2, <3>1 DEF Off
    <3>3. Len(Part(m, s)) = 1
      BY <3>1, PartTypes
    <3> QED BY <3>1, <3>2, <3>3
  <2>5. \E s : Spot(s, 7, Length(m))
    <3> SUFFICES ASSUME NEW s, s = "body" PROVE Spot(s, 7, Length(m))
      OBVIOUS
    <3>1. s \in Parts(m)
      BY <1>2, MeasurementFields DEF Parts, CountsCycles
    <3>2. Off(m, s) = 7
      BY <1>2, <3>1 DEF Off
    <3>3. Len(Part(m, s)) = Length(m)
      BY <3>1, PartTypes
    <3> QED BY <3>1, <3>2, <3>3
  <2>6. \E s : Spot(s, 7 + Length(m), 2)
    <3> SUFFICES ASSUME NEW s, s = "again" PROVE Spot(s, 7 + Length(m), 2)
      OBVIOUS
    <3>1. s \in Parts(m)
      BY <1>2, MeasurementFields DEF Parts, CountsCycles
    <3>2. Off(m, s) = 7 + Length(m)
      BY <1>2, <3>1 DEF Off
    <3>3. Len(Part(m, s)) = 2
      BY <3>1, PartTypes
    <3> QED BY <3>1, <3>2, <3>3
  <2>7. \E s : Spot(s, 9 + Length(m), 5)
    <3> SUFFICES ASSUME NEW s, s = "snap" PROVE Spot(s, 9 + Length(m), 5)
      OBVIOUS
    <3>1. s \in Parts(m)
      BY <1>2, MeasurementFields DEF Parts, CountsCycles
    <3>2. Off(m, s) = 9 + Length(m)
      BY <1>2, <3>1 DEF Off
    <3>3. Len(Part(m, s)) = 5
      BY <3>1, PartTypes
    <3> QED BY <3>1, <3>2, <3>3
  <2> HIDE DEF Spot
  <2>8. CASE i \in 0 + 1 .. 0 + 5
    BY <1>b, <1>s, <2>2, <2>8
  <2>9. CASE i \in 5 + 1 .. 5 + 1
    BY <1>b, <1>s, <2>3, <2>9
  <2>10. CASE i \in 6 + 1 .. 6 + 1
    BY <1>b, <1>s, <2>4, <2>10
  <2>11. CASE i \in 7 + 1 .. 7 + Length(m)
    BY <1>b, <1>s, <2>5, <2>11
  <2>12. CASE i \in 7 + Length(m) + 1 .. 7 + Length(m) + 2
    BY <1>b, <1>s, <2>6, <2>12
  <2>13. CASE i \in 9 + Length(m) + 1 .. 9 + Length(m) + 5
    BY <1>b, <1>s, <2>7, <2>13
  <2> QED BY <1>b, <2>1, <2>8, <2>9, <2>10, <2>11, <2>12, <2>13
<1> QED BY <1>1, <1>2 DEF Looped

\* In a loop the only jsr is the one the bne goes back to.
LEMMA LoopTops ==
  ASSUME NEW m \in Measurements, Looped(m)
  PROVE  \A s : s = "jsr" => (CHOOSE k \in DOMAIN Calls(m)[1] : Calls(m)[1][k] = "jsr") = Off(m, s) + 1
<1> DEFINE code == Calls(m)[1]
           Here(s, k) == s \in Parts(m) /\ k \in 1 .. Len(Part(m, s))
<1>1. \A s \in Parts(m) : CallOf(m, s) = 1
  BY DEF Looped, CallOf
<1>2. /\ Len(code) \in Nat /\ DOMAIN code = 1 .. Len(code)
      /\ \A i \in 1 .. Len(code) : \E s, k : Here(s, k) /\ i = Off(m, s) + k
  <2>1. Calls(m)[1] \in Seq(Instructions)
    BY ThunkLayout, JiffyThunkLayout DEF Looped
  <2> QED BY <2>1, Covered
<1>3. ASSUME NEW s, NEW k, Here(s, k), Part(m, s)[k] = "jsr"
      PROVE  s = "jsr" /\ k = 1
  <2>w. /\ k \in 1 .. Len(Part(m, s))
        /\ s \in {"blank", "unblank", "ldx", "jsr"} => Len(Part(m, s)) = 1
        /\ s = "start" => Len(Part(m, s)) = 10
        /\ s \in {"stop", "zero", "snap"} => Len(Part(m, s)) = 5
        /\ s = "again" => Len(Part(m, s)) = 2
        /\ s \in {"blank", "unblank", "start", "ldx", "jsr", "body", "again", "stop", "zero", "snap"}
    BY <1>3, PartTypes
  <2>1. CASE s = "body"
    <3>1. Part(m, s) \in Seq(BodyOps)
      BY <2>1, BodyType, MeasurementFields DEF Part
    <3>2. Part(m, s)[k] \in BodyOps
      BY <3>1, <2>w
    <3> QED BY <3>2, <1>3 DEF BodyOps
  <2>2. CASE s \in {"blank", "unblank", "ldx", "jsr", "again"}
    BY <2>2, <2>w, <1>3 DEF Part
  <2>3. CASE s = "start"
    <3>1. k \in 1 .. 10 /\ BenchCyclesStart[k] = "jsr"
      BY <2>3, <2>w, <1>3 DEF Part
    <3> QED BY <3>1 DEF BenchCyclesStart
  <2>4. CASE s \in {"stop", "zero", "snap"}
    <3>1. k \in 1 .. 5 /\ (BenchCyclesStop[k] = "jsr" \/ BenchStart[k] = "jsr" \/ BenchStop[k] = "jsr")
      BY <2>4, <2>w, <1>3 DEF Part
    <3>2. BenchCyclesStop[k] # "jsr"
      BY <3>1 DEF BenchCyclesStop
    <3>3. BenchStart[k] # "jsr"
      BY <3>1 DEF BenchStart
    <3>4. BenchStop[k] # "jsr"
      BY <3>1 DEF BenchStop
    <3> QED BY <3>1, <3>2, <3>3, <3>4
  <2> QED BY <2>1, <2>2, <2>3, <2>4, <2>w
<1>4. ASSUME NEW i \in 1 .. Len(code), code[i] = "jsr"
      PROVE  \E s \in Parts(m) : s = "jsr" /\ i = Off(m, s) + 1
  <2>1. PICK s, k : Here(s, k) /\ i = Off(m, s) + k
    BY <1>2
  <2>2. code[i] = Part(m, s)[k]
    BY <2>1, <1>1, Layout
  <2> QED BY <2>1, <2>2, <1>3, <1>4
<1>5. ASSUME NEW s, s = "jsr"
      PROVE  Off(m, s) + 1 \in 1 .. Len(code) /\ code[Off(m, s) + 1] = "jsr"
  <2>1. s \in Parts(m)
    BY <1>5, MeasurementFields DEF Looped, Parts
  <2>2. Part(m, s) = <<"jsr">>
    BY <1>5 DEF Part
  <2>3. /\ Off(m, s) \in Nat /\ Off(m, s) + Len(Part(m, s)) <= Len(code)
        /\ \A k \in 1 .. Len(Part(m, s)) : code[Off(m, s) + k] = Part(m, s)[k]
    BY <2>1, <1>1, Layout
  <2> QED BY <2>2, <2>3, <1>2
<1> HIDE DEF code
<1> DEFINE top == CHOOSE k \in DOMAIN code : code[k] = "jsr"
<1>6. ASSUME NEW s, s = "jsr" PROVE top = Off(m, s) + 1
  <2>1. top \in DOMAIN code /\ code[top] = "jsr"
    BY <1>2, <1>5, <1>6
  <2> HIDE DEF top
  <2> QED BY <2>1, <1>2, <1>4, <1>6
<1> QED BY <1>6 DEF top, code

\* A measurement opens with the first part of its first call; a call that is
\* not the last one is followed by a call that opens with the next part.
First(m) ==
  IF m.blank THEN "blank" ELSE IF CountsCycles(m) THEN "start" ELSE "zero"

LEMMA Openings ==
  ASSUME NEW m \in Measurements
  PROVE  /\ Len(Calls(m)) \in Nat \ {0}
         /\ \A s : s = First(m) => s \in Parts(m) /\ CallOf(m, s) = 1 /\ Off(m, s) = 0
<1>1. Len(Calls(m)) \in Nat \ {0}
  <2>1. m.form \in {"thunk", "subroutine", "jiffy_thunk"} => Len(Calls(m)) = 1
    BY ThunkLayout, SubroutineLayout, JiffyThunkLayout
  <2>2. m.form = "jiffies" => Len(Calls(m)) = 3
    BY CallsLayout
  <2>3. ASSUME m.form = "three_calls" PROVE Len(Calls(m)) \in {3, 5}
    <3>1. Blanking(m) = 0 \/ Blanking(m) = 1
      BY BlankingTypes
    <3>2. Len(Calls(m)) = 3 + 2 * Blanking(m)
      BY <2>3, CallsLayout
    <3> QED BY <3>1, <3>2
  <2>4. m.form \in Forms
    BY MeasurementFields
  <2>5. Len(Calls(m)) \in {1, 3, 5}
    BY <2>1, <2>2, <2>3, <2>4 DEF Forms
  <2> QED BY <2>5
<1>2. ASSUME NEW s, s = First(m) PROVE s \in Parts(m) /\ CallOf(m, s) = 1 /\ Off(m, s) = 0
  <2> USE MeasurementFields
  <2>1. CASE m.blank
    <3>1. s = "blank" /\ m.form \in {"thunk", "subroutine", "three_calls"}
      BY <1>2, <2>1 DEF First, CountsCycles
    <3> QED BY <2>1, <3>1 DEF Parts, CallOf, Off
  <2>2. CASE ~m.blank /\ CountsCycles(m)
    <3>1. s = "start" /\ m.form \in {"thunk", "subroutine", "three_calls"} /\ Blanking(m) = 0
      BY <1>2, <2>2 DEF First, CountsCycles, Blanking
    <3> QED BY <3>1 DEF Parts, CallOf, Off
  <2>3. CASE ~m.blank /\ ~CountsCycles(m)
    <3>1. s = "zero" /\ m.form \in {"jiffies", "jiffy_thunk"}
      BY <1>2, <2>3 DEF First, CountsCycles, Forms
    <3> QED BY <3>1 DEF Parts, CallOf, Off
  <2> QED BY <2>1, <2>2, <2>3
<1> QED BY <1>1, <1>2

LEMMA NextCalls ==
  ASSUME NEW m \in Measurements, NEW s \in Parts(m), EndsCall(m, s)
  PROVE  /\ CallOf(m, s) = Len(Calls(m)) => Closes(m, s)
         /\ CallOf(m, s) < Len(Calls(m)) =>
              /\ ~Closes(m, s) /\ After(m, s) \in Parts(m)
              /\ CallOf(m, After(m, s)) = CallOf(m, s) + 1 /\ Off(m, After(m, s)) = 0
<1> USE MeasurementFields
<1>1. CASE m.form \notin {"jiffies", "three_calls"}
  <2>1. Len(Calls(m)) = 1 /\ CallOf(m, s) = 1
    BY <1>1, ThunkLayout, SubroutineLayout, JiffyThunkLayout DEF Forms, CallOf
  <2>2. Closes(m, s)
    BY <1>1 DEF EndsCall, Closes
  <2> QED BY <2>1, <2>2
<1>2. CASE m.form = "jiffies"
  <2>1. Len(Calls(m)) = 3 /\ s \in {"zero", "body", "snap"} /\ Parts(m) = {"zero", "body", "snap"}
    BY <1>2, CallsLayout DEF Parts, CountsCycles
  <2>2. CASE s = "zero"
    <3>1. CallOf(m, s) = 1 /\ After(m, s) = "body" /\ ~Closes(m, s)
      BY <1>2, <2>2 DEF CallOf, After, Closes, Looped
    <3>2. CallOf(m, After(m, s)) = 2 /\ Off(m, After(m, s)) = 0
      BY <1>2, <3>1 DEF CallOf, Off
    <3> QED BY <2>1, <3>1, <3>2
  <2>3. CASE s = "body"
    <3>1. CallOf(m, s) = 2 /\ After(m, s) = "snap" /\ ~Closes(m, s)
      BY <1>2, <2>3 DEF CallOf, After, Closes, Looped
    <3>2. CallOf(m, After(m, s)) = 3 /\ Off(m, After(m, s)) = 0
      BY <1>2, <3>1 DEF CallOf, Off
    <3> QED BY <2>1, <3>1, <3>2
  <2>4. CASE s = "snap"
    <3>1. CallOf(m, s) = 3 /\ Closes(m, s)
      BY <1>2, <2>4 DEF CallOf, Closes
    <3> QED BY <2>1, <3>1
  <2> QED BY <2>1, <2>2, <2>3, <2>4
<1>3. CASE m.form = "three_calls"
  <2>1. /\ Len(Calls(m)) = 3 + 2 * Blanking(m) /\ (m.blank => Blanking(m) = 1) /\ (~m.blank => Blanking(m) = 0)
        /\ Parts(m) = (IF m.blank THEN {"blank", "unblank"} ELSE {}) \cup {"start", "body", "stop"}
    BY <1>3, CallsLayout DEF Parts, Blanking
  <2>2. CASE s = "blank"
    <3>1. CallOf(m, s) = 1 /\ After(m, s) = "start" /\ ~Closes(m, s) /\ m.blank
      BY <1>3, <2>1, <2>2 DEF CallOf, After, Closes
    <3>2. CallOf(m, After(m, s)) = Blanking(m) + 1 /\ Off(m, After(m, s)) = 0
      BY <1>3, <3>1 DEF CallOf, Off
    <3> QED BY <2>1, <3>1, <3>2
  <2>3. CASE s = "start"
    <3>1. CallOf(m, s) = Blanking(m) + 1 /\ After(m, s) = "body" /\ ~Closes(m, s)
      BY <1>3, <2>3 DEF CallOf, After, Closes, Looped
    <3>2. CallOf(m, After(m, s)) = Blanking(m) + 2 /\ Off(m, After(m, s)) = 0
      BY <1>3, <3>1 DEF CallOf, Off
    <3> QED BY <2>1, <3>1, <3>2
  <2>4. CASE s = "body"
    <3>1. CallOf(m, s) = Blanking(m) + 2 /\ After(m, s) = "stop" /\ ~Closes(m, s)
      BY <1>3, <2>4 DEF CallOf, After, Closes, Looped
    <3>2. CallOf(m, After(m, s)) = Blanking(m) + 3 /\ Off(m, After(m, s)) = 0
      BY <1>3, <3>1 DEF CallOf, Off
    <3> QED BY <2>1, <3>1, <3>2
  <2>5. CASE s = "stop" /\ m.blank
    <3>1. CallOf(m, s) = 4 /\ After(m, s) = "unblank" /\ ~Closes(m, s)
      BY <1>3, <2>1, <2>5 DEF CallOf, After, Closes
    <3>2. CallOf(m, After(m, s)) = 5 /\ Off(m, After(m, s)) = 0
      BY <1>3, <3>1 DEF CallOf, Off
    <3> QED BY <2>1, <2>5, <3>1, <3>2
  <2>6. CASE s = "stop" /\ ~m.blank
    <3>1. CallOf(m, s) = 3 /\ Closes(m, s)
      BY <1>3, <2>1, <2>6 DEF CallOf, Closes
    <3> QED BY <2>1, <2>6, <3>1
  <2>7. CASE s = "unblank"
    <3>1. CallOf(m, s) = 5 /\ Closes(m, s) /\ m.blank
      BY <1>3, <2>1, <2>7 DEF CallOf, Closes
    <3> QED BY <2>1, <3>1
  <2> QED BY <2>1, <2>2, <2>3, <2>4, <2>5, <2>6, <2>7
<1> QED BY <1>1, <1>2, <1>3 DEF Forms

(***************************************************************************)
(* The invariant: the state at the k-th instruction of part s of m, for     *)
(* each part, with k one more than its length when the part is over.        *)
(*                                                                          *)
(* Counting(m, e): the timers together hold the cycles since they were      *)
(* started, which are the e instructions since then and those stolen.       *)
(***************************************************************************)
Sum == (Base - 1 - cia.b) * Base + (Base - 1 - cia.a)

Slack(m) == IF m.blank THEN 0 ELSE stolen

TimersOK == cia.a \in 0 .. Base - 1 /\ cia.b \in 0 .. Base - 1

Loaded ==
  /\ ~cia.enabled /\ handler = 0
  /\ cia.aLatch = Base - 1 /\ cia.bLatch = Base - 1

Running(m, e) ==
  /\ Loaded /\ TimersOK /\ cia.aOn /\ cia.bOn /\ open
  /\ e \in 0 .. Counted(m) - 1
  /\ window = Sum /\ window \in e .. e + Slack(m)

Counting(m, e) == CountsCycles(m) => Running(m, e) /\ savedP = callerP

\* Stopped, or read out.
Stopped(m) ==
  /\ ~cia.aOn /\ TimersOK
  /\ Sum \in Counted(m) .. Counted(m) + Slack(m)

Figure(m) ==
  CountsCycles(m) => cycles[1] + cycles[2] * Base \in Counted(m) .. Counted(m) + Slack(m)

\* The flag a body finds.
Entry(m) == IF m.form \in {"thunk", "subroutine"} THEN TRUE ELSE callerP

\* Nothing is left on the stack, and the flag is as the bracket wants it.
Ready(m)  == pushed = <<>> /\ p = Entry(m) /\ blanked = m.blank
Quiet     == pushed = <<>> /\ p = callerP

\* The rounds before the one for which the counter is y, in instructions.
Gone(m, y) == (m.n - y) * (Length(m) + 3)

AtBlank(m, k) == Quiet /\ (k = 1 => ~blanked) /\ (k = 2 => blanked)

AtStart(m, k) ==
  /\ pushed = <<>> /\ blanked = m.blank
  /\ IF k <= 2 THEN p = callerP ELSE p = TRUE
  /\ k >= 2 => savedP = callerP
  /\ k \in 4 .. 10 => ~cia.aOn
  /\ k >= 6 => ~cia.enabled /\ handler = 0
  /\ k \in 8 .. 10 => cia.a = Base - 1 /\ cia.aLatch = Base - 1
  /\ k \in 9 .. 10 => cia.b = Base - 1 /\ cia.bLatch = Base - 1
  /\ k = 10 => cia.bOn
  /\ k = 11 => Running(m, 0)

AtLdx(m, k) == Ready(m) /\ Counting(m, k - 1) /\ (k = 2 => x = m.n)

Round(m) == Looped(m) => x \in 1 .. m.n

AtJsr(m, k) ==
  /\ Ready(m) /\ Round(m)
  /\ Counting(m, (IF Looped(m) THEN 1 + Gone(m, x) ELSE 0) + (k - 1))

\* After k - 1 instructions of the body.
Nested(m, k) ==
  /\ Len(pushed) = Depth(Body[m.routine], k - 1)
  /\ Len(pushed) = 0 => p = Entry(m)
  /\ Len(pushed) > 0 => pushed[1] = Entry(m)

AtBody(m, k) ==
  /\ Nested(m, k) /\ Round(m) /\ blanked = m.blank
  /\ Counting(m, (IF Looped(m) THEN 2 + Gone(m, x) ELSE IF m.form = "subroutine" THEN 1 ELSE 0) + (k - 1))

AtAgain(m, k) ==
  /\ Ready(m)
  /\ k = 1 => x \in 1 .. m.n /\ Counting(m, 2 + Gone(m, x) + Length(m))
  /\ k = 2 => x \in 0 .. m.n - 1 /\ Counting(m, Gone(m, x))
  /\ k = 3 => Counting(m, 1 + Gone(m, 0))

AtStop(m, k) ==
  /\ pushed = <<>> /\ blanked = m.blank /\ savedP = callerP
  /\ k = 1 => Running(m, Counted(m) - 1)
  /\ k \in 2 .. 4 => Stopped(m)
  /\ k = 4 => cycles[1] = Base - 1 - cia.a
  /\ k >= 5 => Figure(m)
  /\ k = 6 => p = callerP

AtUnblank(m, k) == Quiet /\ (k = 1 => blanked) /\ (k = 2 => ~blanked) /\ Figure(m)

\* bench_start and bench_stop.
AtJiffies(k) ==
  /\ ~blanked
  /\ IF k \in 2 .. 5 THEN pushed = <<callerP>> ELSE Quiet

AtPart(m, s, k) ==
  CASE s = "blank"   -> AtBlank(m, k)
    [] s = "start"   -> AtStart(m, k)
    [] s = "ldx"     -> AtLdx(m, k)
    [] s = "jsr"     -> AtJsr(m, k)
    [] s = "body"    -> AtBody(m, k)
    [] s = "again"   -> AtAgain(m, k)
    [] s = "stop"    -> AtStop(m, k)
    [] s = "unblank" -> AtUnblank(m, k)
    [] OTHER         -> AtJiffies(k)

On(m, s, k) ==
  /\ s \in Parts(m) /\ call = CallOf(m, s)
  /\ k \in 1 .. Len(Part(m, s)) + 1 /\ pc = Off(m, s) + k

Timers ==
  [aOn : BOOLEAN, a : Int, aLatch : Int, bOn : BOOLEAN, b : Int, bLatch : Int,
   enabled : BOOLEAN, flag : BOOLEAN]

StateTypes ==
  /\ p \in BOOLEAN /\ callerP \in BOOLEAN /\ savedP \in BOOLEAN /\ pushed \in Seq(BOOLEAN)
  /\ x \in Int /\ handler \in Nat /\ stolen \in 0 .. Steals /\ window \in Nat
  /\ cia \in Timers /\ cycles \in Int \X Int /\ blanked \in BOOLEAN

CycleTypes ==
  /\ plan \in Plans /\ at \in 1 .. Len(plan) + 1
  /\ call \in Nat /\ (call > 0 => at <= Len(plan))
  /\ StateTypes

InCall ==
  IF call = 0 THEN Quiet /\ ~blanked
  ELSE \E s \in Parts(plan[at]) : \E k \in Nat : On(plan[at], s, k) /\ AtPart(plan[at], s, k)

OperandsSet ==
  /\ DOMAIN ptr = DOMAIN Operands
  /\ call > 0 => \A q \in Uses(plan[at].routine) : ptr[q] = Operands[q]

CycleInv == CycleTypes /\ InCall /\ OperandsSet /\ CycleCountRight

(***************************************************************************)
(* Arithmetic of the counters.                                              *)
(***************************************************************************)
Fits(m) == CountsCycles(m) => Counted(m) + Steals < Base * Base

LEMMA CountedType ==
  ASSUME NEW m \in Measurements
  PROVE  /\ Counted(m) \in Nat /\ Length(m) \in Nat \ {0} /\ m.n \in Nat \ {0}
         /\ m.form = "thunk" => Counted(m) = Gone(m, 0) + 2
         /\ m.form = "subroutine" => Counted(m) = Length(m) + 2
         /\ m.form = "three_calls" => Counted(m) = Length(m) + 1
<1>1. Length(m) \in Nat \ {0} /\ m.n \in Nat \ {0}
  BY LoopParts, MeasurementFields
<1>2. m.n * Length(m) \in Nat
  BY <1>1
<1>3. CASE m.form = "thunk"
  <2>1. Counted(m) = m.n * Length(m) + (3 * m.n + 2)
    BY <1>3 DEF Counted, Length
  <2>2. Gone(m, 0) = m.n * Length(m) + 3 * m.n
    BY <1>1 DEF Gone
  <2> QED BY <1>1, <1>2, <1>3, <2>1, <2>2
<1>4. CASE m.form = "subroutine"
  <2>1. m.n = 1
    BY <1>4, MeasurementFields DEF Looped
  <2>2. Counted(m) = m.n * Length(m) + 2
    BY <1>4 DEF Counted, Length
  <2> QED BY <1>1, <1>4, <2>1, <2>2
<1>5. CASE m.form = "three_calls"
  <2>1. m.n = 1
    BY <1>5, MeasurementFields DEF Looped
  <2>2. Counted(m) = m.n * Length(m) + 1
    BY <1>5 DEF Counted, Length
  <2> QED BY <1>1, <1>5, <2>1, <2>2
<1>6. CASE m.form \notin {"thunk", "subroutine", "three_calls"}
  <2>1. Counted(m) = m.n * Length(m) + 1
    BY <1>6 DEF Counted, Length
  <2> QED BY <1>1, <1>2, <1>6, <2>1
<1> QED BY <1>3, <1>4, <1>5, <1>6

LEMMA Rounds ==
  ASSUME NEW m \in Measurements, NEW y \in 1 .. m.n
  PROVE  /\ Gone(m, y) \in Nat /\ Gone(m, y - 1) = Gone(m, y) + Length(m) + 3
         /\ Gone(m, y) + Length(m) + 3 <= Gone(m, 0)
         /\ Gone(m, m.n) = 0
<1>1. Length(m) \in Nat \ {0} /\ m.n \in Nat \ {0}
  BY CountedType
<1> DEFINE w == Length(m) + 3
<1>2. w \in Nat /\ w > 0
  BY <1>1
<1>3. Gone(m, y) = (m.n - y) * w /\ Gone(m, y - 1) = (m.n - (y - 1)) * w /\ Gone(m, 0) = (m.n - 0) * w
  BY DEF Gone
<1>a. Gone(m, m.n) = 0
  BY <1>1 DEF Gone
<1> HIDE DEF w
<1>4. m.n - y \in Nat /\ y - 1 \in Nat
  BY <1>1
<1>5. (m.n - y) * w \in Nat /\ (y - 1) * w \in Nat
  BY <1>2, <1>4
<1>6. (m.n - (y - 1)) * w = (m.n - y) * w + w
  BY <1>1, <1>2
<1>7. (m.n - 0) * w = (m.n - y) * w + w + (y - 1) * w
  BY <1>1, <1>2
<1> QED BY <1>3, <1>5, <1>6, <1>7, <1>1, <1>a DEF w

LEMMA CycleFacts ==
  ASSUME cia \in Timers
  PROVE  /\ Cycle \in Timers /\ Cycle.aOn = cia.aOn /\ Cycle.bOn = cia.bOn
         /\ Cycle.aLatch = cia.aLatch /\ Cycle.bLatch = cia.bLatch /\ Cycle.enabled = cia.enabled
         /\ ~cia.aOn => Cycle.a = cia.a /\ Cycle.b = cia.b
<1> DEFINE under == cia.aOn /\ cia.a = 0
           NA == IF under THEN cia.aLatch ELSE IF cia.aOn THEN cia.a - 1 ELSE cia.a
           NB == IF under /\ cia.bOn THEN (IF cia.b = 0 THEN cia.bLatch ELSE cia.b - 1) ELSE cia.b
           NF == cia.flag \/ under
<1>1. Cycle = [cia EXCEPT !.a = NA, !.b = NB, !.flag = NF]
  BY DEF Cycle
<1>2. NA \in Int /\ NB \in Int /\ NF \in BOOLEAN /\ (~cia.aOn => NA = cia.a /\ NB = cia.b)
  BY DEF Timers
<1> HIDE DEF NA, NB, NF
<1> QED BY <1>1, <1>2 DEF Timers

LEMMA Counter ==
  ASSUME NEW a \in 0 .. Base - 1, NEW b \in 0 .. Base - 1, NEW a1, NEW b1,
         (Base - 1 - b) * Base + (Base - 1 - a) + 1 < Base * Base,
         a1 = (IF a = 0 THEN Base - 1 ELSE a - 1),
         b1 = (IF a = 0 THEN (IF b = 0 THEN Base - 1 ELSE b - 1) ELSE b)
  PROVE  /\ a1 \in 0 .. Base - 1 /\ b1 \in 0 .. Base - 1
         /\ (Base - 1 - b1) * Base + (Base - 1 - a1) = (Base - 1 - b) * Base + (Base - 1 - a) + 1
<1>1. Base \in Nat \ {0}
  BY CycleAssumption
<1>2. (Base - 1) * Base = Base * Base - Base /\ Base * Base \in Nat
  BY <1>1
<1>3. CASE a # 0
  BY <1>1, <1>3
<1>4. CASE a = 0
  <2>1. b # 0
    <3> SUFFICES ASSUME b = 0 PROVE FALSE
      OBVIOUS
    <3>1. (Base - 1 - b) * Base = (Base - 1) * Base
      BY <1>1
    <3> QED BY <1>1, <1>2, <1>4, <3>1
  <2>2. a1 = Base - 1 /\ b1 = b - 1
    BY <1>4, <2>1
  <2>3. (Base - 1 - (b - 1)) * Base = (Base - 1 - b) * Base + Base
    BY <1>1
  <2> QED BY <1>1, <1>4, <2>1, <2>2, <2>3
<1> QED BY <1>3, <1>4

LEMMA CycleCounts ==
  ASSUME cia \in Timers, TimersOK, cia.aOn, cia.bOn, cia.aLatch = Base - 1, cia.bLatch = Base - 1,
         Sum + 1 < Base * Base
  PROVE  /\ Cycle.a \in 0 .. Base - 1 /\ Cycle.b \in 0 .. Base - 1
         /\ (Base - 1 - Cycle.b) * Base + (Base - 1 - Cycle.a) = Sum + 1
<1>1. /\ Cycle.a = (IF cia.a = 0 THEN Base - 1 ELSE cia.a - 1)
      /\ Cycle.b = (IF cia.a = 0 THEN (IF cia.b = 0 THEN Base - 1 ELSE cia.b - 1) ELSE cia.b)
  BY DEF Cycle, Timers
<1> QED BY <1>1, Counter DEF Sum, TimersOK

(***************************************************************************)
(* Time passes: a stolen cycle, an interrupt, a cycle of its handler.       *)
(***************************************************************************)
Elapses == Steal \/ Interrupt \/ Handle

SameTimers ==
  /\ cia'.aOn = cia.aOn /\ cia'.bOn = cia.bOn /\ cia'.enabled = cia.enabled
  /\ cia'.aLatch = cia.aLatch /\ cia'.bLatch = cia.bLatch
  /\ ~cia.aOn => cia'.a = cia.a /\ cia'.b = cia.b

LEMMA PassedType ==
  ASSUME window \in Nat, NEW masked, Passed(masked)
  PROVE  window' \in Nat
BY DEF Passed

LEMMA ElapseFacts ==
  ASSUME StateTypes, Elapses
  PROVE  /\ StateTypes' /\ SameTimers
         /\ UNCHANGED <<plan, at, call, pc, open, reading>> /\ UNCHANGED processor
         /\ handler = 0 /\ ~cia.enabled => handler' = 0
         /\ stolen <= stolen'
<1> USE DEF StateTypes
<1>1. CASE Steal
  <2>1. cia' \in Timers /\ SameTimers
    BY <1>1, CycleFacts DEF Steal, SameTimers
  <2>2. stolen' \in 0 .. Steals /\ stolen <= stolen' /\ handler' = handler
    BY <1>1, CycleAssumption DEF Steal
  <2>3. window' \in Nat
    BY <1>1, PassedType DEF Steal
  <2>4. UNCHANGED <<plan, at, call, pc, open, reading>> /\ UNCHANGED processor
    BY <1>1 DEF Steal
  <2> QED BY <2>1, <2>2, <2>3, <2>4 DEF processor
<1>2. CASE Interrupt
  <2>1. cia' \in Timers /\ SameTimers
    BY <1>2 DEF Interrupt, SameTimers, Timers
  <2>2. handler' \in Nat /\ (~cia.enabled => handler' = 0)
    BY <1>2, CycleAssumption DEF Interrupt, Requested
  <2>3. UNCHANGED <<plan, at, call, pc, open, reading>> /\ UNCHANGED processor /\ UNCHANGED <<stolen, window>>
    BY <1>2 DEF Interrupt
  <2> QED BY <2>1, <2>2, <2>3 DEF processor
<1>3. CASE Handle
  <2>1. cia' \in Timers /\ SameTimers
    BY <1>3, CycleFacts DEF Handle, SameTimers
  <2>2. handler' \in Nat /\ handler # 0
    BY <1>3 DEF Handle
  <2>3. window' \in Nat
    BY <1>3, PassedType DEF Handle
  <2>4. UNCHANGED <<plan, at, call, pc, open, reading>> /\ UNCHANGED processor /\ UNCHANGED stolen
    BY <1>3 DEF Handle
  <2> QED BY <2>1, <2>2, <2>3, <2>4 DEF processor
<1> QED BY <1>1, <1>2, <1>3 DEF Elapses

LEMMA ElapseRunning ==
  ASSUME NEW m \in Measurements, NEW e, StateTypes, Elapses, Running(m, e), blanked = m.blank,
         Counted(m) + Steals < Base * Base
  PROVE  Running(m, e)'
<1>1. Steal
  <2>1. ~cia.enabled /\ handler = 0
    BY DEF Running, Loaded
  <2>2. ~Interrupt
    BY <2>1 DEF Interrupt, Requested
  <2>3. ~Handle
    BY <2>1 DEF Handle
  <2> QED BY <2>2, <2>3 DEF Elapses
<1>2. ~m.blank /\ stolen' = stolen + 1 /\ cia' = Cycle /\ window' = window + 1 /\ stolen < Steals
  BY <1>1 DEF Steal, Passed, Running
<1>3. StateTypes' /\ SameTimers /\ open' = open /\ handler' = handler
  BY <1>1, ElapseFacts DEF Steal
<1>4. stolen \in Nat /\ Steals \in Nat /\ Counted(m) \in Nat /\ Base * Base \in Nat
  BY CycleAssumption, CountedType DEF StateTypes
<1>5. /\ e \in 0 .. Counted(m) - 1 /\ window = Sum /\ window \in e .. e + stolen
  BY <1>2 DEF Running, Slack
<1>6. Sum + 1 < Base * Base
  BY <1>2, <1>4, <1>5
<1>7. TimersOK' /\ Sum' = Sum + 1
  BY <1>2, <1>6, CycleCounts DEF StateTypes, Running, Loaded, TimersOK, Sum
<1>8. window' = Sum' /\ window' \in e .. e + Slack(m)'
  BY <1>2, <1>4, <1>5, <1>7 DEF Slack
<1> QED BY <1>2, <1>3, <1>5, <1>7, <1>8 DEF Running, Loaded, SameTimers

LEMMA ElapseCounting ==
  ASSUME NEW m \in Measurements, NEW e, StateTypes, Elapses, Counting(m, e), blanked = m.blank, Fits(m)
  PROVE  Counting(m, e)'
<1>1. savedP' = savedP /\ callerP' = callerP
  BY ElapseFacts DEF processor
<1> QED BY <1>1, ElapseRunning DEF Counting, Fits

\* The place of the processor is not left, and what holds there stays true.
LEMMA ElapsePart ==
  ASSUME NEW m \in Measurements, Fits(m), NEW s \in Parts(m), NEW k \in Nat,
         StateTypes, Elapses, AtPart(m, s, k)
  PROVE  AtPart(m, s, k)'
<1>1. /\ StateTypes' /\ SameTimers /\ open' = open
      /\ p' = p /\ pushed' = pushed /\ callerP' = callerP /\ savedP' = savedP /\ x' = x
      /\ blanked' = blanked /\ cycles' = cycles
      /\ handler = 0 /\ ~cia.enabled => handler' = 0
      /\ stolen <= stolen' /\ stolen \in Nat /\ stolen' \in Nat
  BY ElapseFacts, CycleAssumption DEF processor, StateTypes
<1>2. Counted(m) \in Nat /\ m.blank \in BOOLEAN
  BY CountedType, MeasurementFields
<1>3. Slack(m) \in Nat /\ Slack(m)' \in Nat /\ Slack(m) <= Slack(m)'
  BY <1>1, <1>2 DEF Slack
<1>4. (Quiet <=> Quiet') /\ (Ready(m) <=> Ready(m)') /\ (Round(m) <=> Round(m)') /\ (Entry(m) = Entry(m)')
  BY <1>1 DEF Quiet, Ready, Round, Entry
<1>5. Figure(m) => Figure(m)'
  <2>1. cycles[1] + cycles[2] * Base \in Int
    BY CycleAssumption DEF StateTypes
  <2> DEFINE c == cycles[1] + cycles[2] * Base
  <2>2. c' = c
    BY <1>1
  <2> HIDE DEF c
  <2>3. c \in Counted(m) .. Counted(m) + Slack(m) => c' \in Counted(m) .. Counted(m) + Slack(m)'
    BY <1>2, <1>3, <2>1, <2>2 DEF c
  <2> QED BY <2>3 DEF Figure, c
<1>6. ASSUME NEW e, Counting(m, e), blanked = m.blank PROVE Counting(m, e)'
  BY <1>6, ElapseCounting
<1>7. CASE s = "blank"
  BY <1>1, <1>4, <1>7 DEF AtPart, AtBlank
<1>8. CASE s = "start"
  <2>1. AtStart(m, k)
    BY <1>8 DEF AtPart
  <2>2. CASE k = 11
    <3>1. Counting(m, 0) \/ ~CountsCycles(m)
      BY <2>1, <2>2 DEF AtStart, Counting
    <3>2. CountsCycles(m)
      BY <1>8, MeasurementFields DEF Parts, CountsCycles, Forms
    <3>3. Running(m, 0)'
      BY <2>1, <2>2, <3>2, ElapseRunning DEF AtStart, Fits
    <3>4. AtStart(m, k)'
      BY <2>1, <2>2, <3>3, <1>1 DEF AtStart, SameTimers
    <3> QED BY <3>4, <1>8 DEF AtPart
  <2>3. CASE k # 11
    <3>1. k \in 4 .. 10 => cia'.a = cia.a /\ cia'.b = cia.b
      BY <2>1, <1>1 DEF AtStart, SameTimers
    <3>2. AtStart(m, k)'
      BY <2>1, <2>3, <3>1, <1>1 DEF AtStart, SameTimers
    <3> QED BY <3>2, <1>8 DEF AtPart
  <2> QED BY <2>2, <2>3
<1>9. CASE s = "ldx"
  <2>1. AtLdx(m, k)
    BY <1>9 DEF AtPart
  <2>2. Counting(m, k - 1)'
    BY <2>1, <1>6 DEF AtLdx, Ready
  <2>3. AtLdx(m, k)'
    BY <2>1, <2>2, <1>1, <1>4 DEF AtLdx
  <2> QED BY <2>3, <1>9 DEF AtPart
<1>10. CASE s = "jsr"
  <2> DEFINE e == (IF Looped(m) THEN 1 + Gone(m, x) ELSE 0) + (k - 1)
  <2>1. Ready(m) /\ Round(m) /\ Counting(m, e)
    BY <1>10 DEF AtPart, AtJsr
  <2>2. PICK d : d = e
    OBVIOUS
  <2>3. e' = d
    BY <1>1, <2>2
  <2>4. Counting(m, d)'
    BY <2>1, <2>2, <1>6 DEF Ready
  <2>5. AtJsr(m, k)'
    BY <2>1, <2>3, <2>4, <1>4 DEF AtJsr
  <2> QED BY <2>5, <1>10 DEF AtPart
<1>11. CASE s = "body"
  <2> DEFINE e == (IF Looped(m) THEN 2 + Gone(m, x) ELSE IF m.form = "subroutine" THEN 1 ELSE 0) + (k - 1)
  <2>1. Nested(m, k) /\ Round(m) /\ blanked = m.blank /\ Counting(m, e)
    BY <1>11 DEF AtPart, AtBody
  <2>2. PICK d : d = e
    OBVIOUS
  <2>3. e' = d
    BY <1>1, <2>2
  <2>4. Counting(m, d)'
    BY <2>1, <2>2, <1>6
  <2>5. Nested(m, k)'
    BY <2>1, <1>1, <1>4 DEF Nested
  <2>6. AtBody(m, k)'
    BY <2>1, <2>3, <2>4, <2>5, <1>1, <1>4 DEF AtBody
  <2> QED BY <2>6, <1>11 DEF AtPart
<1>12. CASE s = "again"
  <2>1. AtAgain(m, k)
    BY <1>12 DEF AtPart
  <2>2. PICK d1, d2, d3 : d1 = 2 + Gone(m, x) + Length(m) /\ d2 = Gone(m, x) /\ d3 = 1 + Gone(m, 0)
    OBVIOUS
  <2>3. (2 + Gone(m, x) + Length(m))' = d1 /\ Gone(m, x)' = d2
    BY <2>2, <1>1 DEF Gone
  <2>4. /\ k = 1 => Counting(m, d1)'
        /\ k = 2 => Counting(m, d2)'
        /\ k = 3 => Counting(m, d3)'
    BY <2>1, <2>2, <1>6 DEF AtAgain, Ready
  <2>5. AtAgain(m, k)'
    BY <2>1, <2>2, <2>3, <2>4, <1>1, <1>4 DEF AtAgain
  <2> QED BY <2>5, <1>12 DEF AtPart
<1>13. CASE s = "stop"
  <2>1. AtStop(m, k)
    BY <1>13 DEF AtPart
  <2>2. CountsCycles(m)
    BY <1>13, MeasurementFields DEF Parts, CountsCycles, Forms
  <2>3. k = 1 => Running(m, Counted(m) - 1)'
    BY <2>1, <2>2, ElapseRunning DEF AtStop, Fits
  <2>4. Stopped(m) => Stopped(m)' /\ cia'.a = cia.a
    <3> SUFFICES ASSUME Stopped(m) PROVE Stopped(m)' /\ cia'.a = cia.a
      OBVIOUS
    <3>1. cia'.a = cia.a /\ cia'.b = cia.b /\ ~cia'.aOn
      BY <1>1 DEF Stopped, SameTimers
    <3>2. TimersOK' /\ Sum' = Sum
      BY <3>1 DEF Stopped, TimersOK, Sum
    <3>3. Sum \in Counted(m) .. Counted(m) + Slack(m)'
      BY <1>2, <1>3 DEF Stopped
    <3> QED BY <3>1, <3>2, <3>3 DEF Stopped
  <2>5. AtStop(m, k)'
    BY <2>1, <2>3, <2>4, <1>1, <1>5 DEF AtStop
  <2> QED BY <2>5, <1>13 DEF AtPart
<1>14. CASE s = "unblank"
  BY <1>1, <1>4, <1>5, <1>14 DEF AtPart, AtUnblank
<1>15. CASE s \in {"zero", "snap"}
  <2>1. AtJiffies(k)
    BY <1>15 DEF AtPart
  <2>2. AtJiffies(k)'
    BY <2>1, <1>1, <1>4 DEF AtJiffies
  <2> QED BY <2>2, <1>15 DEF AtPart
<1> QED BY <1>7, <1>8, <1>9, <1>10, <1>11, <1>12, <1>13, <1>14, <1>15, PartTypes

(***************************************************************************)
(* An instruction.                                                          *)
(***************************************************************************)
Steps(op) ==
  /\ handler = 0 /\ ~Requested /\ Perform(op)
  /\ UNCHANGED <<plan, at, call, callerP, handler, ptr, stolen, reading>>

\* Those that leave the timers, what was read of them, the display and the
\* saved status alone.
PlainOps == BodyOps \cup {"ldx", "jsr", "dec", "bne"}

LEMMA PlainStep ==
  ASSUME Timed \in Measurements, StateTypes, NEW op \in PlainOps, Steps(op)
  PROVE  /\ cia' = Cycle /\ open' = open /\ blanked' = blanked /\ savedP' = savedP
         /\ callerP' = callerP /\ cycles' = cycles /\ stolen' = stolen /\ handler' = handler
         /\ plan' = plan /\ at' = at /\ call' = call
         /\ window' = (IF open THEN window + 1 ELSE window)
         /\ StateTypes' <=> p' \in BOOLEAN /\ pushed' \in Seq(BOOLEAN)
<1>1. op \notin {"stop_A", "stop_B", "mask_ICR", "ack_ICR", "latch_A", "latch_B", "start_A", "start_B",
                 "zero_high", "zero_low", "snap_high", "snap_low", "count_low", "count_high",
                 "save_p", "restore_p", "vic_blank", "vic_unblank"}
  BY DEF PlainOps, BodyOps
<1>2. cia' = Cycle
  BY <1>1 DEF Steps, Perform, Cia
<1>3. /\ open' = open /\ blanked' = blanked /\ window' = (IF open THEN window + 1 ELSE window)
  BY <1>1 DEF Steps, Perform, Passed
<1>4. savedP' = savedP
  BY <1>1 DEF Steps, Perform, Flags
<1>5. cycles' = cycles
  <2>1. cycles' = CASE op = "count_low"  -> <<Base - 1 - cia.a, cycles[2]>>
                    [] op = "count_high" -> <<cycles[1], Base - 1 - cia.b>>
                    [] OTHER -> cycles
    BY DEF Steps, Perform, Clocks
  <2> QED BY <1>1, <2>1
<1>6. callerP' = callerP /\ stolen' = stolen /\ handler' = handler /\ plan' = plan /\ at' = at /\ call' = call
  BY DEF Steps
<1>7. x' \in Int
  <2>1. x' = CASE op = "ldx" -> Timed.n [] op = "dec" -> x - 1 [] OTHER -> x
    BY DEF Steps, Perform, Branch
  <2>2. Timed.n \in Int
    BY MeasurementFields
  <2> QED BY <2>1, <2>2 DEF StateTypes
<1> QED BY <1>2, <1>3, <1>4, <1>5, <1>6, <1>7, CycleFacts DEF StateTypes

LEMMA PlainRunning ==
  ASSUME NEW m \in Measurements, m = Timed, Fits(m), StateTypes, NEW op \in PlainOps, Steps(op),
         NEW e, Running(m, e), e < Counted(m) - 1, CountsCycles(m)
  PROVE  Running(m, e + 1)'
<1>1. /\ cia' = Cycle /\ open' = open /\ window' = (IF open THEN window + 1 ELSE window)
      /\ stolen' = stolen /\ handler' = handler
  BY PlainStep
<1>2. Cycle \in Timers /\ Cycle.aOn = cia.aOn /\ Cycle.bOn = cia.bOn
      /\ Cycle.aLatch = cia.aLatch /\ Cycle.bLatch = cia.bLatch /\ Cycle.enabled = cia.enabled
  BY CycleFacts DEF StateTypes
<1>3. Loaded' /\ cia'.aOn /\ cia'.bOn /\ open' /\ window' = window + 1
  BY <1>1, <1>2 DEF Running, Loaded
<1>4. /\ stolen \in 0 .. Steals /\ Steals \in Nat /\ Counted(m) \in Nat /\ Base * Base \in Nat
      /\ Counted(m) + Steals < Base * Base /\ m.blank \in BOOLEAN
  BY CycleAssumption, CountedType, MeasurementFields DEF StateTypes, Fits
<1>5. e \in 0 .. Counted(m) - 1 /\ window = Sum /\ window \in e .. e + Slack(m)
  BY DEF Running
<1>6. Slack(m) \in 0 .. Steals /\ Slack(m)' = Slack(m)
  BY <1>1, <1>4 DEF Slack
<1>7. Sum + 1 < Base * Base
  BY <1>4, <1>5, <1>6
<1>8. TimersOK' /\ Sum' = Sum + 1
  BY <1>1, <1>7, CycleCounts DEF StateTypes, Running, Loaded, TimersOK, Sum
<1>9. e + 1 \in 0 .. Counted(m) - 1 /\ window' = Sum' /\ window' \in e + 1 .. e + 1 + Slack(m)'
  BY <1>3, <1>4, <1>5, <1>6, <1>8
<1> QED BY <1>3, <1>8, <1>9 DEF Running

LEMMA PlainCounting ==
  ASSUME NEW m \in Measurements, m = Timed, Fits(m), StateTypes, NEW op \in PlainOps, Steps(op),
         NEW e, Counting(m, e), CountsCycles(m) => e < Counted(m) - 1
  PROVE  Counting(m, e + 1)'
<1>1. savedP' = savedP /\ callerP' = callerP
  BY PlainStep
<1> QED BY <1>1, PlainRunning DEF Counting

LEMMA LdxStep ==
  ASSUME NEW m \in Measurements, m = Timed, Looped(m), Fits(m), StateTypes, Steps("ldx"), AtLdx(m, 1)
  PROVE  AtLdx(m, 2)' /\ StateTypes' /\ pc' = pc + 1
<1> PICK op : op = "ldx"
  OBVIOUS
<1>1. op \in PlainOps /\ Steps(op)
  BY DEF PlainOps
<1>2. p' = p /\ pushed' = pushed /\ x' = m.n /\ pc' = pc + 1
  BY <1>1 DEF Steps, Perform, Flags, Branch
<1>3. blanked' = blanked /\ callerP' = callerP /\ StateTypes'
  BY <1>1, <1>2, PlainStep DEF StateTypes
<1>4. Ready(m)'
  BY <1>2, <1>3 DEF AtLdx, Ready, Entry
<1>5. CountsCycles(m) => 0 < Counted(m) - 1
  BY CountedType, Rounds, MeasurementFields DEF Looped, CountsCycles
<1>6. Counting(m, 1 - 1)
  BY DEF AtLdx
<1>7. Counting(m, 1)'
  BY <1>1, <1>5, <1>6, PlainCounting
<1> QED BY <1>2, <1>3, <1>4, <1>7 DEF AtLdx

LEMMA JsrStep ==
  ASSUME NEW m \in Measurements, m = Timed, m.form \in {"thunk", "jiffy_thunk", "subroutine"},
         Fits(m), StateTypes, Steps("jsr"), AtJsr(m, 1)
  PROVE  AtJsr(m, 2)' /\ StateTypes' /\ pc' = pc + 1
<1> PICK op : op = "jsr"
  OBVIOUS
<1>1. op \in PlainOps /\ Steps(op)
  BY DEF PlainOps
<1>2. p' = p /\ pushed' = pushed /\ x' = x /\ pc' = pc + 1
  BY <1>1 DEF Steps, Perform, Flags, Branch
<1>3. blanked' = blanked /\ callerP' = callerP /\ StateTypes'
  BY <1>1, <1>2, PlainStep DEF StateTypes
<1>4. Ready(m)' /\ Round(m)'
  BY <1>2, <1>3 DEF AtJsr, Ready, Entry, Round
<1> DEFINE f == IF Looped(m) THEN 1 + Gone(m, x) ELSE 0
<1>5. f \in Nat /\ (CountsCycles(m) => f < Counted(m) - 1)
  <2>1. CASE Looped(m)
    <3>1. x \in 1 .. m.n
      BY <2>1 DEF AtJsr, Round
    <3>2. Gone(m, x) \in Nat /\ Gone(m, x) + Length(m) + 3 <= Gone(m, 0) /\ Length(m) \in Nat
      BY <3>1, Rounds, CountedType
    <3>3. CountsCycles(m) => Counted(m) = Gone(m, 0) + 2
      BY <2>1, CountedType DEF Looped, CountsCycles
    <3>4. Gone(m, 0) \in Int
      BY CountedType DEF Gone
    <3> QED BY <2>1, <3>2, <3>3, <3>4
  <2>2. CASE ~Looped(m)
    BY <2>2, CountedType DEF Looped
  <2> QED BY <2>1, <2>2
<1>6. PICK d : d = f
  OBVIOUS
<1>7. f' = d
  BY <1>2, <1>6 DEF Gone
<1>8. Counting(m, d)
  <2>1. Counting(m, f + (1 - 1))
    BY DEF AtJsr
  <2>2. f + (1 - 1) = f
    BY <1>5
  <2> HIDE DEF f
  <2> QED BY <2>1, <2>2, <1>6
<1>9. Counting(m, d + 1)'
  BY <1>1, <1>5, <1>6, <1>8, PlainCounting
<1>10. Counting(m, f + (2 - 1))'
  <2>1. 2 - 1 = 1
    OBVIOUS
  <2> HIDE DEF f
  <2> QED BY <2>1, <1>7, <1>9
<1> QED BY <1>3, <1>2, <1>4, <1>10 DEF AtJsr

(***************************************************************************)
(* A body: how deep its statuses are on the stack.                          *)
(***************************************************************************)
LEMMA CountStep ==
  ASSUME NEW b, NEW op, NEW k \in Nat \ {0}
  PROVE  /\ Count(b, op, k - 1) \in Nat
         /\ b[k] = op => Count(b, op, k) = Count(b, op, k - 1) + 1
         /\ b[k] # op => Count(b, op, k) = Count(b, op, k - 1)
<1> DEFINE S == {j \in 1 .. k - 1 : b[j] = op}
           T == {j \in 1 .. k : b[j] = op}
<1>1. IsFiniteSet(1 .. k - 1)
  BY FS_Interval
<1>2. IsFiniteSet(S)
  BY <1>1, FS_Subset
<1>3. k \notin S
  OBVIOUS
<1>4. b[k] = op => T = S \cup {k}
  OBVIOUS
<1>5. b[k] # op => T = S
  OBVIOUS
<1>6. Count(b, op, k - 1) = Cardinality(S) /\ Count(b, op, k) = Cardinality(T)
  BY DEF Count
<1> HIDE DEF S, T
<1>7. Cardinality(S) \in Nat
  BY <1>2, FS_CardinalityType
<1>8. Cardinality(S \cup {k}) = Cardinality(S) + 1
  BY <1>2, <1>3, FS_AddElement
<1> QED BY <1>4, <1>5, <1>6, <1>7, <1>8

LEMMA NoDepth == ASSUME NEW b PROVE Depth(b, 0) = 0
<1>1. \A op : Count(b, op, 0) = 0
  BY FS_EmptySet DEF Count
<1> QED BY <1>1 DEF Depth

LEMMA Depths ==
  ASSUME NEW b, NEW k \in Nat \ {0}
  PROVE  /\ Depth(b, k - 1) \in Int /\ Depth(b, k) \in Int
         /\ b[k] = "php" => Depth(b, k) = Depth(b, k - 1) + 1
         /\ b[k] = "plp" => Depth(b, k) = Depth(b, k - 1) - 1
         /\ b[k] \notin {"php", "plp"} => Depth(b, k) = Depth(b, k - 1)
<1>1. \A op : /\ Count(b, op, k - 1) \in Nat
              /\ b[k] = op => Count(b, op, k) = Count(b, op, k - 1) + 1
              /\ b[k] # op => Count(b, op, k) = Count(b, op, k - 1)
  BY CountStep
<1> PICK u, v : u = "php" /\ v = "plp"
  OBVIOUS
<1>2. u # v
  OBVIOUS
<1>3. \A j : Depth(b, j) = Count(b, u, j) - Count(b, v, j)
  BY DEF Depth
<1>4. /\ Depth(b, k - 1) \in Int /\ Depth(b, k) \in Int
      /\ b[k] = u => Depth(b, k) = Depth(b, k - 1) + 1
      /\ b[k] = v => Depth(b, k) = Depth(b, k - 1) - 1
      /\ b[k] \notin {u, v} => Depth(b, k) = Depth(b, k - 1)
  BY <1>1, <1>2, <1>3
<1> QED BY <1>4

LEMMA NestedStep ==
  ASSUME NEW m \in Measurements, StateTypes, NEW k \in 1 .. Length(m), NEW op,
         op = Body[m.routine][k], Flags(op), callerP' = callerP, Nested(m, k)
  PROVE  Nested(m, k + 1)' /\ p' \in BOOLEAN /\ pushed' \in Seq(BOOLEAN)
<1> DEFINE b == Body[m.routine]
<1>1. /\ b \in Seq(BodyOps) /\ Balanced(b) /\ Length(m) = Len(b) /\ op \in BodyOps
  <2>1. b \in Seq(BodyOps) /\ Balanced(b) /\ Length(m) = Len(b)
    BY BodyType, MeasurementFields DEF Length
  <2> QED BY <2>1
<1>2. k \in Nat \ {0} /\ (k + 1) - 1 = k
  OBVIOUS
<1> HIDE DEF b
<1> USE DEF StateTypes
<1>3. op = b[k]
  BY DEF b
<1>4. PICK d \in Int, f \in Int : d = Depth(b, k - 1) /\ f = Depth(b, k)
  BY <1>2, Depths
<1>5. /\ op = "php" => f = d + 1
      /\ op = "plp" => f = d - 1
      /\ op \notin {"php", "plp"} => f = d
      /\ op \in {"sei", "cli", "plp"} => d > 0
  <2>1. /\ b[k] = "php" => f = d + 1
        /\ b[k] = "plp" => f = d - 1
        /\ b[k] \notin {"php", "plp"} => f = d
    BY <1>2, <1>4, Depths
  <2>2. b[k] \in {"sei", "cli", "plp"} => d > 0
    BY <1>1, <1>4 DEF Balanced
  <2> QED BY <1>3, <2>1, <2>2
<1>6. /\ Len(pushed) = d
      /\ Len(pushed) = 0 => p = Entry(m)
      /\ Len(pushed) > 0 => pushed[1] = Entry(m)
  BY <1>4 DEF Nested, b
<1>7. Entry(m)' = Entry(m)
  BY DEF Entry
<1>8. ASSUME p' \in BOOLEAN, pushed' \in Seq(BOOLEAN), Len(pushed') = f,
             Len(pushed') = 0 => p' = Entry(m), Len(pushed') > 0 => pushed'[1] = Entry(m)
      PROVE  Nested(m, k + 1)' /\ p' \in BOOLEAN /\ pushed' \in Seq(BOOLEAN)
  BY <1>2, <1>4, <1>7, <1>8 DEF Nested, b
<1>9. CASE op = "php"
  <2>1. p' = p /\ pushed' = Append(pushed, p)
    BY <1>9 DEF Flags
  <2>2. /\ pushed' \in Seq(BOOLEAN) /\ Len(pushed') = Len(pushed) + 1
        /\ pushed'[1] = (IF Len(pushed) = 0 THEN p ELSE pushed[1])
    BY <2>1
  <2>3. Len(pushed') = f /\ Len(pushed') > 0
    BY <1>4, <1>5, <1>6, <1>9, <2>2
  <2>4. pushed'[1] = Entry(m)
    BY <1>6, <2>2
  <2> QED BY <1>8, <2>1, <2>2, <2>3, <2>4
<1>10. CASE op = "plp"
  <2>1. p' = pushed[Len(pushed)] /\ pushed' = SubSeq(pushed, 1, Len(pushed) - 1)
    BY <1>10 DEF Flags, Last, Front
  <2>2. Len(pushed) > 0
    BY <1>4, <1>5, <1>6, <1>10
  <2>3. pushed \in Seq(BOOLEAN) /\ Len(pushed) \in Nat
    OBVIOUS
  <2>4. p' \in BOOLEAN /\ (Len(pushed) = 1 => p' = pushed[1])
    BY <2>1, <2>2, <2>3
  <2>5. Len(pushed) - 1 \in Nat
    BY <2>2, <2>3
  <2>6. PICK n \in Nat : n = Len(pushed) - 1
    BY <2>5
  <2>7. \A i \in 1 .. n : pushed[i] \in BOOLEAN
    BY <2>3, <2>6
  <2>8. SubSeq(pushed, 1, n) \in Seq(BOOLEAN) /\ Len(SubSeq(pushed, 1, n)) = (IF 1 <= n THEN n - 1 + 1 ELSE 0)
    <3>1. \A S, q : (\A i \in 1 .. n : q[i] \in S) =>
            SubSeq(q, 1, n) \in Seq(S) /\ Len(SubSeq(q, 1, n)) = (IF 1 <= n THEN n - 1 + 1 ELSE 0)
      BY SubSeqProperties
    <3> QED BY <2>7, <3>1
  <2>9. Len(pushed') = Len(pushed) - 1 /\ pushed' \in Seq(BOOLEAN)
    <3>1. pushed' = SubSeq(pushed, 1, n)
      BY <2>1, <2>6
    <3>2. (IF 1 <= n THEN n - 1 + 1 ELSE 0) = Len(pushed) - 1
      BY <2>6
    <3> QED BY <2>8, <3>1, <3>2
  <2>10. Len(pushed) > 1 => pushed'[1] = pushed[1]
    BY <2>1, <2>3
  <2>11. /\ p' \in BOOLEAN /\ pushed' \in Seq(BOOLEAN) /\ Len(pushed') = Len(pushed) - 1
         /\ Len(pushed) > 1 => pushed'[1] = pushed[1]
         /\ Len(pushed) = 1 => p' = pushed[1]
    BY <2>4, <2>9, <2>10
  <2>12. Len(pushed') = f
    BY <1>4, <1>5, <1>6, <1>10, <2>11
  <2>13. Len(pushed') = 0 => p' = Entry(m)
    BY <1>6, <2>2, <2>11
  <2>14. Len(pushed') > 0 => pushed'[1] = Entry(m)
    BY <1>6, <2>2, <2>11
  <2> QED BY <1>8, <2>11, <2>12, <2>13, <2>14
<1>11. CASE op \in {"sei", "cli"}
  <2>1. p' \in BOOLEAN /\ pushed' = pushed
    BY <1>11 DEF Flags
  <2>2. Len(pushed') = f /\ Len(pushed') > 0
    BY <1>4, <1>5, <1>6, <1>11, <2>1
  <2> QED BY <1>6, <1>8, <2>1, <2>2
<1>12. CASE op \in {"work", "rts"}
  <2>1. p' = p /\ pushed' = pushed
    BY <1>12 DEF Flags
  <2>2. Len(pushed') = f
    BY <1>4, <1>5, <1>6, <1>12, <2>1
  <2> QED BY <1>6, <1>8, <2>1, <2>2
<1> QED BY <1>1, <1>9, <1>10, <1>11, <1>12 DEF BodyOps

\* The instructions since the start when the body has made k - 1.
LEMMA BodyRoom ==
  ASSUME NEW m \in Measurements, StateTypes, Round(m), CountsCycles(m), NEW k \in 1 .. Length(m)
  PROVE  (IF Looped(m) THEN 2 + Gone(m, x) ELSE IF m.form = "subroutine" THEN 1 ELSE 0) + (k - 1)
           < Counted(m) - 1
<1>0. Length(m) \in Nat /\ Counted(m) \in Nat
  BY CountedType
<1>1. CASE Looped(m)
  <2>1. x \in 1 .. m.n
    BY <1>1 DEF Round
  <2>2. Gone(m, x) \in Nat /\ Gone(m, x) + Length(m) + 3 <= Gone(m, 0)
    BY <2>1, Rounds
  <2>3. Counted(m) = Gone(m, 0) + 2
    BY <1>1, CountedType DEF Looped, CountsCycles
  <2>4. Gone(m, 0) \in Int
    BY <2>3, CountedType DEF Gone
  <2> QED BY <1>0, <1>1, <2>2, <2>3, <2>4
<1>2. CASE m.form = "subroutine"
  BY <1>0, <1>2, CountedType DEF Looped
<1>3. CASE m.form = "three_calls"
  BY <1>0, <1>3, CountedType DEF Looped
<1> QED BY <1>1, <1>2, <1>3 DEF CountsCycles, Looped

LEMMA BodyStep ==
  ASSUME NEW m \in Measurements, m = Timed, Fits(m), StateTypes, NEW k \in 1 .. Length(m),
         Steps(Body[m.routine][k]), AtBody(m, k)
  PROVE  AtBody(m, k + 1)' /\ StateTypes' /\ pc' = pc + 1
<1> PICK op : op = Body[m.routine][k]
  OBVIOUS
<1>1. op \in BodyOps /\ op \in PlainOps /\ Steps(op)
  <2>1. Body[m.routine] \in Seq(BodyOps) /\ Length(m) = Len(Body[m.routine])
    BY BodyType, MeasurementFields DEF Length
  <2>2. op \in BodyOps
    BY <2>1
  <2> QED BY <2>2 DEF PlainOps
<1>2. Flags(op) /\ callerP' = callerP
  BY <1>1 DEF Steps, Perform
<1>3. Nested(m, k + 1)' /\ p' \in BOOLEAN /\ pushed' \in Seq(BOOLEAN)
  BY <1>2, NestedStep DEF AtBody
<1>4. x' = x /\ pc' = pc + 1
  <2>1. op \notin {"ldx", "dec", "bne"}
    BY <1>1 DEF BodyOps
  <2> QED BY <1>1, <2>1 DEF Steps, Perform, Branch
<1>5. StateTypes' /\ blanked' = blanked
  BY <1>1, <1>3, PlainStep
<1>6. Round(m)'
  BY <1>4 DEF AtBody, Round
<1> DEFINE f == IF Looped(m) THEN 2 + Gone(m, x) ELSE IF m.form = "subroutine" THEN 1 ELSE 0
<1>7. f \in Int
  BY CountedType, MeasurementFields DEF Gone, StateTypes
<1>8. PICK e \in Int : e = f + (k - 1)
  BY <1>7
<1>9. f' = f
  BY <1>4 DEF Gone
<1>10. Counting(m, e) /\ (CountsCycles(m) => e < Counted(m) - 1)
  BY <1>8, BodyRoom DEF AtBody
<1>11. Counting(m, e + 1)'
  BY <1>1, <1>10, PlainCounting
<1>12. Counting(m, f + ((k + 1) - 1))'
  <2>1. e + 1 = f + ((k + 1) - 1)
    BY <1>7, <1>8
  <2> HIDE DEF f
  <2> QED BY <2>1, <1>9, <1>11
<1> QED BY <1>3, <1>4, <1>5, <1>6, <1>12 DEF AtBody

(***************************************************************************)
(* The end of a round.                                                      *)
(***************************************************************************)
LEMMA DecStep ==
  ASSUME NEW m \in Measurements, m = Timed, Looped(m), Fits(m), StateTypes, Steps("dec"), AtAgain(m, 1)
  PROVE  AtAgain(m, 2)' /\ StateTypes' /\ pc' = pc + 1
<1> PICK op : op = "dec"
  OBVIOUS
<1>1. op \in PlainOps /\ Steps(op)
  BY DEF PlainOps
<1>2. p' = p /\ pushed' = pushed /\ x' = x - 1 /\ pc' = pc + 1
  BY <1>1 DEF Steps, Perform, Flags, Branch
<1>3. blanked' = blanked /\ callerP' = callerP /\ StateTypes'
  BY <1>1, <1>2, PlainStep DEF StateTypes
<1>4. Ready(m)'
  BY <1>2, <1>3 DEF AtAgain, Ready, Entry
<1>5. x \in 1 .. m.n /\ Counting(m, 2 + Gone(m, x) + Length(m))
  BY DEF AtAgain
<1>6. /\ Gone(m, x) \in Nat /\ Gone(m, x - 1) = Gone(m, x) + Length(m) + 3
      /\ Gone(m, x) + Length(m) + 3 <= Gone(m, 0) /\ Length(m) \in Nat
  BY <1>5, Rounds, CountedType
<1>7. PICK e \in Int : e = 2 + Gone(m, x) + Length(m)
  BY <1>6
<1>8. CountsCycles(m) => e < Counted(m) - 1
  <2>1. CountsCycles(m) => Counted(m) = Gone(m, 0) + 2
    BY CountedType DEF Looped, CountsCycles
  <2>2. Gone(m, 0) \in Int
    BY CountedType DEF Gone
  <2> QED BY <1>6, <1>7, <2>1, <2>2
<1>9. Counting(m, e + 1)'
  BY <1>1, <1>5, <1>7, <1>8, PlainCounting
<1>10. Gone(m, x)' = e + 1
  <2>1. Gone(m, x)' = Gone(m, x - 1)
    BY <1>2 DEF Gone
  <2> QED BY <2>1, <1>6, <1>7
<1>11. Counting(m, Gone(m, x))'
  BY <1>9, <1>10
<1>12. x' \in 0 .. m.n - 1
  BY <1>2, <1>5, CountedType
<1> QED BY <1>2, <1>3, <1>4, <1>11, <1>12 DEF AtAgain

LEMMA BneStep ==
  ASSUME NEW m \in Measurements, m = Timed, Looped(m), Fits(m), StateTypes, Steps("bne"), AtAgain(m, 2)
  PROVE  /\ StateTypes'
         /\ x = 0 => AtAgain(m, 3)' /\ pc' = pc + 1
         /\ x # 0 => AtJsr(m, 1)' /\ pc' = LoopTop
<1> PICK op : op = "bne"
  OBVIOUS
<1>1. op \in PlainOps /\ Steps(op)
  BY DEF PlainOps
<1>2. p' = p /\ pushed' = pushed /\ x' = x /\ pc' = (IF x # 0 THEN LoopTop ELSE pc + 1)
  BY <1>1 DEF Steps, Perform, Flags, Branch
<1>3. blanked' = blanked /\ callerP' = callerP /\ StateTypes'
  BY <1>1, <1>2, PlainStep DEF StateTypes
<1>4. Ready(m)'
  BY <1>2, <1>3 DEF AtAgain, Ready, Entry
<1>5. x \in 0 .. m.n - 1 /\ Counting(m, Gone(m, x))
  BY DEF AtAgain
<1>6. Gone(m, 0) \in Int /\ Gone(m, x) \in Int /\ Gone(m, x) <= Gone(m, 0)
  <2>1. m.n \in Nat
    BY CountedType
  <2>2. CASE x = 0
    BY <2>1, <2>2, CountedType DEF Gone
  <2>3. CASE x # 0
    <3>1. x \in 1 .. m.n
      BY <1>5, <2>1, <2>3
    <3>2. Gone(m, x) \in Nat /\ Gone(m, x) + Length(m) + 3 <= Gone(m, 0) /\ Length(m) \in Nat
      BY <3>1, Rounds, CountedType
    <3>3. Gone(m, 0) \in Int
      BY CountedType DEF Gone
    <3> QED BY <3>2, <3>3
  <2> QED BY <2>2, <2>3
<1>7. CountsCycles(m) => Gone(m, x) < Counted(m) - 1
  <2>1. CountsCycles(m) => Counted(m) = Gone(m, 0) + 2
    BY CountedType DEF Looped, CountsCycles
  <2> QED BY <1>6, <2>1
<1>8. PICK e \in Int : e = Gone(m, x)
  BY <1>6
<1>9. Counting(m, e + 1)'
  BY <1>1, <1>5, <1>7, <1>8, PlainCounting
<1>10. Gone(m, x)' = e
  BY <1>2, <1>8 DEF Gone
<1>11. CASE x = 0
  <2>1. e + 1 = 1 + Gone(m, 0)
    BY <1>6, <1>8, <1>11
  <2>2. Gone(m, 0)' = Gone(m, 0)
    BY DEF Gone
  <2>3. Counting(m, 1 + Gone(m, 0))'
    BY <1>9, <2>1, <2>2
  <2>4. AtAgain(m, 3)'
    BY <1>4, <2>3 DEF AtAgain
  <2> QED BY <1>2, <1>3, <1>11, <2>4
<1>12. CASE x # 0
  <2>1. Round(m)'
    BY <1>2, <1>5, <1>12, CountedType DEF Round
  <2>2. (1 + Gone(m, x)) + (1 - 1) = e + 1
    BY <1>6, <1>8
  <2>3. (1 + Gone(m, x))' + (1 - 1) = e + 1
    BY <1>8, <1>10, <2>2
  <2>4. Counting(m, (IF Looped(m) THEN 1 + Gone(m, x) ELSE 0) + (1 - 1))'
    BY <1>9, <2>3
  <2>5. AtJsr(m, 1)'
    BY <1>4, <2>1, <2>4 DEF AtJsr
  <2> QED BY <1>2, <1>3, <1>12, <2>5
<1> QED BY <1>11, <1>12

(***************************************************************************)
(* The instructions of the brackets.                                        *)
(***************************************************************************)
LEMMA CiaType ==
  ASSUME cia \in Timers, NEW op
  PROVE  /\ Cia(op) \in Timers
         /\ Cia(op).enabled = (IF op = "mask_ICR" THEN FALSE ELSE cia.enabled)
         /\ Cia(op).aOn = (IF op = "stop_A" THEN FALSE ELSE IF op = "start_A" THEN TRUE ELSE cia.aOn)
         /\ Cia(op).bOn = (IF op = "stop_B" THEN FALSE ELSE IF op = "start_B" THEN TRUE ELSE cia.bOn)
         /\ Cia(op).aLatch = (IF op = "latch_A" THEN Base - 1 ELSE cia.aLatch)
         /\ Cia(op).bLatch = (IF op = "latch_B" THEN Base - 1 ELSE cia.bLatch)
         /\ ~cia.aOn => Cia(op).a = (IF op = "latch_A" THEN Base - 1 ELSE IF op = "start_A" THEN cia.aLatch ELSE cia.a)
         /\ ~cia.aOn => Cia(op).b = (IF op = "latch_B" THEN Base - 1 ELSE IF op = "start_B" THEN cia.bLatch ELSE cia.b)
<1> PICK c : c = Cycle
  OBVIOUS
<1>1. /\ c \in Timers /\ c.aOn = cia.aOn /\ c.bOn = cia.bOn
      /\ c.aLatch = cia.aLatch /\ c.bLatch = cia.bLatch /\ c.enabled = cia.enabled
      /\ ~cia.aOn => c.a = cia.a /\ c.b = cia.b
  BY CycleFacts
<1>2. Base - 1 \in Int
  BY CycleAssumption
<1>3. Cia(op) =
        CASE op = "stop_A"   -> [c EXCEPT !.aOn = FALSE]
          [] op = "stop_B"   -> [c EXCEPT !.bOn = FALSE]
          [] op = "mask_ICR" -> [c EXCEPT !.enabled = FALSE]
          [] op = "ack_ICR"  -> [c EXCEPT !.flag = FALSE]
          [] op = "latch_A"  -> [c EXCEPT !.a = Base - 1, !.aLatch = Base - 1]
          [] op = "latch_B"  -> [c EXCEPT !.b = Base - 1, !.bLatch = Base - 1]
          [] op = "start_A"  -> [c EXCEPT !.aOn = TRUE, !.a = c.aLatch]
          [] op = "start_B"  -> [c EXCEPT !.bOn = TRUE, !.b = c.bLatch]
          [] OTHER -> c
  BY DEF Cia
<1>4. CASE op \in {"stop_A", "stop_B", "mask_ICR", "ack_ICR"}
  BY <1>1, <1>3, <1>4 DEF Timers
<1>5. CASE op \in {"latch_A", "latch_B"}
  BY <1>1, <1>2, <1>3, <1>5 DEF Timers
<1>6. CASE op \in {"start_A", "start_B"}
  BY <1>1, <1>3, <1>6 DEF Timers
<1>7. CASE op \notin {"stop_A", "stop_B", "mask_ICR", "ack_ICR", "latch_A", "latch_B", "start_A", "start_B"}
  <2>1. Cia(op) = c
    BY <1>3, <1>7
  <2> QED BY <1>1, <1>7, <2>1
<1> QED BY <1>4, <1>5, <1>6, <1>7

LEMMA Bracketing ==
  ASSUME StateTypes, NEW op, op \notin {"ldx", "dec", "bne"}, Steps(op),
         p' \in BOOLEAN, pushed' \in Seq(BOOLEAN)
  PROVE  /\ StateTypes' /\ pc' = pc + 1 /\ x' = x /\ handler' = handler /\ stolen' = stolen
         /\ callerP' = callerP /\ cia' = Cia(op)
<1>1. pc' = pc + 1 /\ x' = x /\ handler' = handler /\ stolen' = stolen /\ callerP' = callerP /\ cia' = Cia(op)
  BY DEF Steps, Perform, Branch
<1>2. cia' \in Timers
  BY <1>1, CiaType DEF StateTypes
<1>3. savedP' \in BOOLEAN
  BY DEF Steps, Perform, Flags, StateTypes
<1>4. cycles' \in Int \X Int
  <2>1. cycles' = CASE op = "count_low"  -> <<Base - 1 - cia.a, cycles[2]>>
                    [] op = "count_high" -> <<cycles[1], Base - 1 - cia.b>>
                    [] OTHER -> cycles
    BY DEF Steps, Perform, Clocks
  <2>2. Base - 1 - cia.a \in Int /\ Base - 1 - cia.b \in Int /\ cycles[1] \in Int /\ cycles[2] \in Int
    BY CycleAssumption DEF StateTypes, Timers
  <2> QED BY <2>1, <2>2 DEF StateTypes
<1>5. window' \in Nat
  BY DEF Steps, Perform, Passed, StateTypes
<1>6. blanked' \in BOOLEAN
  BY DEF Steps, Perform, StateTypes
<1> QED BY <1>1, <1>2, <1>3, <1>4, <1>5, <1>6 DEF StateTypes

LEMMA CountedPositive ==
  ASSUME NEW m \in Measurements
  PROVE  Counted(m) \in Nat \ {0}
<1>1. m.n * Length(m) \in Nat /\ m.n \in Nat
  BY CountedType
<1> QED BY <1>1 DEF Counted, Length

LEMMA StartOps ==
  /\ BenchCyclesStart[1] = "save_p" /\ BenchCyclesStart[2] = "sei"
  /\ BenchCyclesStart[3] = "stop_A" /\ BenchCyclesStart[4] = "stop_B"
  /\ BenchCyclesStart[5] = "mask_ICR" /\ BenchCyclesStart[6] = "ack_ICR"
  /\ BenchCyclesStart[7] = "latch_A" /\ BenchCyclesStart[8] = "latch_B"
  /\ BenchCyclesStart[9] = "start_B" /\ BenchCyclesStart[10] = "start_A"
BY DEF BenchCyclesStart

LEMMA StartStep ==
  ASSUME NEW m \in Measurements, StateTypes, NEW k \in 1 .. 10, Steps(BenchCyclesStart[k]), AtStart(m, k)
  PROVE  AtStart(m, k + 1)' /\ StateTypes' /\ pc' = pc + 1
<1> PICK op : op = BenchCyclesStart[k]
  OBVIOUS
<1>1. /\ k = 1 => op = "save_p"
      /\ k = 2 => op = "sei"
      /\ k = 3 => op = "stop_A"
      /\ k = 4 => op = "stop_B"
      /\ k = 5 => op = "mask_ICR"
      /\ k = 6 => op = "ack_ICR"
      /\ k = 7 => op = "latch_A"
      /\ k = 8 => op = "latch_B"
      /\ k = 9 => op = "start_B"
      /\ k = 10 => op = "start_A"
  BY StartOps
<1>2. op \in {"save_p", "sei", "stop_A", "stop_B", "mask_ICR", "ack_ICR", "latch_A", "latch_B", "start_B", "start_A"}
  BY <1>1
<1>3. /\ pushed' = pushed /\ p' = (IF op = "sei" THEN TRUE ELSE p)
      /\ savedP' = (IF op = "save_p" THEN p ELSE savedP)
      /\ blanked' = blanked
  BY <1>2 DEF Steps, Perform, Flags
<1>4. /\ StateTypes' /\ pc' = pc + 1 /\ handler' = handler /\ callerP' = callerP /\ cia' = Cia(op)
      /\ stolen' = stolen
  <2>1. op \notin {"ldx", "dec", "bne"}
    BY <1>2
  <2>2. p' \in BOOLEAN /\ pushed' \in Seq(BOOLEAN)
    BY <1>3 DEF StateTypes
  <2> QED BY <2>1, <2>2, Bracketing
<1>5. /\ cia'.enabled = (IF op = "mask_ICR" THEN FALSE ELSE cia.enabled)
      /\ cia'.aOn = (IF op = "stop_A" THEN FALSE ELSE IF op = "start_A" THEN TRUE ELSE cia.aOn)
      /\ cia'.bOn = (IF op = "stop_B" THEN FALSE ELSE IF op = "start_B" THEN TRUE ELSE cia.bOn)
      /\ cia'.aLatch = (IF op = "latch_A" THEN Base - 1 ELSE cia.aLatch)
      /\ cia'.bLatch = (IF op = "latch_B" THEN Base - 1 ELSE cia.bLatch)
      /\ ~cia.aOn => cia'.a = (IF op = "latch_A" THEN Base - 1 ELSE IF op = "start_A" THEN cia.aLatch ELSE cia.a)
      /\ ~cia.aOn => cia'.b = (IF op = "latch_B" THEN Base - 1 ELSE IF op = "start_B" THEN cia.bLatch ELSE cia.b)
  BY <1>4, CiaType DEF StateTypes
<1>s. /\ pushed = <<>> /\ blanked = m.blank
      /\ (IF k <= 2 THEN p = callerP ELSE p = TRUE)
      /\ (k >= 2 => savedP = callerP)
  BY DEF AtStart
<1>t. pushed' = <<>> /\ blanked' = m.blank
  BY <1>3, <1>s
<1>u. savedP' = callerP'
  BY <1>1, <1>3, <1>4, <1>s
<1>v. /\ k = 1 => p' = callerP'
      /\ k >= 2 => p' = TRUE
  <2>1. ASSUME k = 1 PROVE p' = callerP'
    <3>1. op # "sei" /\ p = callerP
      BY <1>1, <1>s, <2>1
    <3> QED BY <1>3, <1>4, <3>1
  <2>2. ASSUME k >= 2 PROVE p' = TRUE
    <3>1. CASE op = "sei"
      BY <1>3, <3>1
    <3>2. CASE op # "sei"
      <4>1. ~(k <= 2)
        BY <1>1, <2>2, <3>2
      <4>2. p = TRUE
        BY <1>s, <4>1
      <4> QED BY <1>3, <3>2, <4>2
    <3> QED BY <3>1, <3>2
  <2> QED BY <2>1, <2>2
<1>6. CASE k \in 1 .. 3
  <2>1. pushed' = <<>> /\ blanked' = m.blank /\ savedP' = callerP' /\ (IF k + 1 <= 2 THEN p' = callerP' ELSE p' = TRUE)
    BY <1>6, <1>t, <1>u, <1>v
  <2>2. k = 3 => ~cia'.aOn
    BY <1>1, <1>5
  <2> QED BY <1>4, <1>6, <2>1, <2>2 DEF AtStart
<1>7. CASE k \in 4 .. 9
  <2>1. pushed' = <<>> /\ blanked' = m.blank /\ savedP' = callerP' /\ p' = TRUE
    BY <1>7, <1>t, <1>u, <1>v
  <2>2. ~cia.aOn
    BY <1>7 DEF AtStart
  <2>3. ~cia'.aOn
    BY <1>1, <1>5, <1>7, <2>2
  <2>4. (~cia'.enabled /\ handler' = 0) \/ k = 4
    <3>1. k >= 5 => ~cia'.enabled
      BY <1>1, <1>5, <1>7 DEF AtStart
    <3>2. handler' = 0
      BY <1>4 DEF Steps
    <3> QED BY <1>7, <3>1, <3>2
  <2>5. k >= 7 => cia'.a = Base - 1 /\ cia'.aLatch = Base - 1
    BY <1>1, <1>5, <1>7, <2>2 DEF AtStart
  <2>6. k >= 8 => cia'.b = Base - 1 /\ cia'.bLatch = Base - 1
    BY <1>1, <1>5, <1>7, <2>2 DEF AtStart
  <2>7. k = 9 => cia'.bOn
    BY <1>1, <1>5
  <2>8. PICK j : j = k + 1
    OBVIOUS
  <2>9. j \in 5 .. 10
    BY <1>7, <2>8
  <2>10. AtStart(m, j)'
    <3>1. /\ j >= 6 => ~cia'.enabled /\ handler' = 0
          /\ j \in 8 .. 10 => cia'.a = Base - 1 /\ cia'.aLatch = Base - 1
          /\ j \in 9 .. 10 => cia'.b = Base - 1 /\ cia'.bLatch = Base - 1
          /\ j = 10 => cia'.bOn
      BY <1>7, <2>4, <2>5, <2>6, <2>7, <2>8
    <3>2. /\ ~(j <= 2)
          /\ j # 11
      BY <2>9
    <3>3. /\ j >= 2 => savedP' = callerP'
          /\ j \in 4 .. 10 => ~cia'.aOn
          /\ j = 11 => Running(m, 0)'
      BY <2>1, <2>3, <3>2
    <3>4. IF j <= 2 THEN p' = callerP' ELSE p' = TRUE
      BY <2>1, <3>2
    <3>5. pushed' = <<>> /\ blanked' = m.blank
      BY <2>1
    <3> HIDE DEF Running
    <3> QED BY <3>1, <3>3, <3>4, <3>5 DEF AtStart
  <2> QED BY <1>4, <2>8, <2>10
<1>8. CASE k = 10
  <2>1. pushed' = <<>> /\ blanked' = m.blank /\ savedP' = callerP' /\ p' = TRUE
    BY <1>8, <1>t, <1>u, <1>v
  <2>2. ~cia.aOn /\ cia.a = Base - 1 /\ cia.aLatch = Base - 1 /\ cia.b = Base - 1 /\ cia.bLatch = Base - 1
        /\ cia.bOn /\ ~cia.enabled /\ handler = 0
    BY <1>8 DEF AtStart
  <2>3. op = "start_A"
    BY <1>1, <1>8
  <2>4. cia'.aOn /\ cia'.bOn /\ ~cia'.enabled /\ handler' = 0
        /\ cia'.a = Base - 1 /\ cia'.b = Base - 1 /\ cia'.aLatch = Base - 1 /\ cia'.bLatch = Base - 1
    BY <1>4, <1>5, <2>2, <2>3
  <2>5. open' /\ window' = 0
    BY <2>3 DEF Steps, Perform
  <2>6. Sum' = 0 /\ TimersOK'
    BY <2>4, CycleAssumption DEF Sum, TimersOK
  <2>7. Slack(m)' \in Nat
    BY <1>4, CycleAssumption DEF Slack, StateTypes
  <2>8. 0 \in 0 .. Counted(m) - 1
    <3>1. Counted(m) \in Nat \ {0}
      BY CountedPositive
    <3> QED BY <3>1
  <2>9. Running(m, 0)'
    BY <2>4, <2>5, <2>6, <2>7, <2>8 DEF Running, Loaded
  <2>10. PICK j : j = 11
    OBVIOUS
  <2>11. AtStart(m, j)'
    BY <2>1, <2>4, <2>9, <2>10 DEF AtStart
  <2>12. j = k + 1
    BY <1>8, <2>10
  <2> QED BY <1>4, <2>11, <2>12
<1> QED BY <1>6, <1>7, <1>8

LEMMA StopOps ==
  /\ BenchCyclesStop[1] = "stop_A" /\ BenchCyclesStop[2] = "stop_B"
  /\ BenchCyclesStop[3] = "count_low" /\ BenchCyclesStop[4] = "count_high"
  /\ BenchCyclesStop[5] = "restore_p"
BY DEF BenchCyclesStop

LEMMA StopStep ==
  ASSUME NEW m \in Measurements, CountsCycles(m), Fits(m), StateTypes, NEW k \in 1 .. 5,
         Steps(BenchCyclesStop[k]), AtStop(m, k)
  PROVE  AtStop(m, k + 1)' /\ StateTypes' /\ pc' = pc + 1
<1> PICK op : op = BenchCyclesStop[k]
  OBVIOUS
<1>1. /\ k = 1 => op = "stop_A"
      /\ k = 2 => op = "stop_B"
      /\ k = 3 => op = "count_low"
      /\ k = 4 => op = "count_high"
      /\ k = 5 => op = "restore_p"
  BY StopOps
<1>2. op \in {"stop_A", "stop_B", "count_low", "count_high", "restore_p"}
  BY <1>1
<1>3. /\ pushed' = pushed /\ p' = (IF op = "restore_p" THEN savedP ELSE p)
      /\ savedP' = savedP /\ blanked' = blanked
  BY <1>2 DEF Steps, Perform, Flags
<1>4. /\ StateTypes' /\ pc' = pc + 1 /\ callerP' = callerP /\ stolen' = stolen /\ cia' = Cia(op)
  <2>1. op \notin {"ldx", "dec", "bne"}
    BY <1>2
  <2>2. p' \in BOOLEAN /\ pushed' \in Seq(BOOLEAN)
    BY <1>3 DEF StateTypes
  <2> QED BY <2>1, <2>2, Bracketing
<1>5. cycles' = CASE op = "count_low"  -> <<Base - 1 - cia.a, cycles[2]>>
                  [] op = "count_high" -> <<cycles[1], Base - 1 - cia.b>>
                  [] OTHER -> cycles
  BY DEF Steps, Perform, Clocks
<1>6. pushed' = <<>> /\ blanked' = m.blank /\ savedP' = callerP'
  BY <1>3, <1>4 DEF AtStop
<1>7. Counted(m) \in Nat \ {0} /\ Steals \in Nat /\ stolen \in 0 .. Steals /\ Slack(m) \in 0 .. Steals
  <2>1. Counted(m) \in Nat \ {0} /\ Steals \in Nat /\ stolen \in 0 .. Steals
    BY CountedPositive, CycleAssumption DEF StateTypes
  <2> QED BY <2>1 DEF Slack
<1>8. Slack(m)' = Slack(m)
  BY <1>4 DEF Slack
<1>9. ASSUME ~cia.aOn, op \in {"stop_B", "count_low", "count_high"}
      PROVE  ~cia'.aOn /\ cia'.a = cia.a /\ cia'.b = cia.b
  BY <1>4, <1>9, CiaType DEF StateTypes
<1>10. ASSUME Stopped(m), op \in {"stop_B", "count_low", "count_high"}
       PROVE  Stopped(m)' /\ cia'.a = cia.a
  <2>1. ~cia'.aOn /\ cia'.a = cia.a /\ cia'.b = cia.b
    BY <1>9, <1>10 DEF Stopped
  <2>2. TimersOK' /\ Sum' = Sum
    BY <1>10, <2>1 DEF Stopped, TimersOK, Sum
  <2> QED BY <1>8, <1>10, <2>1, <2>2 DEF Stopped
<1>11. CASE k = 1
  <2>1. op = "stop_A" /\ Running(m, Counted(m) - 1)
    BY <1>1, <1>11 DEF AtStop
  <2>2. cia' = [Cycle EXCEPT !.aOn = FALSE]
    BY <1>4, <2>1 DEF Cia
  <2>3. Cycle \in Timers
    BY CycleFacts DEF StateTypes
  <2>4. ~cia'.aOn /\ cia'.a = Cycle.a /\ cia'.b = Cycle.b
    BY <2>2, <2>3 DEF Timers
  <2>5. Sum \in Counted(m) - 1 .. Counted(m) - 1 + Slack(m)
    BY <2>1 DEF Running
  <2>6. Sum + 1 < Base * Base
    <3>1. Base * Base \in Nat
      BY CycleAssumption
    <3> QED BY <1>7, <2>5, <3>1 DEF Fits
  <2>7. Cycle.a \in 0 .. Base - 1 /\ Cycle.b \in 0 .. Base - 1
        /\ (Base - 1 - Cycle.b) * Base + (Base - 1 - Cycle.a) = Sum + 1
    BY <2>1, <2>6, CycleCounts DEF Running, Loaded, StateTypes
  <2>8. TimersOK' /\ Sum' = Sum + 1
    BY <2>4, <2>7 DEF TimersOK, Sum
  <2>9. Sum' \in Counted(m) .. Counted(m) + Slack(m)
    BY <1>7, <2>5, <2>8
  <2>10. Stopped(m)'
    BY <1>8, <2>4, <2>8, <2>9 DEF Stopped
  <2>11. PICK j : j = 2
    OBVIOUS
  <2>12. AtStop(m, j)'
    BY <1>6, <2>10, <2>11 DEF AtStop
  <2> QED BY <1>4, <1>11, <2>11, <2>12
<1>12. CASE k \in 2 .. 3
  <2>1. Stopped(m)' /\ cia'.a = cia.a
    BY <1>1, <1>10, <1>12 DEF AtStop
  <2>2. k = 3 => cycles'[1] = Base - 1 - cia'.a
    BY <1>1, <1>5, <2>1
  <2>3. PICK j : j = k + 1
    OBVIOUS
  <2>4. j \in 3 .. 4 /\ (j = 4 => k = 3)
    BY <1>12, <2>3
  <2>5. AtStop(m, j)'
    BY <1>6, <2>1, <2>2, <2>4 DEF AtStop
  <2> QED BY <1>4, <2>3, <2>5
<1>13. CASE k = 4
  <2>1. Stopped(m) /\ cycles[1] = Base - 1 - cia.a
    BY <1>13 DEF AtStop
  <2>2. cycles'[1] = Base - 1 - cia.a /\ cycles'[2] = Base - 1 - cia.b
    BY <1>1, <1>5, <1>13, <2>1
  <2>3. cia.a \in Int /\ cia.b \in Int /\ Base \in Nat
    BY CycleAssumption DEF StateTypes, Timers
  <2>4. cycles'[1] + cycles'[2] * Base = Sum
    <3> DEFINE t == (Base - 1 - cia.b) * Base
    <3>1. t \in Int
      BY <2>3
    <3>2. cycles'[1] + cycles'[2] * Base = (Base - 1 - cia.a) + t /\ Sum = t + (Base - 1 - cia.a)
      BY <2>2 DEF Sum
    <3> HIDE DEF t
    <3> QED BY <2>3, <3>1, <3>2
  <2>5. Figure(m)'
    BY <1>8, <2>1, <2>4 DEF Figure, Stopped
  <2>6. PICK j : j = 5
    OBVIOUS
  <2>7. AtStop(m, j)'
    BY <1>6, <2>5, <2>6 DEF AtStop
  <2> QED BY <1>4, <1>13, <2>6, <2>7
<1>14. CASE k = 5
  <2>1. Figure(m) /\ savedP = callerP
    BY <1>14 DEF AtStop
  <2>2. cycles' = cycles /\ p' = callerP'
    BY <1>1, <1>3, <1>4, <1>5, <1>14, <2>1
  <2>3. Figure(m)'
    BY <1>8, <2>1, <2>2 DEF Figure
  <2>4. PICK j : j = 6
    OBVIOUS
  <2>5. AtStop(m, j)'
    BY <1>6, <2>2, <2>3, <2>4 DEF AtStop
  <2> QED BY <1>4, <1>14, <2>4, <2>5
<1> QED BY <1>11, <1>12, <1>13, <1>14

LEMMA BlankStep ==
  ASSUME NEW m \in Measurements, StateTypes, Steps("vic_blank"), AtBlank(m, 1)
  PROVE  AtBlank(m, 2)' /\ StateTypes' /\ pc' = pc + 1
<1> PICK op : op = "vic_blank"
  OBVIOUS
<1>1. Steps(op) /\ p' = p /\ pushed' = pushed /\ blanked' = TRUE
  BY DEF Steps, Perform, Flags
<1>2. StateTypes' /\ pc' = pc + 1 /\ callerP' = callerP
  <2>1. p' \in BOOLEAN /\ pushed' \in Seq(BOOLEAN) /\ op \notin {"ldx", "dec", "bne"}
    BY <1>1 DEF StateTypes
  <2> QED BY <1>1, <2>1, Bracketing
<1>3. Quiet'
  BY <1>1, <1>2 DEF AtBlank, Quiet
<1> QED BY <1>1, <1>2, <1>3 DEF AtBlank

LEMMA UnblankStep ==
  ASSUME NEW m \in Measurements, StateTypes, Steps("vic_unblank"), AtUnblank(m, 1)
  PROVE  AtUnblank(m, 2)' /\ StateTypes' /\ pc' = pc + 1
<1> PICK op : op = "vic_unblank"
  OBVIOUS
<1>1. Steps(op) /\ p' = p /\ pushed' = pushed /\ blanked' = FALSE /\ cycles' = cycles
  BY DEF Steps, Perform, Flags, Clocks
<1>2. StateTypes' /\ pc' = pc + 1 /\ callerP' = callerP /\ stolen' = stolen
  <2>1. p' \in BOOLEAN /\ pushed' \in Seq(BOOLEAN) /\ op \notin {"ldx", "dec", "bne"}
    BY <1>1 DEF StateTypes
  <2> QED BY <1>1, <2>1, Bracketing
<1>3. Quiet' /\ Figure(m)'
  BY <1>1, <1>2 DEF AtUnblank, Quiet, Figure, Slack
<1> QED BY <1>1, <1>2, <1>3 DEF AtUnblank

LEMMA JiffiesStep ==
  ASSUME StateTypes, NEW b \in {BenchStart, BenchStop}, NEW k \in 1 .. 5, Steps(b[k]), AtJiffies(k)
  PROVE  AtJiffies(k + 1)' /\ StateTypes' /\ pc' = pc + 1
<1> PICK op : op = b[k]
  OBVIOUS
<1>1. /\ k = 1 => op = "php"
      /\ k = 2 => op = "sei"
      /\ k = 3 => op \in {"zero_high", "snap_high"}
      /\ k = 4 => op \in {"zero_low", "snap_low"}
      /\ k = 5 => op = "plp"
  BY DEF BenchStart, BenchStop
<1>2. op \in {"php", "sei", "zero_high", "snap_high", "zero_low", "snap_low", "plp"}
  BY <1>1
<1>3. Flags(op) /\ blanked' = blanked
  BY <1>2 DEF Steps, Perform
<1>4. callerP' = callerP
  BY DEF Steps
<1>5. ASSUME p' \in BOOLEAN, pushed' \in Seq(BOOLEAN)
      PROVE  StateTypes' /\ pc' = pc + 1
  <2>1. op \notin {"ldx", "dec", "bne"}
    BY <1>2
  <2> QED BY <1>5, <2>1, Bracketing
<1>6. ~blanked'
  BY <1>3 DEF AtJiffies
<1>7. CASE k = 1
  <2>1. pushed' = Append(pushed, p) /\ p' = p
    BY <1>1, <1>3, <1>7 DEF Flags
  <2>2. pushed = <<>> /\ p = callerP
    BY <1>7 DEF AtJiffies, Quiet
  <2>3. pushed' = <<callerP>> /\ callerP \in BOOLEAN /\ p' \in BOOLEAN
    BY <2>1, <2>2 DEF StateTypes
  <2>4. StateTypes' /\ pc' = pc + 1
    BY <1>5, <2>3
  <2> QED BY <1>4, <1>6, <1>7, <2>3, <2>4 DEF AtJiffies
<1>8. CASE k \in 2 .. 4
  <2>a. op \in {"sei", "zero_high", "snap_high", "zero_low", "snap_low"}
    BY <1>1, <1>8
  <2>b. pushed' = pushed
    BY <1>3, <2>a DEF Flags
  <2>c. p' = (IF op = "sei" THEN TRUE ELSE p)
    BY <1>3, <2>a DEF Flags
  <2>1. pushed' = pushed /\ p' \in BOOLEAN
    BY <2>b, <2>c DEF StateTypes
  <2>2. pushed = <<callerP>>
    BY <1>8 DEF AtJiffies
  <2>3. StateTypes' /\ pc' = pc + 1
    BY <1>5, <2>1 DEF StateTypes
  <2>4. PICK j : j = k + 1
    OBVIOUS
  <2>5. j \in 2 .. 5
    BY <1>8, <2>4
  <2>6. AtJiffies(j)'
    BY <1>4, <1>6, <2>1, <2>2, <2>5 DEF AtJiffies
  <2> QED BY <2>3, <2>4, <2>6
<1>9. CASE k = 5
  <2>1. pushed = <<callerP>>
    BY <1>9 DEF AtJiffies
  <2>2. p' = pushed[Len(pushed)] /\ pushed' = SubSeq(pushed, 1, Len(pushed) - 1)
    BY <1>1, <1>3, <1>9 DEF Flags, Last, Front
  <2>3. p' = callerP /\ pushed' = <<>>
    BY <2>1, <2>2
  <2>4. StateTypes' /\ pc' = pc + 1
    BY <1>5, <2>3 DEF StateTypes
  <2>5. PICK j : j = 6
    OBVIOUS
  <2>6. AtJiffies(j)'
    BY <1>4, <1>6, <2>3, <2>5 DEF AtJiffies, Quiet
  <2> QED BY <1>9, <2>4, <2>5, <2>6
<1> QED BY <1>7, <1>8, <1>9

(***************************************************************************)
(* From the end of a part to the beginning of the next one.                 *)
(***************************************************************************)
LEMMA StartOver ==
  ASSUME NEW m \in Measurements, CountsCycles(m), m.form # "three_calls", AtStart(m, 11)
  PROVE  Ready(m) /\ Counting(m, 0) /\ p = Entry(m)
<1>1. pushed = <<>> /\ blanked = m.blank /\ savedP = callerP /\ p = TRUE /\ Running(m, 0)
  BY DEF AtStart
<1>2. Entry(m) = TRUE
  BY DEF Entry, CountsCycles
<1> QED BY <1>1, <1>2 DEF Ready, Counting

LEMMA LdxOver ==
  ASSUME NEW m \in Measurements, Looped(m), AtLdx(m, 2)
  PROVE  AtJsr(m, 1)
<1>1. Ready(m) /\ Counting(m, 2 - 1) /\ x = m.n /\ m.n \in Nat \ {0}
  BY CountedType DEF AtLdx
<1>2. Round(m)
  BY <1>1 DEF Round
<1>3. Gone(m, x) = 0
  <2>1. m.n \in 1 .. m.n
    BY <1>1
  <2> QED BY <1>1, <2>1, Rounds
<1>4. (IF Looped(m) THEN 1 + Gone(m, x) ELSE 0) + (1 - 1) = 2 - 1
  BY <1>3
<1> QED BY <1>1, <1>2, <1>4 DEF AtJsr

LEMMA JsrOver ==
  ASSUME NEW m \in Measurements, m.form \in {"thunk", "jiffy_thunk", "subroutine"}, StateTypes, AtJsr(m, 2)
  PROVE  AtBody(m, 1)
<1>1. Gone(m, x) \in Int
  BY CountedType DEF Gone, StateTypes
<1>2. Ready(m) /\ Round(m) /\ Counting(m, (IF Looped(m) THEN 1 + Gone(m, x) ELSE 0) + (2 - 1))
  BY DEF AtJsr
<1>3. (IF Looped(m) THEN 1 + Gone(m, x) ELSE 0) + (2 - 1)
        = (IF Looped(m) THEN 2 + Gone(m, x) ELSE IF m.form = "subroutine" THEN 1 ELSE 0) + (1 - 1)
  BY <1>1 DEF Looped
<1>4. Nested(m, 1)
  <2>1. Depth(Body[m.routine], 1 - 1) = 0
    BY NoDepth
  <2>2. Len(pushed) = 0 /\ p = Entry(m)
    BY <1>2 DEF Ready
  <2> QED BY <2>1, <2>2 DEF Nested
<1>5. blanked = m.blank
  BY <1>2 DEF Ready
<1>6. Counting(m, (IF Looped(m) THEN 2 + Gone(m, x) ELSE IF m.form = "subroutine" THEN 1 ELSE 0) + (1 - 1))
  BY <1>2, <1>3
<1> QED BY <1>2, <1>4, <1>5, <1>6 DEF AtBody

\* The routine has returned: the stack and the flag are as it found them.
LEMMA BodyOver ==
  ASSUME NEW m \in Measurements, StateTypes, AtBody(m, Length(m) + 1)
  PROVE  /\ Ready(m) /\ Round(m)
         /\ Looped(m) => Counting(m, 2 + Gone(m, x) + Length(m))
         /\ CountsCycles(m) /\ ~Looped(m) => Running(m, Counted(m) - 1) /\ savedP = callerP
<1>1. Length(m) \in Nat \ {0} /\ Len(Body[m.routine]) = Length(m) /\ Balanced(Body[m.routine])
  BY BodyType, MeasurementFields DEF Length
<1>2. (Length(m) + 1) - 1 = Length(m)
  BY <1>1
<1>3. Depth(Body[m.routine], Length(m)) = 0
  BY <1>1 DEF Balanced
<1>4. Len(pushed) = 0 /\ p = Entry(m) /\ blanked = m.blank
  BY <1>2, <1>3 DEF AtBody, Nested
<1>5. Ready(m)
  BY <1>4 DEF Ready, StateTypes
<1> DEFINE e == (IF Looped(m) THEN 2 + Gone(m, x) ELSE IF m.form = "subroutine" THEN 1 ELSE 0)
<1>6. Counting(m, e + Length(m))
  BY <1>2 DEF AtBody
<1>7. ASSUME CountsCycles(m), ~Looped(m) PROVE e + Length(m) = Counted(m) - 1
  <2>1. CASE m.form = "subroutine"
    BY <1>1, <1>7, <2>1, CountedType
  <2>2. CASE m.form = "three_calls"
    BY <1>1, <1>7, <2>2, CountedType
  <2> QED BY <1>7, <2>1, <2>2 DEF CountsCycles, Looped
<1>8. ASSUME CountsCycles(m), ~Looped(m) PROVE Running(m, Counted(m) - 1) /\ savedP = callerP
  BY <1>6, <1>7, <1>8 DEF Counting
<1>9. ASSUME Looped(m) PROVE Counting(m, 2 + Gone(m, x) + Length(m))
  BY <1>6, <1>9
<1>10. Round(m)
  BY DEF AtBody
<1> QED BY <1>5, <1>8, <1>9, <1>10

LEMMA PartEnds ==
  ASSUME NEW m \in Measurements, NEW s \in Parts(m)
  PROVE  /\ s \in {"blank", "unblank", "ldx", "jsr"} => Len(Part(m, s)) + 1 = 2
         /\ s = "start" => Len(Part(m, s)) + 1 = 11
         /\ s \in {"stop", "zero", "snap"} => Len(Part(m, s)) + 1 = 6
         /\ s = "again" => Len(Part(m, s)) + 1 = 3
         /\ s = "body" => Len(Part(m, s)) + 1 = Length(m) + 1
         /\ s \in {"blank", "unblank", "start", "ldx", "jsr", "body", "again", "stop", "zero", "snap"}
<1> DEFINE End(j) ==
      /\ s \in {"blank", "unblank", "ldx", "jsr"} => j + 1 = 2
      /\ s = "start" => j + 1 = 11
      /\ s \in {"stop", "zero", "snap"} => j + 1 = 6
      /\ s = "again" => j + 1 = 3
      /\ s = "body" => j + 1 = Length(m) + 1
<1>p. PICK j : j = Len(Part(m, s))
  OBVIOUS
<1>1. /\ s \in {"blank", "unblank", "ldx", "jsr"} => j = 1
      /\ s = "start" => j = 10
      /\ s \in {"stop", "zero", "snap"} => j = 5
      /\ s = "again" => j = 2
      /\ s = "body" => j = Length(m)
      /\ j \in Nat
  BY <1>p, PartTypes
<1>2. End(j)
  BY <1>1
<1>3. s \in {"blank", "unblank", "start", "ldx", "jsr", "body", "again", "stop", "zero", "snap"}
  BY PartTypes
<1> HIDE DEF End
<1>4. End(Len(Part(m, s)))
  BY <1>p, <1>2
<1> QED BY <1>3, <1>4 DEF End

LEMMA Junction ==
  ASSUME NEW m \in Measurements, StateTypes, NEW s \in Parts(m), ~Closes(m, s),
         s = "start" => m.form # "three_calls", AtPart(m, s, Len(Part(m, s)) + 1)
  PROVE  AtPart(m, After(m, s), 1) /\ (EndsCall(m, s) => p = callerP)
<1>f. /\ m.form \in Forms /\ m.blank \in BOOLEAN
      /\ s \in {"ldx", "again"} => Looped(m)
      /\ s = "jsr" => m.form \in {"thunk", "jiffy_thunk", "subroutine"}
      /\ s = "start" => CountsCycles(m)
      /\ s = "zero" => ~CountsCycles(m)
      /\ s = "blank" => m.blank /\ CountsCycles(m)
      /\ s = "stop" => CountsCycles(m)
      /\ m.form \in {"jiffies", "jiffy_thunk"} => ~m.blank
  BY MeasurementFields DEF Parts, Looped, CountsCycles, Forms
<1>w. /\ s \in {"blank", "ldx", "jsr"} => Len(Part(m, s)) + 1 = 2
      /\ s = "start" => Len(Part(m, s)) + 1 = 11
      /\ s \in {"stop", "zero"} => Len(Part(m, s)) + 1 = 6
      /\ s = "again" => Len(Part(m, s)) + 1 = 3
      /\ s = "body" => Len(Part(m, s)) + 1 = Length(m) + 1
      /\ s \in {"blank", "start", "ldx", "jsr", "body", "again", "stop", "zero"}
  BY PartEnds DEF Closes
<1>1. CASE s = "blank"
  <2>1. AtBlank(m, 2)
    BY <1>1, <1>w DEF AtPart
  <2>2. pushed = <<>> /\ p = callerP /\ blanked = m.blank
    BY <1>1, <1>f, <2>1 DEF AtBlank, Quiet, StateTypes
  <2>3. AtStart(m, 1)
    BY <2>2 DEF AtStart
  <2>4. After(m, s) = "start"
    BY <1>1 DEF After
  <2> QED BY <2>2, <2>3, <2>4 DEF AtPart
<1>2. CASE s = "start"
  <2>1. AtStart(m, 11)
    BY <1>2, <1>w DEF AtPart
  <2>2. Ready(m) /\ Counting(m, 0)
    BY <1>2, <1>f, <2>1, StartOver
  <2>3. ~EndsCall(m, s)
    BY <1>2, <1>f DEF EndsCall, CountsCycles
  <2>4. CASE Looped(m)
    <3>1. After(m, s) = "ldx"
      BY <1>2, <2>4 DEF After
    <3>2. AtLdx(m, 1)
      <4>1. 1 - 1 = 0
        OBVIOUS
      <4> QED BY <2>2, <4>1 DEF AtLdx
    <3> QED BY <2>3, <3>1, <3>2 DEF AtPart
  <2>5. CASE ~Looped(m)
    <3>1. m.form = "subroutine"
      BY <1>2, <1>f, <2>5 DEF Looped, CountsCycles
    <3>2. After(m, s) = "jsr"
      BY <1>2, <2>5, <3>1 DEF After
    <3>3. AtJsr(m, 1)
      <4>1. (IF Looped(m) THEN 1 + Gone(m, x) ELSE 0) + (1 - 1) = 0
        BY <2>5
      <4> QED BY <2>2, <2>5, <4>1 DEF AtJsr, Round
    <3> QED BY <2>3, <3>2, <3>3 DEF AtPart
  <2> QED BY <2>4, <2>5
<1>3. CASE s = "zero"
  <2>1. AtJiffies(6)
    BY <1>3, <1>w DEF AtPart
  <2>2. pushed = <<>> /\ p = callerP /\ blanked = m.blank
    BY <1>f, <1>3, <2>1 DEF AtJiffies, Quiet, StateTypes, Forms, CountsCycles
  <2>3. Entry(m) = callerP
    BY <1>3, <1>f DEF Entry, CountsCycles
  <2>4. Ready(m)
    BY <2>2, <2>3 DEF Ready
  <2>5. \A e : Counting(m, e)
    BY <1>3, <1>f DEF Counting
  <2>6. CASE Looped(m)
    <3>1. After(m, s) = "ldx"
      BY <1>3, <2>6 DEF After
    <3>2. AtLdx(m, 1)
      BY <2>4, <2>5 DEF AtLdx
    <3> QED BY <2>2, <3>1, <3>2 DEF AtPart
  <2>7. CASE ~Looped(m)
    <3>1. After(m, s) = "body"
      BY <1>3, <2>7 DEF After
    <3>2. AtBody(m, 1)
      <4>1. Depth(Body[m.routine], 1 - 1) = 0
        BY NoDepth
      <4>2. Nested(m, 1)
        BY <2>2, <2>3, <4>1 DEF Nested
      <4> QED BY <2>2, <2>5, <2>7, <4>2 DEF AtBody, Round
    <3> QED BY <2>2, <3>1, <3>2 DEF AtPart
  <2> QED BY <2>6, <2>7
<1>4. CASE s = "ldx"
  <2>1. AtJsr(m, 1)
    BY <1>4, <1>f, <1>w, LdxOver DEF AtPart
  <2>2. After(m, s) = "jsr" /\ ~EndsCall(m, s)
    BY <1>4, <1>f DEF After, EndsCall, Looped
  <2> QED BY <2>1, <2>2 DEF AtPart
<1>5. CASE s = "jsr"
  <2>1. AtBody(m, 1)
    BY <1>5, <1>f, <1>w, JsrOver DEF AtPart
  <2>2. After(m, s) = "body" /\ ~EndsCall(m, s)
    BY <1>5, <1>f DEF After, EndsCall, Looped
  <2> QED BY <2>1, <2>2 DEF AtPart
<1>6. CASE s = "body"
  <2>1. AtBody(m, Length(m) + 1)
    BY <1>6, <1>w DEF AtPart
  <2>2. /\ Ready(m) /\ Round(m)
        /\ Looped(m) => Counting(m, 2 + Gone(m, x) + Length(m))
        /\ CountsCycles(m) /\ ~Looped(m) => Running(m, Counted(m) - 1) /\ savedP = callerP
    BY <2>1, BodyOver
  <2>3. pushed = <<>> /\ p = Entry(m) /\ blanked = m.blank
    BY <2>2 DEF Ready
  <2>4. EndsCall(m, s) => p = callerP
    BY <1>6, <2>3 DEF EndsCall, Entry
  <2>5. CASE Looped(m)
    <3>1. After(m, s) = "again"
      BY <1>6, <2>5 DEF After
    <3>2. AtAgain(m, 1)
      BY <2>2, <2>5 DEF AtAgain, Round
    <3> QED BY <2>4, <3>1, <3>2 DEF AtPart
  <2>6. CASE m.form = "jiffies"
    <3>1. After(m, s) = "snap" /\ EndsCall(m, s)
      BY <1>6, <2>6 DEF After, Looped, EndsCall
    <3>2. AtJiffies(1)
      BY <1>f, <2>3, <2>4, <2>6, <3>1 DEF AtJiffies, Quiet
    <3> QED BY <2>4, <3>1, <3>2 DEF AtPart
  <2>7. CASE m.form \in {"subroutine", "three_calls"}
    <3>1. After(m, s) = "stop" /\ CountsCycles(m) /\ ~Looped(m)
      BY <1>6, <2>7 DEF After, Looped, CountsCycles
    <3>2. AtStop(m, 1)
      BY <2>2, <2>3, <3>1 DEF AtStop
    <3> QED BY <2>4, <3>1, <3>2 DEF AtPart
  <2> QED BY <1>f, <2>5, <2>6, <2>7 DEF Forms, Looped
<1>7. CASE s = "again"
  <2>1. AtAgain(m, 3)
    BY <1>7, <1>w DEF AtPart
  <2>2. Ready(m) /\ Counting(m, 1 + Gone(m, 0))
    BY <2>1 DEF AtAgain
  <2>3. pushed = <<>> /\ p = Entry(m) /\ blanked = m.blank
    BY <2>2 DEF Ready
  <2>4. ~EndsCall(m, s)
    BY <1>7, <1>f DEF EndsCall, Looped
  <2>5. CASE m.form = "thunk"
    <3>1. After(m, s) = "stop" /\ CountsCycles(m)
      BY <1>7, <2>5 DEF After, CountsCycles
    <3>2. Counted(m) = Gone(m, 0) + 2
      BY <2>5, CountedType
    <3>3. Gone(m, 0) \in Int
      BY CountedType DEF Gone
    <3>4. 1 + Gone(m, 0) = Counted(m) - 1
      BY <3>2, <3>3
    <3>5. Running(m, Counted(m) - 1) /\ savedP = callerP
      BY <2>2, <3>1, <3>4 DEF Counting
    <3>6. AtStop(m, 1)
      BY <2>3, <3>5 DEF AtStop
    <3> QED BY <2>4, <3>1, <3>6 DEF AtPart
  <2>6. CASE m.form = "jiffy_thunk"
    <3>1. After(m, s) = "snap" /\ p = callerP
      BY <1>7, <2>3, <2>6 DEF After, Entry
    <3>2. AtJiffies(1)
      BY <1>f, <2>3, <2>6, <3>1 DEF AtJiffies, Quiet
    <3> QED BY <2>4, <3>1, <3>2 DEF AtPart
  <2> QED BY <1>7, <1>f, <2>5, <2>6 DEF Looped
<1>8. CASE s = "stop"
  <2>1. AtStop(m, 6) /\ m.blank
    BY <1>8, <1>f, <1>w DEF AtPart, Closes
  <2>2. pushed = <<>> /\ p = callerP /\ Figure(m) /\ blanked = m.blank
    BY <2>1 DEF AtStop
  <2>3. AtUnblank(m, 1)
    BY <2>1, <2>2 DEF AtUnblank, Quiet
  <2>4. After(m, s) = "unblank"
    BY <1>8 DEF After
  <2> QED BY <2>2, <2>3, <2>4 DEF AtPart
<1> QED BY <1>w, <1>1, <1>2, <1>3, <1>4, <1>5, <1>6, <1>7, <1>8

(***************************************************************************)
(* An instruction of a part leads to the next one, or back to the jsr.      *)
(***************************************************************************)
LEMMA PartStep ==
  ASSUME NEW m \in Measurements, m = Timed, Fits(m), StateTypes, NEW s \in Parts(m),
         NEW k \in 1 .. Len(Part(m, s)), Steps(Part(m, s)[k]), AtPart(m, s, k)
  PROVE  /\ StateTypes'
         /\ \/ pc' = pc + 1 /\ AtPart(m, s, k + 1)'
            \/ Looped(m) /\ AtJsr(m, 1)' /\ pc' = LoopTop
<1>f. /\ s \in {"ldx", "again"} => Looped(m)
      /\ s = "jsr" => m.form \in {"thunk", "jiffy_thunk", "subroutine"}
      /\ s = "stop" => CountsCycles(m)
  BY MeasurementFields DEF Parts, Looped, CountsCycles, Forms
<1>w. /\ s \in {"blank", "unblank", "ldx", "jsr"} => k = 1
      /\ s = "start" => k \in 1 .. 10
      /\ s \in {"stop", "zero", "snap"} => k \in 1 .. 5
      /\ s = "again" => k \in 1 .. 2
      /\ s = "body" => k \in 1 .. Length(m)
      /\ s \in {"blank", "unblank", "start", "ldx", "jsr", "body", "again", "stop", "zero", "snap"}
  <2>p. PICK j : j = Len(Part(m, s))
    OBVIOUS
  <2>1. /\ s \in {"blank", "unblank", "ldx", "jsr"} => j = 1
        /\ s = "start" => j = 10
        /\ s \in {"stop", "zero", "snap"} => j = 5
        /\ s = "again" => j = 2
        /\ s = "body" => j = Length(m)
        /\ j \in Nat /\ k \in 1 .. j
    BY <2>p, PartTypes
  <2>2. s \in {"blank", "unblank", "start", "ldx", "jsr", "body", "again", "stop", "zero", "snap"}
    BY PartTypes
  <2> QED BY <2>1, <2>2
<1> PICK op : op = Part(m, s)[k]
  OBVIOUS
<1>s. Steps(op)
  OBVIOUS
<1>1. CASE s = "blank"
  <2>1. k = 1 /\ op = "vic_blank" /\ AtBlank(m, 1)
    BY <1>1, <1>w DEF Part, AtPart
  <2>2. AtBlank(m, 2)' /\ StateTypes' /\ pc' = pc + 1
    BY <1>s, <2>1, BlankStep
  <2> QED BY <1>1, <2>1, <2>2 DEF AtPart
<1>2. CASE s = "unblank"
  <2>1. k = 1 /\ op = "vic_unblank" /\ AtUnblank(m, 1)
    BY <1>2, <1>w DEF Part, AtPart
  <2>2. AtUnblank(m, 2)' /\ StateTypes' /\ pc' = pc + 1
    BY <1>s, <2>1, UnblankStep
  <2> QED BY <1>2, <2>1, <2>2 DEF AtPart
<1>3. CASE s = "ldx"
  <2>1. k = 1 /\ op = "ldx" /\ AtLdx(m, 1)
    BY <1>3, <1>w DEF Part, AtPart
  <2>2. AtLdx(m, 2)' /\ StateTypes' /\ pc' = pc + 1
    BY <1>3, <1>f, <1>s, <2>1, LdxStep
  <2> QED BY <1>3, <2>1, <2>2 DEF AtPart
<1>4. CASE s = "jsr"
  <2>1. k = 1 /\ op = "jsr" /\ AtJsr(m, 1)
    BY <1>4, <1>w DEF Part, AtPart
  <2>2. AtJsr(m, 2)' /\ StateTypes' /\ pc' = pc + 1
    BY <1>4, <1>f, <1>s, <2>1, JsrStep
  <2> QED BY <1>4, <2>1, <2>2 DEF AtPart
<1>5. CASE s = "start"
  <2>1. k \in 1 .. 10 /\ op = BenchCyclesStart[k] /\ AtStart(m, k)
    BY <1>5, <1>w DEF Part, AtPart
  <2>2. AtStart(m, k + 1)' /\ StateTypes' /\ pc' = pc + 1
    BY <1>s, <2>1, StartStep
  <2> QED BY <1>5, <2>2 DEF AtPart
<1>6. CASE s = "stop"
  <2>1. k \in 1 .. 5 /\ op = BenchCyclesStop[k] /\ AtStop(m, k)
    BY <1>6, <1>w DEF Part, AtPart
  <2>2. AtStop(m, k + 1)' /\ StateTypes' /\ pc' = pc + 1
    BY <1>6, <1>f, <1>s, <2>1, StopStep
  <2> QED BY <1>6, <2>2 DEF AtPart
<1>7. CASE s = "body"
  <2>1. k \in 1 .. Length(m) /\ op = Body[m.routine][k] /\ AtBody(m, k)
    BY <1>7, <1>w DEF Part, AtPart
  <2>2. AtBody(m, k + 1)' /\ StateTypes' /\ pc' = pc + 1
    BY <1>s, <2>1, BodyStep
  <2> QED BY <1>7, <2>2 DEF AtPart
<1>8. CASE s \in {"zero", "snap"}
  <2>1. k \in 1 .. 5 /\ AtJiffies(k)
    BY <1>8, <1>w DEF AtPart
  <2>2. \E b \in {BenchStart, BenchStop} : op = b[k]
    BY <1>8 DEF Part
  <2>3. AtJiffies(k + 1)' /\ StateTypes' /\ pc' = pc + 1
    BY <1>s, <2>1, <2>2, JiffiesStep
  <2> QED BY <1>8, <2>3 DEF AtPart
<1>9. CASE s = "again" /\ k = 1
  <2>1. op = "dec" /\ AtAgain(m, 1)
    BY <1>9 DEF Part, AtPart
  <2>2. AtAgain(m, 2)' /\ StateTypes' /\ pc' = pc + 1
    BY <1>9, <1>f, <1>s, <2>1, DecStep
  <2> QED BY <1>9, <2>2 DEF AtPart
<1>10. CASE s = "again" /\ k = 2
  <2>1. op = "bne" /\ AtAgain(m, 2)
    BY <1>10 DEF Part, AtPart
  <2>2. /\ StateTypes'
        /\ x = 0 => AtAgain(m, 3)' /\ pc' = pc + 1
        /\ x # 0 => AtJsr(m, 1)' /\ pc' = LoopTop
    BY <1>10, <1>f, <1>s, <2>1, BneStep
  <2>3. CASE x = 0
    BY <1>10, <2>2, <2>3 DEF AtPart
  <2>4. CASE x # 0
    BY <1>10, <1>f, <2>2, <2>4
  <2> QED BY <2>3, <2>4
<1> QED BY <1>w, <1>1, <1>2, <1>3, <1>4, <1>5, <1>6, <1>7, <1>8, <1>9, <1>10

(***************************************************************************)
(* The steps of a measurement.                                              *)
(***************************************************************************)
LEMMA MeasuredNow ==
  ASSUME CycleTypes, at <= Len(plan)
  PROVE  plan[at] \in Measurements /\ Fits(plan[at])
<1>1. plan \in Seq(Measurements) /\ at \in DOMAIN plan
  BY PlansMade DEF CycleTypes
<1>2. Fits(plan[at])
  BY <1>1, CountAssumption DEF CycleTypes, Fits
<1> QED BY <1>1, <1>2

LEMMA CodeType ==
  ASSUME NEW m \in Measurements, NEW s \in Parts(m)
  PROVE  Len(Calls(m)[CallOf(m, s)]) \in Nat
<1>1. CASE m.form \in {"thunk", "subroutine", "jiffy_thunk"}
  <2>1. Calls(m)[1] \in Seq(Instructions) /\ CallOf(m, s) = 1
    BY <1>1, ThunkLayout, SubroutineLayout, JiffyThunkLayout DEF CallOf
  <2> QED BY <2>1
<1>2. CASE m.form \in {"jiffies", "three_calls"}
  BY <1>2, CallsLayout, PartTypes
<1> QED BY <1>1, <1>2, MeasurementFields DEF Forms

\* A call is over only at the end of the part that ends it.
LEMMA AtEnd ==
  ASSUME NEW m \in Measurements, NEW s \in Parts(m), NEW k \in Nat, On(m, s, k),
         pc > Len(Calls(m)[call])
  PROVE  EndsCall(m, s) /\ k = Len(Part(m, s)) + 1
<1> DEFINE w == Len(Part(m, s))
           o == Off(m, s)
           code == Calls(m)[CallOf(m, s)]
<1>1. w \in Nat /\ o \in Nat /\ pc = o + k /\ k \in 1 .. w + 1 /\ pc > Len(code)
  BY PartTypes, Layout DEF On
<1>2. EndsCall(m, s) => Len(code) = o + w
  BY Following
<1>3. ASSUME ~EndsCall(m, s) PROVE FALSE
  <2> PICK t : t = After(m, s)
    OBVIOUS
  <2>1. t \in Parts(m) /\ CallOf(m, t) = CallOf(m, s) /\ Off(m, t) = o + w
    BY <1>3, Following
  <2>2. Len(Part(m, t)) \in Nat \ {0} /\ Off(m, t) + Len(Part(m, t)) <= Len(Calls(m)[CallOf(m, t)])
    BY <2>1, PartTypes, Layout
  <2>3. Calls(m)[CallOf(m, t)] = code
    BY <2>1
  <2>5. Len(code) \in Nat
    BY CodeType
  <2> HIDE DEF w, o, code
  <2> QED BY <1>1, <2>1, <2>2, <2>3, <2>5
<1>4. Len(code) = o + w
  BY <1>2, <1>3
<1> HIDE DEF w, o, code
<1>5. k = w + 1
  BY <1>1, <1>4
<1> QED BY <1>3, <1>5 DEF w

\* Within a call the processor is at an instruction of a part, of this one or
\* of the next one when this one is over.
LEMMA AtInstruction ==
  ASSUME NEW m \in Measurements, StateTypes, NEW s \in Parts(m), NEW k \in Nat, On(m, s, k), AtPart(m, s, k),
         pc <= Len(Calls(m)[call])
  PROVE  \E t \in Parts(m) : \E j \in 1 .. Len(Part(m, t)) :
           /\ On(m, t, j) /\ AtPart(m, t, j) /\ Calls(m)[call][pc] = Part(m, t)[j]
           /\ \/ t = s /\ j = k
              \/ ~Closes(m, s) /\ t = After(m, s) /\ j = 1 /\ k = Len(Part(m, s)) + 1
<1>1. ASSUME NEW t \in Parts(m), NEW j \in 1 .. Len(Part(m, t)), On(m, t, j)
      PROVE  Calls(m)[call][pc] = Part(m, t)[j]
  <2>1. call = CallOf(m, t) /\ pc = Off(m, t) + j
    BY <1>1 DEF On
  <2> QED BY <1>1, <2>1, Layout
<1>2. CASE k \in 1 .. Len(Part(m, s))
  BY <1>1, <1>2
<1>3. CASE k \notin 1 .. Len(Part(m, s))
  <2> DEFINE w == Len(Part(m, s))
             o == Off(m, s)
             code == Calls(m)[CallOf(m, s)]
  <2>1. w \in Nat /\ o \in Nat /\ pc = o + k /\ k \in 1 .. w + 1 /\ pc <= Len(code) /\ call = CallOf(m, s)
    BY PartTypes, Layout DEF On
  <2>2. k = w + 1
    BY <1>3, <2>1
  <2>3. ~EndsCall(m, s)
    <3>1. EndsCall(m, s) => Len(code) = o + w
      BY Following
    <3> HIDE DEF o, w, code
    <3> QED BY <2>1, <2>2, <3>1
  <2> PICK t : t = After(m, s)
    OBVIOUS
  <2>4. t \in Parts(m) /\ CallOf(m, t) = CallOf(m, s) /\ Off(m, t) = o + w
    BY <2>3, Following
  <2>5. ~Closes(m, s) /\ (s = "start" => m.form # "three_calls")
    BY <2>3 DEF EndsCall, Closes
  <2>6. AtPart(m, t, 1)
    BY <2>2, <2>5, Junction
  <2>7. Len(Part(m, t)) \in Nat \ {0}
    BY <2>4, PartTypes
  <2>8. On(m, t, 1)
    <3>1. pc = Off(m, t) + 1
      <4> HIDE DEF o, w, code
      <4> QED BY <2>1, <2>2, <2>4
    <3>2. 1 \in 1 .. Len(Part(m, t)) + 1
      BY <2>7
    <3> QED BY <2>1, <2>4, <3>1, <3>2 DEF On
  <2>9. 1 \in 1 .. Len(Part(m, t))
    BY <2>7
  <2>10. Calls(m)[call][pc] = Part(m, t)[1]
    BY <1>1, <2>4, <2>8, <2>9
  <2> QED BY <2>2, <2>4, <2>5, <2>6, <2>8, <2>9, <2>10
<1> QED BY <1>2, <1>3

LEMMA ExecuteStep ==
  ASSUME CycleTypes, InCall, Execute
  PROVE  StateTypes' /\ InCall'
<1> DEFINE m == plan[at]
<1>1. call > 0 /\ at <= Len(plan)
  BY DEF Execute, CycleTypes
<1>2. m \in Measurements /\ Fits(m) /\ m = Timed
  BY <1>1, MeasuredNow DEF Timed
<1>3. PICK s \in Parts(m), k \in Nat : On(m, s, k) /\ AtPart(m, s, k)
  BY <1>1 DEF InCall, CycleTypes
<1>4. StateTypes /\ pc <= Len(Calls(m)[call])
  BY DEF CycleTypes, Execute, Code, Timed
<1>a. PICK t \in Parts(m) : \E j \in 1 .. Len(Part(m, t)) :
        On(m, t, j) /\ AtPart(m, t, j) /\ Calls(m)[call][pc] = Part(m, t)[j]
  BY <1>2, <1>3, <1>4, AtInstruction
<1>5. PICK j \in 1 .. Len(Part(m, t)) :
        On(m, t, j) /\ AtPart(m, t, j) /\ Calls(m)[call][pc] = Part(m, t)[j]
  BY <1>a
<1>6. Steps(Part(m, t)[j])
  BY <1>5 DEF Execute, Steps, Code, Timed
<1>7. m' = m /\ call' = call /\ call > 0
  BY <1>1 DEF Execute
<1> PICK n \in Measurements : n = m
  BY <1>2
<1>8. /\ StateTypes'
      /\ \/ pc' = pc + 1 /\ AtPart(n, t, j + 1)'
         \/ Looped(n) /\ AtJsr(n, 1)' /\ pc' = LoopTop
  BY <1>2, <1>4, <1>5, <1>6, PartStep
<1>9. Len(Part(n, t)) \in Nat \ {0}
  BY <1>5, PartTypes
<1>10. CASE pc' = pc + 1 /\ AtPart(n, t, j + 1)'
  <2>1. Off(n, t) \in Nat
    BY <1>5, Layout
  <2>2. pc' = Off(n, t) + (j + 1) /\ j + 1 \in 1 .. Len(Part(n, t)) + 1 /\ call' = CallOf(n, t)
    BY <1>5, <1>7, <1>9, <1>10, <2>1 DEF On
  <2>3. On(n, t, j + 1)'
    BY <2>2 DEF On
  <2>4. InCall'
    BY <1>7, <1>10, <2>3 DEF InCall
  <2> QED BY <1>8, <2>4
<1>11. CASE Looped(n) /\ AtJsr(n, 1)' /\ pc' = LoopTop
  <2> PICK u : u = "jsr"
    OBVIOUS
  <2>1. u \in Parts(n) /\ CallOf(n, u) = 1 /\ call = 1
    BY <1>5, <1>11 DEF Parts, CallOf, Looped, On
  <2>2. LoopTop = Off(n, u) + 1
    <3>1. LoopTop = CHOOSE i \in DOMAIN Calls(n)[1] : Calls(n)[1][i] = "jsr"
      BY <1>2, <2>1 DEF LoopTop, Code
    <3> QED BY <1>11, <3>1, LoopTops
  <2>3. AtPart(n, u, 1)'
    BY <1>11 DEF AtPart
  <2>4. Len(Part(n, u)) \in Nat \ {0}
    BY <2>1, PartTypes
  <2>5. On(n, u, 1)'
    <3>1. 1 \in 1 .. Len(Part(n, u)) + 1
      BY <2>4
    <3> QED BY <1>7, <1>11, <2>1, <2>2, <3>1 DEF On
  <2>6. InCall'
    BY <1>7, <2>1, <2>3, <2>5 DEF InCall
  <2> QED BY <1>8, <2>6
<1> QED BY <1>8, <1>10, <1>11

\* The last call has returned.
LEMMA Closing ==
  ASSUME NEW m \in Measurements, StateTypes, NEW s \in Parts(m), NEW k \in Nat, On(m, s, k), AtPart(m, s, k),
         call = Len(Calls(m)), pc > Len(Calls(m)[call])
  PROVE  Quiet /\ ~blanked /\ Figure(m)
<1>1. EndsCall(m, s) /\ k = Len(Part(m, s)) + 1
  BY AtEnd
<1>2. Closes(m, s)
  BY <1>1, NextCalls DEF On
<1>3. /\ s = "unblank" => k = 2
      /\ s \in {"stop", "snap"} => k = 6
  BY <1>1, PartEnds
<1>4. CASE s = "snap"
  <2>1. AtJiffies(6) /\ ~CountsCycles(m)
    BY <1>3, <1>4, MeasurementFields DEF AtPart, Parts, CountsCycles, Forms
  <2> QED BY <2>1 DEF AtJiffies, Figure
<1>5. CASE s = "unblank"
  <2>1. AtUnblank(m, 2)
    BY <1>3, <1>5 DEF AtPart
  <2> QED BY <2>1 DEF AtUnblank
<1>6. CASE s = "stop" /\ ~m.blank
  <2>1. AtStop(m, 6)
    BY <1>3, <1>6 DEF AtPart
  <2> QED BY <1>6, <2>1 DEF AtStop, Quiet
<1> QED BY <1>2, <1>4, <1>5, <1>6 DEF Closes

LEMMA ElapseStep ==
  ASSUME CycleTypes, InCall, Elapses
  PROVE  StateTypes' /\ InCall'
<1>1. /\ StateTypes' /\ UNCHANGED <<plan, at, call, pc>>
      /\ p' = p /\ pushed' = pushed /\ callerP' = callerP /\ blanked' = blanked
  BY ElapseFacts DEF CycleTypes, processor
<1>2. (call > 0 /\ at <= Len(plan)) \/ call = 0
  BY DEF CycleTypes
<1>3. CASE call = 0
  BY <1>1, <1>3 DEF InCall, Quiet
<1>4. CASE call > 0 /\ at <= Len(plan)
  <2> PICK m : m = plan[at]
    OBVIOUS
  <2>1. m \in Measurements /\ Fits(m)
    BY <1>4, MeasuredNow
  <2>2. PICK s \in Parts(m), k \in Nat : On(m, s, k) /\ AtPart(m, s, k)
    BY <1>4 DEF InCall
  <2>3. AtPart(m, s, k)'
    BY <2>1, <2>2, ElapsePart DEF CycleTypes
  <2>4. On(m, s, k)'
    BY <1>1, <2>2 DEF On
  <2> QED BY <1>1, <1>4, <2>3, <2>4 DEF InCall
<1> QED BY <1>2, <1>3, <1>4

\* What holds at a place does not depend on the call or on the operands.
LEMMA SamePart ==
  ASSUME NEW m \in Measurements, NEW s, NEW k, AtPart(m, s, k),
         UNCHANGED <<p, pushed, callerP, savedP, x, blanked, cia, handler, cycles, stolen, window, open>>
  PROVE  AtPart(m, s, k)'
<1>1. /\ p' = p /\ pushed' = pushed /\ callerP' = callerP /\ savedP' = savedP /\ x' = x
      /\ blanked' = blanked /\ cia' = cia /\ handler' = handler /\ cycles' = cycles
      /\ stolen' = stolen /\ window' = window /\ open' = open
  OBVIOUS
<1>2. \A e : Running(m, e) = Running(m, e)' /\ Counting(m, e) = Counting(m, e)'
  BY <1>1 DEF Running, Counting, Loaded, TimersOK, Sum, Slack
<1>3. Stopped(m) = Stopped(m)' /\ Figure(m) = Figure(m)' /\ Ready(m) = Ready(m)' /\ Quiet = Quiet'
      /\ Round(m) = Round(m)' /\ Nested(m, k) = Nested(m, k)'
  BY <1>1 DEF Stopped, Figure, Ready, Quiet, Round, Nested, TimersOK, Sum, Slack, Entry
<1>4. AtBlank(m, k) => AtBlank(m, k)'
  BY <1>1, <1>3 DEF AtBlank
<1>5. AtStart(m, k) => AtStart(m, k)'
  BY <1>1, <1>2 DEF AtStart
<1>6. AtLdx(m, k) => AtLdx(m, k)'
  BY <1>1, <1>2, <1>3 DEF AtLdx
<1>7. AtJsr(m, k) => AtJsr(m, k)'
  BY <1>1, <1>2, <1>3 DEF AtJsr, Gone
<1>8. AtBody(m, k) => AtBody(m, k)'
  BY <1>1, <1>2, <1>3 DEF AtBody, Gone
<1>9. AtAgain(m, k) => AtAgain(m, k)'
  BY <1>1, <1>2, <1>3 DEF AtAgain, Gone
<1>10. AtStop(m, k) => AtStop(m, k)'
  BY <1>1, <1>2, <1>3 DEF AtStop
<1>11. AtUnblank(m, k) => AtUnblank(m, k)'
  BY <1>1, <1>3 DEF AtUnblank
<1>12. AtJiffies(k) => AtJiffies(k)'
  BY <1>1, <1>3 DEF AtJiffies
<1> QED BY <1>4, <1>5, <1>6, <1>7, <1>8, <1>9, <1>10, <1>11, <1>12 DEF AtPart

\* The first call.
LEMMA OpeningStep ==
  ASSUME CycleTypes, InCall, call = 0, Jsr
  PROVE  InCall'
<1>1. at <= Len(plan) /\ call' = 1 /\ pc' = 1 /\ plan' = plan /\ at' = at /\ p' = callerP
      /\ pushed' = pushed /\ blanked' = blanked /\ callerP' = callerP
  BY DEF Jsr
<1> PICK m : m = plan[at]
  OBVIOUS
<1>2. m \in Measurements /\ m.blank \in BOOLEAN
  BY <1>1, MeasuredNow, MeasurementFields
<1>3. pushed' = <<>> /\ p' = callerP' /\ ~blanked' /\ blanked \in BOOLEAN /\ Quiet'
  BY <1>1 DEF InCall, Quiet, CycleTypes, StateTypes
<1> PICK s : s = First(m)
  OBVIOUS
<1>4. s \in Parts(m) /\ CallOf(m, s) = 1 /\ Off(m, s) = 0
  BY <1>2, Openings
<1>5. On(m, s, 1)'
  <2>1. Len(Part(m, s)) \in Nat
    BY <1>2, <1>4, PartTypes
  <2>2. 1 \in 1 .. Len(Part(m, s)) + 1
    BY <2>1
  <2>3. pc' = Off(m, s) + 1
    BY <1>1, <1>4
  <2> QED BY <1>1, <1>4, <2>2, <2>3 DEF On
<1>6. AtPart(m, s, 1)'
  <2>1. CASE m.blank
    <3>1. s = "blank"
      BY <2>1 DEF First
    <3> QED BY <1>3, <3>1 DEF AtPart, AtBlank
  <2>2. CASE ~m.blank /\ CountsCycles(m)
    <3>1. s = "start"
      BY <2>2 DEF First
    <3>2. blanked' = m.blank
      BY <1>1, <1>2, <1>3, <2>2
    <3>3. AtStart(m, 1)'
      BY <1>3, <3>2 DEF AtStart
    <3> QED BY <3>1, <3>3 DEF AtPart
  <2>3. CASE ~m.blank /\ ~CountsCycles(m)
    <3>1. s = "zero"
      BY <2>3 DEF First
    <3>2. AtJiffies(1)'
      BY <1>3 DEF AtJiffies
    <3> QED BY <3>1, <3>2 DEF AtPart
  <2> QED BY <2>1, <2>2, <2>3
<1> QED BY <1>1, <1>4, <1>5, <1>6 DEF InCall

\* The next call.
LEMMA NextCallStep ==
  ASSUME CycleTypes, InCall, call > 0, Jsr
  PROVE  InCall'
<1>1. /\ at <= Len(plan) /\ call < Len(Calls(plan[at])) /\ call' = call + 1 /\ pc' = 1
      /\ plan' = plan /\ at' = at /\ p' = callerP
      /\ UNCHANGED <<pushed, callerP, savedP, x, blanked, cia, handler, cycles, stolen, window, open>>
      /\ pc > Len(Calls(plan[at])[call])
  BY DEF Jsr, Returned, Timed, Code
<1> PICK m : m = plan[at]
  OBVIOUS
<1>2. m \in Measurements /\ StateTypes
  BY <1>1, MeasuredNow DEF CycleTypes
<1>3. PICK s \in Parts(m), k \in Nat : On(m, s, k) /\ AtPart(m, s, k)
  BY <1>1 DEF InCall
<1>4. EndsCall(m, s) /\ k = Len(Part(m, s)) + 1 /\ call = CallOf(m, s)
  BY <1>1, <1>2, <1>3, AtEnd DEF On
<1> PICK t : t = After(m, s)
  OBVIOUS
<1>5. ~Closes(m, s) /\ t \in Parts(m) /\ CallOf(m, t) = call + 1 /\ Off(m, t) = 0
  BY <1>1, <1>2, <1>4, NextCalls
<1>6. On(m, t, 1)'
  <2>1. Len(Part(m, t)) \in Nat
    BY <1>2, <1>5, PartTypes
  <2>2. 1 \in 1 .. Len(Part(m, t)) + 1
    BY <2>1
  <2>3. pc' = Off(m, t) + 1
    BY <1>1, <1>5
  <2> QED BY <1>1, <1>5, <2>2, <2>3 DEF On
<1>7. AtPart(m, t, 1)'
  <2>1. CASE s = "start" /\ m.form = "three_calls"
    <3>1. AtStart(m, 11)
      <4>1. k = 11
        BY <1>2, <1>4, <2>1, PartEnds
      <4> QED BY <1>3, <2>1, <4>1 DEF AtPart
    <3>2. t = "body"
      BY <2>1 DEF After, Looped
    <3>3. pushed' = <<>> /\ blanked' = m.blank /\ savedP' = callerP' /\ p' = callerP' /\ Running(m, 0)
      BY <1>1, <3>1 DEF AtStart
    <3>4. Running(m, 0)'
      BY <1>1, <3>3 DEF Running, Loaded, TimersOK, Sum, Slack
    <3>5. Nested(m, 1)'
      <4>1. Depth(Body[m.routine], 1 - 1) = 0
        BY NoDepth
      <4>2. Entry(m)' = callerP'
        BY <2>1 DEF Entry
      <4> QED BY <3>3, <4>1, <4>2 DEF Nested
    <3>6. Counting(m, 0)' /\ ~Looped(m)
      BY <2>1, <3>3, <3>4 DEF Counting, Looped
    <3>7. (IF Looped(m) THEN 2 + Gone(m, x) ELSE IF m.form = "subroutine" THEN 1 ELSE 0)' + (1 - 1) = 0
      BY <2>1, <3>6
    <3>8. AtBody(m, 1)'
      BY <3>3, <3>5, <3>6, <3>7 DEF AtBody, Round
    <3> QED BY <3>2, <3>8 DEF AtPart
  <2>2. CASE ~(s = "start" /\ m.form = "three_calls")
    <3>1. AtPart(m, t, 1) /\ p = callerP
      BY <1>2, <1>3, <1>4, <1>5, <2>2, Junction
    <3> QED BY <1>1, <1>2, <3>1, SamePart
  <2> QED BY <2>1, <2>2
<1>8. call' # 0
  BY <1>1 DEF CycleTypes
<1> QED BY <1>1, <1>5, <1>6, <1>7, <1>8 DEF InCall

LEMMA OperandNames ==
  /\ DOMAIN Operands = {"src1", "src2", "dst"}
  /\ \A r : Uses(r) \subseteq DOMAIN Operands
<1>1. DOMAIN Operands = {"src1", "src2", "dst"}
  BY DEF Operands
<1> QED BY <1>1 DEF Uses

LEMMA OperandsJsr ==
  ASSUME OperandsSet, Jsr
  PROVE  OperandsSet'
<1>1. /\ ptr' = (IF call = 0 THEN Primed(ptr, plan[at].routine) ELSE ptr)
      /\ plan' = plan /\ at' = at
  BY DEF Jsr, Timed
<1> PICK r : r = plan[at].routine
  OBVIOUS
<1>2. CASE call = 0
  <2>1. ptr' = [q \in DOMAIN ptr |-> IF q \in Uses(r) THEN Operands[q] ELSE ptr[q]]
    BY <1>1, <1>2 DEF Primed
  <2>2. Uses(r) \subseteq DOMAIN ptr /\ DOMAIN ptr = DOMAIN Operands
    BY OperandNames DEF OperandsSet
  <2>3. DOMAIN ptr' = DOMAIN Operands /\ \A q \in Uses(r) : ptr'[q] = Operands[q]
    BY <2>1, <2>2
  <2> QED BY <1>1, <2>3 DEF OperandsSet
<1>3. CASE call # 0
  <2>1. call > 0
    BY <1>3 DEF Jsr, Returned
  <2> QED BY <1>1, <1>3, <2>1 DEF OperandsSet
<1> QED BY <1>2, <1>3

LEMMA OperandsRead ==
  ASSUME OperandsSet, Read
  PROVE  OperandsSet'
<1>1. ptr' = Left(ptr, plan[at].routine) /\ call' = 0
  BY DEF Read, Timed
<1>2. DOMAIN ptr' = DOMAIN ptr
  BY <1>1 DEF Left
<1> QED BY <1>1, <1>2 DEF OperandsSet

LEMMA ReadStep ==
  ASSUME CycleTypes, InCall, OperandsSet, Read
  PROVE  StateTypes' /\ InCall' /\ CycleCountRight'
<1>1. /\ at <= Len(plan) /\ call = Len(Calls(plan[at])) /\ call > 0 /\ pc > Len(Calls(plan[at])[call])
      /\ call' = 0 /\ p' = callerP /\ stolen' = 0
      /\ UNCHANGED <<pushed, callerP, savedP, x, blanked, cia, handler, cycles, window>>
  BY DEF Read, Returned, Timed, Code
<1> PICK m : m = plan[at]
  OBVIOUS
<1>2. m \in Measurements /\ StateTypes
  BY <1>1, MeasuredNow DEF CycleTypes
<1>3. PICK s \in Parts(m), k \in Nat : On(m, s, k) /\ AtPart(m, s, k)
  BY <1>1 DEF InCall
<1>4. Quiet /\ ~blanked /\ Figure(m)
  BY <1>1, <1>2, <1>3, Closing
<1>5. StateTypes'
  BY <1>1, <1>2, CycleAssumption DEF StateTypes
<1>6. InCall'
  BY <1>1, <1>4 DEF InCall, Quiet
<1>7. /\ reading'.of = m /\ reading'.on = ptr /\ reading'.stolen = stolen
      /\ CountsCycles(m) => reading'.value = cycles[1] + cycles[2] * Base
  BY DEF Read, Timed
<1>8. ASSUME CountsCycles(m)
      PROVE  /\ reading'.value \in Counted(m) .. Counted(m) + (IF m.blank THEN 0 ELSE reading'.stolen)
             /\ \A q \in Uses(m.routine) : reading'.on[q] = Operands[q]
  <2>1. reading'.value \in Counted(m) .. Counted(m) + Slack(m)
    BY <1>4, <1>7, <1>8 DEF Figure
  <2>2. \A q \in Uses(m.routine) : ptr[q] = Operands[q]
    BY <1>1 DEF OperandsSet
  <2> QED BY <1>7, <2>1, <2>2 DEF Slack
<1> QED BY <1>5, <1>6, <1>7, <1>8 DEF CycleCountRight

(***************************************************************************)
(* The invariant.                                                           *)
(***************************************************************************)
LEMMA CycleInitInv == CycleInit => CycleInv
<1> SUFFICES ASSUME CycleInit PROVE CycleInv
  OBVIOUS
<1>1. KernalTimer \in Timers
  BY CycleAssumption DEF KernalTimer, Timers
<1>2. cia \in Timers
  BY <1>1 DEF CycleInit, Timers
<1>3. StateTypes
  <2>1. p \in BOOLEAN /\ callerP \in BOOLEAN /\ savedP \in BOOLEAN /\ blanked \in BOOLEAN
    BY DEF CycleInit
  <2>2. pushed \in Seq(BOOLEAN)
    BY DEF CycleInit
  <2>3. x \in Int /\ handler \in Nat /\ stolen \in 0 .. Steals /\ window \in Nat
    BY CycleAssumption DEF CycleInit
  <2>4. cycles \in Int \X Int
    BY DEF CycleInit
  <2> QED BY <1>2, <2>1, <2>2, <2>3, <2>4 DEF StateTypes
<1>4. CycleTypes
  <2>1. plan \in Seq(Measurements)
    BY PlansMade DEF CycleInit
  <2> QED BY <1>3, <2>1 DEF CycleInit, CycleTypes
<1>5. InCall
  BY DEF CycleInit, InCall, Quiet
<1>6. OperandsSet
  BY DEF CycleInit, OperandsSet
<1>7. CycleCountRight
  BY DEF CycleInit, CycleCountRight, Made, NoReading, M
<1> QED BY <1>4, <1>5, <1>6, <1>7 DEF CycleInv

LEMMA CycleNextInv == CycleInv /\ [CycleNext]_cycleVars => CycleInv'
<1> SUFFICES ASSUME CycleInv, [CycleNext]_cycleVars PROVE CycleInv'
  OBVIOUS
<1> USE DEF CycleInv
<1>t. plan \in Seq(Measurements) /\ at \in 1 .. Len(plan) + 1 /\ call \in Nat
  BY PlansMade DEF CycleTypes
<1>1. CASE Elapses
  <2>1. StateTypes' /\ InCall'
    BY <1>1, ElapseStep
  <2>2. UNCHANGED <<plan, at, call, ptr, reading>>
    BY <1>1, ElapseFacts DEF CycleTypes, processor
  <2>3. CycleTypes' /\ OperandsSet' /\ CycleCountRight'
    BY <2>1, <2>2 DEF CycleTypes, OperandsSet, CycleCountRight, Made
  <2> QED BY <2>1, <2>3
<1>2. CASE Execute
  <2>1. StateTypes' /\ InCall'
    BY <1>2, ExecuteStep
  <2>2. UNCHANGED <<plan, at, call, ptr, reading>>
    BY <1>2 DEF Execute
  <2>3. CycleTypes' /\ OperandsSet' /\ CycleCountRight'
    BY <2>1, <2>2 DEF CycleTypes, OperandsSet, CycleCountRight, Made
  <2> QED BY <2>1, <2>3
<1>3. CASE Jsr
  <2>1. InCall'
    BY <1>3, <1>t, OpeningStep, NextCallStep
  <2>2. OperandsSet'
    BY <1>3, OperandsJsr
  <2>3. StateTypes'
    BY <1>3 DEF Jsr, CycleTypes, StateTypes
  <2>4. CycleTypes' /\ CycleCountRight'
    BY <1>3, <1>t, <2>3 DEF Jsr, CycleTypes, CycleCountRight, Made
  <2> QED BY <2>1, <2>2, <2>4
<1>4. CASE Read
  <2>1. StateTypes' /\ InCall' /\ CycleCountRight'
    BY <1>4, ReadStep
  <2>2. OperandsSet'
    BY <1>4, OperandsRead
  <2>3. plan' = plan /\ at' = at + 1 /\ call' = 0 /\ at <= Len(plan)
    BY <1>4 DEF Read
  <2>4. CycleTypes'
    BY <1>t, <2>1, <2>3 DEF CycleTypes
  <2> QED BY <2>1, <2>2, <2>4
<1>5. CASE UNCHANGED cycleVars
  <2>1. /\ UNCHANGED <<plan, at, call, pc, p, pushed, callerP, savedP, x, blanked, cia, handler>>
        /\ UNCHANGED <<cycles, ptr, stolen, window, open, reading>>
    BY <1>5 DEF cycleVars
  <2>2. CycleTypes' /\ OperandsSet' /\ CycleCountRight'
    BY <2>1 DEF CycleTypes, StateTypes, OperandsSet, CycleCountRight, Made
  <2>3. InCall'
    <3>1. CASE call = 0
      BY <2>1, <3>1 DEF InCall, Quiet
    <3>2. CASE call # 0
      <4>1. call > 0 /\ at <= Len(plan)
        BY <1>t, <3>2 DEF CycleTypes
      <4> PICK m : m = plan[at]
        OBVIOUS
      <4>2. m \in Measurements
        BY <4>1, MeasuredNow
      <4>3. PICK s \in Parts(m), k \in Nat : On(m, s, k) /\ AtPart(m, s, k)
        BY <3>2 DEF InCall
      <4>4. AtPart(m, s, k)'
        BY <2>1, <4>2, <4>3, SamePart
      <4>5. On(m, s, k)'
        BY <2>1, <4>3 DEF On
      <4> QED BY <2>1, <3>2, <4>4, <4>5 DEF InCall
    <3> QED BY <3>1, <3>2
  <2> QED BY <2>2, <2>3
<1>6. CASE Finished
  BY <1>5, <1>6 DEF Finished
<1> QED BY <1>1, <1>2, <1>3, <1>4, <1>5, <1>6 DEF CycleNext, Elapses

(***************************************************************************)
(* In every state of every plan of the tools, with any routine to time,     *)
(* wherever cycles are stolen and interrupts taken.                         *)
(***************************************************************************)
THEOREM CycleInvariant == CycleSpec => []CycleInv
BY CycleInitInv, CycleNextInv, PTL DEF CycleSpec

(***************************************************************************)
(* bench_cycles_start and bench_cycles_stop: every reading is the work and  *)
(* its scaffold to the cycle under a blanked display, and no more than the  *)
(* stolen cycles above it otherwise, on the operands the tool set.          *)
(***************************************************************************)
THEOREM CycleCountCorrect == CycleSpec => []CycleCountRight
<1>1. CycleInv => CycleCountRight
  BY DEF CycleInv
<1> QED BY <1>1, CycleInvariant, PTL

(***************************************************************************)
(* Both brackets: when a measurement returns, the stack, the display and    *)
(* the interrupt flag are those of the caller.                              *)
(***************************************************************************)
THEOREM CallerUndisturbed == CycleSpec => []CallerRestored
<1>1. CycleInv => CallerRestored
  <2> SUFFICES ASSUME CycleInv, Returned, call = Len(Calls(Timed)) PROVE pushed = <<>> /\ ~blanked /\ p = callerP
    BY DEF CallerRestored
  <2>1. CycleTypes /\ InCall /\ call > 0 /\ at <= Len(plan) /\ StateTypes
    BY DEF CycleInv, Returned, CycleTypes
  <2> PICK m : m = plan[at]
    OBVIOUS
  <2>2. m \in Measurements /\ call = Len(Calls(m)) /\ pc > Len(Calls(m)[call])
    BY <2>1, MeasuredNow DEF Returned, Timed, Code
  <2>3. PICK s \in Parts(m), k \in Nat : On(m, s, k) /\ AtPart(m, s, k)
    BY <2>1 DEF InCall
  <2>4. Quiet /\ ~blanked
    BY <2>1, <2>2, <2>3, Closing
  <2> QED BY <2>4 DEF Quiet
<1> QED BY <1>1, CycleInvariant, PTL

-----------------------------------------------------------------------------
(***************************************************************************)
(* bench_start and bench_stop.  Timer A is the kernal's.  An interrupt is   *)
(* lost only when a second is requested while a first waits, and that takes *)
(* a masked stretch: handled or not, there are no more and hardly fewer     *)
(* than the periods in which they were allowed.                             *)
(***************************************************************************)
Kernal ==
  cia.aOn /\ ~cia.bOn /\ cia.enabled /\ cia.aLatch = Period - 1 /\ cia.a \in 0 .. Period - 1

\* The handler is over before a second request.
Handling == handler <= Handler /\ (handler > 0 => ~p /\ (cia.flag => handler <= cia.a))

\* What is masked below is masked above: only sei masks.
Nesting == \A i \in 1 .. Len(pushed) : pushed[i] => p /\ \A j \in i .. Len(pushed) : pushed[j]

ClockTypes ==
  deaf \in Nat /\ jiffy \in (0 .. Digit - 1) \X (0 .. Digit - 1) /\ ticks \in Int \X Int

Ticking == ClockTypes /\ Kernal /\ Handling /\ Nesting

Serving == IF handler > 0 THEN 1 ELSE 0
Pending == IF cia.flag THEN 1 ELSE 0

\* How far the periods of the interrupts, n of them served, one perhaps under
\* way and one waiting, are ahead of the time they were allowed.
Ahead(n) == (n + Serving + Pending) * Period - (window - deaf)

\* By how much at most, after r instructions that mask.
Level(r) == Period + r * (2 * Period - 1)

Bounded(n, r) ==
  /\ Ahead(n) >= (IF cia.flag /\ p THEN 0 ELSE cia.a - (Period - 1))
  /\ Ahead(n) <= Level(r) + (IF ~p THEN cia.a ELSE IF cia.flag THEN 0 ELSE -Period)

Digits == Digit * Digit
Clock  == jiffy[1] * Digit + jiffy[2]

\* The clock, which may have gone round, shows the interrupts served.
Hearing(r) ==
  open /\ \E n \in 0 .. window : \E round \in Nat : n = round * Digits + Clock /\ Bounded(n, r)

LEMMA Levels == ASSUME NEW r \in Nat PROVE Level(r) \in Int /\ Level(r + 1) = Level(r) + (2 * Period - 1)
<1>1. Period \in Nat
  BY CycleAssumption
<1> PICK d \in Int : d = 2 * Period - 1
  BY <1>1
<1>2. Level(r) = Period + r * d /\ Level(r + 1) = Period + (r + 1) * d
  BY DEF Level
<1>3. r * d \in Int /\ (r + 1) * d = r * d + d
  OBVIOUS
<1> QED BY <1>1, <1>2, <1>3

LEMMA KernalCycle ==
  ASSUME cia \in Timers, Kernal, cia' = Cycle
  PROVE  /\ Kernal'
         /\ cia'.a = (IF cia.a = 0 THEN Period - 1 ELSE cia.a - 1)
         /\ cia.flag \/ cia.a = 0 => cia'.flag
         /\ ~cia.flag /\ cia.a # 0 => ~cia'.flag
<1>1. cia'.a = (IF cia.a = 0 THEN Period - 1 ELSE cia.a - 1)
  BY DEF Cycle, Timers, Kernal
<1>2. /\ cia.flag \/ cia.a = 0 => cia'.flag
      /\ ~cia.flag /\ cia.a # 0 => ~cia'.flag
  BY DEF Cycle, Timers, Kernal
<1>3. /\ cia'.aOn /\ ~cia'.bOn /\ cia'.enabled /\ cia'.aLatch = Period - 1
  BY CycleFacts DEF Kernal
<1>4. Period \in Nat \ {0} /\ cia.a \in 0 .. Period - 1
  BY CycleAssumption DEF Kernal
<1>5. cia'.a \in 0 .. Period - 1
  BY <1>1, <1>4
<1> QED BY <1>1, <1>2, <1>3, <1>5 DEF Kernal

\* A cycle in which no request is lost while interrupts are allowed.
LEMMA BoundedCycle ==
  ASSUME StateTypes, Ticking, NEW n \in Nat, NEW i \in Nat, NEW r \in Nat, NEW s \in {r, r + 1},
         Bounded(n, r), cia' = Cycle, window' = window + 1, deaf' = (IF p THEN deaf + 1 ELSE deaf),
         i + Serving' = n + Serving, p' \in BOOLEAN, ~p /\ cia.flag => cia.a > 0,
         p' /\ ~p => s = r + 1 /\ ~cia.flag
  PROVE  Bounded(i, s)'
<1>1. /\ Period \in Nat /\ Period > 1 /\ cia.a \in 0 .. Period - 1 /\ p \in BOOLEAN
      /\ window \in Nat /\ deaf \in Nat
  BY CycleAssumption DEF StateTypes, Ticking, Kernal, ClockTypes
<1>2. /\ cia'.a = (IF cia.a = 0 THEN Period - 1 ELSE cia.a - 1)
      /\ cia.flag \/ cia.a = 0 => cia'.flag
      /\ ~cia.flag /\ cia.a # 0 => ~cia'.flag
  BY KernalCycle DEF StateTypes, Ticking
<1>a. PICK P \in Nat, a \in Nat, b \in Int : 
          P = Period /\ a = cia.a /\ b = cia'.a /\ P > 1 /\ a <= P - 1
  BY <1>1, <1>2
<1>f. PICK f \in Int, g \in Int : f = Pending /\ g = Pending'
  BY DEF Pending
<1>v. PICK v \in Int, y \in Int : v = Serving /\ y = Serving'
  BY DEF Serving
<1>h. PICK h \in Int : h = window - deaf
  BY <1>1
<1>l. PICK L \in Int, J \in Int : L = Level(r) /\ J = Level(s)
  BY Levels
<1>u. PICK u \in Int, w \in Int : u = (IF p THEN 1 ELSE 0) /\ w = (IF p' THEN 1 ELSE 0)
  OBVIOUS
<1>q. PICK q \in Int : q = n + v + f
  OBVIOUS
<1>p. PICK Q \in Int : Q = q * P
  OBVIOUS
<1>3. P > 1 /\ a <= P - 1 /\ b = (IF a = 0 THEN P - 1 ELSE a - 1)
  <2>1. P > 1 /\ a <= P - 1
    BY <1>a
  <2>2. b = (IF a = 0 THEN P - 1 ELSE a - 1)
    BY <1>2, <1>a
  <2> QED BY <2>1, <2>2
<1>4. (f = 0 \/ f = 1) /\ (f = 1 <=> cia.flag) /\ (g = 0 \/ g = 1) /\ (g = 1 <=> cia'.flag)
  BY <1>f DEF Pending
<1>5. g = (IF f = 1 \/ a = 0 THEN 1 ELSE 0)
  BY <1>2, <1>4, <1>a
<1>6. i + y = n + v
  BY <1>v
<1>7. (i + y + g) * P = Q + (IF g = f THEN 0 ELSE P)
  <2>1. CASE g = f
    <3>1. i + y + g = q
      BY <1>6, <1>q, <2>1
    <3> QED BY <1>p, <3>1, <2>1
  <2>2. CASE g # f
    <3>1. i + y + g = q + 1
      BY <1>4, <1>5, <1>6, <1>q, <2>2
    <3>2. (q + 1) * P = Q + P
      BY <1>p
    <3> QED BY <3>1, <3>2, <2>2
  <2> QED BY <2>1, <2>2
<1>8. window' - deaf' = (IF u = 1 THEN h ELSE h + 1)
  BY <1>1, <1>h, <1>u
<1>s. PICK c \in Int, d \in Int : c = (IF g = f THEN 0 ELSE P) /\ d = (IF u = 1 THEN h ELSE h + 1)
  OBVIOUS
<1>9. PICK A \in Int : A = Q + c - d
  OBVIOUS
<1>A. Ahead(i)' = A
  <2>1. Ahead(i)' = (i + y + g) * P - (window' - deaf')
    BY <1>a, <1>f, <1>v DEF Ahead
  <2>2. window' - deaf' = d /\ (i + y + g) * P = Q + c
    BY <1>7, <1>8, <1>s
  <2>3. (i + y + g) * P - (window' - deaf') = (Q + c) - d
    BY <2>2
  <2> QED BY <1>9, <2>1, <2>3
<1>10. J = (IF s = r + 1 THEN L + (2 * P - 1) ELSE L)
  BY <1>l, <1>a, Levels
<1>11. w = 1 /\ u = 0 => s = r + 1 /\ f = 0
  BY <1>4, <1>u
<1>12. u = 0 /\ f = 1 => a > 0
  BY <1>4, <1>u, <1>a
<1>13. Ahead(n) = Q - h
  <2>1. Ahead(n) = q * P - h
    BY <1>q, <1>v, <1>f, <1>a, <1>h DEF Ahead
  <2> QED BY <2>1, <1>p
<1>14. /\ Q - h >= (IF f = 1 /\ u = 1 THEN 0 ELSE a - (P - 1))
       /\ Q - h <= L + (IF u = 0 THEN a ELSE IF f = 1 THEN 0 ELSE -P)
  BY <1>4, <1>13, <1>u, <1>a, <1>l DEF Bounded
<1>15. (u = 0 \/ u = 1) /\ (u = 1 <=> p) /\ (w = 0 \/ w = 1) /\ (w = 1 <=> p')
  BY <1>u
<1>16. A >= (IF g = 1 /\ w = 1 THEN 0 ELSE b - (P - 1))
  BY <1>3, <1>4, <1>5, <1>9, <1>s, <1>11, <1>12, <1>14, <1>15
<1>17. s = r \/ s = r + 1
  OBVIOUS
<1>18. A <= J + (IF w = 0 THEN b ELSE IF g = 1 THEN 0 ELSE -P)
  BY <1>3, <1>4, <1>5, <1>9, <1>s, <1>10, <1>11, <1>12, <1>14, <1>15, <1>17
<1>19. Level(s)' = Level(s)
  BY DEF Level
<1>20. Ahead(i)' >= (IF cia'.flag /\ p' THEN 0 ELSE cia'.a - (Period - 1))
  BY <1>a, <1>4, <1>15, <1>16, <1>A
<1>21. Ahead(i)' <= Level(s) + (IF ~p' THEN cia'.a ELSE IF cia'.flag THEN 0 ELSE -Period)
  BY <1>a, <1>l, <1>4, <1>15, <1>18, <1>A
<1> QED BY <1>19, <1>20, <1>21 DEF Bounded

\* The handler's increment of the clock.
LEMMA ClockAdvance ==
  ASSUME ClockTypes, jiffy' = Advanced, NEW n \in Nat, NEW round \in Nat, n = round * Digits + Clock
  PROVE  /\ jiffy' \in (0 .. Digit - 1) \X (0 .. Digit - 1)
         /\ \E again \in Nat : n + 1 = again * Digits + Clock'
<1>1. /\ Digit \in Nat \ {0, 1} /\ jiffy[1] \in 0 .. Digit - 1 /\ jiffy[2] \in 0 .. Digit - 1
      /\ jiffy = <<jiffy[1], jiffy[2]>>
  BY CycleAssumption DEF ClockTypes
<1>2. Digits \in Int /\ jiffy[1] * Digit \in Int
  BY <1>1 DEF Digits
<1>3. CASE jiffy[2] # Digit - 1
  <2>1. jiffy' = <<jiffy[1], jiffy[2] + 1>>
    BY <1>3 DEF Advanced
  <2>2. Clock' = Clock + 1
    BY <1>1, <1>2, <2>1 DEF Clock
  <2>3. n + 1 = round * Digits + Clock'
    BY <1>1, <1>2, <2>2 DEF Clock
  <2> QED BY <1>1, <1>3, <2>1, <2>3
<1>4. CASE jiffy[2] = Digit - 1 /\ jiffy[1] # Digit - 1
  <2>1. (jiffy[1] + 1) % Digit = jiffy[1] + 1
    BY <1>1, <1>4
  <2>2. jiffy' = <<jiffy[1] + 1, 0>>
    BY <1>4, <2>1 DEF Advanced
  <2>3. (jiffy[1] + 1) * Digit = jiffy[1] * Digit + Digit
    BY <1>1
  <2>4. Clock' = Clock + 1
    BY <1>1, <1>2, <1>4, <2>2, <2>3 DEF Clock
  <2>5. n + 1 = round * Digits + Clock'
    BY <1>1, <1>2, <2>4 DEF Clock
  <2> QED BY <1>1, <1>4, <2>2, <2>5
<1>5. CASE jiffy[2] = Digit - 1 /\ jiffy[1] = Digit - 1
  <2>1. (jiffy[1] + 1) % Digit = 0
    <3>1. jiffy[1] + 1 = Digit
      BY <1>1, <1>5
    <3>2. Digit % Digit = 0
      BY <1>1
    <3> QED BY <3>1, <3>2
  <2>2. jiffy' = <<0, 0>>
    BY <1>5, <2>1 DEF Advanced
  <2>3. (Digit - 1) * Digit = Digit * Digit - Digit
    BY <1>1
  <2>4. Clock = Digits - 1 /\ Clock' = 0
    BY <1>1, <1>2, <1>5, <2>2, <2>3 DEF Clock, Digits
  <2>5. (round + 1) * Digits = round * Digits + Digits /\ round * Digits \in Int
    BY <1>2
  <2>6. n + 1 = (round + 1) * Digits + Clock'
    BY <1>2, <2>4, <2>5
  <2> QED BY <1>1, <2>2, <2>6
<1> QED BY <1>3, <1>4, <1>5

(***************************************************************************)
(* Time passes.                                                             *)
(***************************************************************************)
LEMMA ElapseTicking ==
  ASSUME StateTypes, Ticking, Elapses
  PROVE  /\ Ticking' /\ open' = open /\ ticks' = ticks
         /\ p => jiffy' = jiffy
         /\ ~open => window' = window /\ deaf' = deaf
<1>1. StateTypes' /\ open' = open /\ p' = p /\ pushed' = pushed /\ ticks' = ticks
  BY ElapseFacts DEF processor
<1>2. Nesting'
  BY <1>1 DEF Ticking, Nesting
<1>3. /\ Period \in Nat /\ Period > 1 /\ Handler \in 1 .. Period - 1 /\ cia.a \in 0 .. Period - 1
      /\ handler \in Nat /\ p \in BOOLEAN /\ window \in Nat /\ deaf \in Nat
      /\ handler <= Handler /\ (handler > 0 => ~p /\ (cia.flag => handler <= cia.a))
  BY CycleAssumption DEF StateTypes, Ticking, Kernal, Handling, ClockTypes
<1>4. CASE Steal
  <2>1. /\ handler = 0 /\ handler' = handler /\ jiffy' = jiffy /\ cia' = Cycle
        /\ deaf' = (IF open /\ p THEN deaf + 1 ELSE deaf) /\ window' = (IF open THEN window + 1 ELSE window)
    BY <1>4 DEF Steal, Passed
  <2>2. Kernal'
    BY <2>1, KernalCycle DEF StateTypes, Ticking
  <2>3. Handling'
    BY <1>3, <2>1 DEF Handling
  <2>4. ClockTypes'
    BY <1>1, <1>3, <2>1 DEF Ticking, ClockTypes
  <2> QED BY <1>1, <1>2, <2>1, <2>2, <2>3, <2>4 DEF Ticking
<1>5. CASE Interrupt
  <2>1. /\ handler' \in 1 .. Handler /\ cia' = [cia EXCEPT !.flag = FALSE] /\ ~p
        /\ jiffy' = jiffy /\ window' = window /\ deaf' = deaf
    BY <1>5 DEF Interrupt, Requested
  <2>2. Kernal' /\ ~cia'.flag
    BY <2>1 DEF Ticking, Kernal, StateTypes, Timers
  <2>3. Handling'
    BY <1>1, <1>3, <2>1, <2>2 DEF Handling
  <2>4. ClockTypes'
    BY <1>1, <2>1 DEF Ticking, ClockTypes
  <2> QED BY <1>1, <1>2, <2>1, <2>2, <2>3, <2>4 DEF Ticking
<1>6. CASE Handle
  <2>1. /\ handler > 0 /\ handler' = handler - 1 /\ cia' = Cycle
        /\ jiffy' = (IF handler = 1 THEN Advanced ELSE jiffy)
        /\ deaf' = deaf /\ window' = (IF open THEN window + 1 ELSE window)
    BY <1>6 DEF Handle, Passed
  <2>2. /\ Kernal' /\ cia'.a = (IF cia.a = 0 THEN Period - 1 ELSE cia.a - 1)
        /\ ~cia.flag /\ cia.a # 0 => ~cia'.flag
    BY <2>1, KernalCycle DEF StateTypes, Ticking
  <2>3. ~p /\ ~p'
    BY <1>1, <1>3, <2>1
  <2>4. cia'.flag => handler - 1 <= cia'.a
    <3>1. CASE cia.a = 0
      BY <1>3, <2>1, <2>2, <3>1
    <3>2. CASE cia.a # 0 /\ cia.flag
      BY <1>3, <2>1, <2>2, <3>2
    <3>3. CASE cia.a # 0 /\ ~cia.flag
      BY <2>2, <3>3
    <3> QED BY <3>1, <3>2, <3>3
  <2>5. Handling'
    BY <1>3, <2>1, <2>3, <2>4 DEF Handling
  <2>6. jiffy' \in (0 .. Digit - 1) \X (0 .. Digit - 1)
    <3>1. jiffy \in (0 .. Digit - 1) \X (0 .. Digit - 1)
      BY DEF Ticking, ClockTypes
    <3>2. 0 * Digits + Clock = Clock /\ Clock \in Nat
      BY <3>1, CycleAssumption DEF Clock, Digits
    <3>3. jiffy' = Advanced => jiffy' \in (0 .. Digit - 1) \X (0 .. Digit - 1)
      BY <3>2, ClockAdvance DEF Ticking
    <3> QED BY <2>1, <3>1, <3>3
  <2>7. ClockTypes'
    BY <1>1, <2>1, <2>6 DEF Ticking, ClockTypes
  <2> QED BY <1>1, <1>2, <2>1, <2>2, <2>3, <2>5, <2>7 DEF Ticking
<1> QED BY <1>4, <1>5, <1>6 DEF Elapses

LEMMA ElapseHearing ==
  ASSUME StateTypes, Ticking, Elapses, NEW r \in Nat, Hearing(r)
  PROVE  Hearing(r)'
<1>1. /\ open /\ open' /\ p' = p /\ p \in BOOLEAN /\ window \in Nat /\ handler \in Nat
      /\ StateTypes'
  BY ElapseFacts DEF processor, StateTypes, Hearing
<1>2. PICK n \in 0 .. window, round \in Nat : n = round * Digits + Clock /\ Bounded(n, r)
  BY DEF Hearing
<1>3. n \in Nat /\ n <= window
  BY <1>1, <1>2
<1>4. CASE Steal
  <2>1. /\ handler = 0 /\ handler' = handler /\ ~Requested /\ cia' = Cycle /\ window' = window + 1
        /\ deaf' = (IF p THEN deaf + 1 ELSE deaf) /\ jiffy' = jiffy
    BY <1>1, <1>4 DEF Steal, Passed
  <2>2. n + Serving' = n + Serving
    BY <2>1 DEF Serving
  <2>3. ~p => ~cia.flag
    BY <2>1 DEF Requested, Ticking, Kernal
  <2>4. Bounded(n, r)'
    BY <1>1, <1>2, <1>3, <2>1, <2>2, <2>3, BoundedCycle
  <2>5. Clock' = Clock /\ n \in 0 .. window'
    BY <1>1, <1>3, <2>1 DEF Clock
  <2> QED BY <1>1, <1>2, <2>4, <2>5 DEF Hearing, Digits
<1>5. CASE Interrupt
  <2>1. /\ handler = 0 /\ handler' > 0 /\ cia.flag /\ ~p /\ cia' = [cia EXCEPT !.flag = FALSE]
        /\ jiffy' = jiffy /\ window' = window /\ deaf' = deaf
    BY <1>5, CycleAssumption DEF Interrupt, Requested
  <2>2. cia'.a = cia.a /\ ~cia'.flag
    BY <2>1 DEF StateTypes, Timers
  <2>3. Serving = 0 /\ Serving' = 1 /\ Pending = 1 /\ Pending' = 0
    BY <2>1, <2>2 DEF Serving, Pending
  <2>4. n + Serving' + Pending' = n + Serving + Pending
    BY <1>3, <2>3
  <2>5. Ahead(n)' = Ahead(n)
    BY <2>1, <2>4 DEF Ahead
  <2>6. Level(r)' = Level(r)
    BY DEF Level
  <2>7. Bounded(n, r)'
    BY <1>1, <1>2, <2>1, <2>2, <2>5, <2>6 DEF Bounded
  <2>8. Clock' = Clock
    BY <2>1 DEF Clock
  <2> QED BY <1>1, <1>2, <2>1, <2>7, <2>8 DEF Hearing, Digits
<1>6. CASE Handle
  <2>1. /\ handler > 0 /\ handler' = handler - 1 /\ cia' = Cycle /\ window' = window + 1
        /\ jiffy' = (IF handler = 1 THEN Advanced ELSE jiffy) /\ deaf' = deaf
    BY <1>1, <1>6 DEF Handle, Passed
  <2>2. ~p /\ (cia.flag => cia.a > 0)
    <3>1. ~p /\ (cia.flag => handler <= cia.a) /\ cia.a \in Nat
      BY <2>1 DEF Ticking, Handling, Kernal
    <3> QED BY <1>1, <2>1, <3>1
  <2>3. \E i \in 0 .. window' : \E again \in Nat : i = again * Digits + Clock' /\ i + Serving' = n + Serving
    <3>1. CASE handler = 1
      <4>1. Serving = 1 /\ Serving' = 0
        BY <2>1, <3>1 DEF Serving
      <4>2. PICK again \in Nat : n + 1 = again * Digits + Clock'
        BY <1>2, <1>3, <2>1, <3>1, ClockAdvance DEF Ticking
      <4>3. n + 1 \in 0 .. window' /\ (n + 1) + Serving' = n + Serving
        BY <1>1, <1>3, <2>1, <4>1
      <4> QED BY <4>2, <4>3
    <3>2. CASE handler # 1
      <4>1. Serving = 1 /\ Serving' = 1
        BY <1>1, <2>1, <3>2 DEF Serving
      <4>2. Clock' = Clock
        BY <2>1, <3>2 DEF Clock
      <4>3. n \in 0 .. window' /\ n + Serving' = n + Serving
        BY <1>1, <1>3, <2>1, <4>1
      <4> QED BY <1>2, <4>2, <4>3
    <3> QED BY <3>1, <3>2
  <2>4. PICK i \in 0 .. window', again \in Nat : i = again * Digits + Clock' /\ i + Serving' = n + Serving
    BY <2>3
  <2>5. i \in Nat
    BY <2>4, <1>1, <2>1
  <2>6. deaf' = (IF p THEN deaf + 1 ELSE deaf) /\ (~p /\ cia.flag => cia.a > 0) /\ ~p' /\ r \in {r, r + 1}
    BY <1>1, <2>1, <2>2
  <2>7. Bounded(i, r)'
    BY <1>1, <1>2, <1>3, <2>1, <2>4, <2>5, <2>6, BoundedCycle
  <2> QED BY <1>1, <2>4, <2>7 DEF Hearing, Digits
<1> QED BY <1>4, <1>5, <1>6 DEF Elapses

(***************************************************************************)
(* An instruction.                                                          *)
(***************************************************************************)
JiffyOps ==
  (BodyOps \ {"cli"}) \cup {"ldx", "jsr", "dec", "bne", "zero_high", "zero_low", "snap_high", "snap_low"}

\* What each of them does to the stack and the flag: only sei masks.
LEMMA StepNesting ==
  ASSUME StateTypes, Nesting, NEW op \in JiffyOps, Flags(op), op = "plp" => Len(pushed) > 0
  PROVE  Nesting' /\ (p' /\ ~p => op = "sei")
<1>1. p \in BOOLEAN /\ pushed \in Seq(BOOLEAN) /\ Len(pushed) \in Nat
  BY DEF StateTypes
<1>2. CASE op = "sei"
  <2>1. p' = TRUE /\ pushed' = pushed
    BY <1>2 DEF Flags
  <2> QED BY <1>2, <2>1 DEF Nesting
<1>3. CASE op = "php"
  <2>1. p' = p /\ pushed' = Append(pushed, p)
    BY <1>3 DEF Flags
  <2>2. Len(pushed') = Len(pushed) + 1 /\ pushed'[Len(pushed) + 1] = p
        /\ \A i \in 1 .. Len(pushed) : pushed'[i] = pushed[i]
    BY <1>1, <2>1
  <2>3. ASSUME NEW i \in 1 .. Len(pushed'), pushed'[i]
        PROVE  p' /\ \A j \in i .. Len(pushed') : pushed'[j]
    <3>1. p
      <4>1. CASE i = Len(pushed) + 1
        BY <2>2, <2>3, <4>1
      <4>2. CASE i # Len(pushed) + 1
        <5>1. i \in 1 .. Len(pushed)
          BY <1>1, <2>2, <4>2
        <5> QED BY <2>2, <2>3, <5>1 DEF Nesting
      <4> QED BY <4>1, <4>2
    <3>2. ASSUME NEW j \in i .. Len(pushed') PROVE pushed'[j]
      <4>1. CASE j = Len(pushed) + 1
        BY <2>2, <3>1, <4>1
      <4>2. CASE j # Len(pushed) + 1
        <5>1. i \in 1 .. Len(pushed) /\ j \in i .. Len(pushed) /\ j \in 1 .. Len(pushed)
          BY <1>1, <2>2, <4>2
        <5>2. pushed[i]
          BY <2>2, <2>3, <5>1
        <5>3. pushed[j]
          BY <5>1, <5>2 DEF Nesting
        <5> QED BY <2>2, <5>1, <5>3
      <4> QED BY <4>1, <4>2
    <3> QED BY <2>1, <3>1, <3>2
  <2>4. Nesting'
    BY <2>3 DEF Nesting
  <2> QED BY <2>1, <2>4
<1>4. CASE op = "plp"
  <2>1. p' = pushed[Len(pushed)] /\ pushed' = SubSeq(pushed, 1, Len(pushed) - 1) /\ Len(pushed) > 0
    BY <1>4 DEF Flags, Last, Front
  <2>p. PICK k \in Nat : k = Len(pushed) - 1
    BY <1>1, <2>1
  <2>a. \A i \in 1 .. k : pushed[i] \in BOOLEAN
    BY <1>1, <2>p
  <2>b. /\ Len(SubSeq(pushed, 1, k)) = (IF 1 <= k THEN k - 1 + 1 ELSE 0)
        /\ \A i \in 1 .. k : SubSeq(pushed, 1, k)[i] = pushed[i]
    <3>1. \A S, q : (\A i \in 1 .. k : q[i] \in S) =>
            /\ Len(SubSeq(q, 1, k)) = (IF 1 <= k THEN k - 1 + 1 ELSE 0)
            /\ \A i \in 1 .. (k - 1 + 1) : SubSeq(q, 1, k)[i] = q[1 + i - 1]
      BY SubSeqProperties
    <3>2. k - 1 + 1 = k /\ \A i \in 1 .. k : 1 + i - 1 = i
      OBVIOUS
    <3> QED BY <2>a, <3>1, <3>2
  <2>2. Len(pushed') = Len(pushed) - 1 /\ \A i \in 1 .. Len(pushed) - 1 : pushed'[i] = pushed[i]
    <3>1. pushed' = SubSeq(pushed, 1, k)
      BY <2>1, <2>p
    <3>2. (IF 1 <= k THEN k - 1 + 1 ELSE 0) = k
      BY <2>p
    <3> QED BY <2>b, <2>p, <3>1, <3>2
  <2>3. ASSUME p' PROVE p
    <3>1. Len(pushed) \in 1 .. Len(pushed)
      BY <1>1, <2>1
    <3> QED BY <2>1, <2>3, <3>1 DEF Nesting
  <2>4. ASSUME NEW i \in 1 .. Len(pushed'), pushed'[i]
        PROVE  p' /\ \A j \in i .. Len(pushed') : pushed'[j]
    <3>1. i \in 1 .. Len(pushed) - 1 /\ i \in 1 .. Len(pushed) /\ Len(pushed) \in i .. Len(pushed)
      BY <1>1, <2>1, <2>2
    <3>2. pushed[i]
      BY <2>2, <2>4, <3>1
    <3>3. \A j \in i .. Len(pushed) : pushed[j]
      BY <3>1, <3>2 DEF Nesting
    <3>4. \A j \in i .. Len(pushed') : j \in i .. Len(pushed) /\ j \in 1 .. Len(pushed) - 1
      BY <1>1, <2>2, <3>1
    <3> QED BY <2>1, <2>2, <3>1, <3>3, <3>4
  <2>5. Nesting'
    BY <2>4 DEF Nesting
  <2> QED BY <2>3, <2>5
<1>5. CASE op \notin {"sei", "php", "plp"}
  <2>1. op \notin {"sei", "cli", "plp", "restore_p", "php"}
    BY <1>5 DEF JiffyOps, BodyOps
  <2>2. p' = p /\ pushed' = pushed
    BY <2>1 DEF Flags
  <2> QED BY <2>2 DEF Nesting
<1> QED BY <1>2, <1>3, <1>4, <1>5

LEMMA StepTicking ==
  ASSUME StateTypes, Ticking, NEW op \in JiffyOps, Steps(op), op = "plp" => Len(pushed) > 0
  PROVE  /\ Ticking' /\ cia' = Cycle /\ handler = 0 /\ handler' = 0
         /\ ~p => ~cia.flag
         /\ p' /\ ~p => op = "sei"
         /\ op = "sei" => p'
         /\ op \in {"zero_high", "zero_low", "snap_high", "snap_low"} => p' = p
         /\ jiffy' = (CASE op = "zero_high" -> <<0, jiffy[2]>>
                        [] op = "zero_low" -> <<jiffy[1], 0>> [] OTHER -> jiffy)
         /\ ticks' = (CASE op = "snap_high" -> <<jiffy[1], ticks[2]>>
                        [] op = "snap_low" -> <<ticks[1], jiffy[2]>> [] OTHER -> ticks)
         /\ op = "zero_low" => open' /\ window' = 0 /\ deaf' = 0
         /\ op = "snap_low" => ~open'
         /\ op \notin {"zero_low", "snap_low"} => open' = open
         /\ op # "zero_low" /\ open => window' = window + 1 /\ deaf' = (IF p THEN deaf + 1 ELSE deaf)
         /\ op # "zero_low" /\ ~open => window' = window /\ deaf' = deaf
<1>1. op \notin {"stop_A", "stop_B", "mask_ICR", "ack_ICR", "latch_A", "latch_B", "start_A", "start_B",
                 "count_low", "count_high", "save_p", "restore_p", "vic_blank", "vic_unblank", "cli"}
  BY DEF JiffyOps, BodyOps
<1>2. cia' = Cycle
  BY <1>1 DEF Steps, Perform, Cia
<1>3. Flags(op) /\ Clocks(op) /\ handler = 0 /\ handler' = 0 /\ ~Requested
  BY DEF Steps, Perform
<1>4. Nesting' /\ (p' /\ ~p => op = "sei")
  BY <1>3, StepNesting DEF Ticking
<1>5. op = "sei" => p'
  BY <1>3 DEF Flags
<1>6. op \in {"zero_high", "zero_low", "snap_high", "snap_low"} => p' = p
  <2>1. ASSUME op \in {"zero_high", "zero_low", "snap_high", "snap_low"} PROVE p' = p
    <3>1. op \notin {"sei", "cli", "plp", "restore_p"}
      BY <2>1
    <3> QED BY <1>3, <3>1 DEF Flags
  <2> QED BY <2>1
<1>7. ~p => ~cia.flag
  BY <1>3 DEF Requested, Ticking, Kernal
<1>8. /\ jiffy' = (CASE op = "zero_high" -> <<0, jiffy[2]>>
                        [] op = "zero_low" -> <<jiffy[1], 0>> [] OTHER -> jiffy)
      /\ ticks' = (CASE op = "snap_high" -> <<jiffy[1], ticks[2]>>
                        [] op = "snap_low" -> <<ticks[1], jiffy[2]>> [] OTHER -> ticks)
  BY <1>3 DEF Clocks
<1>9. /\ open' = CASE op \in {"start_A", "zero_low"} -> TRUE
                   [] op \in {"stop_A", "snap_low"} -> FALSE
                   [] OTHER -> open
      /\ IF op \in {"start_A", "zero_low"} THEN window' = 0 /\ deaf' = 0 ELSE Passed(p)
  BY DEF Steps, Perform
<1>10. /\ op = "zero_low" => open' /\ window' = 0 /\ deaf' = 0
       /\ op = "snap_low" => ~open'
       /\ op \notin {"zero_low", "snap_low"} => open' = open
  BY <1>1, <1>9
<1>11. op # "zero_low" => Passed(p)
  BY <1>1, <1>9
<1>12. /\ op # "zero_low" /\ open => window' = window + 1 /\ deaf' = (IF p THEN deaf + 1 ELSE deaf)
       /\ op # "zero_low" /\ ~open => window' = window /\ deaf' = deaf
  BY <1>11 DEF Passed
<1>13. Kernal'
  BY <1>2, KernalCycle DEF StateTypes, Ticking
<1>14. Handling'
  BY <1>3, CycleAssumption DEF Handling
<1>15. ClockTypes'
  <2>1. /\ deaf \in Nat /\ jiffy[1] \in 0 .. Digit - 1 /\ jiffy[2] \in 0 .. Digit - 1 /\ 0 \in 0 .. Digit - 1
        /\ ticks[1] \in Int /\ ticks[2] \in Int /\ jiffy[1] \in Int /\ jiffy[2] \in Int
        /\ jiffy \in (0 .. Digit - 1) \X (0 .. Digit - 1) /\ ticks \in Int \X Int
    BY CycleAssumption DEF Ticking, ClockTypes
  <2>2. deaf' \in Nat
    BY <1>10, <1>12, <2>1
  <2>3. jiffy' \in (0 .. Digit - 1) \X (0 .. Digit - 1)
    BY <1>8, <2>1
  <2>4. ticks' \in Int \X Int
    BY <1>8, <2>1
  <2> QED BY <2>2, <2>3, <2>4 DEF ClockTypes
<1>16. Ticking'
  BY <1>4, <1>13, <1>14, <1>15 DEF Ticking
<1> QED BY <1>2, <1>3, <1>4, <1>5, <1>6, <1>7, <1>8, <1>10, <1>12, <1>16

\* In the window, all but the last instruction of it.
LEMMA StepHearing ==
  ASSUME StateTypes, Ticking, NEW op \in JiffyOps, Steps(op), op = "plp" => Len(pushed) > 0, p' \in BOOLEAN,
         op \notin {"zero_high", "zero_low", "snap_low"}, NEW r \in Nat, Hearing(r),
         NEW s, s = (IF op = "sei" THEN r + 1 ELSE r)
  PROVE  Hearing(s)'
<1>1. PICK n \in 0 .. window, round \in Nat : n = round * Digits + Clock /\ Bounded(n, r)
  BY DEF Hearing
<1>2. n \in Nat /\ n <= window /\ window \in Nat
  BY <1>1 DEF StateTypes
<1>3. /\ cia' = Cycle /\ handler = 0 /\ handler' = 0 /\ (~p => ~cia.flag) /\ (p' /\ ~p => op = "sei")
      /\ open' /\ window' = window + 1 /\ deaf' = (IF p THEN deaf + 1 ELSE deaf)
  BY StepTicking DEF Hearing
<1>4. jiffy' = jiffy
  <2>1. jiffy' = (CASE op = "zero_high" -> <<0, jiffy[2]>> [] op = "zero_low" -> <<jiffy[1], 0>> [] OTHER -> jiffy)
    BY StepTicking
  <2> QED BY <2>1
<1>5. n + Serving' = n + Serving
  BY <1>3 DEF Serving
<1>6. s \in {r, r + 1} /\ (p' /\ ~p => s = r + 1 /\ ~cia.flag) /\ (~p /\ cia.flag => cia.a > 0)
  BY <1>3
<1>7. Bounded(n, s)'
  BY <1>1, <1>2, <1>3, <1>5, <1>6, BoundedCycle
<1>8. Clock' = Clock /\ n \in 0 .. window'
  BY <1>2, <1>3, <1>4 DEF Clock
<1> QED BY <1>1, <1>3, <1>7, <1>8 DEF Hearing, Digits

(***************************************************************************)
(* Where the interrupts are masked in a measurement.                        *)
(***************************************************************************)
Masks(m) == Count(Body[m.routine], "sei", Length(m))

\* The rounds before the one for which the counter is y.
Masked(m, y) == (m.n - y) * Masks(m)

Jiffied == {m \in Measurements : ~CountsCycles(m)}

LEMMA PlanKinds == \A tool \in Plans : tool \in Seq(Jiffied) \/ tool \in Seq(Measurements \ Jiffied)
<1>1. \A b \in BOOLEAN : FeOps(b) \in Seq(Measurements \ Jiffied)
  <2>1. \A r \in Routines : Single(r) \in Measurements \ Jiffied
    BY DEF Single, M, Measurements, Looped, CountsCycles, Forms, Jiffied
  <2>2. \A r \in Routines, b \in BOOLEAN : Batch(r, b) \in Measurements
    BY MeasurementsMade, CycleAssumption DEF Batch, Forms
  <2>3. \A r \in Routines, b \in BOOLEAN : Batch(r, b) \in Measurements \ Jiffied
    BY <2>2 DEF Batch, M, CountsCycles, Jiffied
  <2> QED BY <2>1, <2>3 DEF FeOps, Routines
<1>2. \A b \in BOOLEAN : BenchX25519(b) \in Seq(Measurements \ Jiffied)
  <2>1. \A b \in BOOLEAN : M("subroutine", "x25519_base", 1, b) \in Measurements
    BY MeasurementsMade DEF Forms, Routines
  <2>2. \A b \in BOOLEAN : M("subroutine", "x25519_base", 1, b) \in Measurements \ Jiffied
    BY <2>1 DEF M, CountsCycles, Jiffied
  <2> QED BY <2>2 DEF BenchX25519
<1>3. BenchFeMul \in Seq(Jiffied) /\ AroundMasked \in Seq(Jiffied)
  <2> DEFINE J(r) == M("jiffies", r, 1, FALSE)
  <2>1. \A r \in Routines : J(r) \in Jiffied
    BY DEF M, Measurements, Looped, CountsCycles, Forms, Jiffied
  <2>2. BenchFeMul = <<J("fe25519_mul"), J("fe25519_mul"), J("fe25519_sqr"), J("fe25519_sqr")>>
    BY DEF BenchFeMul
  <2>3. AroundMasked = <<J("x25519_base")>>
    BY DEF AroundMasked
  <2> HIDE DEF J
  <2> QED BY <2>1, <2>2, <2>3 DEF Routines
<1>4. CtGuard \in Seq(Jiffied)
  <2> DEFINE T == M("jiffy_thunk", "fe25519_mul", BatchN, FALSE)
  <2>1. T \in Jiffied
    BY CycleAssumption DEF M, Measurements, Looped, CountsCycles, Forms, Routines, Jiffied
  <2>2. CtGuard = <<T, T>>
    BY DEF CtGuard
  <2> HIDE DEF T
  <2> QED BY <2>1, <2>2
<1>5. OptVic \in Seq(Measurements \ Jiffied)
  <2> DEFINE T == M("three_calls", "fe25519_mul", 1, FALSE)
             U == M("three_calls", "fe25519_mul", 1, TRUE)
  <2>1. T \in Measurements \ Jiffied /\ U \in Measurements \ Jiffied
    BY DEF M, Measurements, Looped, CountsCycles, Forms, Routines, Jiffied
  <2>2. OptVic = <<T, U>>
    BY DEF OptVic
  <2> HIDE DEF T, U
  <2> QED BY <2>1, <2>2
<1> QED BY <1>1, <1>2, <1>3, <1>4, <1>5 DEF Plans

LEMMA MasksType ==
  ASSUME NEW m \in Measurements, NEW k \in 1 .. Length(m) + 1
  PROVE  /\ Count(Body[m.routine], "sei", k - 1) \in Nat /\ Masks(m) \in Nat
         /\ Count(Body[m.routine], "sei", 0) = 0
<1>1. Length(m) \in Nat
  BY CountedType
<1>2. Count(Body[m.routine], "sei", k - 1) \in Nat
  BY <1>1, CountStep
<1>3. (Length(m) + 1) - 1 = Length(m) /\ Length(m) + 1 \in Nat \ {0}
  BY <1>1
<1>4. Masks(m) \in Nat
  BY <1>3, CountStep DEF Masks
<1>5. Count(Body[m.routine], "sei", 0) = 0
  BY FS_EmptySet DEF Count
<1> QED BY <1>2, <1>4, <1>5

LEMMA MaskedRounds ==
  ASSUME NEW m \in Measurements, NEW y \in 1 .. m.n
  PROVE  /\ Masked(m, y) \in Nat /\ Masked(m, y - 1) = Masked(m, y) + Masks(m)
         /\ Masked(m, m.n) = 0 /\ Masked(m, 0) = Stretches(m) /\ Stretches(m) \in Nat
         /\ m.n = 1 => Stretches(m) = Masks(m)
<1>1. m.n \in Nat /\ Length(m) \in Nat
  BY CountedType
<1>2. PICK c \in Nat : c = Masks(m)
  <2>1. 1 \in 1 .. Length(m) + 1
    BY <1>1
  <2> QED BY <2>1, MasksType
<1>3. PICK d \in Nat : d = m.n - y
  BY <1>1
<1>4. m.n - (y - 1) = d + 1 /\ m.n - m.n = 0 /\ m.n - 0 = m.n
  BY <1>1, <1>3
<1>5. Masked(m, y) = d * c /\ Masked(m, y - 1) = (d + 1) * c /\ Masked(m, m.n) = 0 * c /\ Masked(m, 0) = m.n * c
  BY <1>2, <1>3, <1>4 DEF Masked
<1>6. d * c \in Nat /\ (d + 1) * c = d * c + c /\ 0 * c = 0 /\ m.n * c \in Nat /\ 1 * c = c
  BY <1>1
<1>7. Stretches(m) = m.n * c
  BY <1>2 DEF Stretches, Masks, Length
<1> QED BY <1>2, <1>5, <1>6, <1>7

\* A routine in a jiffy bracket never clears the flag.
LEMMA NoCli ==
  ASSUME NEW tool \in Plans, NEW i \in DOMAIN tool, NEW m, m = tool[i], m \in Jiffied, NEW k \in 1 .. Length(m)
  PROVE  Body[m.routine][k] # "cli"
<1> PICK b : b = Body[m.routine]
  OBVIOUS
<1>1. Count(b, "cli", Len(b)) = 0
  BY JiffyAssumption DEF Jiffied
<1>2. k \in 1 .. Len(b)
  BY DEF Length
<1>3. Cardinality({j \in 1 .. Len(b) : b[j] = "cli"}) = 0
  BY <1>1 DEF Count
<1>4. IsFiniteSet({j \in 1 .. Len(b) : b[j] = "cli"})
  <2>1. Len(b) \in Int
    BY CountedType DEF Length, Jiffied
  <2>2. IsFiniteSet(1 .. Len(b))
    BY <2>1, FS_Interval
  <2> QED BY <2>2, FS_Subset
<1>5. {j \in 1 .. Len(b) : b[j] = "cli"} = {}
  BY <1>3, <1>4, FS_EmptySet
<1> QED BY <1>2, <1>5

(***************************************************************************)
(* The figure: what is in bench_ticks, of a window that is over.            *)
(***************************************************************************)
Reckoned(m) ==
  ~open /\ \E n \in 0 .. window :
    /\ ticks[1] * Digit + ticks[2] = n % Digits
    /\ n * Period \in (window - deaf) - Period .. (window - deaf) + (Stretches(m) + 1) * (2 * Period - 1)

\* With the k-th instruction of part s of m to come.
Clocked(m, s, k) ==
  CASE s = "zero"  -> (k \in 3 .. 5 => p) /\ (k = 4 => jiffy[1] = 0) /\ (k >= 5 => Hearing(0))
    [] s = "ldx"   -> Hearing(0)
    [] s = "jsr"   -> Hearing(Masked(m, x))
    [] s = "body"  -> Hearing((IF Looped(m) THEN Masked(m, x) ELSE 0) + Count(Body[m.routine], "sei", k - 1))
    [] s = "again" -> /\ k = 1 => Hearing(Masked(m, x - 1))
                      /\ k = 2 => Hearing(Masked(m, x))
                      /\ k = 3 => Hearing(Stretches(m))
    [] OTHER       -> /\ k \in 1 .. 2 => Hearing(Stretches(m))
                      /\ k \in 3 .. 4 => p /\ Hearing(Stretches(m) + 1)
                      /\ k = 4 => ticks[1] = jiffy[1]
                      /\ k >= 5 => Reckoned(m)

LEMMA JiffyParts ==
  ASSUME NEW m \in Jiffied, NEW s \in Parts(m)
  PROVE  /\ m \in Measurements /\ ~CountsCycles(m) /\ Fits(m) /\ ~m.blank
         /\ s \in {"zero", "ldx", "jsr", "body", "again", "snap"}
         /\ s \in {"ldx", "jsr", "again"} => Looped(m) /\ m.form = "jiffy_thunk"
         /\ m.form \in {"jiffies", "jiffy_thunk"}
         /\ ~Looped(m) => m.form = "jiffies" /\ m.n = 1
<1>1. m \in Measurements /\ ~CountsCycles(m)
  BY DEF Jiffied
<1>2. m.form \in {"jiffies", "jiffy_thunk"} /\ ~m.blank /\ (~Looped(m) => m.n = 1)
  BY <1>1 DEF Measurements, CountsCycles, Forms
<1> QED BY <1>1, <1>2 DEF Parts, Looped, Fits

\* How many stretches were masked is a number.
LEMMA MaskedType ==
  ASSUME NEW m \in Jiffied, NEW s \in Parts(m), NEW k \in 1 .. Len(Part(m, s)) + 1, AtPart(m, s, k)
  PROVE  /\ Stretches(m) \in Nat /\ Masks(m) \in Nat
         /\ s = "jsr" => x \in 1 .. m.n /\ Masked(m, x) \in Nat
         /\ s = "body" => /\ k \in 1 .. Length(m) + 1 /\ Count(Body[m.routine], "sei", k - 1) \in Nat
                          /\ Looped(m) => x \in 1 .. m.n /\ Masked(m, x) \in Nat
         /\ s = "again" => /\ k = 1 => x \in 1 .. m.n /\ Masked(m, x - 1) \in Nat
                           /\ k = 2 => x \in 0 .. m.n - 1 /\ Masked(m, x) \in Nat
<1> USE JiffyParts
<1>1. /\ m.n \in Nat \ {0} /\ Length(m) \in Nat
  BY CountedType
<1>2. Stretches(m) \in Nat /\ Masks(m) \in Nat
  <2>1. 1 \in 1 .. m.n /\ 1 \in 1 .. Length(m) + 1
    BY <1>1
  <2> QED BY <2>1, MaskedRounds, MasksType
<1>3. ASSUME s = "jsr" PROVE x \in 1 .. m.n /\ Masked(m, x) \in Nat
  <2>1. x \in 1 .. m.n
    BY <1>3 DEF AtPart, AtJsr, Round
  <2> QED BY <2>1, MaskedRounds
<1>4. ASSUME s = "body"
      PROVE  /\ k \in 1 .. Length(m) + 1 /\ Count(Body[m.routine], "sei", k - 1) \in Nat
             /\ Looped(m) => x \in 1 .. m.n /\ Masked(m, x) \in Nat
  <2>1. k \in 1 .. Length(m) + 1
    BY <1>4, PartEnds
  <2>2. Looped(m) => x \in 1 .. m.n
    BY <1>4 DEF AtPart, AtBody, Round
  <2> QED BY <2>1, <2>2, MaskedRounds, MasksType
<1>5. ASSUME s = "again", k = 1 PROVE x \in 1 .. m.n /\ Masked(m, x - 1) \in Nat
  <2>1. x \in 1 .. m.n
    BY <1>5 DEF AtPart, AtAgain
  <2>2. Masked(m, x) \in Nat /\ Masked(m, x - 1) = Masked(m, x) + Masks(m)
    BY <2>1, MaskedRounds
  <2> QED BY <1>2, <2>1, <2>2
<1>6. ASSUME s = "again", k = 2 PROVE x \in 0 .. m.n - 1 /\ Masked(m, x) \in Nat
  <2>1. x \in 0 .. m.n - 1
    BY <1>6 DEF AtPart, AtAgain
  <2>2. x + 1 \in 1 .. m.n /\ (x + 1) - 1 = x
    BY <1>1, <2>1
  <2>3. Masked(m, x + 1) \in Nat /\ Masked(m, (x + 1) - 1) = Masked(m, x + 1) + Masks(m)
    BY <2>2, MaskedRounds
  <2> QED BY <1>2, <2>1, <2>2, <2>3
<1> QED BY <1>2, <1>3, <1>4, <1>5, <1>6

LEMMA ElapseClocked ==
  ASSUME NEW m \in Jiffied, NEW s \in Parts(m), NEW k \in 1 .. Len(Part(m, s)) + 1,
         StateTypes, Ticking, Elapses, AtPart(m, s, k), Clocked(m, s, k)
  PROVE  Clocked(m, s, k)'
<1>1. p' = p /\ x' = x /\ ticks' = ticks
  BY ElapseFacts DEF processor
<1>2. (p => jiffy' = jiffy) /\ open' = open /\ (~open => window' = window /\ deaf' = deaf)
  BY ElapseTicking
<1>3. ASSUME NEW r \in Nat, Hearing(r) PROVE Hearing(r)'
  BY <1>3, ElapseHearing
<1>4. s \in {"zero", "ldx", "jsr", "body", "again", "snap"}
  BY JiffyParts
<1>5. CASE s = "zero"
  <2>1. (k \in 3 .. 5 => p) /\ (k = 4 => jiffy[1] = 0) /\ (k >= 5 => Hearing(0))
    BY <1>5 DEF Clocked
  <2>2. k >= 5 => Hearing(0)'
    BY <1>3, <2>1
  <2>3. k = 4 => jiffy'[1] = 0
    BY <1>2, <2>1
  <2>4. k \in 3 .. 5 => p'
    BY <1>1, <2>1
  <2> QED BY <1>5, <2>2, <2>3, <2>4 DEF Clocked
<1>6. CASE s = "ldx"
  BY <1>3, <1>6 DEF Clocked
<1>7. CASE s = "jsr"
  <2>1. PICK r \in Nat : r = Masked(m, x)
    BY <1>7, MaskedType
  <2>2. Masked(m, x)' = r
    BY <1>1, <2>1 DEF Masked, Masks, Length
  <2>3. Hearing(r)'
    BY <1>3, <1>7, <2>1 DEF Clocked
  <2> QED BY <1>7, <2>2, <2>3 DEF Clocked
<1>8. CASE s = "body"
  <2> DEFINE f == (IF Looped(m) THEN Masked(m, x) ELSE 0) + Count(Body[m.routine], "sei", k - 1)
  <2>1. PICK r \in Nat : r = f
    <3>1. Count(Body[m.routine], "sei", k - 1) \in Nat /\ (Looped(m) => Masked(m, x) \in Nat)
      BY <1>8, MaskedType
    <3> QED BY <3>1
  <2>2. f' = r
    BY <1>1, <2>1 DEF Masked, Masks, Length
  <2>3. Hearing(r)'
    BY <1>3, <1>8, <2>1 DEF Clocked
  <2> QED BY <1>8, <2>2, <2>3 DEF Clocked
<1>9. CASE s = "again"
  <2>1. /\ k = 1 => Hearing(Masked(m, x - 1))
        /\ k = 2 => Hearing(Masked(m, x))
        /\ k = 3 => Hearing(Stretches(m))
    BY <1>9 DEF Clocked
  <2>2. ASSUME k = 1 PROVE Hearing(Masked(m, x - 1))'
    <3>1. PICK r \in Nat : r = Masked(m, x - 1)
      BY <1>9, <2>2, MaskedType
    <3>2. Masked(m, x - 1)' = r
      BY <1>1, <3>1 DEF Masked, Masks, Length
    <3>3. Hearing(r)'
      BY <1>3, <2>1, <2>2, <3>1
    <3> QED BY <3>2, <3>3
  <2>3. ASSUME k = 2 PROVE Hearing(Masked(m, x))'
    <3>1. PICK r \in Nat : r = Masked(m, x)
      BY <1>9, <2>3, MaskedType
    <3>2. Masked(m, x)' = r
      BY <1>1, <3>1 DEF Masked, Masks, Length
    <3>3. Hearing(r)'
      BY <1>3, <2>1, <2>3, <3>1
    <3> QED BY <3>2, <3>3
  <2>4. k = 3 => Hearing(Stretches(m))'
    <3>1. PICK r \in Nat : r = Stretches(m)
      BY MaskedType
    <3>2. Stretches(m)' = r
      BY <3>1 DEF Stretches
    <3> QED BY <1>3, <2>1, <3>1, <3>2
  <2> QED BY <1>9, <2>2, <2>3, <2>4 DEF Clocked
<1>10. CASE s = "snap"
  <2>1. PICK r \in Nat : r = Stretches(m)
    BY MaskedType
  <2>2. Stretches(m)' = r
    BY <2>1 DEF Stretches
  <2>3. /\ k \in 1 .. 2 => Hearing(r)
        /\ k \in 3 .. 4 => p /\ Hearing(r + 1)
        /\ k = 4 => ticks[1] = jiffy[1]
        /\ k >= 5 => Reckoned(m)
    BY <1>10, <2>1 DEF Clocked
  <2>4. k \in 1 .. 2 => Hearing(r)'
    BY <1>3, <2>3
  <2>5. k \in 3 .. 4 => p' /\ Hearing(r + 1)'
    <3>1. r + 1 \in Nat
      OBVIOUS
    <3> QED BY <1>1, <1>3, <2>3, <3>1
  <2>6. k = 4 => ticks'[1] = jiffy'[1]
    BY <1>1, <1>2, <2>3
  <2>7. k >= 5 => Reckoned(m)'
    BY <1>1, <1>2, <2>3 DEF Reckoned, Stretches, Digits
  <2>8. /\ k \in 1 .. 2 => Hearing(Stretches(m))'
        /\ k \in 3 .. 4 => p' /\ Hearing(Stretches(m) + 1)'
    BY <2>2, <2>4, <2>5
  <2> QED BY <1>10, <2>6, <2>7, <2>8 DEF Clocked
<1> QED BY <1>4, <1>5, <1>6, <1>7, <1>8, <1>9, <1>10

(***************************************************************************)
(* The window opens with the clock at zero, and is reckoned when it closes. *)
(***************************************************************************)
LEMMA Remainder ==
  ASSUME NEW d \in Nat \ {0}, NEW q \in Nat, NEW r \in 0 .. d - 1
  PROVE  (q * d + r) % d = r
<1>1. (d * q + r) % d = r
  OBVIOUS
<1>2. q * d = d * q
  OBVIOUS
<1> QED BY <1>1, <1>2

LEMMA ClockRange ==
  ASSUME ClockTypes
  PROVE  Clock \in 0 .. Digits - 1 /\ Digits \in Nat \ {0}
<1> PICK d \in Nat \ {0, 1} : d = Digit
  BY CycleAssumption
<1> PICK h \in 0 .. d - 1, l \in 0 .. d - 1 : h = jiffy[1] /\ l = jiffy[2]
  BY DEF ClockTypes
<1>1. Digits = d * d /\ Clock = h * d + l
  BY DEF Digits, Clock
<1>2. d * d \in Nat /\ d * d > 0
  OBVIOUS
<1>3. h * d \in Nat /\ h * d <= (d - 1) * d
  OBVIOUS
<1>4. (d - 1) * d = d * d - d
  OBVIOUS
<1>5. h * d + l \in 0 .. d * d - 1
  BY <1>2, <1>3, <1>4
<1> QED BY <1>1, <1>2, <1>5

LEMMA Opens ==
  ASSUME StateTypes, Ticking, Steps("zero_low"), p, jiffy[1] = 0
  PROVE  Hearing(0)'
<1> PICK op : op = "zero_low"
  OBVIOUS
<1>1. op \in JiffyOps
  BY DEF JiffyOps
<1>2. /\ Ticking' /\ handler' = 0 /\ p' = p /\ open' /\ window' = 0 /\ deaf' = 0
  BY <1>1, StepTicking
<1>3. jiffy' = <<jiffy[1], 0>>
  <2>1. jiffy' = (CASE op = "zero_high" -> <<0, jiffy[2]>> [] op = "zero_low" -> <<jiffy[1], 0>> [] OTHER -> jiffy)
    BY <1>1, StepTicking
  <2> QED BY <2>1
<1>4. Clock' = 0 * Digits + 0 /\ 0 * Digits = 0
  <2>1. Digit \in Nat /\ 0 * Digit = 0
    BY CycleAssumption
  <2>2. Clock' = 0
    BY <1>3, <2>1 DEF Clock
  <2>3. Digits \in Nat
    BY <2>1 DEF Digits
  <2> QED BY <2>2, <2>3
<1>5. Period \in Nat /\ Period > 1 /\ cia'.a \in 0 .. Period - 1
  BY <1>2, CycleAssumption DEF Ticking, Kernal
<1>6. Level(0)' = Period
  <2>1. Level(0)' = Period + 0 * (2 * Period - 1)
    BY DEF Level
  <2>2. 0 * (2 * Period - 1) = 0
    BY <1>5
  <2> QED BY <1>5, <2>1, <2>2
<1>7. Ahead(0)' = (IF cia'.flag THEN Period ELSE 0)
  <2>1. Serving' = 0 /\ Pending' = (IF cia'.flag THEN 1 ELSE 0)
    BY <1>2 DEF Serving, Pending
  <2>2. (0 + Serving' + Pending') * Period = (IF cia'.flag THEN Period ELSE 0)
    BY <1>5, <2>1
  <2>3. window' - deaf' = 0
    BY <1>2
  <2> QED BY <1>5, <2>2, <2>3 DEF Ahead
<1>8. Bounded(0, 0)'
  BY <1>2, <1>5, <1>6, <1>7 DEF Bounded
<1>9. 0 \in 0 .. window' /\ 0 = 0 * Digits + Clock'
  BY <1>2, <1>4
<1> QED BY <1>2, <1>8, <1>9 DEF Hearing, Digits

LEMMA Closed ==
  ASSUME NEW m \in Jiffied, StateTypes, Ticking, Steps("snap_low"), p, ticks[1] = jiffy[1],
         Hearing(Stretches(m) + 1)
  PROVE  Reckoned(m)'
<1> PICK op : op = "snap_low"
  OBVIOUS
<1>1. op \in JiffyOps
  BY DEF JiffyOps
<1>2. /\ ~open' /\ handler = 0 /\ open /\ window' = window + 1 /\ deaf' = deaf + 1
  BY <1>1, StepTicking DEF Hearing
<1>3. ticks' = <<ticks[1], jiffy[2]>>
  <2>1. ticks' = (CASE op = "snap_high" -> <<jiffy[1], ticks[2]>>
                    [] op = "snap_low" -> <<ticks[1], jiffy[2]>> [] OTHER -> ticks)
    BY <1>1, StepTicking
  <2> QED BY <2>1
<1>4. ticks'[1] * Digit + ticks'[2] = Clock
  BY <1>3 DEF Clock
<1>r. PICK r \in Nat : r = Stretches(m)
  BY MaskedType, MaskedRounds, CountedType DEF Jiffied
<1>5. PICK n \in 0 .. window, round \in Nat : n = round * Digits + Clock /\ Bounded(n, r + 1)
  BY <1>r DEF Hearing
<1>6. /\ window \in Nat /\ deaf \in Nat /\ Period \in Nat /\ Period > 1 /\ cia.a \in 0 .. Period - 1 /\ n \in Nat
  BY <1>5, CycleAssumption DEF StateTypes, Ticking, ClockTypes, Kernal
<1>7. Clock = n % Digits
  BY <1>5, Remainder, ClockRange DEF Ticking
<1>e. PICK e \in Int : e = (r + 1) * (2 * Period - 1)
  BY <1>6
<1>h. PICK h \in Int, q \in Int : h = window - deaf /\ q = n * Period
  BY <1>6
<1>8. Level(r + 1) = Period + e
  BY <1>e DEF Level
<1>9. Ahead(n) = q + (IF cia.flag THEN Period ELSE 0) - h
  <2>1. Serving = 0 /\ Pending = (IF cia.flag THEN 1 ELSE 0)
    BY <1>2 DEF Serving, Pending
  <2>2. CASE cia.flag
    <3>1. n + Serving + Pending = n + 1
      BY <1>6, <2>1, <2>2
    <3>2. (n + 1) * Period = n * Period + Period
      BY <1>6
    <3> QED BY <1>6, <1>h, <2>2, <3>1, <3>2 DEF Ahead
  <2>3. CASE ~cia.flag
    <3>1. n + Serving + Pending = n
      BY <1>6, <2>1, <2>3
    <3> QED BY <1>6, <1>h, <2>3, <3>1 DEF Ahead
  <2> QED BY <2>2, <2>3
<1>10. /\ Ahead(n) >= (IF cia.flag THEN 0 ELSE cia.a - (Period - 1))
       /\ Ahead(n) <= Period + e + (IF cia.flag THEN 0 ELSE -Period)
  BY <1>5, <1>8 DEF Bounded
<1>11. q \in h - Period .. h + e
  BY <1>6, <1>9, <1>10
<1>12. window' - deaf' = h /\ n \in 0 .. window'
  BY <1>2, <1>5, <1>6, <1>h
<1>13. n * Period \in (window' - deaf') - Period .. (window' - deaf') + (r + 1) * (2 * Period - 1)
  BY <1>11, <1>12, <1>e, <1>h
<1>14. ticks'[1] * Digit + ticks'[2] = n % Digits
  BY <1>4, <1>7
<1> QED BY <1>2, <1>12, <1>13, <1>14, <1>r DEF Reckoned, Digits, Stretches

(***************************************************************************)
(* The instructions of each part.                                           *)
(***************************************************************************)
LEMMA ZeroClocked ==
  ASSUME NEW m \in Jiffied, StateTypes, StateTypes', Ticking, NEW k \in 1 .. 5, Steps(BenchStart[k]),
         AtJiffies(k), Clocked(m, "zero", k)
  PROVE  Ticking' /\ Clocked(m, "zero", k + 1)'
<1> PICK op : op = BenchStart[k]
  OBVIOUS
<1>1. /\ k = 1 => op = "php"
      /\ k = 2 => op = "sei"
      /\ k = 3 => op = "zero_high"
      /\ k = 4 => op = "zero_low"
      /\ k = 5 => op = "plp"
  BY DEF BenchStart
<1>2. op \in JiffyOps
  BY <1>1 DEF JiffyOps, BodyOps
<1>3. op = "plp" => Len(pushed) > 0
  <2>1. k \in 2 .. 5 => pushed = <<callerP>>
    BY DEF AtJiffies
  <2> QED BY <1>1, <2>1
<1>4. /\ Ticking'
      /\ op = "sei" => p'
      /\ op \in {"zero_high", "zero_low", "snap_high", "snap_low"} => p' = p
      /\ jiffy' = (CASE op = "zero_high" -> <<0, jiffy[2]>>
                        [] op = "zero_low" -> <<jiffy[1], 0>> [] OTHER -> jiffy)
  BY <1>2, <1>3, StepTicking
<1>5. (k \in 3 .. 5 => p) /\ (k = 4 => jiffy[1] = 0) /\ (k >= 5 => Hearing(0))
  BY DEF Clocked
<1> PICK j : j = k + 1
  OBVIOUS
<1>6. j \in 3 .. 5 => p'
  <2>1. CASE k = 2
    BY <1>1, <1>4, <2>1
  <2>2. CASE k \in {3, 4}
    BY <1>1, <1>4, <1>5, <2>2
  <2> QED BY <2>1, <2>2
<1>7. j = 4 => jiffy'[1] = 0
  BY <1>1, <1>4
<1>8. j >= 5 => Hearing(0)'
  <2>1. CASE k = 4
    <3>1. p /\ jiffy[1] = 0 /\ op = "zero_low"
      BY <1>1, <1>5, <2>1
    <3> QED BY <3>1, Opens
  <2>2. CASE k = 5
    <3>1. Hearing(0) /\ op = "plp" /\ p' \in BOOLEAN
      BY <1>1, <1>5, <2>2 DEF StateTypes
    <3> PICK r \in Nat : r = 0
      OBVIOUS
    <3>2. op \notin {"zero_high", "zero_low", "snap_low"} /\ r = (IF op = "sei" THEN r + 1 ELSE r)
      BY <3>1
    <3>3. Hearing(r)'
      BY <1>2, <1>3, <3>1, <3>2, StepHearing
    <3> QED BY <3>3
  <2> QED BY <2>1, <2>2
<1> QED BY <1>4, <1>6, <1>7, <1>8 DEF Clocked

LEMMA SnapClocked ==
  ASSUME NEW m \in Jiffied, StateTypes, StateTypes', Ticking, NEW k \in 1 .. 5, Steps(BenchStop[k]),
         AtJiffies(k), Clocked(m, "snap", k)
  PROVE  Ticking' /\ Clocked(m, "snap", k + 1)'
<1> PICK op : op = BenchStop[k]
  OBVIOUS
<1>1. /\ k = 1 => op = "php"
      /\ k = 2 => op = "sei"
      /\ k = 3 => op = "snap_high"
      /\ k = 4 => op = "snap_low"
      /\ k = 5 => op = "plp"
  BY DEF BenchStop
<1>2. op \in JiffyOps
  BY <1>1 DEF JiffyOps, BodyOps
<1>3. op = "plp" => Len(pushed) > 0
  <2>1. k \in 2 .. 5 => pushed = <<callerP>>
    BY DEF AtJiffies
  <2> QED BY <1>1, <2>1
<1>4. /\ Ticking'
      /\ op = "sei" => p'
      /\ op \in {"zero_high", "zero_low", "snap_high", "snap_low"} => p' = p
      /\ jiffy' = (CASE op = "zero_high" -> <<0, jiffy[2]>>
                        [] op = "zero_low" -> <<jiffy[1], 0>> [] OTHER -> jiffy)
      /\ ticks' = (CASE op = "snap_high" -> <<jiffy[1], ticks[2]>>
                        [] op = "snap_low" -> <<ticks[1], jiffy[2]>> [] OTHER -> ticks)
      /\ op \notin {"zero_low", "snap_low"} => open' = open
      /\ op # "zero_low" /\ ~open => window' = window /\ deaf' = deaf
  BY <1>2, <1>3, StepTicking
<1>r. PICK r \in Nat : r = Stretches(m)
  BY MaskedType, MaskedRounds, CountedType DEF Jiffied
<1>5. /\ k \in 1 .. 2 => Hearing(r)
      /\ k \in 3 .. 4 => p /\ Hearing(r + 1)
      /\ k = 4 => ticks[1] = jiffy[1]
      /\ k >= 5 => Reckoned(m)
  BY <1>r DEF Clocked
<1>6. Stretches(m)' = r /\ p' \in BOOLEAN /\ r + 1 \in Nat
  BY <1>r DEF Stretches, StateTypes
<1>7. CASE k = 1
  <2>1. op \notin {"zero_high", "zero_low", "snap_low"} /\ r = (IF op = "sei" THEN r + 1 ELSE r)
    BY <1>1, <1>7
  <2>2. Hearing(r)'
    BY <1>2, <1>3, <1>5, <1>6, <1>7, <2>1, StepHearing
  <2>3. Clocked(m, "snap", 2)'
    BY <1>6, <2>2 DEF Clocked
  <2> QED BY <1>4, <1>7, <2>3
<1>8. CASE k = 2
  <2> PICK t : t = r + 1
    OBVIOUS
  <2>1. op \notin {"zero_high", "zero_low", "snap_low"} /\ t = (IF op = "sei" THEN r + 1 ELSE r)
    BY <1>1, <1>8
  <2>2. Hearing(t)'
    BY <1>2, <1>3, <1>5, <1>6, <1>8, <2>1, StepHearing
  <2>3. p'
    BY <1>1, <1>4, <1>8
  <2>4. Clocked(m, "snap", 3)'
    BY <1>6, <2>2, <2>3 DEF Clocked
  <2> QED BY <1>4, <1>8, <2>4
<1>9. CASE k = 3
  <2>1. PICK t \in Nat : t = r + 1
    BY <1>6
  <2>2. op \notin {"zero_high", "zero_low", "snap_low"} /\ t = (IF op = "sei" THEN t + 1 ELSE t)
    BY <1>1, <1>9
  <2>3. Hearing(t)'
    BY <1>2, <1>3, <1>5, <1>6, <1>9, <2>1, <2>2, StepHearing
  <2>a. op = "snap_high" /\ p
    BY <1>1, <1>5, <1>9
  <2>b. p' = p /\ jiffy' = jiffy /\ ticks' = <<jiffy[1], ticks[2]>>
    <3>1. p' = p
      BY <1>4, <2>a
    <3>2. jiffy' = jiffy
      BY <1>4, <2>a
    <3>3. ticks' = <<jiffy[1], ticks[2]>>
      BY <1>4, <2>a
    <3> QED BY <3>1, <3>2, <3>3
  <2>4. p' /\ ticks'[1] = jiffy'[1]
    BY <2>a, <2>b
  <2>5. Clocked(m, "snap", 4)'
    BY <1>6, <2>1, <2>3, <2>4 DEF Clocked
  <2> QED BY <1>4, <1>9, <2>5
<1>10. CASE k = 4
  <2>1. Reckoned(m)'
    <3>1. p /\ ticks[1] = jiffy[1] /\ Hearing(Stretches(m) + 1) /\ op = "snap_low"
      BY <1>1, <1>5, <1>10, <1>r
    <3> QED BY <3>1, Closed
  <2>2. Clocked(m, "snap", 5)'
    BY <2>1 DEF Clocked
  <2> QED BY <1>4, <1>10, <2>2
<1>11. CASE k = 5
  <2>1. Reckoned(m) /\ op = "plp"
    BY <1>1, <1>5, <1>11
  <2>2. open' = open /\ window' = window /\ deaf' = deaf /\ ticks' = ticks
    BY <1>4, <2>1 DEF Reckoned
  <2>3. Reckoned(m)'
    BY <2>1, <2>2 DEF Reckoned, Stretches, Digits
  <2>4. Clocked(m, "snap", 6)'
    BY <2>3 DEF Clocked
  <2> QED BY <1>4, <1>11, <2>4
<1> QED BY <1>7, <1>8, <1>9, <1>10, <1>11

\* The instructions around a round.
LEMMA RoundClocked ==
  ASSUME StateTypes, StateTypes', Ticking, NEW op \in {"ldx", "jsr", "dec", "bne"}, Steps(op),
         NEW r \in Nat, Hearing(r)
  PROVE  Ticking' /\ Hearing(r)'
<1>1. op \in JiffyOps /\ op # "plp" /\ op \notin {"zero_high", "zero_low", "snap_low"} /\ p' \in BOOLEAN
      /\ r = (IF op = "sei" THEN r + 1 ELSE r)
  BY DEF JiffyOps, StateTypes
<1> QED BY <1>1, StepTicking, StepHearing

LEMMA BodyClocked ==
  ASSUME NEW tool \in Plans, NEW i \in DOMAIN tool, NEW m \in Jiffied, m = tool[i],
         StateTypes, StateTypes', Ticking, NEW k \in 1 .. Length(m), Steps(Body[m.routine][k]),
         AtBody(m, k), Looped(m) => Masked(m, x) \in Nat, Clocked(m, "body", k)
  PROVE  Ticking' /\ Clocked(m, "body", k + 1)'
<1> PICK b, op : b = Body[m.routine] /\ op = b[k]
  OBVIOUS
<1>1. b \in Seq(BodyOps) /\ Balanced(b) /\ Length(m) = Len(b) /\ Length(m) \in Nat
  BY BodyType, MeasurementFields, CountedType DEF Length, Jiffied
<1>2. op \in BodyOps /\ op # "cli" /\ op \in JiffyOps
  BY <1>1, NoCli DEF JiffyOps
<1>3. op = "plp" => Len(pushed) > 0
  <2>1. Len(pushed) = Depth(b, k - 1)
    BY DEF AtBody, Nested
  <2>2. op = "plp" => Depth(b, k - 1) > 0
    BY <1>1 DEF Balanced
  <2> QED BY <2>1, <2>2
<1> DEFINE f == IF Looped(m) THEN Masked(m, x) ELSE 0
<1>4. PICK u \in Nat : u = f
  OBVIOUS
<1>5. x' = x
  <2>1. op \notin {"ldx", "dec"}
    BY <1>2 DEF BodyOps
  <2> QED BY <2>1 DEF Steps, Perform, Branch
<1>6. f' = u
  BY <1>4, <1>5 DEF Masked, Masks, Length
<1>7. /\ Count(b, "sei", k - 1) \in Nat
      /\ Count(b, "sei", k) = (IF op = "sei" THEN Count(b, "sei", k - 1) + 1 ELSE Count(b, "sei", k - 1))
  <2>1. k \in Nat \ {0}
    BY <1>1
  <2> QED BY <2>1, CountStep
<1>8. PICK r \in Nat : r = u + Count(b, "sei", k - 1)
  BY <1>7
<1>9. PICK s : s = (IF op = "sei" THEN r + 1 ELSE r)
  OBVIOUS
<1>10. Hearing(r)
  BY <1>4, <1>8 DEF Clocked
<1>11. op \notin {"zero_high", "zero_low", "snap_low"} /\ p' \in BOOLEAN
  BY <1>2 DEF BodyOps, StateTypes
<1>12. Hearing(s)'
  BY <1>2, <1>3, <1>9, <1>10, <1>11, StepHearing
<1>13. s = u + Count(b, "sei", k)
  BY <1>7, <1>8, <1>9
<1>14. (k + 1) - 1 = k
  BY <1>1
<1>15. Clocked(m, "body", k + 1)'
  <2>1. Hearing(f + Count(Body[m.routine], "sei", (k + 1) - 1))'
    <3> HIDE DEF f
    <3> QED BY <1>6, <1>12, <1>13, <1>14
  <2> QED BY <2>1 DEF Clocked
<1>16. Ticking'
  BY <1>2, <1>3, StepTicking
<1> QED BY <1>15, <1>16

\* From the end of a part to the beginning of the next one.
LEMMA ClockedOver ==
  ASSUME NEW m \in Jiffied, NEW s \in Parts(m), ~Closes(m, s), NEW k, k = Len(Part(m, s)) + 1,
         AtPart(m, s, k), Clocked(m, s, k)
  PROVE  Clocked(m, After(m, s), 1)
<1>1. /\ m \in Measurements /\ m.form \in {"jiffies", "jiffy_thunk"}
      /\ s \in {"zero", "ldx", "jsr", "body", "again"}
      /\ s \in {"ldx", "jsr", "again"} => Looped(m) /\ m.form = "jiffy_thunk"
      /\ ~Looped(m) => m.form = "jiffies" /\ m.n = 1
  BY JiffyParts DEF Closes
<1>2. /\ s \in {"ldx", "jsr"} => k = 2
      /\ s = "zero" => k = 6
      /\ s = "again" => k = 3
      /\ s = "body" => k = Length(m) + 1
  BY <1>1, PartEnds
<1>3. /\ Length(m) \in Nat /\ m.n \in Nat \ {0} /\ m.n \in 1 .. m.n /\ 1 \in 1 .. m.n
      /\ 1 \in 1 .. Length(m) + 1
  BY <1>1, CountedType
<1>4. Count(Body[m.routine], "sei", 1 - 1) = 0 /\ Masks(m) \in Nat
  BY <1>1, <1>3, MasksType
<1>5. CASE s = "zero"
  <2>1. Hearing(0)
    BY <1>2, <1>5 DEF Clocked
  <2>2. CASE Looped(m)
    <3>1. After(m, s) = "ldx"
      BY <1>5, <2>2 DEF After
    <3> QED BY <2>1, <3>1 DEF Clocked
  <2>3. CASE ~Looped(m)
    <3>1. After(m, s) = "body"
      BY <1>5, <2>3 DEF After
    <3>2. (IF Looped(m) THEN Masked(m, x) ELSE 0) + Count(Body[m.routine], "sei", 1 - 1) = 0
      BY <1>4, <2>3
    <3> QED BY <2>1, <3>1, <3>2 DEF Clocked
  <2> QED BY <2>2, <2>3
<1>6. CASE s = "ldx"
  <2>1. Hearing(0) /\ After(m, s) = "jsr"
    BY <1>6 DEF Clocked, After
  <2>2. x = m.n
    BY <1>2, <1>6 DEF AtPart, AtLdx
  <2>3. Masked(m, x) = 0
    BY <1>1, <1>3, <2>2, MaskedRounds
  <2> QED BY <2>1, <2>3 DEF Clocked
<1>7. CASE s = "jsr"
  <2>1. Hearing(Masked(m, x)) /\ After(m, s) = "body"
    BY <1>7 DEF Clocked, After
  <2>2. x \in 1 .. m.n
    BY <1>1, <1>7 DEF AtPart, AtJsr, Round
  <2>3. Masked(m, x) \in Nat
    BY <1>1, <2>2, MaskedRounds
  <2>4. (IF Looped(m) THEN Masked(m, x) ELSE 0) + Count(Body[m.routine], "sei", 1 - 1) = Masked(m, x)
    BY <1>1, <1>4, <1>7, <2>3
  <2> QED BY <2>1, <2>4 DEF Clocked
<1>8. CASE s = "body"
  <2>1. k - 1 = Length(m)
    BY <1>2, <1>3, <1>8
  <2>2. Hearing((IF Looped(m) THEN Masked(m, x) ELSE 0) + Masks(m))
    BY <1>8, <2>1 DEF Clocked, Masks
  <2>3. CASE Looped(m)
    <3>1. After(m, s) = "again"
      BY <1>8, <2>3 DEF After
    <3>2. x \in 1 .. m.n
      BY <1>8, <2>3 DEF AtPart, AtBody, Round
    <3>3. Masked(m, x - 1) = Masked(m, x) + Masks(m)
      BY <1>1, <3>2, MaskedRounds
    <3>4. Hearing(Masked(m, x - 1))
      BY <2>2, <2>3, <3>3
    <3> QED BY <3>1, <3>4 DEF Clocked
  <2>4. CASE ~Looped(m)
    <3>1. After(m, s) = "snap"
      BY <1>1, <1>8, <2>4 DEF After
    <3>2. Stretches(m) = Masks(m)
      BY <1>1, <1>3, <2>4, MaskedRounds
    <3>3. Hearing(Stretches(m))
      <4>1. (IF Looped(m) THEN Masked(m, x) ELSE 0) + Masks(m) = Stretches(m)
        BY <1>4, <2>4, <3>2
      <4> QED BY <2>2, <4>1
    <3> QED BY <3>1, <3>3 DEF Clocked
  <2> QED BY <2>3, <2>4
<1>9. CASE s = "again"
  <2>1. Hearing(Stretches(m))
    BY <1>2, <1>9 DEF Clocked
  <2>2. After(m, s) = "snap"
    BY <1>1, <1>9 DEF After
  <2> QED BY <2>1, <2>2 DEF Clocked
<1> QED BY <1>1, <1>5, <1>6, <1>7, <1>8, <1>9

LEMMA ClockedStep ==
  ASSUME NEW tool \in Plans, NEW i \in DOMAIN tool, NEW m \in Jiffied, m = tool[i], m = Timed,
         StateTypes, Ticking, NEW s \in Parts(m), NEW k \in 1 .. Len(Part(m, s)),
         Steps(Part(m, s)[k]), AtPart(m, s, k), Clocked(m, s, k)
  PROVE  /\ StateTypes' /\ Ticking'
         /\ \/ pc' = pc + 1 /\ AtPart(m, s, k + 1)' /\ Clocked(m, s, k + 1)'
            \/ Looped(m) /\ AtJsr(m, 1)' /\ Clocked(m, "jsr", 1)' /\ pc' = LoopTop
<1>1. /\ m \in Measurements /\ Fits(m)
      /\ s \in {"zero", "ldx", "jsr", "body", "again", "snap"}
      /\ s \in {"ldx", "jsr", "again"} => Looped(m) /\ m.form = "jiffy_thunk"
  BY JiffyParts
<1>2. /\ s \in {"ldx", "jsr"} => k = 1
      /\ s \in {"zero", "snap"} => k \in 1 .. 5
      /\ s = "again" => k \in 1 .. 2
      /\ s = "body" => k \in 1 .. Length(m)
      /\ k \in 1 .. Len(Part(m, s)) + 1
  <2>p. PICK j : j = Len(Part(m, s))
    OBVIOUS
  <2>1. /\ s \in {"ldx", "jsr"} => j = 1
        /\ s \in {"zero", "snap"} => j = 5
        /\ s = "again" => j = 2
        /\ s = "body" => j = Length(m)
        /\ j \in Nat /\ k \in 1 .. j
    BY <1>1, <2>p, PartTypes
  <2>2. k \in 1 .. j + 1
    BY <2>1
  <2> QED BY <2>p, <2>1, <2>2
<1>3. /\ s = "jsr" => x \in 1 .. m.n /\ Masked(m, x) \in Nat
      /\ s = "body" => (Looped(m) => Masked(m, x) \in Nat)
      /\ s = "again" => /\ k = 1 => x \in 1 .. m.n /\ Masked(m, x - 1) \in Nat
                        /\ k = 2 => x \in 0 .. m.n - 1 /\ Masked(m, x) \in Nat
  BY <1>2, MaskedType
<1> PICK op : op = Part(m, s)[k]
  OBVIOUS
<1>s. Steps(op)
  OBVIOUS
<1>4. CASE s = "zero"
  <2>1. op = BenchStart[k] /\ AtJiffies(k) /\ k \in 1 .. 5
    BY <1>2, <1>4 DEF Part, AtPart
  <2>2. AtJiffies(k + 1)' /\ StateTypes' /\ pc' = pc + 1
    BY <1>s, <2>1, JiffiesStep
  <2>3. Ticking' /\ Clocked(m, "zero", k + 1)'
    BY <1>4, <1>s, <2>1, <2>2, ZeroClocked
  <2> QED BY <1>4, <2>2, <2>3 DEF AtPart
<1>5. CASE s = "snap"
  <2>1. op = BenchStop[k] /\ AtJiffies(k) /\ k \in 1 .. 5
    BY <1>2, <1>5 DEF Part, AtPart
  <2>2. AtJiffies(k + 1)' /\ StateTypes' /\ pc' = pc + 1
    BY <1>s, <2>1, JiffiesStep
  <2>3. Ticking' /\ Clocked(m, "snap", k + 1)'
    BY <1>5, <1>s, <2>1, <2>2, SnapClocked
  <2> QED BY <1>5, <2>2, <2>3 DEF AtPart
<1>6. CASE s = "ldx"
  <2>1. k = 1 /\ op = "ldx" /\ AtLdx(m, 1)
    BY <1>2, <1>6 DEF Part, AtPart
  <2>2. AtLdx(m, 2)' /\ StateTypes' /\ pc' = pc + 1
    BY <1>1, <1>6, <1>s, <2>1, LdxStep
  <2>3. Hearing(0)
    BY <1>6 DEF Clocked
  <2>4. Ticking' /\ Hearing(0)'
    BY <1>s, <2>1, <2>2, <2>3, RoundClocked
  <2>5. Clocked(m, "ldx", 2)' /\ AtPart(m, "ldx", 2)'
    BY <2>2, <2>4 DEF Clocked, AtPart
  <2> QED BY <1>6, <2>1, <2>2, <2>4, <2>5
<1>7. CASE s = "jsr"
  <2>1. k = 1 /\ op = "jsr" /\ AtJsr(m, 1)
    BY <1>2, <1>7 DEF Part, AtPart
  <2>2. AtJsr(m, 2)' /\ StateTypes' /\ pc' = pc + 1
    BY <1>1, <1>7, <1>s, <2>1, JsrStep
  <2>3. PICK r \in Nat : r = Masked(m, x)
    BY <1>3, <1>7
  <2>4. x' = x
    BY <1>s, <2>1 DEF Steps, Perform, Branch
  <2>5. Masked(m, x)' = r
    BY <2>3, <2>4 DEF Masked, Masks, Length
  <2>6. Ticking' /\ Hearing(r)'
    <3>1. Hearing(r)
      BY <1>7, <2>3 DEF Clocked
    <3> QED BY <1>s, <2>1, <2>2, <3>1, RoundClocked
  <2>7. Clocked(m, "jsr", 2)' /\ AtPart(m, "jsr", 2)'
    BY <2>2, <2>5, <2>6 DEF Clocked, AtPart
  <2> QED BY <1>7, <2>1, <2>2, <2>6, <2>7
<1>8. CASE s = "body"
  <2>1. k \in 1 .. Length(m) /\ op = Body[m.routine][k] /\ AtBody(m, k)
    BY <1>2, <1>8 DEF Part, AtPart
  <2>2. AtBody(m, k + 1)' /\ StateTypes' /\ pc' = pc + 1
    BY <1>1, <1>s, <2>1, BodyStep
  <2>3. Ticking' /\ Clocked(m, "body", k + 1)'
    BY <1>3, <1>8, <1>s, <2>1, <2>2, BodyClocked
  <2> QED BY <1>8, <2>2, <2>3 DEF AtPart
<1>9. CASE s = "again" /\ k = 1
  <2>1. op = "dec" /\ AtAgain(m, 1)
    BY <1>9 DEF Part, AtPart
  <2>2. AtAgain(m, 2)' /\ StateTypes' /\ pc' = pc + 1
    BY <1>1, <1>9, <1>s, <2>1, DecStep
  <2>3. PICK r \in Nat : r = Masked(m, x - 1)
    BY <1>3, <1>9
  <2>4. x' = x - 1
    BY <1>s, <2>1 DEF Steps, Perform, Branch
  <2>5. Masked(m, x)' = r
    BY <2>3, <2>4 DEF Masked, Masks, Length
  <2>6. Ticking' /\ Hearing(r)'
    <3>1. Hearing(r)
      BY <1>9, <2>3 DEF Clocked
    <3> QED BY <1>s, <2>1, <2>2, <3>1, RoundClocked
  <2>7. Clocked(m, "again", 2)' /\ AtPart(m, "again", 2)'
    BY <2>2, <2>5, <2>6 DEF Clocked, AtPart
  <2> QED BY <1>9, <2>2, <2>6, <2>7
<1>10. CASE s = "again" /\ k = 2
  <2>1. op = "bne" /\ AtAgain(m, 2)
    BY <1>10 DEF Part, AtPart
  <2>2. /\ StateTypes'
        /\ x = 0 => AtAgain(m, 3)' /\ pc' = pc + 1
        /\ x # 0 => AtJsr(m, 1)' /\ pc' = LoopTop
    BY <1>1, <1>10, <1>s, <2>1, BneStep
  <2>3. PICK r \in Nat : r = Masked(m, x)
    BY <1>3, <1>10
  <2>4. x' = x
    BY <1>s, <2>1 DEF Steps, Perform, Branch
  <2>5. Masked(m, x)' = r
    BY <2>3, <2>4 DEF Masked, Masks, Length
  <2>6. Ticking' /\ Hearing(r)'
    <3>1. Hearing(r)
      BY <1>10, <2>3 DEF Clocked
    <3> QED BY <1>s, <2>1, <2>2, <3>1, RoundClocked
  <2>7. CASE x = 0
    <3>1. Stretches(m)' = r
      <4>1. m.n \in 1 .. m.n
        BY <1>1, CountedType
      <4>2. Masked(m, 0) = Stretches(m)
        BY <1>1, <4>1, MaskedRounds
      <4> QED BY <2>3, <2>7, <4>2 DEF Stretches
    <3>2. Clocked(m, "again", 3)' /\ AtPart(m, "again", 3)'
      BY <2>2, <2>6, <2>7, <3>1 DEF Clocked, AtPart
    <3> QED BY <1>10, <2>2, <2>6, <2>7, <3>2
  <2>8. CASE x # 0
    <3>1. Clocked(m, "jsr", 1)'
      BY <2>5, <2>6 DEF Clocked
    <3> QED BY <1>1, <1>10, <2>2, <2>6, <2>8, <3>1
  <2> QED BY <2>7, <2>8
<1> QED BY <1>1, <1>2, <1>4, <1>5, <1>6, <1>7, <1>8, <1>9, <1>10

(***************************************************************************)
(* The steps of a measurement with the jiffy clock.                         *)
(***************************************************************************)
InBracket ==
  call > 0 => \E s \in Parts(plan[at]) : \E k \in Nat :
                On(plan[at], s, k) /\ AtPart(plan[at], s, k) /\ Clocked(plan[at], s, k)

JiffyInv == (plan \in Seq(Jiffied) => Ticking /\ InBracket) /\ JiffiesRight

LEMMA JiffiedNow ==
  ASSUME CycleTypes, plan \in Seq(Jiffied), at <= Len(plan)
  PROVE  at \in DOMAIN plan /\ plan[at] \in Jiffied
BY DEF CycleTypes

LEMMA BracketElapses ==
  ASSUME CycleTypes, plan \in Seq(Jiffied), Ticking, InBracket, Elapses
  PROVE  Ticking' /\ InBracket'
<1>1. UNCHANGED <<plan, at, call, pc>> /\ StateTypes
  BY ElapseFacts DEF CycleTypes
<1>2. Ticking'
  BY <1>1, ElapseTicking
<1>3. CASE call > 0
  <2> PICK m : m = plan[at]
    OBVIOUS
  <2>1. m \in Jiffied /\ m \in Measurements /\ Fits(m)
    BY <1>3, JiffiedNow, MeasuredNow DEF CycleTypes
  <2>2. PICK s \in Parts(m), k \in Nat : On(m, s, k) /\ AtPart(m, s, k) /\ Clocked(m, s, k)
    BY <1>3 DEF InBracket
  <2>3. k \in 1 .. Len(Part(m, s)) + 1
    BY <2>2 DEF On
  <2>4. AtPart(m, s, k)'
    BY <1>1, <2>1, <2>2, ElapsePart
  <2>5. Clocked(m, s, k)'
    BY <1>1, <2>1, <2>2, <2>3, ElapseClocked
  <2>6. On(m, s, k)'
    BY <1>1, <2>2 DEF On
  <2>7. InBracket'
    BY <1>1, <2>4, <2>5, <2>6 DEF InBracket
  <2> QED BY <1>2, <2>7
<1>4. CASE ~(call > 0)
  BY <1>1, <1>2, <1>4 DEF InBracket
<1> QED BY <1>3, <1>4

LEMMA BracketExecutes ==
  ASSUME CycleTypes, plan \in Seq(Jiffied), Ticking, InBracket, Execute
  PROVE  Ticking' /\ InBracket'
<1> PICK n : n = plan[at]
  OBVIOUS
<1>1. call > 0 /\ at <= Len(plan)
  BY DEF Execute, CycleTypes
<1>2. n \in Jiffied /\ n \in Measurements /\ n = Timed /\ at \in DOMAIN plan /\ plan \in Plans
  BY <1>1, JiffiedNow DEF Timed, CycleTypes, Jiffied
<1>3. PICK s \in Parts(n), k \in Nat : On(n, s, k) /\ AtPart(n, s, k) /\ Clocked(n, s, k)
  BY <1>1 DEF InBracket
<1>4. StateTypes /\ pc <= Len(Calls(n)[call])
  BY DEF CycleTypes, Execute, Code, Timed
<1>a. PICK t \in Parts(n) : \E j \in 1 .. Len(Part(n, t)) :
        /\ On(n, t, j) /\ AtPart(n, t, j) /\ Calls(n)[call][pc] = Part(n, t)[j]
        /\ \/ t = s /\ j = k
           \/ ~Closes(n, s) /\ t = After(n, s) /\ j = 1 /\ k = Len(Part(n, s)) + 1
  BY <1>2, <1>3, <1>4, AtInstruction
<1>5. PICK j \in 1 .. Len(Part(n, t)) :
        /\ On(n, t, j) /\ AtPart(n, t, j) /\ Calls(n)[call][pc] = Part(n, t)[j]
        /\ \/ t = s /\ j = k
           \/ ~Closes(n, s) /\ t = After(n, s) /\ j = 1 /\ k = Len(Part(n, s)) + 1
  BY <1>a
<1>6. Steps(Part(n, t)[j])
  BY <1>5 DEF Execute, Steps, Code, Timed
<1>7. plan' = plan /\ at' = at /\ call' = call /\ call > 0
  BY <1>1 DEF Execute
<1>8. Clocked(n, t, j)
  <2>1. CASE t = s /\ j = k
    BY <1>3, <2>1
  <2>2. CASE ~Closes(n, s) /\ t = After(n, s) /\ j = 1 /\ k = Len(Part(n, s)) + 1
    BY <1>2, <1>3, <2>2, ClockedOver
  <2> QED BY <1>5, <2>1, <2>2
<1>9. /\ Ticking'
      /\ \/ pc' = pc + 1 /\ AtPart(n, t, j + 1)' /\ Clocked(n, t, j + 1)'
         \/ Looped(n) /\ AtJsr(n, 1)' /\ Clocked(n, "jsr", 1)' /\ pc' = LoopTop
  BY <1>2, <1>4, <1>5, <1>6, <1>8, ClockedStep
<1>10. Len(Part(n, t)) \in Nat \ {0}
  BY <1>2, <1>5, PartTypes
<1>11. CASE pc' = pc + 1 /\ AtPart(n, t, j + 1)' /\ Clocked(n, t, j + 1)'
  <2>1. Off(n, t) \in Nat
    BY <1>2, <1>5, Layout
  <2>2. pc' = Off(n, t) + (j + 1) /\ j + 1 \in 1 .. Len(Part(n, t)) + 1 /\ call' = CallOf(n, t)
    BY <1>5, <1>7, <1>10, <1>11, <2>1 DEF On
  <2>3. On(n, t, j + 1)' /\ j + 1 \in Nat
    BY <1>10, <2>2 DEF On
  <2>4. InBracket'
    BY <1>7, <1>11, <2>3 DEF InBracket
  <2> QED BY <1>9, <2>4
<1>12. CASE Looped(n) /\ AtJsr(n, 1)' /\ Clocked(n, "jsr", 1)' /\ pc' = LoopTop
  <2> PICK u : u = "jsr"
    OBVIOUS
  <2>1. u \in Parts(n) /\ CallOf(n, u) = 1 /\ call = 1
    BY <1>5, <1>12 DEF Parts, CallOf, Looped, On
  <2>2. LoopTop = Off(n, u) + 1
    <3>1. LoopTop = CHOOSE i \in DOMAIN Calls(n)[1] : Calls(n)[1][i] = "jsr"
      BY <1>2, <2>1 DEF LoopTop, Code
    <3> QED BY <1>2, <1>12, <3>1, LoopTops
  <2>3. AtPart(n, u, 1)' /\ Clocked(n, u, 1)'
    BY <1>12 DEF AtPart
  <2>4. Len(Part(n, u)) \in Nat \ {0}
    BY <1>2, <2>1, PartTypes
  <2>5. On(n, u, 1)'
    <3>1. 1 \in 1 .. Len(Part(n, u)) + 1
      BY <2>4
    <3> QED BY <1>7, <1>12, <2>1, <2>2, <3>1 DEF On
  <2>6. InBracket'
    BY <1>7, <2>1, <2>3, <2>5 DEF InBracket
  <2> QED BY <1>9, <2>6
<1> QED BY <1>9, <1>11, <1>12

\* Between the calls the flag is the caller's, and nothing else changes.
LEMMA SameTicking ==
  ASSUME Ticking, UNCHANGED <<p, pushed, cia, handler, jiffy, ticks, deaf>>
  PROVE  Ticking'
<1>1. /\ p' = p /\ pushed' = pushed /\ cia' = cia /\ handler' = handler /\ jiffy' = jiffy
      /\ ticks' = ticks /\ deaf' = deaf
  OBVIOUS
<1>2. ClockTypes' /\ Kernal' /\ Handling' /\ Nesting'
  BY <1>1 DEF Ticking, ClockTypes, Kernal, Handling, Nesting
<1> QED BY <1>2 DEF Ticking

LEMMA SameHearing ==
  ASSUME NEW r, Hearing(r), UNCHANGED <<p, cia, handler, jiffy, window, deaf, open>>
  PROVE  Hearing(r)'
<1>1. /\ p' = p /\ cia' = cia /\ handler' = handler /\ jiffy' = jiffy
      /\ window' = window /\ deaf' = deaf /\ open' = open
  OBVIOUS
<1>2. Clock' = Clock /\ \A n : Bounded(n, r) => Bounded(n, r)'
  BY <1>1 DEF Clock, Bounded, Ahead, Level, Serving, Pending
<1> QED BY <1>1, <1>2 DEF Hearing, Digits

LEMMA SameClocked ==
  ASSUME NEW m, NEW s, NEW k, Clocked(m, s, k),
         UNCHANGED <<p, x, cia, handler, jiffy, ticks, window, deaf, open>>
  PROVE  Clocked(m, s, k)'
<1>1. p' = p /\ x' = x /\ jiffy' = jiffy /\ ticks' = ticks /\ window' = window /\ deaf' = deaf /\ open' = open
  OBVIOUS
<1>2. \A r : Hearing(r) => Hearing(r)'
  BY SameHearing
<1>3. Masked(m, x)' = Masked(m, x) /\ Masked(m, x - 1)' = Masked(m, x - 1) /\ Stretches(m)' = Stretches(m)
  BY <1>1 DEF Masked, Masks, Length, Stretches
<1>4. Reckoned(m) => Reckoned(m)'
  BY <1>1 DEF Reckoned, Stretches, Digits
<1>5. CASE s = "zero"
  BY <1>1, <1>2, <1>5 DEF Clocked
<1>6. CASE s = "ldx"
  BY <1>2, <1>6 DEF Clocked
<1>7. CASE s = "jsr"
  <2>1. PICK r : r = Masked(m, x)
    OBVIOUS
  <2>2. Hearing(r)'
    BY <1>2, <1>7, <2>1 DEF Clocked
  <2> QED BY <1>3, <1>7, <2>1, <2>2 DEF Clocked
<1>8. CASE s = "body"
  <2>1. PICK r : r = (IF Looped(m) THEN Masked(m, x) ELSE 0) + Count(Body[m.routine], "sei", k - 1)
    OBVIOUS
  <2>2. Hearing(r)'
    BY <1>2, <1>8, <2>1 DEF Clocked
  <2>3. ((IF Looped(m) THEN Masked(m, x) ELSE 0) + Count(Body[m.routine], "sei", k - 1))' = r
    BY <1>3, <2>1
  <2> QED BY <1>8, <2>2, <2>3 DEF Clocked
<1>9. CASE s = "again"
  <2>1. PICK r, t, u : r = Masked(m, x - 1) /\ t = Masked(m, x) /\ u = Stretches(m)
    OBVIOUS
  <2>2. (k = 1 => Hearing(r)') /\ (k = 2 => Hearing(t)') /\ (k = 3 => Hearing(u)')
    BY <1>2, <1>9, <2>1 DEF Clocked
  <2>3. Masked(m, x - 1)' = r /\ Masked(m, x)' = t /\ Stretches(m)' = u
    BY <1>3, <2>1
  <2>4. /\ k = 1 => Hearing(Masked(m, x - 1))'
        /\ k = 2 => Hearing(Masked(m, x))'
        /\ k = 3 => Hearing(Stretches(m))'
    BY <2>2, <2>3
  <2> QED BY <1>9, <2>4 DEF Clocked
<1>10. CASE s \notin {"zero", "ldx", "jsr", "body", "again"}
  <2>1. PICK u : u = Stretches(m)
    OBVIOUS
  <2>2. /\ k \in 1 .. 2 => Hearing(u)
        /\ k \in 3 .. 4 => p /\ Hearing(u + 1)
        /\ k = 4 => ticks[1] = jiffy[1]
        /\ k >= 5 => Reckoned(m)
    BY <1>10, <2>1 DEF Clocked
  <2>3. /\ k \in 1 .. 2 => Hearing(u)'
        /\ k \in 3 .. 4 => p' /\ Hearing(u + 1)'
        /\ k = 4 => ticks'[1] = jiffy'[1]
        /\ k >= 5 => Reckoned(m)'
    BY <1>1, <1>2, <1>4, <2>2
  <2>4. Stretches(m)' = u
    BY <1>3, <2>1
  <2>5. /\ k \in 1 .. 2 => Hearing(Stretches(m))'
        /\ k \in 3 .. 4 => p' /\ Hearing(Stretches(m) + 1)'
    BY <2>3, <2>4
  <2> QED BY <1>10, <2>3, <2>5 DEF Clocked
<1> QED BY <1>5, <1>6, <1>7, <1>8, <1>9, <1>10

LEMMA BracketOpens ==
  ASSUME CycleTypes, InCall, plan \in Seq(Jiffied), Ticking, call = 0, Jsr
  PROVE  Ticking' /\ InBracket'
<1>1. /\ at <= Len(plan) /\ call' = 1 /\ pc' = 1 /\ plan' = plan /\ at' = at /\ p' = callerP
      /\ UNCHANGED <<pushed, cia, handler, jiffy, ticks, deaf>>
      /\ blanked' = blanked /\ callerP' = callerP
  BY DEF Jsr
<1>2. Quiet /\ ~blanked
  BY DEF InCall
<1>3. Ticking'
  BY <1>1, <1>2, SameTicking DEF Quiet
<1> PICK m : m = plan[at]
  OBVIOUS
<1>4. m \in Jiffied /\ m \in Measurements /\ ~CountsCycles(m) /\ ~m.blank
  <2>1. m \in Jiffied
    BY <1>1, JiffiedNow
  <2> QED BY <2>1, MeasurementFields DEF Jiffied, CountsCycles, Measurements
<1> PICK s : s = "zero"
  OBVIOUS
<1>5. s = First(m)
  BY <1>4 DEF First
<1>6. s \in Parts(m) /\ CallOf(m, s) = 1 /\ Off(m, s) = 0
  BY <1>4, <1>5, Openings
<1>7. On(m, s, 1)'
  <2>1. Len(Part(m, s)) \in Nat
    BY <1>4, <1>6, PartTypes
  <2>2. 1 \in 1 .. Len(Part(m, s)) + 1
    BY <2>1
  <2> QED BY <1>1, <1>6, <2>2 DEF On
<1>8. AtPart(m, s, 1)'
  BY <1>1, <1>2 DEF AtPart, AtJiffies, Quiet
<1>9. Clocked(m, s, 1)'
  BY DEF Clocked
<1>10. InBracket'
  BY <1>1, <1>6, <1>7, <1>8, <1>9 DEF InBracket
<1> QED BY <1>3, <1>10

LEMMA BracketCalls ==
  ASSUME CycleTypes, plan \in Seq(Jiffied), Ticking, InBracket, call > 0, Jsr
  PROVE  Ticking' /\ InBracket'
<1>1. /\ at <= Len(plan) /\ call < Len(Calls(plan[at])) /\ call' = call + 1 /\ pc' = 1
      /\ plan' = plan /\ at' = at /\ p' = callerP
      /\ UNCHANGED <<pushed, callerP, savedP, x, blanked, cia, handler, cycles, stolen, window, open>>
      /\ UNCHANGED <<jiffy, ticks, deaf>>
      /\ pc > Len(Calls(plan[at])[call])
  BY DEF Jsr, Returned, Timed, Code
<1> PICK m : m = plan[at]
  OBVIOUS
<1>2. m \in Jiffied /\ m \in Measurements /\ StateTypes
  BY <1>1, JiffiedNow DEF CycleTypes, Jiffied
<1>3. PICK s \in Parts(m), k \in Nat : On(m, s, k) /\ AtPart(m, s, k) /\ Clocked(m, s, k)
  BY <1>1 DEF InBracket
<1>4. EndsCall(m, s) /\ k = Len(Part(m, s)) + 1 /\ call = CallOf(m, s)
  BY <1>1, <1>2, <1>3, AtEnd DEF On
<1> PICK t : t = After(m, s)
  OBVIOUS
<1>5. ~Closes(m, s) /\ t \in Parts(m) /\ CallOf(m, t) = call + 1 /\ Off(m, t) = 0
  BY <1>1, <1>2, <1>4, NextCalls
<1>6. On(m, t, 1)'
  <2>1. Len(Part(m, t)) \in Nat
    BY <1>2, <1>5, PartTypes
  <2>2. 1 \in 1 .. Len(Part(m, t)) + 1
    BY <2>1
  <2> QED BY <1>1, <1>5, <2>2 DEF On
<1>7. AtPart(m, t, 1) /\ p = callerP
  <2>1. s # "start"
    BY <1>2, JiffyParts
  <2> QED BY <1>2, <1>3, <1>4, <1>5, <2>1, Junction
<1>8. Clocked(m, t, 1)
  BY <1>2, <1>3, <1>4, <1>5, ClockedOver
<1>9. p' = p
  BY <1>1, <1>7
<1>10. AtPart(m, t, 1)'
  BY <1>1, <1>2, <1>7, <1>9, SamePart
<1>11. Clocked(m, t, 1)'
  BY <1>1, <1>8, <1>9, SameClocked
<1>12. Ticking'
  BY <1>1, <1>9, SameTicking
<1>13. InBracket'
  BY <1>1, <1>5, <1>6, <1>10, <1>11 DEF InBracket
<1> QED BY <1>12, <1>13

LEMMA BracketReads ==
  ASSUME CycleTypes, plan \in Seq(Jiffied), Ticking, InBracket, Read
  PROVE  Ticking' /\ InBracket' /\ JiffiesRight'
<1>1. /\ at <= Len(plan) /\ call = Len(Calls(plan[at])) /\ call > 0 /\ pc > Len(Calls(plan[at])[call])
      /\ call' = 0 /\ p' = callerP
      /\ UNCHANGED <<pushed, cia, handler, jiffy, ticks, deaf>>
  BY DEF Read, Returned, Timed, Code
<1> PICK m : m = plan[at]
  OBVIOUS
<1>2. m \in Jiffied /\ m \in Measurements /\ StateTypes /\ ~CountsCycles(m)
  BY <1>1, JiffiedNow DEF CycleTypes, Jiffied
<1>3. PICK s \in Parts(m), k \in Nat : On(m, s, k) /\ AtPart(m, s, k) /\ Clocked(m, s, k)
  BY <1>1 DEF InBracket
<1>4. Quiet
  BY <1>1, <1>2, <1>3, Closing
<1>5. Ticking'
  BY <1>1, <1>4, SameTicking DEF Quiet
<1>6. InBracket'
  BY <1>1 DEF InBracket
<1>7. s = "snap" /\ k = 6
  <2>1. EndsCall(m, s) /\ k = Len(Part(m, s)) + 1
    BY <1>1, <1>2, <1>3, AtEnd
  <2>2. Closes(m, s)
    BY <1>1, <1>2, <1>3, <2>1, NextCalls DEF On
  <2>3. s = "snap"
    BY <1>2, <2>2, JiffyParts DEF Closes
  <2> QED BY <1>2, <2>1, <2>3, PartEnds
<1>8. Reckoned(m)
  BY <1>3, <1>7 DEF Clocked
<1>9. /\ reading'.of = m /\ reading'.window = window /\ reading'.deaf = deaf
      /\ reading'.value = ticks[1] * Digit + ticks[2]
  BY <1>2 DEF Read, Timed
<1>10. \E n \in 0 .. reading'.window :
         /\ reading'.value = n % (Digit * Digit)
         /\ n * Period \in (reading'.window - reading'.deaf) - Period
              .. (reading'.window - reading'.deaf) + (Stretches(m) + 1) * (2 * Period - 1)
  BY <1>8, <1>9 DEF Reckoned, Digits
<1>11. \A o : Stretches(o)' = Stretches(o)
  BY DEF Stretches
<1>12. JiffiesRight'
  BY <1>9, <1>10, <1>11 DEF JiffiesRight
<1> QED BY <1>5, <1>6, <1>12

(***************************************************************************)
(* The invariant of the jiffy clock.                                        *)
(***************************************************************************)
LEMMA JiffyInitInv == CycleInit => JiffyInv
<1> SUFFICES ASSUME CycleInit PROVE JiffyInv
  OBVIOUS
<1>1. PICK a \in 0 .. Period - 1 : cia = [KernalTimer EXCEPT !.a = a]
  BY DEF CycleInit
<1>2. Kernal
  BY <1>1 DEF Kernal, KernalTimer
<1>3. Handling
  BY CycleAssumption DEF CycleInit, Handling
<1>4. Nesting
  BY DEF CycleInit, Nesting
<1>5. ClockTypes
  BY DEF CycleInit, ClockTypes
<1>6. InBracket
  BY DEF CycleInit, InBracket
<1>7. JiffiesRight
  BY DEF CycleInit, JiffiesRight, Made, NoReading, M
<1> QED BY <1>2, <1>3, <1>4, <1>5, <1>6, <1>7 DEF JiffyInv, Ticking

LEMMA SameReading ==
  ASSUME JiffiesRight, reading' = reading
  PROVE  JiffiesRight'
BY DEF JiffiesRight, Made, Stretches

LEMMA JiffyNextInv == CycleInv /\ JiffyInv /\ [CycleNext]_cycleVars => JiffyInv'
<1> SUFFICES ASSUME CycleInv, JiffyInv, [CycleNext]_cycleVars PROVE JiffyInv'
  OBVIOUS
<1>t. CycleTypes /\ InCall /\ StateTypes /\ JiffiesRight /\ call \in Nat /\ plan \in Plans
  BY DEF CycleInv, JiffyInv, CycleTypes
<1>j. plan \in Seq(Jiffied) => Ticking /\ InBracket
  BY DEF JiffyInv
<1>1. CASE Elapses
  <2>1. UNCHANGED <<plan, reading>>
    BY <1>1, <1>t, ElapseFacts
  <2> QED BY <1>1, <1>t, <1>j, <2>1, BracketElapses, SameReading DEF JiffyInv
<1>2. CASE Execute
  <2>1. UNCHANGED <<plan, reading>>
    BY <1>2 DEF Execute
  <2> QED BY <1>2, <1>t, <1>j, <2>1, BracketExecutes, SameReading DEF JiffyInv
<1>3. CASE Jsr
  <2>1. UNCHANGED <<plan, reading>>
    BY <1>3 DEF Jsr
  <2>2. call = 0 \/ call > 0
    BY <1>t
  <2> QED BY <1>3, <1>t, <1>j, <2>1, <2>2, BracketOpens, BracketCalls, SameReading DEF JiffyInv
<1>4. CASE Read
  <2>1. plan' = plan
    BY <1>4 DEF Read
  <2>2. CASE plan \in Seq(Jiffied)
    BY <1>4, <1>t, <1>j, <2>1, <2>2, BracketReads DEF JiffyInv
  <2>3. CASE plan \notin Seq(Jiffied)
    <3>1. plan \in Seq(Measurements \ Jiffied) /\ at \in DOMAIN plan
      BY <1>4, <1>t, <2>3, PlanKinds DEF Read, CycleTypes
    <3>2. plan[at] \in Measurements \ Jiffied
      BY <3>1
    <3>3. reading'.of = plan[at]
      BY <1>4 DEF Read, Timed
    <3>4. JiffiesRight'
      BY <3>2, <3>3 DEF JiffiesRight, Jiffied
    <3> QED BY <2>1, <2>3, <3>4 DEF JiffyInv
  <2> QED BY <2>2, <2>3
<1>5. CASE UNCHANGED cycleVars
  <2>1. /\ UNCHANGED <<plan, at, call, pc, p, pushed, callerP, savedP, x, blanked, cia, handler>>
        /\ UNCHANGED <<cycles, ptr, stolen, window, open, reading, jiffy, ticks, deaf>>
    BY <1>5 DEF cycleVars
  <2>2. JiffiesRight'
    BY <1>t, <2>1, SameReading
  <2>3. ASSUME plan \in Seq(Jiffied) PROVE Ticking' /\ InBracket'
    <3>1. Ticking'
      BY <1>j, <2>1, <2>3, SameTicking
    <3>2. CASE call > 0
      <4> PICK m : m = plan[at]
        OBVIOUS
      <4>1. m \in Measurements
        BY <1>t, <2>3, <3>2, JiffiedNow DEF CycleTypes, Jiffied
      <4>2. PICK s \in Parts(m), k \in Nat : On(m, s, k) /\ AtPart(m, s, k) /\ Clocked(m, s, k)
        BY <1>j, <2>3, <3>2 DEF InBracket
      <4>3. AtPart(m, s, k)'
        BY <2>1, <4>1, <4>2, SamePart
      <4>4. Clocked(m, s, k)'
        BY <2>1, <4>2, SameClocked
      <4>5. On(m, s, k)'
        BY <2>1, <4>2 DEF On
      <4>6. InBracket'
        BY <2>1, <4>3, <4>4, <4>5 DEF InBracket
      <4> QED BY <3>1, <4>6
    <3>3. CASE ~(call > 0)
      BY <2>1, <3>1, <3>3 DEF InBracket
    <3> QED BY <3>2, <3>3
  <2> QED BY <2>1, <2>2, <2>3 DEF JiffyInv
<1>6. CASE Finished
  BY <1>5, <1>6 DEF Finished
<1> QED BY <1>1, <1>2, <1>3, <1>4, <1>5, <1>6 DEF CycleNext, Elapses

(***************************************************************************)
(* bench_start and bench_stop: every reading of the jiffy clock is, modulo  *)
(* what its bytes hold, the time in which interrupts were allowed, at most  *)
(* one period less and less than two periods more for each stretch in which *)
(* they were masked, for every length of a period and of the handler, every *)
(* number of values of a byte and every routine that does not clear I.      *)
(***************************************************************************)
THEOREM JiffiesCorrect == CycleSpec => []JiffiesRight
<1>1. JiffyInv => JiffiesRight
  BY DEF JiffyInv
<1> QED BY <1>1, CycleInvariant, JiffyInitInv, JiffyNextInv, PTL DEF CycleSpec

=============================================================================
