----------------------------- MODULE U64Session -----------------------------
(***************************************************************************)
(* Sessions of src/tools/bench_x25519_u64.py on one shared Ultimate 64: the *)
(* host builds both programs, takes the device lock, reboots, loads a       *)
(* program, waits for its banner, installs a trampoline and makes the idle  *)
(* C64 run one timed scalar multiplication per speed by a one-byte write to *)
(* the operand of its idle loop, then polls a sentinel the trampoline sets. *)
(* Host and C64 run on their own; every host call may raise, every wait has *)
(* a deadline, and every way out passes through the finally block.          *)
(***************************************************************************)
EXTENDS Integers, Sequences, Functions

CONSTANTS
  Tools,      \* the sessions
  Plans,      \* their command lines: [speeds, stock (no --no-stock-proof), skip (C64_SKIP_BUILD)]
  Found,      \* the configurations the device may be found in
  Steps,      \* the turbo steps of a known product
  InitMhz,    \* turbo while a program initialises                        (48)
  MaxPolls,   \* bound: polls before a deadline passes
  Nobody

ASSUME SessionAssumption ==
  /\ Nobody \notin Tools /\ Steps \subseteq Nat /\ InitMhz \in Steps /\ MaxPolls \in Nat \ {0}
  /\ Found \subseteq [turbo : Steps, reu : BOOLEAN]
  /\ Plans \subseteq [Tools -> [speeds : SUBSET (Nat \ {0}) \ {{}}, stock : BOOLEAN, skip : BOOLEAN]]

Programs == {"default", "onchip"}
Profiles == <<"default", "onchip", "onchip-noreu">>
Program(stage) == IF stage = 1 THEN "default" ELSE "onchip"

\* A mutant: the sentinel before the idle loop is whole again.
SentinelFirst == <<"vic_blank", "bench_cycles_start", "x25519_base", "bench_cycles_stop",
                   "vic_unblank", "set_sentinel", "restore_operand", "jmp_main_loop">>

\* build_trampoline: what the C64 runs between two passes of the idle loop.
Trampoline == <<"vic_blank", "bench_cycles_start", "x25519_base",
                "bench_cycles_stop", "vic_unblank",
                "restore_operand", "set_sentinel", "jmp_main_loop">>

None    == [prog |-> "none", mhz |-> 0, reu |-> FALSE, blanked |-> FALSE]
Configs == [turbo : Steps, reu : BOOLEAN]

VARIABLES
  supported,  \* KNOWN[product]: {} when the product is not known
  plan,       \* the command line of each session
  found,      \* the configuration before any session
  config,     \* the firmware's configuration
  live,       \* what of it the C64 has
  built,      \* the programs in build/ and build-onchip/
  lock,       \* the holder of DeviceLock
  cpu,        \* "reset", "basic", "boot", "init", "loop", "wild" or a place in Trampoline
  mem,        \* the C64's memory, where a session reads or writes it
  clock,      \* the conditions under which the running timer was started
  ses,        \* the sessions
  recs,       \* results of each session
  mislaid     \* history: some restore_state raised

vars == <<supported, plan, found, config, live, built, lock, cpu, mem, clock, ses, recs, mislaid>>
host == <<supported, plan, found, built, lock, ses, recs, mislaid>>
device == <<config, live, cpu, mem, clock>>

Init ==
  /\ supported \in {Steps, {}} /\ plan \in Plans
  /\ found \in Found /\ config = found /\ live = found
  /\ built \in {{}, Programs}
  /\ lock = Nobody /\ cpu = "basic" /\ clock = None /\ mislaid = FALSE
  /\ mem = [prog |-> "none", tables |-> FALSE, banner |-> FALSE, shim |-> FALSE,
            tramp |-> "none", hijacked |-> FALSE, sentinel |-> FALSE, scalar |-> FALSE,
            result |-> "junk", cycles |-> None, fresh |-> FALSE, blanked |-> FALSE]
  /\ ses = [t \in Tools |-> [phase |-> IF plan[t].skip THEN "check" ELSE "clean", stage |-> 1,
                             todo |-> {}, mhz |-> 0, left |-> 0, idle |-> FALSE,
                             snapped |-> FALSE, orig |-> found, exit |-> "running"]]
  /\ recs = [t \in Tools |-> {}]

(***************************************************************************)
(* The C64.                                                                 *)
(***************************************************************************)
ResetEnds ==
  /\ cpu = "reset" /\ cpu' = "basic"
  /\ mem' = [mem EXCEPT !.banner = FALSE, !.blanked = FALSE]
  /\ UNCHANGED <<config, live, clock, host>>

\* start: the screen is cleared, the tables are built, the banner is printed.
Boot ==
  /\ cpu = "boot" /\ cpu' = "init"
  /\ mem' = [mem EXCEPT !.banner = FALSE]
  /\ UNCHANGED <<config, live, clock, host>>

Initialised ==
  /\ cpu = "init" /\ cpu' = "loop"
  /\ mem' = [mem EXCEPT !.tables = mem.prog = "onchip" \/ live.reu, !.banner = TRUE]
  /\ UNCHANGED <<config, live, clock, host>>

\* The idle loop jumps to $0800: the shim, if it is installed there, enters
\* the trampoline, which calls the addresses of the program it was built for.
LeaveLoop ==
  /\ cpu = "loop" /\ mem.hijacked
  /\ cpu' = IF mem.shim /\ mem.tramp = mem.prog THEN Trampoline[1] ELSE "wild"
  /\ UNCHANGED <<config, live, mem, clock, host>>

Stopped ==
  [mem EXCEPT !.cycles = IF clock.mhz = live.turbo THEN clock ELSE None, !.fresh = TRUE]

TrampolineStep ==
  /\ cpu \in Range(Trampoline)
  /\ mem' = CASE cpu = "vic_blank"   -> [mem EXCEPT !.blanked = TRUE]
              [] cpu = "vic_unblank" -> [mem EXCEPT !.blanked = FALSE]
              [] cpu = "x25519_base" ->
                   [mem EXCEPT !.result =
                      IF mem.scalar /\ mem.tables /\ (mem.prog = "onchip" \/ live.reu)
                      THEN "right" ELSE "junk"]
              [] cpu = "bench_cycles_stop" -> Stopped
              [] cpu = "restore_operand"   -> [mem EXCEPT !.hijacked = FALSE]
              [] cpu = "set_sentinel"      -> [mem EXCEPT !.sentinel = TRUE]
              [] OTHER -> mem
  /\ clock' = CASE cpu = "bench_cycles_start" -> [prog |-> mem.prog, mhz |-> live.turbo,
                                                  reu |-> live.reu, blanked |-> mem.blanked]
                [] cpu = "bench_cycles_stop" -> None
                [] OTHER -> clock
  /\ \E k \in DOMAIN Trampoline :
       /\ Trampoline[k] = cpu
       /\ cpu' = IF k = Len(Trampoline) THEN "loop" ELSE Trampoline[k + 1]
  /\ UNCHANGED <<config, live, host>>

(***************************************************************************)
(* A session, step by step.                                                 *)
(***************************************************************************)
In(t, phase)  == ses[t].phase = phase
Go(t, phase)  == ses' = [ses EXCEPT ![t].phase = phase]
\* Out of the program, before the try or after the finally.
Exit(t, code) == ses' = [ses EXCEPT ![t].phase = "done", ![t].exit = code]
\* sys.exit(1), or an exception, inside the try.
Fail(t)       == ses' = [ses EXCEPT ![t].phase = "finally", ![t].exit = "one"]
Await(t, phase) == ses' = [ses EXCEPT ![t].phase = phase, ![t].left = MaxPolls]

Fixed == <<supported, plan, found>>
KeepHost == UNCHANGED <<Fixed, built, lock, recs, mislaid>>

(* build_prgs: make clean, which also removes every build-* directory; make;  *)
(* rm -rf build-onchip; make BUILD_DIR=build-onchip.  No lock is held yet.    *)
Clean(t, programs, next) ==
  /\ built' = built \ programs /\ Go(t, next)

Make(t, program, next) ==
  \/ built' = built \cup {program} /\ Go(t, next)
  \/ built' = built /\ Exit(t, "one")

BuildPrgs(t) ==
  /\ \/ In(t, "clean")        /\ Clean(t, Programs, "make")
     \/ In(t, "make")         /\ Make(t, "default", "clean_onchip")
     \/ In(t, "clean_onchip") /\ Clean(t, {"onchip"}, "make_onchip")
     \/ In(t, "make_onchip")  /\ Make(t, "onchip", "check")
  /\ UNCHANGED <<Fixed, device, lock, recs, mislaid>>

(* The files are there and the device answers, or the tool gives up. *)
CheckFiles(t) ==
  /\ In(t, "check")
  /\ IF built = Programs THEN Go(t, "probe") ELSE Exit(t, "one")
  /\ UNCHANGED device /\ KeepHost

Probe(t) ==
  /\ In(t, "probe")
  /\ Go(t, "lock") \/ Exit(t, "one")
  /\ UNCHANGED device /\ KeepHost

AcquireLock(t) ==
  /\ In(t, "lock")
  /\ IF lock = Nobody
     THEN lock' = t /\ Go(t, "info")
     ELSE lock' = lock /\ Exit(t, "one")     \* DeviceLockTimeout
  /\ UNCHANGED <<Fixed, device, built, recs, mislaid>>

\* client, get_info, print_grading; then the snapshot, then the refusals.
GetInfo(t) == In(t, "info") /\ Go(t, "snapshot") /\ UNCHANGED device /\ KeepHost

Snapshot(t) ==
  /\ In(t, "snapshot")
  /\ ses' = [ses EXCEPT ![t].phase = "guard", ![t].snapped = TRUE, ![t].orig = config]
  /\ UNCHANGED device /\ KeepHost

Guard(t) ==
  /\ In(t, "guard")
  /\ IF supported # {} /\ plan[t].speeds \subseteq supported
     THEN Go(t, "reboot") ELSE Fail(t)
  /\ UNCHANGED device /\ KeepHost

Reboot(t) ==
  /\ In(t, "reboot")
  /\ cpu' = "reset" /\ clock' = None /\ Go(t, "settle")
  /\ UNCHANGED <<config, live, mem>> /\ KeepHost

\* Mutants: probing at once; probing without a deadline.
NoFloor(t) ==
  /\ In(t, "settle") /\ Await(t, "ready")
  /\ UNCHANGED device /\ KeepHost

WaitForEver(t) ==
  /\ In(t, "ready")
  /\ Go(t, "set_reu") \/ ses' = [ses EXCEPT ![t].left = IF @ = 0 THEN MaxPolls ELSE @ - 1]
  /\ UNCHANGED device /\ KeepHost

(* wait_device_ready: the floor of 8 s outlasts the reset of the C64, which *)
(* the probe of the firmware says nothing about; then probe until deadline. *)
SettleFloor(t) ==
  /\ In(t, "settle") /\ cpu # "reset"
  /\ Await(t, "ready")
  /\ UNCHANGED device /\ KeepHost

WaitReady(t) ==
  /\ In(t, "ready")
  /\ \/ ses[t].left > 0 /\ (Go(t, "set_reu") \/ ses' = [ses EXCEPT ![t].left = @ - 1])
     \/ ses[t].left = 0 /\ Fail(t)
  /\ UNCHANGED device /\ KeepHost

\* A configuration write; while the C64 is in reset it may miss the machine.
Write(c, l) ==
  /\ config' = c
  /\ live' \in IF cpu = "reset" THEN {live, l} ELSE {l}

WriteTurbo(mhz) == Write([config EXCEPT !.turbo = mhz], [live EXCEPT !.turbo = mhz])
WriteReu(on)    == Write([config EXCEPT !.reu = on],    [live EXCEPT !.reu = on])

SetReu(t) ==
  /\ In(t, "set_reu")
  /\ WriteReu(ses[t].stage # 3)
  /\ Go(t, "init_turbo")
  /\ UNCHANGED <<cpu, mem, clock>> /\ KeepHost

(* prepare_prg *)
InitTurbo(t) ==
  /\ In(t, "init_turbo")
  /\ WriteTurbo(InitMhz) /\ Go(t, "clear")
  /\ UNCHANGED <<cpu, mem, clock>> /\ KeepHost

ClearScreen(t) ==
  /\ In(t, "clear")
  /\ mem' = [mem EXCEPT !.banner = FALSE] /\ Go(t, "run_prg")
  /\ UNCHANGED <<config, live, cpu, clock>> /\ KeepHost

\* The image covers the shim's bytes, the operand, the scalar and the results.
RunPrg(t) ==
  /\ In(t, "run_prg")
  /\ IF Program(ses[t].stage) \in built
     THEN /\ mem' = [mem EXCEPT !.prog = Program(ses[t].stage), !.tables = FALSE, !.shim = FALSE,
                                !.hijacked = FALSE, !.scalar = FALSE, !.result = "junk",
                                !.cycles = None]
          /\ cpu' = "boot" /\ clock' = None /\ Await(t, "banner")
     ELSE Fail(t) /\ UNCHANGED <<cpu, mem, clock>>
  /\ UNCHANGED <<config, live>> /\ KeepHost

WaitBanner(t) ==
  /\ In(t, "banner")
  /\ CASE mem.banner -> Go(t, "install")
       [] ~mem.banner /\ ses[t].left > 0 -> ses' = [ses EXCEPT ![t].left = @ - 1]
       [] OTHER -> Fail(t)
  /\ UNCHANGED device /\ KeepHost

Install(t) ==
  /\ In(t, "install")
  /\ mem' = [mem EXCEPT !.shim = TRUE, !.tramp = Program(ses[t].stage), !.scalar = TRUE]
  /\ ses' = [ses EXCEPT ![t].phase = "speed",
                        ![t].todo = IF ses[t].stage = 3 THEN {InitMhz} ELSE plan[t].speeds]
  /\ UNCHANGED <<config, live, cpu, clock>> /\ KeepHost

(* run_once, for each speed in the order the command line lists them *)
SetSpeed(t) ==
  /\ In(t, "speed")
  /\ \E mhz \in ses[t].todo :
       /\ WriteTurbo(mhz)
       /\ ses' = [ses EXCEPT ![t].phase = "scrub", ![t].mhz = mhz]
  /\ UNCHANGED <<cpu, mem, clock>> /\ KeepHost

Scrub(t) ==
  /\ In(t, "scrub")
  /\ mem' = [mem EXCEPT !.sentinel = FALSE, !.result = "junk"]
  /\ Go(t, "hijack")
  /\ UNCHANGED <<config, live, cpu, clock>> /\ KeepHost

Hijack(t) ==
  /\ In(t, "hijack")
  /\ mem' = [mem EXCEPT !.hijacked = TRUE, !.fresh = FALSE]
  /\ ses' = [ses EXCEPT ![t].phase = "poll", ![t].left = MaxPolls, ![t].idle = cpu \in {"loop", "jmp_main_loop"}]
  /\ UNCHANGED <<config, live, cpu, clock>> /\ KeepHost

\* After the last speed of a stage: the next program without a reboot; the
\* proof without REU after one; or the end of the try.
AfterRun(t) ==
  LET s == ses[t]
  IN CASE s.todo # {s.mhz} -> [s EXCEPT !.phase = "speed", !.todo = @ \ {s.mhz}]
       [] s.todo = {s.mhz} /\ s.stage = 1 -> [s EXCEPT !.phase = "init_turbo", !.stage = 2]
       [] s.todo = {s.mhz} /\ s.stage = 2 /\ plan[t].stock ->
                                             [s EXCEPT !.phase = "reboot", !.stage = 3]
       [] OTHER -> [s EXCEPT !.phase = "finally", !.exit = "zero"]

\* A mutant: a speed that timed out is left out of the table.
SkipOnTimeout(t) ==
  /\ In(t, "poll")
  /\ \/ mem.sentinel /\ Go(t, "oracle")
     \/ ses[t].left > 0 /\ ses' = [ses EXCEPT ![t].left = @ - 1]
     \/ ses[t].left = 0 /\ ~mem.sentinel /\ ses' = [ses EXCEPT ![t] = AfterRun(t)]
  /\ UNCHANGED device /\ KeepHost

\* A read that raises is a PollError, and the polling goes on.
WaitSentinel(t) ==
  /\ In(t, "poll")
  /\ \/ mem.sentinel /\ Go(t, "oracle")
     \/ ses[t].left > 0 /\ ses' = [ses EXCEPT ![t].left = @ - 1]
     \/ ses[t].left = 0 /\ ~mem.sentinel /\ Fail(t)
  /\ UNCHANGED device /\ KeepHost

Record(t) ==
  /\ In(t, "oracle")
  /\ IF mem.result = "right"
     THEN /\ recs' = [recs EXCEPT ![t] = @ \cup
                        {[profile |-> Profiles[ses[t].stage], mhz |-> ses[t].mhz,
                          cycles |-> mem.cycles, idle |-> ses[t].idle]}]
          /\ ses' = [ses EXCEPT ![t] = AfterRun(t)]
     ELSE recs' = recs /\ Fail(t)
  /\ UNCHANGED <<Fixed, device, built, lock, mislaid>>

(* Any call inside the try may raise or, polling too, be interrupted from *)
(* the keyboard.                                                          *)
Guarded == {"info", "snapshot", "guard", "reboot", "settle", "ready", "set_reu", "init_turbo",
            "clear", "run_prg", "banner", "install", "speed", "scrub", "hijack", "poll", "oracle"}

Raise(t) ==
  /\ ses[t].phase \in Guarded /\ Fail(t)
  /\ UNCHANGED device /\ KeepHost

\* A mutant: the configuration is put back on the way of success only.
RestoreOnSuccess(t) ==
  /\ In(t, "finally") /\ Go(t, "release")
  /\ IF ses[t].exit = "zero" THEN Write(ses[t].orig, ses[t].orig) ELSE UNCHANGED <<config, live>>
  /\ UNCHANGED <<Fixed, cpu, mem, clock, built, lock, recs, mislaid>>

(* finally: restore_state, whose failure is a warning; close; release.  When *)
(* close raises, release is skipped, and the lock goes with the process.     *)
RestoreState(t) ==
  /\ In(t, "finally") /\ Go(t, "release")
  /\ \/ ses[t].snapped /\ Write(ses[t].orig, ses[t].orig) /\ mislaid' = mislaid
     \/ ses[t].snapped /\ mislaid' = TRUE /\ UNCHANGED <<config, live>>
     \/ ~ses[t].snapped /\ UNCHANGED <<config, live, mislaid>>
  /\ UNCHANGED <<Fixed, cpu, mem, clock, built, lock, recs>>

Release(t) ==
  /\ In(t, "release") /\ lock' = Nobody
  /\ Exit(t, ses[t].exit) \/ Exit(t, "one")
  /\ UNCHANGED <<Fixed, device, built, recs, mislaid>>

(***************************************************************************)
(* The whole.                                                               *)
(***************************************************************************)
Step(t) ==
  \/ BuildPrgs(t) \/ CheckFiles(t) \/ Probe(t) \/ AcquireLock(t) \/ GetInfo(t) \/ Snapshot(t)
  \/ Guard(t) \/ Reboot(t) \/ SettleFloor(t) \/ WaitReady(t) \/ SetReu(t) \/ InitTurbo(t)
  \/ ClearScreen(t) \/ RunPrg(t) \/ WaitBanner(t) \/ Install(t) \/ SetSpeed(t) \/ Scrub(t)
  \/ Hijack(t) \/ WaitSentinel(t) \/ Record(t) \/ RestoreState(t) \/ Release(t)

C64 == ResetEnds \/ Boot \/ Initialised \/ LeaveLoop \/ TrampolineStep

AllDone == (\A t \in Tools : In(t, "done")) /\ UNCHANGED vars

Next == C64 \/ (\E t \in Tools : Step(t) \/ Raise(t)) \/ AllDone

\* The host processes run; a reset ends.  Nothing is assumed of the programs
\* on the C64, of the probes or of the lock: every wait has its deadline.
FairSpec == Init /\ [][Next]_vars /\ (\A t \in Tools : WF_vars(Step(t))) /\ WF_vars(ResetEnds)

(***************************************************************************)
(* Properties.                                                              *)
(***************************************************************************)
\* Types: configurations, the processor's places, the lock's holder, exits.
TypeOK ==
  /\ config \in Configs /\ live \in Configs /\ built \subseteq Programs
  /\ lock \in Tools \cup {Nobody}
  /\ cpu \in {"reset", "basic", "boot", "init", "loop"} \cup Range(Trampoline)
  /\ \A t \in Tools : ses[t].stage \in 1 .. 3 /\ ses[t].exit \in {"running", "zero", "one"}

\* Every figure in a table of results is one of the program, at the turbo and
\* with the REU its row names, with the display blanked, and its wall time
\* covers the call alone: the hijack found the C64 in its idle loop.
MeasurementRight ==
  \A t \in Tools : \A r \in recs[t] :
    /\ r.idle
    /\ r.cycles = [prog    |-> IF r.profile = "default" THEN "default" ELSE "onchip",
                   mhz     |-> r.mhz,
                   reu     |-> r.profile # "onchip-noreu",
                   blanked |-> TRUE]

\* Once the host has seen the sentinel, the C64 is done with all of this run
\* and not with an earlier one: the counter and the result are this run's, the
\* display is back, and the idle loop is whole again for the next hijack.
SentinelMeansThisRun ==
  \A t \in Tools : In(t, "oracle") =>
    /\ mem.fresh /\ mem.result = "right"
    /\ ~mem.hijacked /\ ~mem.blanked

\* Whoever finds the device free finds it as configured before the first
\* session, whatever failed and wherever, unless a restore itself failed.
ConfigHandedBack == lock = Nobody /\ ~mislaid => config = found

\* Exit code 0 promises a complete table: both profiles at every requested
\* speed, and the run without REU unless it was declined.
CompleteOrFailed ==
  \A t \in Tools : ses[t].exit = "zero" =>
    {<<r.profile, r.mhz>> : r \in recs[t]} =
      ({"default", "onchip"} \X plan[t].speeds)
        \cup (IF plan[t].stock THEN {<<"onchip-noreu", InitMhz>>} ELSE {})

\* Every session ends, whatever the device does or fails to do.
SessionEnds == \A t \in Tools : <>In(t, "done")
=============================================================================
