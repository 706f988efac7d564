-------------------------- MODULE U64SessionProofs --------------------------
(***************************************************************************)
(* Whoever finds the device free finds the configuration it had before the  *)
(* first session, unless a restore itself failed; every figure in a table of*)
(* results, of a session that succeeded or failed, is one of the program and*)
(* the conditions its row names; and exit code 0 means a complete table: for*)
(* any number of sessions, command lines, product and failures.             *)
(*                                                                          *)
(* The first property says nothing of a device in use, where the            *)
(* configuration is anything.  What carries it through a session is custody:*)
(* the holder of the lock has a snapshot before it first writes, the snapshot*)
(* was taken of what the sessions before handed back, and a holder without  *)
(* one has not written.  The others rest on what the holder may rely on of  *)
(* the C64, phase by phase (DeviceInv), and on what it has recorded by then *)
(* (TableInv).                                                              *)
(***************************************************************************)
EXTENDS U64Session, TLAPS

Before == {"clean", "make", "clean_onchip", "make_onchip", "check", "probe", "lock"}
Wired  == {"guard", "reboot", "settle", "ready", "set_reu", "init_turbo", "clear", "run_prg",
           "banner", "install", "speed", "scrub", "hijack", "poll", "oracle"}
Inside == {"info", "snapshot", "finally", "release"} \cup Wired
Phases == Before \cup Inside \cup {"done"}

(* Looser than Configs: which speeds a product has is the guard's business.   *)
Settings == [turbo : Nat, reu : BOOLEAN]

Session == [phase : Phases, stage : Nat, todo : SUBSET Nat, mhz : Nat, left : Nat, idle : BOOLEAN,
            snapped : BOOLEAN, orig : Settings, exit : {"running", "zero", "one"}]

Typed ==
  /\ ses \in [Tools -> Session]
  /\ plan \in Plans /\ config \in Settings /\ live \in Settings
  /\ lock \in Tools \cup {Nobody}

OneHolder == \A t \in Tools : ses[t].phase \in Inside <=> lock = t

SnapshotFirst ==
  \A t \in Tools : /\ ses[t].phase \in Before \cup {"info", "snapshot"} => ~ses[t].snapped
                   /\ ses[t].phase \in Wired => ses[t].snapped

Custody ==
  ~mislaid => \A t \in Tools : ses[t].phase \in Inside =>
    /\ ses[t].snapped => ses[t].orig = found
    /\ ~ses[t].snapped \/ ses[t].phase = "release" => config = found

SessionInv == Typed /\ OneHolder /\ SnapshotFirst /\ Custody /\ ConfigHandedBack

LEMMA InitSession == Init => SessionInv
  <1> SUFFICES ASSUME Init PROVE SessionInv
    OBVIOUS
  <1>1. found \in Settings /\ MaxPolls \in Nat
    BY SessionAssumption DEF Init, Settings
  <1>2. \A t \in Tools : ses[t] \in Session /\ ses[t].phase \in Before /\ ~ses[t].snapped
    BY <1>1 DEF Init, Session, Phases, Before
  <1>3. Typed
    BY <1>1, <1>2 DEF Init, Typed
  <1>4. \A t \in Tools : ses[t].phase \notin Inside /\ lock # t
    BY <1>2, SessionAssumption DEF Init, Before, Inside, Wired
  <1>5. QED
    BY <1>2, <1>3, <1>4
    DEF Init, SessionInv, OneHolder, SnapshotFirst, Custody, ConfigHandedBack, Before, Wired

-----------------------------------------------------------------------------
(* A step of a session that holds the lock before and after: it may write the *)
(* configuration only with a snapshot and before the release.                *)
LEMMA InsideStep ==
    ASSUME SessionInv, NEW t \in Tools, NEW r \in Session,
           ses' = [ses EXCEPT ![t] = r],
           ses[t].phase \in Inside, r.phase \in Inside, r.phase # "release",
           r.snapped = ses[t].snapped, r.orig = ses[t].orig,
           r.phase \in Wired => r.snapped,
           r.phase \in {"info", "snapshot"} => ~r.snapped,
           r.phase \in Wired \/ config' = config,
           config' \in Settings, live' \in Settings,
           UNCHANGED <<plan, found, lock, mislaid>>
    PROVE  SessionInv'
  <1>1. Typed'
    BY DEF SessionInv, Typed
  <1>2. lock = t
    BY DEF SessionInv, OneHolder
  <1>3. OneHolder'
    BY DEF SessionInv, OneHolder, Typed
  <1>4. SnapshotFirst'
    BY DEF SessionInv, SnapshotFirst, Typed, Before, Inside, Wired
  <1>5. Custody'
    <2> SUFFICES ASSUME ~mislaid, NEW s \in Tools, ses'[s].phase \in Inside
                 PROVE  /\ ses'[s].snapped => ses'[s].orig = found
                        /\ ~ses'[s].snapped \/ ses'[s].phase = "release" => config' = found
      BY DEF Custody
    <2>1. s = t
      BY <1>2, <1>3 DEF OneHolder
    <2>2. ses'[t] = r
      BY DEF SessionInv, Typed
    <2>3. /\ ses[t].snapped => ses[t].orig = found
          /\ ~ses[t].snapped => config = found
      BY DEF SessionInv, Custody
    <2>4. QED
      BY <2>1, <2>2, <2>3
  <1>6. ConfigHandedBack'
    BY <1>2, SessionAssumption DEF ConfigHandedBack
  <1>7. QED
    BY <1>1, <1>3, <1>4, <1>5, <1>6 DEF SessionInv

(* A step of a session that does not hold it, and leaves the device alone.    *)
LEMMA OutsideStep ==
    ASSUME SessionInv, NEW t \in Tools, NEW r \in Session,
           ses' = [ses EXCEPT ![t] = r],
           ses[t].phase \in Before, r.phase \in Before \cup {"done"},
           r.snapped = ses[t].snapped,
           UNCHANGED <<plan, found, lock, mislaid, config, live>>
    PROVE  SessionInv'
  <1>1. Typed'
    BY DEF SessionInv, Typed
  <1>2. OneHolder'
    BY DEF SessionInv, OneHolder, Typed, Before, Inside, Wired
  <1>3. SnapshotFirst'
    BY DEF SessionInv, SnapshotFirst, Typed, Before, Wired
  <1>4. Custody'
    BY DEF SessionInv, Custody, Typed, Before, Inside, Wired
  <1>5. QED
    BY <1>1, <1>2, <1>3, <1>4 DEF SessionInv, ConfigHandedBack

(* The C64, and a session that only looks on.                                *)
LEMMA DeviceStep ==
    ASSUME SessionInv, UNCHANGED <<plan, found, lock, mislaid, config, live, ses>>
    PROVE  SessionInv'
  BY DEF SessionInv, Typed, OneHolder, SnapshotFirst, Custody, ConfigHandedBack

-----------------------------------------------------------------------------
LEMMA BuildStep ==
    ASSUME SessionInv, NEW t \in Tools,
           BuildPrgs(t) \/ CheckFiles(t) \/ Probe(t)
    PROVE  SessionInv'
  <1>1. /\ ses[t].phase \in Before /\ ses[t] \in Session
        /\ UNCHANGED <<plan, found, lock, mislaid, config, live>>
    BY DEF BuildPrgs, CheckFiles, Probe, In, Before, Fixed, KeepHost, device, SessionInv, Typed
  <1>2. CASE \E phase \in Before : Go(t, phase)
    <2>1. PICK phase \in Before : ses' = [ses EXCEPT ![t] = [ses[t] EXCEPT !.phase = phase]]
      BY <1>2 DEF Go
    <2>2. [ses[t] EXCEPT !.phase = phase] \in Session
      BY <1>1, <2>1 DEF Session, Phases
    <2>3. QED
      BY <1>1, <2>1, <2>2, OutsideStep DEF Session
  <1>3. CASE Exit(t, "one")
    <2>1. ses' = [ses EXCEPT ![t] = [ses[t] EXCEPT !.phase = "done", !.exit = "one"]]
      BY <1>3 DEF Exit
    <2>2. [ses[t] EXCEPT !.phase = "done", !.exit = "one"] \in Session
      BY <1>1 DEF Session, Phases
    <2>3. QED
      BY <1>1, <2>1, <2>2, OutsideStep DEF Session
  <1>4. QED
    BY <1>2, <1>3 DEF BuildPrgs, CheckFiles, Probe, Clean, Make, Before

LEMMA LockStep == ASSUME SessionInv, NEW t \in Tools, AcquireLock(t) PROVE SessionInv'
  <1>1. /\ ses[t].phase = "lock" /\ ses[t] \in Session /\ ~ses[t].snapped
        /\ UNCHANGED <<plan, found, mislaid, config, live>>
    BY DEF AcquireLock, In, Before, Fixed, device, SessionInv, Typed, SnapshotFirst
  <1>2. CASE lock = Nobody /\ lock' = t /\ Go(t, "info")
    <2> DEFINE r == [ses[t] EXCEPT !.phase = "info"]
    <2>1. r \in Session /\ r.phase = "info" /\ ~r.snapped
      BY <1>1 DEF Session, Phases, Inside
    <2> HIDE DEF r
    <2>2. ses' = [ses EXCEPT ![t] = r] /\ ses' \in [Tools -> Session]
      BY <1>2, <2>1 DEF Go, SessionInv, Typed, r
    <2>3. Typed' /\ \A s \in Tools : ses'[s] = IF s = t THEN r ELSE ses[s]
      BY <1>1, <1>2, <2>2 DEF SessionInv, Typed
    <2>4. \A s \in Tools : ses[s].phase \notin Inside
      BY <1>2, SessionAssumption DEF SessionInv, OneHolder
    <2>5. OneHolder'
      BY <1>2, <2>1, <2>3, <2>4 DEF OneHolder, Inside
    <2>6. SnapshotFirst'
      BY <2>1, <2>3 DEF SessionInv, SnapshotFirst, Before, Wired
    <2>7. Custody'
      BY <1>1, <1>2, <2>1, <2>3, <2>4 DEF SessionInv, Custody, ConfigHandedBack
    <2>8. QED
      BY <1>2, <2>3, <2>5, <2>6, <2>7, SessionAssumption DEF SessionInv, ConfigHandedBack
  <1>3. CASE lock' = lock /\ Exit(t, "one")
    <2>1. ses' = [ses EXCEPT ![t] = [ses[t] EXCEPT !.phase = "done", !.exit = "one"]]
      BY <1>3 DEF Exit
    <2>2. [ses[t] EXCEPT !.phase = "done", !.exit = "one"] \in Session
      BY <1>1 DEF Session, Phases
    <2>3. QED
      BY <1>1, <1>3, <2>1, <2>2, OutsideStep DEF Session, Before
  <1>4. QED
    BY <1>2, <1>3 DEF AcquireLock

LEMMA SnapshotStep == ASSUME SessionInv, NEW t \in Tools, Snapshot(t) PROVE SessionInv'
  <1> DEFINE r == [ses[t] EXCEPT !.phase = "guard", !.snapped = TRUE, !.orig = config]
  <1>1. /\ ses[t].phase = "snapshot" /\ ses[t] \in Session /\ lock = t
        /\ UNCHANGED <<plan, found, mislaid, config, live, lock>>
    BY DEF Snapshot, In, Inside, Fixed, KeepHost, device, SessionInv, Typed, OneHolder
  <1>2. /\ r \in Session /\ r.phase = "guard" /\ r.snapped /\ r.orig = config
    BY <1>1 DEF Session, Phases, Inside, Wired, SessionInv, Typed
  <1> HIDE DEF r
  <1>3. ses' = [ses EXCEPT ![t] = r]
    BY DEF Snapshot, r
  <1>4. Typed' /\ \A s \in Tools : ses'[s] = IF s = t THEN r ELSE ses[s]
    BY <1>1, <1>2, <1>3 DEF SessionInv, Typed
  <1>5. OneHolder' /\ SnapshotFirst'
    BY <1>1, <1>2, <1>4 DEF SessionInv, OneHolder, SnapshotFirst, Before, Inside, Wired
  <1>6. Custody'
    <2>1. ~mislaid => config = found
      BY <1>1 DEF SessionInv, Custody, SnapshotFirst, Inside, Wired
    <2>2. QED
      BY <1>1, <1>2, <1>4, <1>5, <2>1 DEF Custody, OneHolder
  <1>7. QED
    BY <1>1, <1>4, <1>5, <1>6, SessionAssumption DEF SessionInv, ConfigHandedBack

(* What a session does while it only looks on: the next phase, a shorter      *)
(* wait, or the way out.                                                     *)
LEMMA Looking ==
    ASSUME SessionInv, NEW t \in Tools, NEW phase \in Inside \ {"release"},
           ses[t].phase \in Inside, Go(t, phase),
           phase \in Wired => ses[t].snapped,
           phase \in {"info", "snapshot"} => ~ses[t].snapped,
           phase \in Wired \/ config' = config,
           config' \in Settings, live' \in Settings,
           UNCHANGED <<plan, found, lock, mislaid>>
    PROVE  SessionInv'
  <1> DEFINE r == [ses[t] EXCEPT !.phase = phase]
  <1>1. r \in Session /\ ses' = [ses EXCEPT ![t] = r]
    BY DEF Go, SessionInv, Typed, Session, Phases
  <1>2. r.phase = phase /\ r.snapped = ses[t].snapped /\ r.orig = ses[t].orig
    BY DEF SessionInv, Typed, Session
  <1> HIDE DEF r
  <1>3. QED
    BY <1>1, <1>2, InsideStep

LEMMA Waiting ==
    ASSUME SessionInv, NEW t \in Tools, NEW left \in Nat, NEW phase \in Wired, NEW idle \in BOOLEAN,
           ses[t].phase \in Wired,
           ses' = [ses EXCEPT ![t] = [ses[t] EXCEPT !.phase = phase, !.left = left, !.idle = idle]],
           UNCHANGED <<plan, found, lock, mislaid, config, live>>
    PROVE  SessionInv'
  <1> DEFINE r == [ses[t] EXCEPT !.phase = phase, !.left = left, !.idle = idle]
  <1>1. r \in Session
    BY DEF SessionInv, Typed, Session, Phases, Inside
  <1>2. /\ r.phase = phase /\ r.snapped = ses[t].snapped /\ r.orig = ses[t].orig
    BY DEF SessionInv, Typed, Session
  <1>3. ses[t].snapped /\ config' \in Settings /\ live' \in Settings
    BY DEF SessionInv, SnapshotFirst, Typed
  <1>4. /\ ses[t].phase \in Inside /\ phase \in Inside /\ phase \notin {"release", "info", "snapshot"}
    BY DEF Inside, Wired
  <1> HIDE DEF r
  <1>5. ses' = [ses EXCEPT ![t] = r]
    BY DEF r
  <1>6. QED
    BY <1>1, <1>2, <1>3, <1>4, <1>5, InsideStep

LEMMA Failing ==
    ASSUME SessionInv, NEW t \in Tools, ses[t].phase \in Inside, Fail(t),
           UNCHANGED <<plan, found, lock, mislaid, config, live>>
    PROVE  SessionInv'
  <1> DEFINE r == [ses[t] EXCEPT !.phase = "finally", !.exit = "one"]
  <1>1. r \in Session /\ ses' = [ses EXCEPT ![t] = r]
    BY DEF Fail, SessionInv, Typed, Session, Phases, Inside
  <1>2. r.phase = "finally" /\ r.snapped = ses[t].snapped /\ r.orig = ses[t].orig
    BY DEF SessionInv, Typed, Session
  <1>3. config' \in Settings /\ live' \in Settings
    BY DEF SessionInv, Typed
  <1> HIDE DEF r
  <1>4. QED
    BY <1>1, <1>2, <1>3, InsideStep DEF Inside, Wired

(* A write leaves a configuration.                                            *)
LEMMA Written ==
    ASSUME SessionInv, NEW c \in Settings, NEW l \in Settings, Write(c, l)
    PROVE  config' = c /\ config' \in Settings /\ live' \in Settings
  BY DEF Write, SessionInv, Typed

LEMMA TurboWritten ==
    ASSUME SessionInv, NEW mhz \in Nat, WriteTurbo(mhz)
    PROVE  config' \in Settings /\ live' \in Settings
  <1>1. /\ [config EXCEPT !.turbo = mhz] \in Settings
        /\ [live EXCEPT !.turbo = mhz] \in Settings
    BY DEF SessionInv, Typed, Settings
  <1>2. QED
    BY <1>1, Written DEF WriteTurbo

LEMMA ReuWritten ==
    ASSUME SessionInv, NEW on \in BOOLEAN, WriteReu(on)
    PROVE  config' \in Settings /\ live' \in Settings
  <1>1. /\ [config EXCEPT !.reu = on] \in Settings
        /\ [live EXCEPT !.reu = on] \in Settings
    BY DEF SessionInv, Typed, Settings
  <1>2. QED
    BY <1>1, Written DEF WriteReu

-----------------------------------------------------------------------------
(* Everything between the snapshot and the finally block.                     *)
LEMMA QuietStep ==
    ASSUME SessionInv, NEW t \in Tools,
           GetInfo(t) \/ Guard(t) \/ Reboot(t) \/ ClearScreen(t) \/ Scrub(t)
    PROVE  SessionInv'
  <1>1. /\ UNCHANGED <<plan, found, lock, mislaid, config, live>>
        /\ config' \in Settings /\ live' \in Settings
    BY DEF GetInfo, Guard, Reboot, ClearScreen, Scrub, Fixed, KeepHost, device, SessionInv, Typed
  <1>2. CASE GetInfo(t)
    <2>1. ses[t].phase = "info" /\ Go(t, "snapshot") /\ ~ses[t].snapped
      BY <1>2 DEF GetInfo, In, SessionInv, SnapshotFirst
    <2>2. QED
      BY <1>1, <2>1, Looking DEF Inside, Wired
  <1>3. CASE Fail(t) /\ ses[t].phase = "guard"
    BY <1>1, <1>3, Failing DEF Inside, Wired
  <1>4. ASSUME NEW phase \in Wired, Go(t, phase), ses[t].phase \in Wired
        PROVE  SessionInv'
    <2>1. ses[t].snapped /\ phase \in Inside \ {"release", "info", "snapshot"} /\ ses[t].phase \in Inside
      BY <1>4 DEF SessionInv, SnapshotFirst, Inside, Wired
    <2>2. QED
      BY <1>1, <1>4, <2>1, Looking
  <1>5. CASE Guard(t)
    <2>1. ses[t].phase = "guard" /\ (Fail(t) \/ Go(t, "reboot"))
      BY <1>5 DEF Guard, In
    <2>2. QED
      BY <1>3, <1>4, <2>1 DEF Wired
  <1>6. CASE Reboot(t)
    <2>1. ses[t].phase = "reboot" /\ Go(t, "settle")
      BY <1>6 DEF Reboot, In
    <2>2. QED
      BY <1>4, <2>1 DEF Wired
  <1>7. CASE ClearScreen(t)
    <2>1. ses[t].phase = "clear" /\ Go(t, "run_prg")
      BY <1>7 DEF ClearScreen, In
    <2>2. QED
      BY <1>4, <2>1 DEF Wired
  <1>8. CASE Scrub(t)
    <2>1. ses[t].phase = "scrub" /\ Go(t, "hijack")
      BY <1>8 DEF Scrub, In
    <2>2. QED
      BY <1>4, <2>1 DEF Wired
  <1>9. QED
    BY <1>2, <1>5, <1>6, <1>7, <1>8

(* The waits: each try shortens what is left, and a deadline fails.           *)
LEMMA WaitStep ==
    ASSUME SessionInv, NEW t \in Tools,
           SettleFloor(t) \/ WaitReady(t) \/ RunPrg(t) \/ WaitBanner(t) \/ WaitSentinel(t) \/ Hijack(t)
    PROVE  SessionInv'
  <1>1. /\ UNCHANGED <<plan, found, lock, mislaid, config, live>>
        /\ ses[t].phase \in Wired /\ ses[t] \in Session
        /\ ses \in [Tools -> Session]
    BY DEF SettleFloor, WaitReady, RunPrg, WaitBanner, WaitSentinel, Hijack, In, Fixed, KeepHost,
           device, Wired, SessionInv, Typed
  <1>2. CASE Fail(t)
    BY <1>1, <1>2, Failing DEF Inside
  <1>3. ASSUME NEW phase \in Wired, NEW left \in Nat, NEW idle \in BOOLEAN,
               ses' = [ses EXCEPT ![t] = [ses[t] EXCEPT !.phase = phase, !.left = left, !.idle = idle]]
        PROVE  SessionInv'
    BY <1>1, <1>3, Waiting
  <1>4. ASSUME NEW phase \in Wired, Go(t, phase)
        PROVE  SessionInv'
    <2>1. ses' = [ses EXCEPT ![t] = [ses[t] EXCEPT !.phase = phase, !.left = ses[t].left,
                                                   !.idle = ses[t].idle]]
      BY <1>1, <1>4 DEF Go, Session
    <2>2. QED
      BY <1>1, <1>3, <2>1 DEF Session
  <1>5. ASSUME NEW phase \in Wired, Await(t, phase)
        PROVE  SessionInv'
    <2>1. ses' = [ses EXCEPT ![t] = [ses[t] EXCEPT !.phase = phase, !.left = MaxPolls,
                                                   !.idle = ses[t].idle]]
      BY <1>1, <1>5 DEF Await, Session
    <2>2. QED
      BY <1>1, <1>3, <2>1, SessionAssumption DEF Session
  <1>6. ASSUME ses[t].left > 0, ses' = [ses EXCEPT ![t].left = @ - 1]
        PROVE  SessionInv'
    <2>1. ses' = [ses EXCEPT ![t] = [ses[t] EXCEPT !.phase = ses[t].phase, !.left = ses[t].left - 1,
                                                   !.idle = ses[t].idle]]
      BY <1>1, <1>6 DEF Session
    <2>2. ses[t].left - 1 \in Nat
      BY <1>1, <1>6 DEF Session
    <2>3. QED
      BY <1>1, <1>3, <2>1, <2>2 DEF Session
  <1>7. CASE SettleFloor(t)
    BY <1>5, <1>7 DEF SettleFloor, Wired
  <1>8. CASE WaitReady(t)
    BY <1>2, <1>4, <1>6, <1>8 DEF WaitReady, Wired
  <1>9. CASE RunPrg(t)
    BY <1>2, <1>5, <1>9 DEF RunPrg, Wired
  <1>10. CASE WaitBanner(t)
    BY <1>2, <1>4, <1>6, <1>10 DEF WaitBanner, Wired
  <1>11. CASE WaitSentinel(t)
    BY <1>2, <1>4, <1>6, <1>11 DEF WaitSentinel, Wired
  <1>12. CASE Hijack(t)
    <2> DEFINE idle == cpu \in {"loop", "jmp_main_loop"}
    <2>1. ses' = [ses EXCEPT ![t] = [ses[t] EXCEPT !.phase = "poll", !.left = MaxPolls, !.idle = idle]]
      BY <1>1, <1>12 DEF Hijack, Session
    <2>2. idle \in BOOLEAN /\ MaxPolls \in Nat /\ "poll" \in Wired
      BY SessionAssumption DEF Wired
    <2> HIDE DEF idle
    <2>3. QED
      BY <1>3, <2>1, <2>2
  <1>13. QED
    BY <1>7, <1>8, <1>9, <1>10, <1>11, <1>12

(* The writes of the configuration.                                           *)
LEMMA WriteStep ==
    ASSUME SessionInv, NEW t \in Tools, SetReu(t) \/ InitTurbo(t)
    PROVE  SessionInv'
  <1>1. /\ UNCHANGED <<plan, found, lock, mislaid>>
        /\ ses[t].phase \in Wired /\ ses[t].snapped /\ ses[t].phase \in Inside
    BY DEF SetReu, InitTurbo, In, Fixed, KeepHost, Wired, Inside, SessionInv, SnapshotFirst
  <1>2. config' \in Settings /\ live' \in Settings
    <2>1. CASE SetReu(t)
      BY <2>1, ReuWritten DEF SetReu
    <2>2. CASE InitTurbo(t)
      BY <2>2, TurboWritten, SessionAssumption DEF InitTurbo
    <2>3. QED
      BY <2>1, <2>2
  <1>3. PICK phase \in {"init_turbo", "clear"} : Go(t, phase)
    BY DEF SetReu, InitTurbo
  <1>4. phase \in Wired /\ phase \in Inside \ {"release"} /\ phase \notin {"info", "snapshot"}
    BY <1>3 DEF Inside, Wired
  <1>5. QED
    BY <1>1, <1>2, <1>3, <1>4, Looking

(* The steps that change more of a session than its phase.                    *)
LEMMA RunStep ==
    ASSUME SessionInv, NEW t \in Tools, Install(t) \/ SetSpeed(t) \/ Record(t)
    PROVE  SessionInv'
  <1>1. /\ UNCHANGED <<plan, found, lock, mislaid>>
        /\ ses[t].phase \in Wired /\ ses[t].snapped /\ ses[t].phase \in Inside /\ ses[t] \in Session
        /\ config \in Settings /\ live \in Settings
    BY DEF Install, SetSpeed, Record, In, Fixed, KeepHost, Wired, Inside, SessionInv, SnapshotFirst, Typed
  <1>2. ASSUME NEW r \in Session, ses' = [ses EXCEPT ![t] = r],
               r.phase \in Wired \/ (r.phase = "finally" /\ config' = config),
               r.snapped = ses[t].snapped, r.orig = ses[t].orig,
               config' \in Settings, live' \in Settings
        PROVE  SessionInv'
    BY <1>1, <1>2, InsideStep DEF Inside, Wired
  <1>3. plan[t].speeds \subseteq Nat /\ InitMhz \in Nat
    BY SessionAssumption DEF SessionInv, Typed
  <1>4. CASE Install(t)
    <2> DEFINE todo == IF ses[t].stage = 3 THEN {InitMhz} ELSE plan[t].speeds
               r == [ses[t] EXCEPT !.phase = "speed", !.todo = todo]
    <2>1. todo \in SUBSET Nat
      BY <1>3
    <2>2. ses' = [ses EXCEPT ![t] = r] /\ UNCHANGED <<config, live>>
      BY <1>4 DEF Install
    <2> HIDE DEF todo
    <2>3. r \in Session /\ r.phase \in Wired /\ r.snapped = ses[t].snapped /\ r.orig = ses[t].orig
      BY <1>1, <2>1 DEF Session, Phases, Inside, Wired
    <2> HIDE DEF r
    <2>4. QED
      BY <1>1, <1>2, <2>2, <2>3
  <1>5. CASE SetSpeed(t)
    <2>1. PICK mhz \in ses[t].todo :
             /\ WriteTurbo(mhz)
             /\ ses' = [ses EXCEPT ![t].phase = "scrub", ![t].mhz = mhz]
      BY <1>5 DEF SetSpeed
    <2> DEFINE r == [ses[t] EXCEPT !.phase = "scrub", !.mhz = mhz]
    <2>2. mhz \in Nat
      BY <1>1 DEF Session
    <2>3. ses' = [ses EXCEPT ![t] = r]
      BY <2>1
    <2>4. r \in Session /\ r.phase \in Wired /\ r.snapped = ses[t].snapped /\ r.orig = ses[t].orig
      BY <1>1, <2>2 DEF Session, Phases, Inside, Wired
    <2>5. config' \in Settings /\ live' \in Settings
      BY <2>1, <2>2, TurboWritten
    <2> HIDE DEF r
    <2>6. QED
      BY <1>2, <2>3, <2>4, <2>5
  <1>6. CASE Record(t)
    <2>1. UNCHANGED <<config, live>>
      BY <1>6 DEF Record, device
    <2>2. CASE Fail(t)
      BY <1>1, <2>1, <2>2, Failing
    <2>3. CASE ses' = [ses EXCEPT ![t] = AfterRun(t)]
      <3>1. /\ AfterRun(t) \in Session
            /\ AfterRun(t).phase \in Wired \cup {"finally"}
            /\ AfterRun(t).snapped = ses[t].snapped /\ AfterRun(t).orig = ses[t].orig
        <4> DEFINE r1 == [ses[t] EXCEPT !.phase = "speed", !.todo = @ \ {ses[t].mhz}]
                   r2 == [ses[t] EXCEPT !.phase = "init_turbo", !.stage = 2]
                   r3 == [ses[t] EXCEPT !.phase = "reboot", !.stage = 3]
                   r4 == [ses[t] EXCEPT !.phase = "finally", !.exit = "zero"]
        <4>1. ses[t].todo \ {ses[t].mhz} \in SUBSET Nat
          BY <1>1 DEF Session
        <4>2. r1 \in Session /\ r2 \in Session /\ r3 \in Session /\ r4 \in Session
          BY <1>1, <4>1 DEF Session, Phases, Inside, Wired
        <4>3. AfterRun(t) = r1 \/ AfterRun(t) = r2 \/ AfterRun(t) = r3 \/ AfterRun(t) = r4
          BY DEF AfterRun
        <4>4. /\ r1.phase = "speed" /\ r2.phase = "init_turbo" /\ r3.phase = "reboot"
              /\ r4.phase = "finally"
          BY <1>1 DEF Session
        <4>5. /\ r1.snapped = ses[t].snapped /\ r1.orig = ses[t].orig
              /\ r2.snapped = ses[t].snapped /\ r2.orig = ses[t].orig
              /\ r3.snapped = ses[t].snapped /\ r3.orig = ses[t].orig
              /\ r4.snapped = ses[t].snapped /\ r4.orig = ses[t].orig
          BY <1>1 DEF Session
        <4> HIDE DEF r1, r2, r3, r4
        <4>6. QED
          BY <4>2, <4>3, <4>4, <4>5 DEF Wired
      <3>2. QED
        BY <1>1, <1>2, <2>1, <2>3, <3>1
    <2>4. QED
      BY <1>6, <2>2, <2>3 DEF Record
  <1>7. QED
    BY <1>4, <1>5, <1>6

LEMMA RaiseStep == ASSUME SessionInv, NEW t \in Tools, Raise(t) PROVE SessionInv'
  <1>1. ses[t].phase \in Inside
    BY DEF Raise, Guarded, Inside, Wired
  <1>2. QED
    BY <1>1, Failing DEF Raise, Fixed, KeepHost, device

-----------------------------------------------------------------------------
(* The finally block.                                                        *)
LEMMA RestoreStep == ASSUME SessionInv, NEW t \in Tools, RestoreState(t) PROVE SessionInv'
  <1> DEFINE r == [ses[t] EXCEPT !.phase = "release"]
  <1>1. /\ UNCHANGED <<plan, found, lock>> /\ ses[t].phase = "finally" /\ lock = t
        /\ ses[t] \in Session /\ ses[t].orig \in Settings
    BY DEF RestoreState, In, Fixed, Inside, SessionInv, Typed, OneHolder, Session
  <1>2. ses' = [ses EXCEPT ![t] = r]
    BY DEF RestoreState, Go
  <1>3. r \in Session /\ r.phase = "release" /\ r.snapped = ses[t].snapped /\ r.orig = ses[t].orig
    BY <1>1 DEF Session, Phases, Inside
  <1> HIDE DEF r
  <1>4. /\ config' \in Settings /\ live' \in Settings
        /\ ~mislaid' => ~mislaid /\ config' = found
    <2>1. CASE ses[t].snapped /\ Write(ses[t].orig, ses[t].orig) /\ mislaid' = mislaid
      BY <1>1, <2>1, Written DEF SessionInv, Custody, Inside
    <2>2. CASE mislaid' = TRUE /\ UNCHANGED <<config, live>>
      BY <2>2 DEF SessionInv, Typed
    <2>3. CASE ~ses[t].snapped /\ UNCHANGED <<config, live, mislaid>>
      BY <1>1, <2>3 DEF SessionInv, Typed, Custody, Inside
    <2>4. QED
      BY <2>1, <2>2, <2>3 DEF RestoreState
  <1>5. Typed' /\ \A s \in Tools : ses'[s] = IF s = t THEN r ELSE ses[s]
    BY <1>1, <1>2, <1>3, <1>4 DEF SessionInv, Typed
  <1>6. OneHolder' /\ SnapshotFirst'
    BY <1>1, <1>3, <1>5 DEF SessionInv, OneHolder, SnapshotFirst, Before, Inside, Wired
  <1>7. Custody'
    <2>1. ~mislaid' /\ ses[t].snapped => ses[t].orig = found
      BY <1>1, <1>4 DEF SessionInv, Custody, Inside
    <2>2. QED
      BY <1>1, <1>3, <1>4, <1>5, <1>6, <2>1 DEF Custody, OneHolder
  <1>8. QED
    BY <1>1, <1>5, <1>6, <1>7, SessionAssumption DEF SessionInv, ConfigHandedBack

LEMMA ReleaseStep == ASSUME SessionInv, NEW t \in Tools, Release(t) PROVE SessionInv'
  <1>0. PICK code \in {"one", ses[t].exit} : Exit(t, code)
    BY DEF Release
  <1> DEFINE r == [ses[t] EXCEPT !.phase = "done", !.exit = code]
  <1>1. /\ UNCHANGED <<plan, found, mislaid, config, live>> /\ ses[t].phase = "release"
        /\ lock = t /\ lock' = Nobody /\ ses[t] \in Session
    BY DEF Release, In, Fixed, device, Inside, SessionInv, Typed, OneHolder
  <1>2. ses' = [ses EXCEPT ![t] = r]
    BY <1>0 DEF Exit
  <1>3. r \in Session /\ r.phase = "done"
    BY <1>0, <1>1 DEF Session, Phases
  <1> HIDE DEF r
  <1>4. Typed' /\ \A s \in Tools : ses'[s] = IF s = t THEN r ELSE ses[s]
    BY <1>1, <1>2, <1>3 DEF SessionInv, Typed
  <1>5. \A s \in Tools : ses'[s].phase \notin Inside /\ lock' # s
    BY <1>1, <1>3, <1>4, SessionAssumption DEF SessionInv, OneHolder, Inside, Wired
  <1>6. SnapshotFirst'
    BY <1>1, <1>3, <1>4 DEF SessionInv, SnapshotFirst, Before, Wired
  <1>7. ConfigHandedBack'
    BY <1>1 DEF SessionInv, Custody, ConfigHandedBack, Inside
  <1>8. QED
    BY <1>4, <1>5, <1>6, <1>7 DEF SessionInv, OneHolder, Custody

LEMMA StepSession == SessionInv /\ [Next]_vars => SessionInv'
  <1> SUFFICES ASSUME SessionInv, [Next]_vars PROVE SessionInv'
    OBVIOUS
  <1>1. CASE C64
    BY <1>1, DeviceStep
    DEF C64, ResetEnds, Boot, Initialised, LeaveLoop, TrampolineStep, host
  <1>2. CASE AllDone \/ UNCHANGED vars
    BY <1>2, DeviceStep DEF AllDone, vars
  <1>3. ASSUME NEW t \in Tools, Step(t)
        PROVE  SessionInv'
    <2>1. CASE BuildPrgs(t) \/ CheckFiles(t) \/ Probe(t)
      BY <2>1, BuildStep
    <2>2. CASE AcquireLock(t)
      BY <2>2, LockStep
    <2>3. CASE Snapshot(t)
      BY <2>3, SnapshotStep
    <2>4. CASE GetInfo(t) \/ Guard(t) \/ Reboot(t) \/ ClearScreen(t) \/ Scrub(t)
      BY <2>4, QuietStep
    <2>5. CASE \/ SettleFloor(t) \/ WaitReady(t) \/ RunPrg(t) \/ WaitBanner(t)
               \/ WaitSentinel(t) \/ Hijack(t)
      BY <2>5, WaitStep
    <2>6. CASE SetReu(t) \/ InitTurbo(t)
      BY <2>6, WriteStep
    <2>7. CASE Install(t) \/ SetSpeed(t) \/ Record(t)
      BY <2>7, RunStep
    <2>8. CASE RestoreState(t)
      BY <2>8, RestoreStep
    <2>9. CASE Release(t)
      BY <2>9, ReleaseStep
    <2>10. QED
      BY <1>3, <2>1, <2>2, <2>3, <2>4, <2>5, <2>6, <2>7, <2>8, <2>9 DEF Step
  <1>4. ASSUME NEW t \in Tools, Raise(t)
        PROVE  SessionInv'
    BY <1>4, RaiseStep
  <1>5. QED
    BY <1>1, <1>2, <1>3, <1>4 DEF Next

(* The inductive invariant of the sessions: one holder, a snapshot before the *)
(* first write, custody of the configuration found.                          *)
THEOREM SessionInvariance == FairSpec => []SessionInv
  BY InitSession, StepSession, PTL DEF FairSpec

(* A free device has the configuration it was found in, unless a restore      *)
(* itself failed.                                                            *)
THEOREM HandedBack == FairSpec => []ConfigHandedBack
  BY SessionInvariance, PTL DEF SessionInv

(* No two sessions are between the lock and its release.                      *)
THEOREM Exclusion ==
    FairSpec => [](\A s, t \in Tools :
                     ses[s].phase \in Inside /\ ses[t].phase \in Inside => s = t)
  <1>1. SessionInv => \A s, t \in Tools :
                        ses[s].phase \in Inside /\ ses[t].phase \in Inside => s = t
    BY DEF SessionInv, OneHolder
  <1>2. QED
    BY <1>1, SessionInvariance, PTL

-----------------------------------------------------------------------------
(***************************************************************************)
(* What the holder of the lock may rely on, phase by phase: where the C64   *)
(* is, what is in its memory, and under which configuration it runs.  The   *)
(* steps of the C64 and of the host interleave in between.                  *)
(***************************************************************************)
Timed == {"speed", "scrub", "hijack", "poll", "oracle"}

Timing == [prog : Programs \cup {"none"}, mhz : Nat, reu : BOOLEAN, blanked : BOOLEAN]

Memory == [prog : Programs \cup {"none"}, tables : BOOLEAN, banner : BOOLEAN, shim : BOOLEAN,
           tramp : Programs \cup {"none"}, hijacked : BOOLEAN, sentinel : BOOLEAN, scalar : BOOLEAN,
           result : {"junk", "right"}, cycles : Timing, fresh : BOOLEAN, blanked : BOOLEAN]

Places == {"vic_blank", "bench_cycles_start", "x25519_base", "bench_cycles_stop", "vic_unblank",
           "restore_operand", "set_sentinel", "jmp_main_loop"}

Idling == cpu \in {"loop", "jmp_main_loop"}

\* Nothing left in memory by whoever came before sends the C64 astray: the
\* idle loop leads only into a trampoline of the program that is running.
Tame ==
  /\ cpu \in {"reset", "basic", "boot", "init", "loop"} \cup Places
  /\ cpu \in {"boot", "init"} => ~mem.hijacked
  /\ cpu \in {"loop"} \cup Places /\ mem.hijacked => mem.shim /\ mem.tramp = mem.prog

Conditions(t) == [prog |-> Program(ses[t].stage), mhz |-> ses[t].mhz,
                  reu |-> ses[t].stage # 3, blanked |-> TRUE]

Timely(t) == mem.cycles = Conditions(t) /\ mem.fresh /\ mem.result = "right"

Finished(t) == Idling /\ ~mem.hijacked /\ ~mem.blanked /\ Timely(t)

\* One run through the trampoline, place by place.
Running(t) ==
  /\ cpu \in {"loop"} \cup Places
  /\ mem.sentinel => Finished(t)
  /\ ~mem.sentinel =>
       /\ mem.hijacked <=> cpu # "set_sentinel"
       /\ mem.blanked <=> cpu \in {"bench_cycles_start", "x25519_base", "bench_cycles_stop", "vic_unblank"}
       /\ cpu \in {"x25519_base", "bench_cycles_stop"} => clock = Conditions(t)
       /\ cpu = "bench_cycles_stop" => mem.result = "right"
       /\ cpu \in {"vic_unblank", "restore_operand", "set_sentinel"} => Timely(t)

\* No program of this session runs yet, and none of an earlier one can start.
Quiet == ~mem.blanked /\ (cpu = "basic" \/ (Idling /\ ~mem.hijacked))

Booting(t) ==
  /\ mem.prog = Program(ses[t].stage) /\ ~mem.hijacked /\ ~mem.blanked
  /\ cpu \in {"boot", "init", "loop"}
  /\ mem.banner => cpu = "loop" /\ mem.tables

Prepared(t) ==
  /\ In(t, "settle") => cpu = "reset" \/ (cpu = "basic" /\ ~mem.blanked)
  /\ ses[t].phase \in {"ready", "set_reu", "init_turbo", "clear", "run_prg"} => Quiet
  /\ In(t, "run_prg") => ~mem.banner
  /\ In(t, "banner") => Booting(t)

Equipped(t) ==
  /\ ses[t].phase \in {"install", "speed", "scrub", "hijack"} => Idling /\ ~mem.hijacked /\ ~mem.blanked
  /\ ses[t].phase \in {"install"} \cup Timed => mem.prog = Program(ses[t].stage) /\ mem.tables
  /\ ses[t].phase \in Timed => mem.shim /\ mem.tramp = mem.prog /\ mem.scalar

Configured(t) ==
  /\ ses[t].phase \in {"init_turbo", "clear", "run_prg", "banner", "install"} \cup Timed =>
       (live.reu <=> ses[t].stage # 3)
  /\ ses[t].phase \in Timed \ {"speed"} => live.turbo = ses[t].mhz

Measuring(t) ==
  /\ In(t, "hijack") => ~mem.sentinel
  /\ ses[t].phase \in {"poll", "oracle"} => ses[t].idle
  /\ In(t, "poll") => Running(t)
  /\ In(t, "oracle") => Finished(t)

Guided(t) == ses[t].stage \in 1 .. 3 /\ Prepared(t) /\ Equipped(t) /\ Configured(t) /\ Measuring(t)

DeviceInv == mem \in Memory /\ clock \in Timing /\ Tame /\ \A t \in Tools : Guided(t)

(***************************************************************************)
(* What a session has in its table so far.                                  *)
(***************************************************************************)
Row == [profile : {"default", "onchip", "onchip-noreu"}, mhz : Nat, cycles : Timing, idle : BOOLEAN]

Requested(t, k) == IF k = 3 THEN {InitMhz} ELSE plan[t].speeds

Recorded(t, k) == {r.mhz : r \in {q \in recs[t] : q.profile = Profiles[k]}}

Done(t, k) ==
  IF k < ses[t].stage THEN Requested(t, k)
  ELSE IF k = ses[t].stage /\ ses[t].phase \in Timed THEN Requested(t, k) \ ses[t].todo ELSE {}

Going == Before \cup {"info", "snapshot"} \cup Wired

Filled(t) ==
  /\ ses[t].stage = 3 => plan[t].stock
  /\ ses[t].phase \in Going => ses[t].exit = "running"
  /\ ses[t].phase \in Timed \ {"speed"} => ses[t].mhz \in ses[t].todo
  /\ ses[t].phase \in Timed => ses[t].todo \subseteq Requested(t, ses[t].stage)
  /\ ses[t].exit = "running" => \A k \in 1 .. 3 : Recorded(t, k) = Done(t, k)
  /\ ses[t].exit = "zero" =>
       \A k \in 1 .. 3 : Recorded(t, k) = IF k = 3 /\ ~plan[t].stock THEN {} ELSE Requested(t, k)

TableInv == recs \in [Tools -> SUBSET Row] /\ \A t \in Tools : Filled(t)

(***************************************************************************)
(* Steps of the C64.                                                        *)
(***************************************************************************)
LEMMA TrampolinePlaces ==
  /\ Range(Trampoline) = Places /\ DOMAIN Trampoline = 1 .. 8 /\ Len(Trampoline) = 8
  /\ Trampoline[1] = "vic_blank" /\ Trampoline[2] = "bench_cycles_start" /\ Trampoline[3] = "x25519_base"
  /\ Trampoline[4] = "bench_cycles_stop" /\ Trampoline[5] = "vic_unblank"
  /\ Trampoline[6] = "restore_operand" /\ Trampoline[7] = "set_sentinel" /\ Trampoline[8] = "jmp_main_loop"
<1>1. DOMAIN Trampoline = 1 .. 8 /\ Len(Trampoline) = 8
  BY DEF Trampoline
<1>2. /\ Trampoline[1] = "vic_blank" /\ Trampoline[2] = "bench_cycles_start" /\ Trampoline[3] = "x25519_base"
      /\ Trampoline[4] = "bench_cycles_stop" /\ Trampoline[5] = "vic_unblank"
      /\ Trampoline[6] = "restore_operand" /\ Trampoline[7] = "set_sentinel" /\ Trampoline[8] = "jmp_main_loop"
  BY DEF Trampoline
<1>3. \A k \in 1 .. 8 : k = 1 \/ k = 2 \/ k = 3 \/ k = 4 \/ k = 5 \/ k = 6 \/ k = 7 \/ k = 8
  OBVIOUS
<1>4. Range(Trampoline) = Places
  BY <1>1, <1>2, <1>3 DEF Range, Places
<1> QED  BY <1>1, <1>2, <1>4

LEMMA TrampolineMoves ==
  ASSUME TrampolineStep
  PROVE  /\ cpu \in Places
         /\ cpu = "vic_blank" => cpu' = "bench_cycles_start"
         /\ cpu = "bench_cycles_start" => cpu' = "x25519_base"
         /\ cpu = "x25519_base" => cpu' = "bench_cycles_stop"
         /\ cpu = "bench_cycles_stop" => cpu' = "vic_unblank"
         /\ cpu = "vic_unblank" => cpu' = "restore_operand"
         /\ cpu = "restore_operand" => cpu' = "set_sentinel"
         /\ cpu = "set_sentinel" => cpu' = "jmp_main_loop"
         /\ cpu = "jmp_main_loop" => cpu' = "loop"
<1>1. PICK k \in 1 .. 8 : /\ Trampoline[k] = cpu
                          /\ cpu' = IF k = 8 THEN "loop" ELSE Trampoline[k + 1]
  BY TrampolinePlaces DEF TrampolineStep
<1>2. cpu \in Places
  BY TrampolinePlaces DEF TrampolineStep
<1>3. k = 1 \/ k = 2 \/ k = 3 \/ k = 4 \/ k = 5 \/ k = 6 \/ k = 7 \/ k = 8
  OBVIOUS
<1> QED  BY <1>1, <1>2, <1>3, TrampolinePlaces

LEMMA ResetStep == ASSUME DeviceInv, ResetEnds PROVE DeviceInv'
<1>1. /\ cpu = "reset" /\ cpu' = "basic" /\ mem \in Memory
      /\ mem' = [mem EXCEPT !.banner = FALSE, !.blanked = FALSE]
      /\ UNCHANGED <<live, clock, ses>>
  BY DEF ResetEnds, DeviceInv, host
<1>2. mem' \in Memory /\ ~mem'.banner /\ ~mem'.blanked /\ mem'.hijacked = mem.hijacked
  BY <1>1 DEF Memory
<1>3. ASSUME NEW t \in Tools
      PROVE  Guided(t)'
  <2>1. Guided(t)
    BY DEF DeviceInv
  <2> QED  BY <1>1, <1>2, <2>1
       DEF Guided, Prepared, Equipped, Configured, Measuring, In, Timed, Quiet, Booting, Idling,
           Running, Finished, Places
<1> QED  BY <1>1, <1>2, <1>3 DEF DeviceInv, Tame, Places


LEMMA BootStep == ASSUME DeviceInv, Boot PROVE DeviceInv'
<1>1. /\ cpu = "boot" /\ cpu' = "init" /\ mem \in Memory
      /\ mem' = [mem EXCEPT !.banner = FALSE]
      /\ UNCHANGED <<live, clock, ses>>
  BY DEF Boot, DeviceInv, host
<1>2. /\ mem' \in Memory /\ ~mem'.banner /\ mem'.hijacked = mem.hijacked /\ mem'.blanked = mem.blanked
      /\ mem'.prog = mem.prog
  BY <1>1 DEF Memory
<1>3. ASSUME NEW t \in Tools
      PROVE  Guided(t)'
  <2>1. Guided(t)
    BY DEF DeviceInv
  <2> QED  BY <1>1, <1>2, <2>1
       DEF Guided, Prepared, Equipped, Configured, Measuring, In, Timed, Quiet, Booting, Idling,
           Running, Finished, Places
<1> QED  BY <1>1, <1>2, <1>3 DEF DeviceInv, Tame, Places

LEMMA InitialisedStep == ASSUME DeviceInv, Initialised PROVE DeviceInv'
<1> DEFINE tables == mem.prog = "onchip" \/ live.reu
<1>1. /\ cpu = "init" /\ cpu' = "loop" /\ mem \in Memory /\ ~mem.hijacked
      /\ mem' = [mem EXCEPT !.tables = tables, !.banner = TRUE]
      /\ UNCHANGED <<live, clock, ses>>
  BY DEF Initialised, DeviceInv, host, Tame
<1>2. tables \in BOOLEAN
  OBVIOUS
<1> HIDE DEF tables
<1>3. /\ mem' \in Memory /\ mem'.tables = tables
      /\ mem'.hijacked = mem.hijacked /\ mem'.blanked = mem.blanked
      /\ mem'.prog = mem.prog
  BY <1>1, <1>2 DEF Memory
<1>4. ASSUME NEW t \in Tools
      PROVE  Guided(t)'
  <2>1. Guided(t)
    BY DEF DeviceInv
  <2>2. In(t, "banner") => tables
    BY <2>1 DEF Guided, Prepared, Booting, Configured, Program, tables, In
  <2> QED  BY <1>1, <1>3, <2>1, <2>2
       DEF Guided, Prepared, Equipped, Configured, Measuring, In, Timed, Quiet, Booting, Idling,
           Running, Finished, Places
<1> QED  BY <1>1, <1>3, <1>4 DEF DeviceInv, Tame, Places

LEMMA LeaveLoopStep == ASSUME DeviceInv, LeaveLoop PROVE DeviceInv'
<1>1. /\ cpu = "loop" /\ mem.hijacked /\ mem.shim /\ mem.tramp = mem.prog /\ mem \in Memory
      /\ UNCHANGED <<live, mem, clock, ses>>
  BY DEF LeaveLoop, DeviceInv, host, Tame
<1>2. cpu' = "vic_blank"
  BY <1>1, TrampolinePlaces DEF LeaveLoop
<1>3. ASSUME NEW t \in Tools
      PROVE  Guided(t)'
  <2>1. Guided(t)
    BY DEF DeviceInv
  <2>2. In(t, "poll") /\ mem.sentinel => ~mem.hijacked
    BY <2>1 DEF Guided, Measuring, Running, Finished
  <2> QED  BY <1>1, <1>2, <2>1, <2>2
       DEF Guided, Prepared, Equipped, Configured, Measuring, In, Timed, Quiet, Booting, Idling,
           Running, Finished, Places
<1> QED  BY <1>1, <1>2, <1>3 DEF DeviceInv, Tame, Places

\* A place of the trampoline is passed only while the session that sent the
\* C64 there polls, or when no session is under way that relies on the C64.
LEMMA OnlyPolling ==
  ASSUME DeviceInv, NEW t \in Tools, cpu \in Places \ {"jmp_main_loop"}
  PROVE  (In(t, "poll") /\ ~mem.sentinel) \/ ses[t].phase \notin Wired \ {"guard", "reboot"}
<1>1. Guided(t)
  BY DEF DeviceInv
<1> QED  BY <1>1 DEF Guided, Prepared, Equipped, Measuring, Quiet, Booting, Idling, Running, Finished,
                     In, Wired, Places

LEMMA TrampolineStepInv == ASSUME SessionInv, DeviceInv, TrampolineStep PROVE DeviceInv'
<1>1. /\ mem \in Memory /\ clock \in Timing /\ Tame /\ cpu \in Places
      /\ UNCHANGED <<live, ses>> /\ live \in Settings /\ ses \in [Tools -> Session]
  BY TrampolineMoves DEF TrampolineStep, DeviceInv, host, SessionInv, Typed
<1>2. CASE cpu = "jmp_main_loop"
  <2>1. cpu' = "loop" /\ mem' = mem /\ clock' = clock
    BY <1>2, TrampolineMoves DEF TrampolineStep
  <2>2. ASSUME NEW t \in Tools
        PROVE  Guided(t)'
    <3>1. Guided(t)
      BY DEF DeviceInv
    <3> QED  BY <1>1, <1>2, <2>1, <3>1
         DEF Guided, Prepared, Equipped, Configured, Measuring, In, Timed, Quiet, Booting, Idling,
             Running, Finished, Timely, Conditions, Places
  <2> QED  BY <1>1, <1>2, <2>1, <2>2 DEF DeviceInv, Tame, Places
<1>3. ASSUME cpu # "jmp_main_loop", cpu' \in Places, mem' \in Memory, clock' \in Timing,
             mem'.hijacked => mem.hijacked, mem'.shim = mem.shim, mem'.tramp = mem.tramp,
             mem'.prog = mem.prog, mem'.tables = mem.tables, mem'.scalar = mem.scalar,
             \A t \in Tools : In(t, "poll") /\ Guided(t) /\ ~mem.sentinel => Running(t)'
      PROVE  DeviceInv'
  <2>1. ASSUME NEW t \in Tools
        PROVE  Guided(t)'
    <3>1. Guided(t) /\ ses'[t] = ses[t] /\ ses[t].stage \in 1 .. 3
      BY <1>1 DEF DeviceInv, Guided
    <3>2. CASE In(t, "poll") /\ ~mem.sentinel
      BY <1>1, <1>3, <3>1, <3>2 DEF Guided, Prepared, Equipped, Configured, Measuring, In, Timed
    <3>3. CASE ses[t].phase \notin Wired \ {"guard", "reboot"}
      BY <3>1, <3>3 DEF Guided, Prepared, Equipped, Configured, Measuring, In, Timed, Wired
    <3> QED  BY <1>1, <1>3, <3>2, <3>3, OnlyPolling
  <2>2. Tame'
    BY <1>1, <1>3 DEF Tame, Places
  <2> QED  BY <1>3, <2>1, <2>2 DEF DeviceInv
<1>4. CASE cpu = "vic_blank"
  <2>1. cpu' = "bench_cycles_start" /\ mem' = [mem EXCEPT !.blanked = TRUE] /\ clock' = clock
    BY <1>4, TrampolineMoves DEF TrampolineStep
  <2>2. mem' \in Memory /\ mem'.blanked /\ mem'.hijacked = mem.hijacked /\ mem'.sentinel = mem.sentinel
    BY <1>1, <2>1 DEF Memory
  <2>3. ASSUME NEW t \in Tools, In(t, "poll"), Guided(t), ~mem.sentinel
        PROVE  Running(t)'
    BY <1>1, <1>4, <2>1, <2>2, <2>3 DEF Guided, Measuring, Running, Places
  <2> QED  BY <1>1, <1>3, <1>4, <2>1, <2>2, <2>3 DEF Places, Memory
<1>5. CASE cpu = "bench_cycles_start"
  <2>1. /\ cpu' = "x25519_base" /\ mem' = mem
        /\ clock' = [prog |-> mem.prog, mhz |-> live.turbo, reu |-> live.reu, blanked |-> mem.blanked]
    BY <1>5, TrampolineMoves DEF TrampolineStep
  <2>2. clock' \in Timing
    BY <1>1, <2>1 DEF Timing, Memory, Settings
  <2>3. ASSUME NEW t \in Tools, In(t, "poll"), Guided(t), ~mem.sentinel
        PROVE  Running(t)'
    <3>1. /\ mem.blanked = TRUE /\ live.reu = (ses[t].stage # 3) /\ live.turbo = ses[t].mhz
          /\ mem.prog = Program(ses[t].stage)
      BY <1>1, <1>5, <2>3 DEF Guided, Measuring, Running, Configured, Equipped, In, Timed, Memory, Settings
    <3>2. clock' = Conditions(t)'
      BY <1>1, <2>1, <3>1 DEF Conditions
    <3> QED  BY <1>1, <1>5, <2>1, <2>3, <3>2 DEF Guided, Measuring, Running, Places
  <2> QED  BY <1>1, <1>3, <1>5, <2>1, <2>2, <2>3 DEF Places
<1>6. CASE cpu = "x25519_base"
  <2> DEFINE result == IF mem.scalar /\ mem.tables /\ (mem.prog = "onchip" \/ live.reu)
                       THEN "right" ELSE "junk"
  <2>1. cpu' = "bench_cycles_stop" /\ mem' = [mem EXCEPT !.result = result] /\ clock' = clock
    BY <1>6, TrampolineMoves DEF TrampolineStep
  <2>2. result \in {"junk", "right"}
    OBVIOUS
  <2>3. ASSUME NEW t \in Tools, In(t, "poll"), Guided(t), ~mem.sentinel
        PROVE  result = "right"
    BY <2>3 DEF Guided, Configured, Equipped, In, Timed, Program
  <2> HIDE DEF result
  <2>4. /\ mem' \in Memory /\ mem'.result = result /\ mem'.hijacked = mem.hijacked
        /\ mem'.sentinel = mem.sentinel /\ mem'.blanked = mem.blanked
    BY <1>1, <2>1, <2>2 DEF Memory
  <2>5. ASSUME NEW t \in Tools, In(t, "poll"), Guided(t), ~mem.sentinel
        PROVE  Running(t)'
    BY <1>1, <1>6, <2>1, <2>3, <2>4, <2>5 DEF Guided, Measuring, Running, Conditions, Places
  <2> QED  BY <1>1, <1>3, <1>6, <2>1, <2>4, <2>5 DEF Places, Memory
<1>7. CASE cpu = "bench_cycles_stop"
  <2> DEFINE cycles == IF clock.mhz = live.turbo THEN clock ELSE None
  <2>1. /\ cpu' = "vic_unblank" /\ mem' = [mem EXCEPT !.cycles = cycles, !.fresh = TRUE] /\ clock' = None
    BY <1>7, TrampolineMoves DEF TrampolineStep, Stopped
  <2>2. cycles \in Timing /\ None \in Timing
    BY <1>1 DEF None, Timing
  <2>3. ASSUME NEW t \in Tools, In(t, "poll"), Guided(t), ~mem.sentinel
        PROVE  cycles = Conditions(t)
    <3>1. clock = Conditions(t) /\ live.turbo = ses[t].mhz
      BY <1>7, <2>3 DEF Guided, Measuring, Running, Configured, In, Timed
    <3>2. clock.mhz = live.turbo
      BY <3>1 DEF Conditions
    <3> QED  BY <3>1, <3>2
  <2> HIDE DEF cycles
  <2>4. /\ mem' \in Memory /\ mem'.cycles = cycles /\ mem'.fresh /\ mem'.hijacked = mem.hijacked
        /\ mem'.sentinel = mem.sentinel /\ mem'.blanked = mem.blanked /\ mem'.result = mem.result
    BY <1>1, <2>1, <2>2 DEF Memory
  <2>5. ASSUME NEW t \in Tools, In(t, "poll"), Guided(t), ~mem.sentinel
        PROVE  Running(t)'
    <3>1. mem'.cycles = Conditions(t)' /\ mem'.result = "right"
      BY <1>1, <1>7, <2>3, <2>4, <2>5 DEF Guided, Measuring, Running, Conditions
    <3> QED  BY <1>1, <1>7, <2>1, <2>4, <2>5, <3>1 DEF Guided, Measuring, Running, Timely, Places
  <2> QED  BY <1>1, <1>3, <1>7, <2>1, <2>2, <2>4, <2>5 DEF Places, Memory
<1>8. CASE cpu = "vic_unblank"
  <2>1. cpu' = "restore_operand" /\ mem' = [mem EXCEPT !.blanked = FALSE] /\ clock' = clock
    BY <1>8, TrampolineMoves DEF TrampolineStep
  <2>2. /\ mem' \in Memory /\ ~mem'.blanked /\ mem'.hijacked = mem.hijacked /\ mem'.sentinel = mem.sentinel
        /\ mem'.cycles = mem.cycles /\ mem'.fresh = mem.fresh /\ mem'.result = mem.result
    BY <1>1, <2>1 DEF Memory
  <2>3. ASSUME NEW t \in Tools, In(t, "poll"), Guided(t), ~mem.sentinel
        PROVE  Running(t)'
    BY <1>1, <1>8, <2>1, <2>2, <2>3 DEF Guided, Measuring, Running, Timely, Conditions, Places
  <2> QED  BY <1>1, <1>3, <1>8, <2>1, <2>2, <2>3 DEF Places, Memory
<1>9. CASE cpu = "restore_operand"
  <2>1. cpu' = "set_sentinel" /\ mem' = [mem EXCEPT !.hijacked = FALSE] /\ clock' = clock
    BY <1>9, TrampolineMoves DEF TrampolineStep
  <2>2. /\ mem' \in Memory /\ mem'.blanked = mem.blanked /\ ~mem'.hijacked /\ mem'.sentinel = mem.sentinel
        /\ mem'.cycles = mem.cycles /\ mem'.fresh = mem.fresh /\ mem'.result = mem.result
    BY <1>1, <2>1 DEF Memory
  <2>3. ASSUME NEW t \in Tools, In(t, "poll"), Guided(t), ~mem.sentinel
        PROVE  Running(t)'
    BY <1>1, <1>9, <2>1, <2>2, <2>3 DEF Guided, Measuring, Running, Timely, Conditions, Places
  <2> QED  BY <1>1, <1>3, <1>9, <2>1, <2>2, <2>3 DEF Places, Memory
<1>10. CASE cpu = "set_sentinel"
  <2>1. cpu' = "jmp_main_loop" /\ mem' = [mem EXCEPT !.sentinel = TRUE] /\ clock' = clock
    BY <1>10, TrampolineMoves DEF TrampolineStep
  <2>2. /\ mem' \in Memory /\ mem'.blanked = mem.blanked /\ mem'.hijacked = mem.hijacked /\ mem'.sentinel
        /\ mem'.cycles = mem.cycles /\ mem'.fresh = mem.fresh /\ mem'.result = mem.result
    BY <1>1, <2>1 DEF Memory
  <2>3. ASSUME NEW t \in Tools, In(t, "poll"), Guided(t), ~mem.sentinel
        PROVE  Running(t)'
    <3>1. Timely(t)'
      BY <1>1, <1>10, <2>2, <2>3 DEF Guided, Measuring, Running, Timely, Conditions
    <3> QED  BY <1>1, <1>10, <2>1, <2>2, <2>3, <3>1
             DEF Guided, Measuring, Running, Finished, Idling, Places
  <2> QED  BY <1>1, <1>3, <1>10, <2>1, <2>2, <2>3 DEF Places, Memory
<1> QED
  BY <1>1, <1>2, <1>4, <1>5, <1>6, <1>7, <1>8, <1>9, <1>10 DEF Places


(***************************************************************************)
(* Steps of a session.  Only the holder of the lock touches the C64, and    *)
(* only the holder relies on it.                                            *)
(***************************************************************************)
LEMMA HostStep ==
  ASSUME SessionInv, DeviceInv, NEW t \in Tools, NEW r \in Session, ses' = [ses EXCEPT ![t] = r],
         r.stage \in 1 .. 3,
         ses[t].phase \in Inside \/ UNCHANGED <<live, cpu, mem, clock>>,
         mem' \in Memory, clock' \in Timing, Tame',
         Guided(t)'
  PROVE  DeviceInv'
<1>1. /\ ses \in [Tools -> Session]
      /\ \A s \in Tools : ses'[s] = IF s = t THEN r ELSE ses[s]
  BY DEF SessionInv, Typed
<1>2. ASSUME NEW s \in Tools, s # t
      PROVE  Guided(s)'
  <2>1. Guided(s) /\ ses'[s] = ses[s] /\ ses[s].stage \in 1 .. 3
    BY <1>1, <1>2 DEF DeviceInv, Guided
  <2>2. CASE ses[t].phase \in Inside
    <3>1. ses[s].phase \notin Inside
      BY <1>2, <2>2 DEF SessionInv, OneHolder
    <3> QED  BY <2>1, <3>1 DEF Guided, Prepared, Equipped, Configured, Measuring, In, Timed, Inside, Wired
  <2>3. CASE UNCHANGED <<live, cpu, mem, clock>>
    <3>1. live' = live /\ cpu' = cpu /\ mem' = mem /\ clock' = clock /\ ses'[s] = ses[s]
      BY <2>1, <2>3
    <3>2. Conditions(s)' = Conditions(s) /\ (Idling' <=> Idling)
      BY <3>1 DEF Conditions, Idling
    <3>3. (Timely(s)' <=> Timely(s)) /\ (Quiet' <=> Quiet) /\ (Booting(s)' <=> Booting(s))
      BY <3>1, <3>2 DEF Timely, Quiet, Booting
    <3>4. Finished(s)' <=> Finished(s)
      BY <3>1, <3>2, <3>3 DEF Finished
    <3>5. Running(s)' <=> Running(s)
      BY <3>1, <3>2, <3>3, <3>4 DEF Running
    <3>6. Prepared(s)' /\ Equipped(s)'
      BY <2>1, <3>1, <3>2, <3>3 DEF Guided, Prepared, Equipped, In
    <3>7. Configured(s)' /\ Measuring(s)'
      BY <2>1, <3>1, <3>4, <3>5 DEF Guided, Configured, Measuring, In
    <3> QED  BY <2>1, <3>1, <3>6, <3>7 DEF Guided
  <2> QED  BY <2>2, <2>3
<1> QED  BY <1>2 DEF DeviceInv

\* A session that leaves the C64 alone and relies on nothing afterwards.
LEMMA IdleStep ==
  ASSUME SessionInv, DeviceInv, NEW t \in Tools, NEW r \in Session, ses' = [ses EXCEPT ![t] = r],
         r.stage = ses[t].stage, r.phase \notin Wired \ {"guard", "reboot"},
         UNCHANGED <<cpu, mem, clock>>,
         ses[t].phase \in Inside \/ live' = live
  PROVE  DeviceInv'
<1>1. mem' \in Memory /\ clock' \in Timing /\ Tame' /\ ses[t].stage \in 1 .. 3
  BY DEF DeviceInv, Tame, Guided
<1>2. ses'[t] = r
  BY DEF SessionInv, Typed
<1>3. Guided(t)'
  BY <1>1, <1>2 DEF Guided, Prepared, Equipped, Configured, Measuring, In, Timed, Wired
<1> QED  BY <1>1, <1>3, HostStep

LEMMA IdleSteps ==
  ASSUME SessionInv, DeviceInv, NEW t \in Tools,
         \/ BuildPrgs(t) \/ CheckFiles(t) \/ Probe(t) \/ AcquireLock(t) \/ GetInfo(t) \/ Snapshot(t)
         \/ Guard(t) \/ RestoreState(t) \/ Release(t)
  PROVE  DeviceInv'
<1>1. ses[t] \in Session /\ config \in Settings
  BY DEF SessionInv, Typed
<1>2. ASSUME NEW phase \in Phases \ (Wired \ {"guard", "reboot"}), Go(t, phase),
             UNCHANGED <<cpu, mem, clock>>, ses[t].phase \in Inside \/ live' = live
      PROVE  DeviceInv'
  <2> DEFINE r == [ses[t] EXCEPT !.phase = phase]
  <2>1. r \in Session /\ r.phase = phase /\ r.stage = ses[t].stage
    BY <1>1 DEF Session
  <2>2. ses' = [ses EXCEPT ![t] = r]
    BY <1>2 DEF Go
  <2> HIDE DEF r
  <2> QED  BY <1>2, <2>1, <2>2, IdleStep
<1>3. ASSUME NEW phase \in {"done", "finally"}, NEW code \in {"running", "zero", "one"},
             ses' = [ses EXCEPT ![t].phase = phase, ![t].exit = code],
             UNCHANGED <<cpu, mem, clock>>, live' = live
      PROVE  DeviceInv'
  <2> DEFINE r == [ses[t] EXCEPT !.phase = phase, !.exit = code]
  <2>1. r \in Session /\ r.phase = phase /\ r.stage = ses[t].stage
    BY <1>1 DEF Session, Phases, Inside
  <2>2. ses' = [ses EXCEPT ![t] = r]
    BY <1>3
  <2> HIDE DEF r
  <2> QED  BY <1>3, <2>1, <2>2, IdleStep DEF Wired
<1>4. CASE BuildPrgs(t) \/ CheckFiles(t) \/ Probe(t)
  <2>1. /\ UNCHANGED <<live, cpu, mem, clock>>
        /\ \/ Exit(t, "one")
           \/ \E phase \in Before : Go(t, phase)
    BY <1>4 DEF BuildPrgs, CheckFiles, Probe, Clean, Make, KeepHost, device, Before
  <2>2. CASE Exit(t, "one")
    BY <1>3, <2>1, <2>2 DEF Exit
  <2>3. CASE \E phase \in Before : Go(t, phase)
    BY <1>2, <2>1, <2>3 DEF Phases, Before, Wired
  <2> QED  BY <2>1, <2>2, <2>3
<1>5. CASE AcquireLock(t)
  <2>1. UNCHANGED <<live, cpu, mem, clock>> /\ (Exit(t, "one") \/ Go(t, "info"))
    BY <1>5 DEF AcquireLock, device
  <2>2. CASE Exit(t, "one")
    BY <1>3, <2>1, <2>2 DEF Exit
  <2> QED  BY <1>2, <2>1, <2>2 DEF Phases, Inside, Wired
<1>6. CASE GetInfo(t)
  BY <1>2, <1>6 DEF GetInfo, device, Phases, Inside, Wired
<1>7. CASE Snapshot(t)
  <2> DEFINE r == [ses[t] EXCEPT !.phase = "guard", !.snapped = TRUE, !.orig = config]
  <2>1. r \in Session /\ r.phase = "guard" /\ r.stage = ses[t].stage
    BY <1>1 DEF Session, Phases, Inside, Wired
  <2>2. ses' = [ses EXCEPT ![t] = r] /\ UNCHANGED <<live, cpu, mem, clock>>
    BY <1>7 DEF Snapshot, device
  <2> HIDE DEF r
  <2> QED  BY <2>1, <2>2, IdleStep
<1>8. CASE Guard(t)
  <2>1. UNCHANGED <<live, cpu, mem, clock>> /\ (Fail(t) \/ Go(t, "reboot"))
    BY <1>8 DEF Guard, device
  <2>2. CASE Fail(t)
    BY <1>3, <2>1, <2>2 DEF Fail
  <2> QED  BY <1>2, <2>1, <2>2 DEF Phases, Inside, Wired
<1>9. CASE RestoreState(t)
  BY <1>2, <1>9 DEF RestoreState, In, Phases, Inside, Wired
<1>10. CASE Release(t)
  <2>1. UNCHANGED <<live, cpu, mem, clock>> /\ ses[t].exit \in {"running", "zero", "one"}
    BY <1>1, <1>10 DEF Release, device, Session
  <2>2. PICK code \in {"one", ses[t].exit} : Exit(t, code)
    BY <1>10 DEF Release
  <2> QED  BY <1>3, <2>1, <2>2 DEF Exit
<1> QED  BY <1>4, <1>5, <1>6, <1>7, <1>8, <1>9, <1>10


LEMMA FailStep ==
  ASSUME SessionInv, DeviceInv, NEW t \in Tools, ses[t].phase \in Inside, Fail(t),
         UNCHANGED <<live, cpu, mem, clock>>
  PROVE  DeviceInv'
<1> DEFINE r == [ses[t] EXCEPT !.phase = "finally", !.exit = "one"]
<1>1. r \in Session /\ r.phase = "finally" /\ r.stage = ses[t].stage
  BY DEF SessionInv, Typed, Session, Phases, Inside
<1>2. ses' = [ses EXCEPT ![t] = r]
  BY DEF Fail
<1> HIDE DEF r
<1> QED  BY <1>1, <1>2, IdleStep DEF Wired

\* One more try.
LEMMA TryAgain ==
  ASSUME SessionInv, DeviceInv, NEW t \in Tools, ses[t].left > 0,
         ses' = [ses EXCEPT ![t].left = @ - 1], UNCHANGED <<live, cpu, mem, clock>>
  PROVE  DeviceInv'
<1> DEFINE r == [ses[t] EXCEPT !.left = ses[t].left - 1]
<1>1. ses[t] \in Session /\ ses[t].left \in Nat /\ ses \in [Tools -> Session]
  BY DEF SessionInv, Typed, Session
<1>2. ses[t].left - 1 \in Nat
  BY <1>1
<1>3. /\ r \in Session /\ r.phase = ses[t].phase /\ r.stage = ses[t].stage /\ r.mhz = ses[t].mhz
      /\ r.idle = ses[t].idle
  BY <1>1, <1>2 DEF Session
<1>4. ses' = [ses EXCEPT ![t] = r]
  BY <1>1
<1> HIDE DEF r
<1>5. ses'[t] = r /\ Guided(t)
  BY <1>1, <1>4 DEF DeviceInv
<1>6. Guided(t)'
  BY <1>3, <1>5
     DEF Guided, Prepared, Equipped, Configured, Measuring, In, Timed, Quiet, Booting, Idling,
         Running, Finished, Timely, Conditions
<1>7. mem' \in Memory /\ clock' \in Timing /\ Tame' /\ r.stage \in 1 .. 3
  BY <1>3, <1>5 DEF DeviceInv, Tame, Guided
<1> QED  BY <1>3, <1>4, <1>6, <1>7, HostStep

\* The next phase: what it relies on is all there is to show.
LEMMA NextPhase ==
  ASSUME SessionInv, DeviceInv, NEW t \in Tools, NEW r \in Session, ses' = [ses EXCEPT ![t] = r],
         ses[t].phase \in Inside, r.stage = ses[t].stage,
         mem' \in Memory, clock' \in Timing, Tame',
         ses'[t] = r => Prepared(t)' /\ Equipped(t)' /\ Configured(t)' /\ Measuring(t)'
  PROVE  DeviceInv'
<1>1. ses'[t] = r /\ ses[t].stage \in 1 .. 3
  BY DEF SessionInv, Typed, DeviceInv, Guided
<1> QED  BY <1>1, HostStep DEF Guided

LEMMA PhaseOnly ==
  ASSUME SessionInv, NEW t \in Tools, NEW phase \in Phases, Go(t, phase)
  PROVE  LET r == [ses[t] EXCEPT !.phase = phase]
         IN  /\ r \in Session /\ ses' = [ses EXCEPT ![t] = r]
             /\ r.phase = phase /\ r.stage = ses[t].stage /\ r.mhz = ses[t].mhz /\ r.idle = ses[t].idle
  BY DEF SessionInv, Typed, Session, Go

LEMMA PhaseAndWait ==
  ASSUME SessionInv, NEW t \in Tools, NEW phase \in Phases, Await(t, phase)
  PROVE  LET r == [ses[t] EXCEPT !.phase = phase, !.left = MaxPolls]
         IN  /\ r \in Session /\ ses' = [ses EXCEPT ![t] = r]
             /\ r.phase = phase /\ r.stage = ses[t].stage /\ r.mhz = ses[t].mhz /\ r.idle = ses[t].idle
<1> DEFINE r == [ses[t] EXCEPT !.phase = phase, !.left = MaxPolls]
<1>1. ses[t] \in Session /\ MaxPolls \in Nat
  BY SessionAssumption DEF SessionInv, Typed
<1>2. r \in Session
  BY <1>1 DEF Session
<1>3. r.phase = phase /\ r.stage = ses[t].stage /\ r.mhz = ses[t].mhz /\ r.idle = ses[t].idle
  BY <1>1 DEF Session
<1>4. ses' = [ses EXCEPT ![t] = r]
  BY DEF Await
<1> QED  BY <1>2, <1>3, <1>4

LEMMA RebootStep == ASSUME SessionInv, DeviceInv, NEW t \in Tools, Reboot(t) PROVE DeviceInv'
<1> DEFINE r == [ses[t] EXCEPT !.phase = "settle"]
<1>1. ses[t].phase \in Inside /\ cpu' = "reset" /\ clock' = None /\ mem' = mem /\ Go(t, "settle")
  BY DEF Reboot, In, Inside, Wired
<1>2. "settle" \in Phases
  BY DEF Phases, Inside, Wired
<1>3. r \in Session /\ ses' = [ses EXCEPT ![t] = r] /\ r.phase = "settle" /\ r.stage = ses[t].stage
  BY <1>1, <1>2, PhaseOnly
<1>4. mem' \in Memory /\ clock' \in Timing /\ Tame'
  BY <1>1 DEF DeviceInv, Tame, None, Timing, Places
<1> HIDE DEF r
<1>5. ses'[t] = r => Prepared(t)' /\ Equipped(t)' /\ Configured(t)' /\ Measuring(t)'
  BY <1>1, <1>3 DEF Prepared, Equipped, Configured, Measuring, In, Timed
<1> QED  BY <1>1, <1>3, <1>4, <1>5, NextPhase

LEMMA SettleFloorStep == ASSUME SessionInv, DeviceInv, NEW t \in Tools, SettleFloor(t) PROVE DeviceInv'
<1> DEFINE r == [ses[t] EXCEPT !.phase = "ready", !.left = MaxPolls]
<1>1. /\ ses[t].phase = "settle" /\ ses[t].phase \in Inside /\ UNCHANGED <<live, cpu, mem, clock>>
      /\ Await(t, "ready") /\ cpu # "reset"
  BY DEF SettleFloor, In, Inside, Wired, device
<1>2. "ready" \in Phases
  BY DEF Phases, Inside, Wired
<1>3. r \in Session /\ ses' = [ses EXCEPT ![t] = r] /\ r.phase = "ready" /\ r.stage = ses[t].stage
  BY <1>1, <1>2, PhaseAndWait
<1>4. mem' \in Memory /\ clock' \in Timing /\ Tame'
  BY <1>1 DEF DeviceInv, Tame
<1>5. Quiet'
  BY <1>1 DEF DeviceInv, Guided, Prepared, In, Quiet
<1> HIDE DEF r
<1>6. ses'[t] = r => Prepared(t)' /\ Equipped(t)' /\ Configured(t)' /\ Measuring(t)'
  BY <1>1, <1>3, <1>5 DEF Prepared, Equipped, Configured, Measuring, In, Timed
<1> QED  BY <1>1, <1>3, <1>4, <1>6, NextPhase

LEMMA WaitReadyStep == ASSUME SessionInv, DeviceInv, NEW t \in Tools, WaitReady(t) PROVE DeviceInv'
<1> DEFINE r == [ses[t] EXCEPT !.phase = "set_reu"]
<1>1. /\ ses[t].phase = "ready" /\ ses[t].phase \in Inside /\ UNCHANGED <<live, cpu, mem, clock>>
  BY DEF WaitReady, In, Inside, Wired, device
<1>2. CASE Go(t, "set_reu")
  <2>1. "set_reu" \in Phases
    BY DEF Phases, Inside, Wired
  <2>2. r \in Session /\ ses' = [ses EXCEPT ![t] = r] /\ r.phase = "set_reu" /\ r.stage = ses[t].stage
    BY <1>2, <2>1, PhaseOnly
  <2>3. mem' \in Memory /\ clock' \in Timing /\ Tame'
    BY <1>1 DEF DeviceInv, Tame
  <2>4. Quiet'
    BY <1>1 DEF DeviceInv, Guided, Prepared, In, Quiet, Idling
  <2> HIDE DEF r
  <2>5. ses'[t] = r => Prepared(t)' /\ Equipped(t)' /\ Configured(t)' /\ Measuring(t)'
    BY <1>1, <2>2, <2>4 DEF Prepared, Equipped, Configured, Measuring, In, Timed
  <2> QED  BY <1>1, <2>2, <2>3, <2>5, NextPhase
<1>3. CASE ses[t].left > 0 /\ ses' = [ses EXCEPT ![t].left = @ - 1]
  BY <1>1, <1>3, TryAgain
<1>4. CASE Fail(t)
  BY <1>1, <1>4, FailStep
<1> QED  BY <1>2, <1>3, <1>4 DEF WaitReady

\* A write reaches the C64 unless it is in reset.
LEMMA WriteReaches ==
  ASSUME cpu # "reset"
  PROVE  /\ \A mhz : WriteTurbo(mhz) => live' = [live EXCEPT !.turbo = mhz]
         /\ \A on : WriteReu(on) => live' = [live EXCEPT !.reu = on]
  BY DEF WriteTurbo, WriteReu, Write

LEMMA SetReuStep == ASSUME SessionInv, DeviceInv, NEW t \in Tools, SetReu(t) PROVE DeviceInv'
<1> DEFINE r == [ses[t] EXCEPT !.phase = "init_turbo"]
<1>1. /\ ses[t].phase = "set_reu" /\ ses[t].phase \in Inside /\ UNCHANGED <<cpu, mem, clock>>
      /\ Go(t, "init_turbo") /\ WriteReu(ses[t].stage # 3) /\ live \in Settings
  BY DEF SetReu, In, Inside, Wired, SessionInv, Typed
<1>2. "init_turbo" \in Phases
  BY DEF Phases, Inside, Wired
<1>3. r \in Session /\ ses' = [ses EXCEPT ![t] = r] /\ r.phase = "init_turbo" /\ r.stage = ses[t].stage
  BY <1>1, <1>2, PhaseOnly
<1>4. mem' \in Memory /\ clock' \in Timing /\ Tame'
  BY <1>1 DEF DeviceInv, Tame
<1>5. Quiet /\ Quiet' /\ cpu # "reset"
  BY <1>1 DEF DeviceInv, Guided, Prepared, In, Quiet, Idling
<1>6. live' = [live EXCEPT !.reu = (ses[t].stage # 3)]
  BY <1>1, <1>5, WriteReaches
<1>7. live'.reu <=> ses[t].stage # 3
  BY <1>1, <1>6 DEF Settings
<1> HIDE DEF r
<1>8. ses'[t] = r => Prepared(t)' /\ Equipped(t)' /\ Configured(t)' /\ Measuring(t)'
  BY <1>1, <1>3, <1>5, <1>7 DEF Prepared, Equipped, Configured, Measuring, In, Timed
<1> QED  BY <1>1, <1>3, <1>4, <1>8, NextPhase

LEMMA InitTurboStep == ASSUME SessionInv, DeviceInv, NEW t \in Tools, InitTurbo(t) PROVE DeviceInv'
<1> DEFINE r == [ses[t] EXCEPT !.phase = "clear"]
<1>1. /\ ses[t].phase = "init_turbo" /\ ses[t].phase \in Inside /\ UNCHANGED <<cpu, mem, clock>>
      /\ Go(t, "clear") /\ WriteTurbo(InitMhz) /\ live \in Settings
  BY DEF InitTurbo, In, Inside, Wired, SessionInv, Typed
<1>2. "clear" \in Phases
  BY DEF Phases, Inside, Wired
<1>3. r \in Session /\ ses' = [ses EXCEPT ![t] = r] /\ r.phase = "clear" /\ r.stage = ses[t].stage
  BY <1>1, <1>2, PhaseOnly
<1>4. mem' \in Memory /\ clock' \in Timing /\ Tame'
  BY <1>1 DEF DeviceInv, Tame
<1>5. Quiet /\ Quiet' /\ cpu # "reset" /\ (live.reu <=> ses[t].stage # 3)
  BY <1>1 DEF DeviceInv, Guided, Prepared, Configured, In, Quiet, Idling
<1>6. live' = [live EXCEPT !.turbo = InitMhz]
  BY <1>1, <1>5, WriteReaches
<1>7. live'.reu = live.reu
  BY <1>1, <1>6 DEF Settings
<1> HIDE DEF r
<1>8. ses'[t] = r => Prepared(t)' /\ Equipped(t)' /\ Configured(t)' /\ Measuring(t)'
  BY <1>1, <1>3, <1>5, <1>7 DEF Prepared, Equipped, Configured, Measuring, In, Timed
<1> QED  BY <1>1, <1>3, <1>4, <1>8, NextPhase

LEMMA ClearScreenStep == ASSUME SessionInv, DeviceInv, NEW t \in Tools, ClearScreen(t) PROVE DeviceInv'
<1> DEFINE r == [ses[t] EXCEPT !.phase = "run_prg"]
<1>1. /\ ses[t].phase = "clear" /\ ses[t].phase \in Inside /\ UNCHANGED <<live, cpu, clock>>
      /\ Go(t, "run_prg") /\ mem' = [mem EXCEPT !.banner = FALSE] /\ mem \in Memory
  BY DEF ClearScreen, In, Inside, Wired, DeviceInv
<1>2. "run_prg" \in Phases
  BY DEF Phases, Inside, Wired
<1>3. r \in Session /\ ses' = [ses EXCEPT ![t] = r] /\ r.phase = "run_prg" /\ r.stage = ses[t].stage
  BY <1>1, <1>2, PhaseOnly
<1>4. /\ mem' \in Memory /\ ~mem'.banner /\ mem'.hijacked = mem.hijacked /\ mem'.blanked = mem.blanked
      /\ mem'.shim = mem.shim /\ mem'.tramp = mem.tramp /\ mem'.prog = mem.prog
  BY <1>1 DEF Memory
<1>5. clock' \in Timing /\ Tame'
  BY <1>1, <1>4 DEF DeviceInv, Tame
<1>6. Quiet' /\ (live.reu <=> ses[t].stage # 3)
  BY <1>1, <1>4 DEF DeviceInv, Guided, Prepared, Configured, In, Quiet, Idling
<1> HIDE DEF r
<1>7. ses'[t] = r => Prepared(t)' /\ Equipped(t)' /\ Configured(t)' /\ Measuring(t)'
  BY <1>1, <1>3, <1>4, <1>6 DEF Prepared, Equipped, Configured, Measuring, In, Timed
<1> QED  BY <1>1, <1>3, <1>4, <1>5, <1>7, NextPhase

LEMMA RunPrgStep == ASSUME SessionInv, DeviceInv, NEW t \in Tools, RunPrg(t) PROVE DeviceInv'
<1> DEFINE r == [ses[t] EXCEPT !.phase = "banner", !.left = MaxPolls]
           m == [mem EXCEPT !.prog = Program(ses[t].stage), !.tables = FALSE, !.shim = FALSE,
                            !.hijacked = FALSE, !.scalar = FALSE, !.result = "junk", !.cycles = None]
<1>1. ses[t].phase = "run_prg" /\ ses[t].phase \in Inside /\ live' = live /\ mem \in Memory
  BY DEF RunPrg, In, Inside, Wired, DeviceInv
<1>2. CASE Fail(t) /\ UNCHANGED <<cpu, mem, clock>>
  BY <1>1, <1>2, FailStep
<1>3. CASE mem' = m /\ cpu' = "boot" /\ clock' = None /\ Await(t, "banner")
  <2>1. "banner" \in Phases
    BY DEF Phases, Inside, Wired
  <2>2. r \in Session /\ ses' = [ses EXCEPT ![t] = r] /\ r.phase = "banner" /\ r.stage = ses[t].stage
    BY <1>3, <2>1, PhaseAndWait
  <2>3. None \in Timing /\ Program(ses[t].stage) \in Programs
    BY DEF None, Timing, Program, Programs
  <2>4. /\ m \in Memory /\ m.prog = Program(ses[t].stage) /\ ~m.hijacked /\ m.blanked = mem.blanked
        /\ m.banner = mem.banner
    BY <1>1, <2>3 DEF Memory
  <2>5. ~mem.blanked /\ ~mem.banner /\ (live.reu <=> ses[t].stage # 3)
    BY <1>1 DEF DeviceInv, Guided, Prepared, Configured, Quiet, In
  <2> HIDE DEF r, m
  <2>6. mem' \in Memory /\ clock' \in Timing /\ Tame'
    BY <1>3, <2>3, <2>4 DEF Tame, Places
  <2>7. ses'[t] = r => Prepared(t)' /\ Equipped(t)' /\ Configured(t)' /\ Measuring(t)'
    BY <1>1, <1>3, <2>2, <2>4, <2>5
       DEF Prepared, Equipped, Configured, Measuring, In, Timed, Booting, Program
  <2> QED  BY <1>1, <2>2, <2>6, <2>7, NextPhase
<1> QED  BY <1>1, <1>2, <1>3 DEF RunPrg

LEMMA WaitBannerStep == ASSUME SessionInv, DeviceInv, NEW t \in Tools, WaitBanner(t) PROVE DeviceInv'
<1> DEFINE r == [ses[t] EXCEPT !.phase = "install"]
<1>1. /\ ses[t].phase = "banner" /\ ses[t].phase \in Inside /\ UNCHANGED <<live, cpu, mem, clock>>
  BY DEF WaitBanner, In, Inside, Wired, device
<1>2. CASE mem.banner /\ Go(t, "install")
  <2>1. "install" \in Phases
    BY DEF Phases, Inside, Wired
  <2>2. r \in Session /\ ses' = [ses EXCEPT ![t] = r] /\ r.phase = "install" /\ r.stage = ses[t].stage
    BY <1>2, <2>1, PhaseOnly
  <2>3. mem' \in Memory /\ clock' \in Timing /\ Tame'
    BY <1>1 DEF DeviceInv, Tame
  <2>4. /\ cpu = "loop" /\ ~mem.hijacked /\ ~mem.blanked /\ mem.tables
        /\ mem.prog = Program(ses[t].stage) /\ (live.reu <=> ses[t].stage # 3)
    BY <1>1, <1>2 DEF DeviceInv, Guided, Prepared, Configured, In, Booting
  <2> HIDE DEF r
  <2>5. ses'[t] = r => Prepared(t)' /\ Equipped(t)' /\ Configured(t)' /\ Measuring(t)'
    BY <1>1, <2>2, <2>4 DEF Prepared, Equipped, Configured, Measuring, In, Timed, Idling, Program
  <2> QED  BY <1>1, <2>2, <2>3, <2>5, NextPhase
<1>3. CASE ses[t].left > 0 /\ ses' = [ses EXCEPT ![t].left = @ - 1]
  BY <1>1, <1>3, TryAgain
<1>4. CASE Fail(t)
  BY <1>1, <1>4, FailStep
<1> QED  BY <1>2, <1>3, <1>4 DEF WaitBanner

LEMMA InstallStep == ASSUME SessionInv, DeviceInv, NEW t \in Tools, Install(t) PROVE DeviceInv'
<1> DEFINE todo == IF ses[t].stage = 3 THEN {InitMhz} ELSE plan[t].speeds
           r == [ses[t] EXCEPT !.phase = "speed", !.todo = todo]
<1>1. /\ ses[t].phase = "install" /\ ses[t].phase \in Inside /\ UNCHANGED <<live, cpu, clock>>
      /\ mem' = [mem EXCEPT !.shim = TRUE, !.tramp = Program(ses[t].stage), !.scalar = TRUE]
      /\ ses' = [ses EXCEPT ![t] = r] /\ mem \in Memory /\ ses[t] \in Session
  BY DEF Install, In, Inside, Wired, DeviceInv, SessionInv, Typed
<1>2. todo \in SUBSET Nat
  BY SessionAssumption DEF SessionInv, Typed
<1> HIDE DEF todo
<1>3. r \in Session /\ r.phase = "speed" /\ r.stage = ses[t].stage
  BY <1>1, <1>2 DEF Session, Phases, Inside, Wired
<1>4. Program(ses[t].stage) \in Programs
  BY DEF Program, Programs
<1>5. /\ mem' \in Memory /\ mem'.shim /\ mem'.tramp = Program(ses[t].stage) /\ mem'.scalar
      /\ mem'.prog = mem.prog /\ mem'.tables = mem.tables /\ mem'.hijacked = mem.hijacked
      /\ mem'.blanked = mem.blanked
  BY <1>1, <1>4 DEF Memory
<1>6. /\ Idling /\ ~mem.hijacked /\ ~mem.blanked /\ mem.tables
      /\ mem.prog = Program(ses[t].stage) /\ (live.reu <=> ses[t].stage # 3)
  BY <1>1 DEF DeviceInv, Guided, Equipped, Configured, In
<1>7. clock' \in Timing /\ Tame'
  BY <1>1, <1>5, <1>6 DEF DeviceInv, Tame
<1> HIDE DEF r
<1>8. ses'[t] = r => Prepared(t)' /\ Equipped(t)' /\ Configured(t)' /\ Measuring(t)'
  BY <1>1, <1>3, <1>5, <1>6
     DEF Prepared, Equipped, Configured, Measuring, In, Timed, Idling, Program
<1> QED  BY <1>1, <1>3, <1>5, <1>7, <1>8, NextPhase

LEMMA SetSpeedStep == ASSUME SessionInv, DeviceInv, NEW t \in Tools, SetSpeed(t) PROVE DeviceInv'
<1>1. PICK mhz \in ses[t].todo : WriteTurbo(mhz) /\ ses' = [ses EXCEPT ![t].phase = "scrub", ![t].mhz = mhz]
  BY DEF SetSpeed
<1> DEFINE r == [ses[t] EXCEPT !.phase = "scrub", !.mhz = mhz]
<1>2. /\ ses[t].phase = "speed" /\ ses[t].phase \in Inside /\ UNCHANGED <<cpu, mem, clock>>
      /\ ses' = [ses EXCEPT ![t] = r] /\ ses[t] \in Session /\ live \in Settings
  BY <1>1 DEF SetSpeed, In, Inside, Wired, SessionInv, Typed
<1>3. mhz \in Nat
  BY <1>2 DEF Session
<1>4. r \in Session /\ r.phase = "scrub" /\ r.stage = ses[t].stage /\ r.mhz = mhz
  BY <1>2, <1>3 DEF Session, Phases, Inside, Wired
<1>5. Equipped(t) /\ Idling /\ cpu # "reset" /\ (live.reu <=> ses[t].stage # 3)
  BY <1>2 DEF DeviceInv, Guided, Equipped, Configured, In, Timed, Idling
<1>6. live' = [live EXCEPT !.turbo = mhz]
  BY <1>1, <1>5, WriteReaches
<1>7. live'.turbo = mhz /\ live'.reu = live.reu
  BY <1>2, <1>6 DEF Settings
<1>8. mem' \in Memory /\ clock' \in Timing /\ Tame'
  BY <1>2 DEF DeviceInv, Tame
<1> HIDE DEF r
<1>9. ses'[t] = r => Prepared(t)' /\ Equipped(t)' /\ Configured(t)' /\ Measuring(t)'
  BY <1>2, <1>4, <1>5, <1>7
     DEF Prepared, Equipped, Configured, Measuring, In, Timed, Idling, Program
<1> QED  BY <1>2, <1>4, <1>8, <1>9, NextPhase

LEMMA ScrubStep == ASSUME SessionInv, DeviceInv, NEW t \in Tools, Scrub(t) PROVE DeviceInv'
<1> DEFINE r == [ses[t] EXCEPT !.phase = "hijack"]
<1>1. /\ ses[t].phase = "scrub" /\ ses[t].phase \in Inside /\ UNCHANGED <<live, cpu, clock>>
      /\ Go(t, "hijack") /\ mem' = [mem EXCEPT !.sentinel = FALSE, !.result = "junk"] /\ mem \in Memory
  BY DEF Scrub, In, Inside, Wired, DeviceInv
<1>2. "hijack" \in Phases
  BY DEF Phases, Inside, Wired
<1>3. /\ r \in Session /\ ses' = [ses EXCEPT ![t] = r] /\ r.phase = "hijack" /\ r.stage = ses[t].stage
      /\ r.mhz = ses[t].mhz
  BY <1>1, <1>2, PhaseOnly
<1>4. /\ mem' \in Memory /\ ~mem'.sentinel /\ mem'.shim = mem.shim /\ mem'.tramp = mem.tramp
      /\ mem'.scalar = mem.scalar /\ mem'.prog = mem.prog /\ mem'.tables = mem.tables
      /\ mem'.hijacked = mem.hijacked /\ mem'.blanked = mem.blanked
  BY <1>1 DEF Memory
<1>5. clock' \in Timing /\ Tame'
  BY <1>1, <1>4 DEF DeviceInv, Tame
<1>6. Equipped(t) /\ Configured(t)
  BY DEF DeviceInv, Guided
<1> HIDE DEF r
<1>7. ses'[t] = r => Prepared(t)' /\ Equipped(t)' /\ Configured(t)' /\ Measuring(t)'
  BY <1>1, <1>3, <1>4, <1>6
     DEF Prepared, Equipped, Configured, Measuring, In, Timed, Idling, Program
<1> QED  BY <1>1, <1>3, <1>4, <1>5, <1>7, NextPhase

LEMMA HijackStep == ASSUME SessionInv, DeviceInv, NEW t \in Tools, Hijack(t) PROVE DeviceInv'
<1> DEFINE idle == cpu \in {"loop", "jmp_main_loop"}
           r == [ses[t] EXCEPT !.phase = "poll", !.left = MaxPolls, !.idle = idle]
<1>1. /\ ses[t].phase = "hijack" /\ ses[t].phase \in Inside /\ UNCHANGED <<live, cpu, clock>>
      /\ ses' = [ses EXCEPT ![t] = r] /\ mem' = [mem EXCEPT !.hijacked = TRUE, !.fresh = FALSE]
      /\ mem \in Memory /\ ses[t] \in Session
  BY DEF Hijack, In, Inside, Wired, DeviceInv, SessionInv, Typed
<1>2. Equipped(t) /\ Configured(t) /\ idle /\ ~mem.blanked /\ ~mem.sentinel
  BY <1>1 DEF DeviceInv, Guided, Equipped, Measuring, Idling, In
<1>3. idle \in BOOLEAN
  OBVIOUS
<1> HIDE DEF idle
<1>4. /\ r \in Session /\ r.phase = "poll" /\ r.stage = ses[t].stage
      /\ r.mhz = ses[t].mhz /\ r.idle
  BY <1>1, <1>2, <1>3, SessionAssumption DEF Session, Phases, Inside, Wired
<1>5. /\ mem' \in Memory /\ mem'.hijacked /\ mem'.sentinel = mem.sentinel /\ mem'.shim = mem.shim
      /\ mem'.tramp = mem.tramp
      /\ mem'.scalar = mem.scalar /\ mem'.prog = mem.prog /\ mem'.tables = mem.tables
      /\ mem'.blanked = mem.blanked
  BY <1>1 DEF Memory
<1>6. mem.shim /\ mem.tramp = mem.prog /\ cpu \in {"loop", "jmp_main_loop"}
  BY <1>1, <1>2 DEF Equipped, Timed, Idling, idle
<1>7. clock' \in Timing /\ Tame'
  BY <1>1, <1>5, <1>6 DEF DeviceInv, Tame
<1> HIDE DEF r
<1>8. ses'[t] = r => Running(t)'
  BY <1>1, <1>2, <1>5, <1>6 DEF Running, Places
<1>9. ses'[t] = r => Prepared(t)' /\ Equipped(t)' /\ Configured(t)' /\ Measuring(t)'
  BY <1>1, <1>2, <1>4, <1>5, <1>8
     DEF Prepared, Equipped, Configured, Measuring, In, Timed, Program
<1> QED  BY <1>1, <1>4, <1>5, <1>7, <1>9, NextPhase

LEMMA WaitSentinelStep == ASSUME SessionInv, DeviceInv, NEW t \in Tools, WaitSentinel(t) PROVE DeviceInv'
<1> DEFINE r == [ses[t] EXCEPT !.phase = "oracle"]
<1>1. /\ ses[t].phase = "poll" /\ ses[t].phase \in Inside /\ UNCHANGED <<live, cpu, mem, clock>>
  BY DEF WaitSentinel, In, Inside, Wired, device
<1>2. CASE mem.sentinel /\ Go(t, "oracle")
  <2>1. "oracle" \in Phases
    BY DEF Phases, Inside, Wired
  <2>2. /\ r \in Session /\ ses' = [ses EXCEPT ![t] = r] /\ r.phase = "oracle" /\ r.stage = ses[t].stage
        /\ r.mhz = ses[t].mhz /\ r.idle = ses[t].idle
    BY <1>2, <2>1, PhaseOnly
  <2>3. mem' \in Memory /\ clock' \in Timing /\ Tame'
    BY <1>1 DEF DeviceInv, Tame
  <2>4. Finished(t) /\ ses[t].idle /\ Equipped(t) /\ Configured(t)
    BY <1>1, <1>2 DEF DeviceInv, Guided, Measuring, Running, In
  <2> HIDE DEF r
  <2>5. ses'[t] = r => Finished(t)'
    BY <1>1, <2>2, <2>4 DEF Finished, Timely, Conditions, Idling
  <2>6. ses'[t] = r => Prepared(t)' /\ Equipped(t)' /\ Configured(t)' /\ Measuring(t)'
    BY <1>1, <2>2, <2>4, <2>5 DEF Prepared, Equipped, Configured, Measuring, In, Timed, Program
  <2> QED  BY <1>1, <2>2, <2>3, <2>6, NextPhase
<1>3. CASE ses[t].left > 0 /\ ses' = [ses EXCEPT ![t].left = @ - 1]
  BY <1>1, <1>3, TryAgain
<1>4. CASE Fail(t)
  BY <1>1, <1>4, FailStep
<1> QED  BY <1>2, <1>3, <1>4 DEF WaitSentinel

LEMMA RecordStep == ASSUME SessionInv, DeviceInv, NEW t \in Tools, Record(t) PROVE DeviceInv'
<1>1. /\ ses[t].phase = "oracle" /\ ses[t].phase \in Inside /\ UNCHANGED <<live, cpu, mem, clock>>
      /\ ses[t] \in Session /\ ses \in [Tools -> Session] /\ ses[t].stage \in 1 .. 3
  BY DEF Record, In, Inside, Wired, device, DeviceInv, SessionInv, Typed, Guided
<1>2. mem' \in Memory /\ clock' \in Timing /\ Tame'
  BY <1>1 DEF DeviceInv, Tame
<1>3. /\ Idling /\ ~mem.hijacked /\ ~mem.blanked /\ mem.prog = Program(ses[t].stage) /\ mem.tables
      /\ mem.shim /\ mem.tramp = mem.prog /\ mem.scalar /\ (live.reu <=> ses[t].stage # 3)
  BY <1>1 DEF DeviceInv, Guided, Equipped, Configured, Measuring, Finished, In, Timed
<1>4. CASE Fail(t)
  BY <1>1, <1>4, FailStep
<1>5. ASSUME NEW r \in Session, ses' = [ses EXCEPT ![t] = r],
             \/ r.phase = "speed" /\ r.stage = ses[t].stage
             \/ r.phase = "init_turbo" /\ r.stage = 2 /\ ses[t].stage = 1
             \/ r.phase \in {"reboot", "finally"} /\ r.stage \in 1 .. 3
      PROVE  DeviceInv'
  <2>1. ses'[t] = r
    BY <1>1, <1>5
  <2>2. Guided(t)'
    BY <1>1, <1>3, <1>5, <2>1
       DEF Guided, Prepared, Equipped, Configured, Measuring, In, Timed, Quiet, Idling, Program
  <2>3. r.stage \in 1 .. 3 /\ ses' = [ses EXCEPT ![t] = r]
    BY <1>1, <1>5
  <2> QED  BY <1>1, <1>2, <2>2, <2>3, HostStep
<1>6. CASE ses' = [ses EXCEPT ![t] = AfterRun(t)]
  <2> DEFINE more == [ses[t] EXCEPT !.phase = "speed", !.todo = @ \ {ses[t].mhz}]
             second == [ses[t] EXCEPT !.phase = "init_turbo", !.stage = 2]
             third == [ses[t] EXCEPT !.phase = "reboot", !.stage = 3]
             last == [ses[t] EXCEPT !.phase = "finally", !.exit = "zero"]
  <2>1. AfterRun(t) = more \/ (AfterRun(t) = second /\ ses[t].stage = 1) \/ AfterRun(t) = third
        \/ AfterRun(t) = last
    BY DEF AfterRun
  <2>2. ses[t].todo \ {ses[t].mhz} \in SUBSET Nat
    BY <1>1 DEF Session
  <2>3. more \in Session /\ more.phase = "speed" /\ more.stage = ses[t].stage
    BY <1>1, <2>2 DEF Session, Phases, Inside, Wired
  <2>4. second \in Session /\ second.phase = "init_turbo" /\ second.stage = 2
    BY <1>1 DEF Session, Phases, Inside, Wired
  <2>5. third \in Session /\ third.phase = "reboot" /\ third.stage = 3
    BY <1>1 DEF Session, Phases, Inside, Wired
  <2>6. last \in Session /\ last.phase = "finally" /\ last.stage \in 1 .. 3
    BY <1>1 DEF Session, Phases, Inside, Wired
  <2> HIDE DEF more, second, third, last
  <2>7. CASE AfterRun(t) = more
    BY <1>5, <1>6, <2>3, <2>7
  <2>8. CASE AfterRun(t) = second /\ ses[t].stage = 1
    BY <1>5, <1>6, <2>4, <2>8
  <2>9. CASE AfterRun(t) = third
    <3>1. third.stage \in 1 .. 3
      BY <2>5
    <3> QED  BY <1>5, <1>6, <2>5, <2>9, <3>1
  <2>10. CASE AfterRun(t) = last
    BY <1>5, <1>6, <2>6, <2>10
  <2> QED  BY <2>1, <2>7, <2>8, <2>9, <2>10
<1> QED  BY <1>4, <1>6 DEF Record

LEMMA DeviceRaise == ASSUME SessionInv, DeviceInv, NEW t \in Tools, Raise(t) PROVE DeviceInv'
<1>1. ses[t].phase \in Inside /\ Fail(t) /\ UNCHANGED <<live, cpu, mem, clock>>
  BY DEF Raise, Guarded, Inside, Wired, device
<1> QED  BY <1>1, FailStep

LEMMA InitDevice == Init => DeviceInv
<1> SUFFICES ASSUME Init PROVE DeviceInv
  OBVIOUS
<1>1. mem \in Memory /\ clock \in Timing
  BY DEF Init, Memory, None, Timing
<1>2. ASSUME NEW t \in Tools
      PROVE  Guided(t)
  <2>1. ses[t].phase \in {"check", "clean"} /\ ses[t].stage = 1
    BY DEF Init
  <2> QED  BY <2>1 DEF Guided, Prepared, Equipped, Configured, Measuring, In, Timed
<1> QED  BY <1>1, <1>2 DEF DeviceInv, Init, Tame, Places

LEMMA StepDevice == SessionInv /\ DeviceInv /\ [Next]_vars => DeviceInv'
<1> SUFFICES ASSUME SessionInv, DeviceInv, [Next]_vars PROVE DeviceInv'
  OBVIOUS
<1>1. CASE C64
  BY <1>1, ResetStep, BootStep, InitialisedStep, LeaveLoopStep, TrampolineStepInv DEF C64
<1>2. CASE AllDone \/ UNCHANGED vars
  <2>1. UNCHANGED <<live, cpu, mem, clock, ses>>
    BY <1>2 DEF AllDone, vars
  <2> QED  BY <2>1 DEF DeviceInv, Tame, Guided, Prepared, Equipped, Configured, Measuring, In, Quiet,
                       Idling, Booting, Running, Finished, Timely, Conditions
<1>3. ASSUME NEW t \in Tools, Step(t)
      PROVE  DeviceInv'
  <2>1. CASE \/ BuildPrgs(t) \/ CheckFiles(t) \/ Probe(t) \/ AcquireLock(t) \/ GetInfo(t)
             \/ Snapshot(t) \/ Guard(t) \/ RestoreState(t) \/ Release(t)
    BY <2>1, IdleSteps
  <2>2. CASE Reboot(t) \/ SettleFloor(t) \/ WaitReady(t) \/ SetReu(t) \/ InitTurbo(t) \/ ClearScreen(t)
    BY <2>2, RebootStep, SettleFloorStep, WaitReadyStep, SetReuStep, InitTurboStep, ClearScreenStep
  <2>3. CASE \/ RunPrg(t) \/ WaitBanner(t) \/ Install(t) \/ SetSpeed(t) \/ Scrub(t) \/ Hijack(t)
             \/ WaitSentinel(t) \/ Record(t)
    BY <2>3, RunPrgStep, WaitBannerStep, InstallStep, SetSpeedStep, ScrubStep, HijackStep,
       WaitSentinelStep, RecordStep
  <2> QED  BY <1>3, <2>1, <2>2, <2>3 DEF Step
<1>4. ASSUME NEW t \in Tools, Raise(t)
      PROVE  DeviceInv'
  BY <1>4, DeviceRaise
<1> QED  BY <1>1, <1>2, <1>3, <1>4 DEF Next

(* The inductive invariant of the device: phase by phase, where the C64 is    *)
(* and what is in its memory while a session relies on it.                   *)
THEOREM DeviceInvariance == FairSpec => []DeviceInv
  BY InitSession, StepSession, InitDevice, StepDevice, PTL DEF FairSpec

(* The sentinel a session has seen was set by its own run: the figures and    *)
(* the result in memory are of that run, the display is back and the idle     *)
(* loop is whole, whatever session ran before and wherever it died.          *)
THEOREM SentinelCurrent == FairSpec => []SentinelMeansThisRun
<1>1. DeviceInv => SentinelMeansThisRun
  BY DEF DeviceInv, Guided, Measuring, Finished, Timely, SentinelMeansThisRun
<1> QED  BY <1>1, DeviceInvariance, PTL

-----------------------------------------------------------------------------
(***************************************************************************)
(* The tables of results.                                                   *)
(***************************************************************************)
LEMMA ProfilesDistinct ==
  /\ Profiles[1] = "default" /\ Profiles[2] = "onchip" /\ Profiles[3] = "onchip-noreu"
  /\ \A j, k \in 1 .. 3 : Profiles[j] = Profiles[k] => j = k
<1>1. Profiles[1] = "default" /\ Profiles[2] = "onchip" /\ Profiles[3] = "onchip-noreu"
  BY DEF Profiles
<1>2. \A k \in 1 .. 3 : k = 1 \/ k = 2 \/ k = 3
  OBVIOUS
<1> QED  BY <1>1, <1>2

\* A step of session t leaves the tables of the others alone.
LEMMA TableStep ==
  ASSUME SessionInv, TableInv, NEW t \in Tools, NEW r \in Session, ses' = [ses EXCEPT ![t] = r],
         plan' = plan, recs' \in [Tools -> SUBSET Row], \A s \in Tools \ {t} : recs'[s] = recs[s],
         Filled(t)'
  PROVE  TableInv'
<1>1. ASSUME NEW s \in Tools, s # t
      PROVE  Filled(s)'
  <2>1. Filled(s) /\ ses'[s] = ses[s] /\ recs'[s] = recs[s]
    BY <1>1 DEF TableInv, SessionInv, Typed
  <2> QED  BY <2>1 DEF Filled, Recorded, Done, Requested
<1> QED  BY <1>1 DEF TableInv

\* Every step but Install, SetSpeed and Record: a session goes on where its
\* table does not matter, or ends without one.
LEMMA Untold ==
  ASSUME SessionInv, TableInv, NEW t \in Tools, NEW r \in Session, ses' = [ses EXCEPT ![t] = r],
         plan' = plan, recs' = recs, r.stage = ses[t].stage,
         \/ r.exit = "one" /\ r.phase \notin Going
         \/ /\ r.exit = ses[t].exit /\ r.todo = ses[t].todo /\ r.mhz = ses[t].mhz
            /\ r.phase \in Going => ses[t].phase \in Going
            /\ r.phase \in Timed <=> ses[t].phase \in Timed
            /\ r.phase = "speed" <=> ses[t].phase = "speed"
         \/ /\ r.exit = ses[t].exit /\ r.phase \notin Timed /\ ses[t].phase \notin Timed
            /\ r.phase \in Going => ses[t].phase \in Going
  PROVE  TableInv'
<1>1. ses'[t] = r /\ Filled(t)
  BY DEF TableInv, SessionInv, Typed
<1>2. Filled(t)'
  <2>1. CASE r.exit = "one" /\ r.phase \notin Going
    <3>1. r.phase \notin Timed
      BY <2>1 DEF Going, Timed, Wired
    <3> QED  BY <1>1, <2>1, <3>1 DEF Filled
  <2>2. CASE /\ r.exit = ses[t].exit /\ r.todo = ses[t].todo /\ r.mhz = ses[t].mhz
             /\ r.phase \in Going => ses[t].phase \in Going
             /\ r.phase \in Timed <=> ses[t].phase \in Timed
             /\ r.phase = "speed" <=> ses[t].phase = "speed"
    <3>1. \A k \in 1 .. 3 : Done(t, k)' = Done(t, k) /\ Recorded(t, k)' = Recorded(t, k)
                            /\ Requested(t, k)' = Requested(t, k)
      BY <1>1, <2>2 DEF Done, Recorded, Requested
    <3>2. Requested(t, r.stage)' = Requested(t, ses[t].stage)
      BY DEF Requested
    <3> QED  BY <1>1, <2>2, <3>1, <3>2 DEF Filled
  <2>3. CASE /\ r.exit = ses[t].exit /\ r.phase \notin Timed /\ ses[t].phase \notin Timed
             /\ r.phase \in Going => ses[t].phase \in Going
    <3>1. \A k \in 1 .. 3 : Done(t, k)' = Done(t, k) /\ Recorded(t, k)' = Recorded(t, k)
                            /\ Requested(t, k)' = Requested(t, k)
      BY <1>1, <2>3 DEF Done, Recorded, Requested
    <3> QED  BY <1>1, <2>3, <3>1 DEF Filled
  <2> QED  BY <2>1, <2>2, <2>3
<1>3. recs' \in [Tools -> SUBSET Row]
  BY DEF TableInv
<1> QED  BY <1>2, <1>3, TableStep

LEMMA UntoldFail ==
  ASSUME SessionInv, TableInv, NEW t \in Tools, Fail(t), plan' = plan, recs' = recs
  PROVE  TableInv'
<1> DEFINE r == [ses[t] EXCEPT !.phase = "finally", !.exit = "one"]
<1>1. r \in Session /\ r.phase = "finally" /\ r.stage = ses[t].stage /\ r.exit = "one"
  BY DEF SessionInv, Typed, Session, Phases, Inside
<1>2. ses' = [ses EXCEPT ![t] = r] /\ r.phase \notin Going
  BY <1>1 DEF Fail, Going, Before, Wired
<1> HIDE DEF r
<1> QED  BY <1>1, <1>2, Untold

LEMMA UntoldExit ==
  ASSUME SessionInv, TableInv, NEW t \in Tools, plan' = plan, recs' = recs,
         Exit(t, "one") \/ (Exit(t, ses[t].exit) /\ ses[t].phase \notin Timed)
  PROVE  TableInv'
<1>1. PICK code \in {"one", ses[t].exit} : Exit(t, code) /\ (code = "one" \/ ses[t].phase \notin Timed)
  OBVIOUS
<1> DEFINE r == [ses[t] EXCEPT !.phase = "done", !.exit = code]
<1>2. r \in Session /\ r.phase = "done" /\ r.stage = ses[t].stage /\ r.exit = code
  BY DEF SessionInv, Typed, Session, Phases
<1>3. ses' = [ses EXCEPT ![t] = r] /\ r.phase \notin Going /\ r.phase \notin Timed
  BY <1>1, <1>2 DEF Exit, Going, Before, Wired, Timed
<1> HIDE DEF r
<1> QED  BY <1>1, <1>2, <1>3, Untold

LEMMA UntoldGo ==
  ASSUME SessionInv, TableInv, NEW t \in Tools, NEW phase \in Phases \ {"speed"},
         Go(t, phase) \/ Await(t, phase), ses[t].phase # "speed", plan' = plan, recs' = recs,
         phase \in Going => ses[t].phase \in Going,
         phase \in Timed <=> ses[t].phase \in Timed
  PROVE  TableInv'
<1> DEFINE g == [ses[t] EXCEPT !.phase = phase]
           w == [ses[t] EXCEPT !.phase = phase, !.left = MaxPolls]
<1>1. CASE Go(t, phase)
  <2>1. /\ g \in Session /\ ses' = [ses EXCEPT ![t] = g] /\ g.phase = phase /\ g.stage = ses[t].stage
        /\ g.exit = ses[t].exit /\ g.todo = ses[t].todo /\ g.mhz = ses[t].mhz
    BY <1>1 DEF SessionInv, Typed, Session, Go
  <2> HIDE DEF g
  <2> QED  BY <2>1, Untold
<1>2. CASE Await(t, phase)
  <2>1. ses[t] \in Session /\ MaxPolls \in Nat
    BY SessionAssumption DEF SessionInv, Typed
  <2>2. w \in Session
    BY <2>1 DEF Session
  <2>3. /\ w.phase = phase /\ w.stage = ses[t].stage
        /\ w.exit = ses[t].exit /\ w.todo = ses[t].todo /\ w.mhz = ses[t].mhz
    BY <2>1 DEF Session
  <2>4. ses' = [ses EXCEPT ![t] = w]
    BY <1>2 DEF Await
  <2> HIDE DEF w
  <2> QED  BY <2>2, <2>3, <2>4, Untold
<1> QED  BY <1>1, <1>2

LEMMA UntoldTry ==
  ASSUME SessionInv, TableInv, NEW t \in Tools, ses[t].left > 0,
         ses' = [ses EXCEPT ![t].left = @ - 1], plan' = plan, recs' = recs
  PROVE  TableInv'
<1> DEFINE r == [ses[t] EXCEPT !.left = ses[t].left - 1]
<1>1. ses[t] \in Session /\ ses[t].left \in Nat /\ ses \in [Tools -> Session]
  BY DEF SessionInv, Typed, Session
<1>2. ses[t].left - 1 \in Nat
  BY <1>1
<1>3. /\ r \in Session /\ r.phase = ses[t].phase /\ r.stage = ses[t].stage
      /\ r.exit = ses[t].exit /\ r.todo = ses[t].todo /\ r.mhz = ses[t].mhz
  BY <1>1, <1>2 DEF Session
<1>4. ses' = [ses EXCEPT ![t] = r]
  BY <1>1
<1> HIDE DEF r
<1> QED  BY <1>3, <1>4, Untold

\* The steps that only move a session on.
LEMMA UntoldSteps ==
  ASSUME SessionInv, TableInv, NEW t \in Tools,
         \/ BuildPrgs(t) \/ CheckFiles(t) \/ Probe(t) \/ AcquireLock(t) \/ GetInfo(t) \/ Guard(t)
         \/ Reboot(t) \/ SettleFloor(t) \/ WaitReady(t) \/ SetReu(t) \/ InitTurbo(t) \/ ClearScreen(t)
         \/ RunPrg(t) \/ WaitBanner(t) \/ Scrub(t) \/ WaitSentinel(t) \/ RestoreState(t) \/ Release(t)
         \/ Raise(t)
  PROVE  TableInv'
<1>1. plan' = plan /\ recs' = recs
  BY DEF BuildPrgs, CheckFiles, Probe, AcquireLock, GetInfo, Guard, Reboot, SettleFloor, WaitReady,
         SetReu, InitTurbo, ClearScreen, RunPrg, WaitBanner, Scrub, WaitSentinel, RestoreState,
         Release, Raise, KeepHost, Fixed
<1>2. CASE Fail(t)
  BY <1>1, <1>2, UntoldFail
<1>3. CASE Exit(t, "one")
  BY <1>1, <1>3, UntoldExit
<1>4. CASE ses[t].left > 0 /\ ses' = [ses EXCEPT ![t].left = @ - 1]
  BY <1>1, <1>4, UntoldTry
<1>5. ASSUME NEW phase \in Before \cup {"info", "snapshot"} \cup (Wired \ Timed),
             ses[t].phase \in Going \ Timed, Go(t, phase) \/ Await(t, phase)
      PROVE  TableInv'
  <2>1. phase \in Phases \ {"speed"} /\ phase \notin Timed /\ ses[t].phase # "speed"
    BY <1>5 DEF Phases, Inside, Before, Timed, Wired
  <2> QED  BY <1>1, <1>5, <2>1, UntoldGo
<1>6. CASE BuildPrgs(t) \/ CheckFiles(t) \/ Probe(t)
  <2>1. ses[t].phase \in Going \ Timed
    BY <1>6 DEF BuildPrgs, CheckFiles, Probe, In, Going, Before, Timed
  <2>2. Exit(t, "one") \/ \E phase \in Before : Go(t, phase)
    BY <1>6 DEF BuildPrgs, CheckFiles, Probe, Clean, Make, Before
  <2> QED  BY <1>3, <1>5, <2>1, <2>2
<1>7. CASE AcquireLock(t) \/ GetInfo(t) \/ Guard(t) \/ Reboot(t) \/ SettleFloor(t)
  <2>1. ses[t].phase \in Going \ Timed
    BY <1>7 DEF AcquireLock, GetInfo, Guard, Reboot, SettleFloor, In, Going, Before, Timed, Wired
  <2>2. \/ Exit(t, "one") \/ Fail(t)
        \/ \E phase \in {"info", "snapshot", "reboot", "settle", "ready"} : Go(t, phase) \/ Await(t, phase)
    BY <1>7 DEF AcquireLock, GetInfo, Guard, Reboot, SettleFloor
  <2>3. {"info", "snapshot", "reboot", "settle", "ready"}
          \subseteq Before \cup {"info", "snapshot"} \cup (Wired \ Timed)
    BY DEF Wired, Timed
  <2> QED  BY <1>2, <1>3, <1>5, <2>1, <2>2, <2>3
<1>8. CASE \/ WaitReady(t) \/ SetReu(t) \/ InitTurbo(t) \/ ClearScreen(t) \/ RunPrg(t) \/ WaitBanner(t)
  <2>1. ses[t].phase \in Going \ Timed
    BY <1>8 DEF WaitReady, SetReu, InitTurbo, ClearScreen, RunPrg, WaitBanner, In, Going, Timed, Wired
  <2>2. \/ Fail(t)
        \/ ses[t].left > 0 /\ ses' = [ses EXCEPT ![t].left = @ - 1]
        \/ \E phase \in {"set_reu", "init_turbo", "clear", "run_prg", "banner", "install"} :
             Go(t, phase) \/ Await(t, phase)
    BY <1>8 DEF WaitReady, SetReu, InitTurbo, ClearScreen, RunPrg, WaitBanner
  <2>3. {"set_reu", "init_turbo", "clear", "run_prg", "banner", "install"} \subseteq Wired \ Timed
    BY DEF Wired, Timed
  <2> QED  BY <1>2, <1>4, <1>5, <2>1, <2>2, <2>3
<1>9. CASE Scrub(t) \/ WaitSentinel(t)
  <2>1. ses[t].phase \in {"scrub", "poll"}
    BY <1>9 DEF Scrub, WaitSentinel, In
  <2>2. \/ Fail(t)
        \/ ses[t].left > 0 /\ ses' = [ses EXCEPT ![t].left = @ - 1]
        \/ \E phase \in {"hijack", "oracle"} : Go(t, phase)
    BY <1>9 DEF Scrub, WaitSentinel
  <2>3. ASSUME NEW phase \in {"hijack", "oracle"}, Go(t, phase)
        PROVE  TableInv'
    <3>1. /\ phase \in Phases \ {"speed"} /\ phase \in Timed /\ ses[t].phase # "speed"
          /\ ses[t].phase \in Going /\ ses[t].phase \in Timed
      BY <2>1, <2>3 DEF Phases, Inside, Wired, Timed, Going
    <3> QED  BY <1>1, <2>3, <3>1, UntoldGo
  <2> QED  BY <1>2, <1>4, <2>2, <2>3
<1>10. CASE RestoreState(t)
  <2>1. /\ ses[t].phase = "finally" /\ Go(t, "release") /\ "release" \in Phases \ {"speed"}
        /\ "release" \notin Going /\ "release" \notin Timed /\ "finally" \notin Timed
    BY <1>10 DEF RestoreState, In, Phases, Inside, Going, Before, Wired, Timed
  <2> QED  BY <1>1, <2>1, UntoldGo
<1>11. CASE Release(t)
  <2>1. ses[t].phase \notin Timed /\ (Exit(t, "one") \/ Exit(t, ses[t].exit))
    BY <1>11 DEF Release, In, Timed
  <2> QED  BY <1>1, <2>1, UntoldExit
<1>12. CASE Raise(t)
  BY <1>2, <1>12 DEF Raise
<1> QED  BY <1>6, <1>7, <1>8, <1>9, <1>10, <1>11, <1>12

LEMMA TableSnapshot == ASSUME SessionInv, TableInv, NEW t \in Tools, Snapshot(t) PROVE TableInv'
<1> DEFINE r == [ses[t] EXCEPT !.phase = "guard", !.snapped = TRUE, !.orig = config]
<1>1. ses' = [ses EXCEPT ![t] = r] /\ ses[t].phase = "snapshot" /\ plan' = plan /\ recs' = recs
  BY DEF Snapshot, In, KeepHost, Fixed
<1>2. /\ r \in Session /\ r.phase = "guard" /\ r.stage = ses[t].stage /\ r.exit = ses[t].exit
      /\ "guard" \notin Timed /\ "snapshot" \notin Timed /\ "snapshot" \in Going
  <2>1. ses[t] \in Session /\ config \in Settings
    BY DEF SessionInv, Typed
  <2>2. r \in Session
    BY <2>1 DEF Session, Phases, Inside, Wired
  <2>3. r.phase = "guard" /\ r.stage = ses[t].stage /\ r.exit = ses[t].exit
    BY <2>1 DEF Session
  <2>4. "guard" \notin Timed /\ "snapshot" \notin Timed /\ "snapshot" \in Going
    BY DEF Timed, Going
  <2> QED  BY <2>2, <2>3, <2>4
<1> HIDE DEF r
<1> QED  BY <1>1, <1>2, Untold

LEMMA TableHijack == ASSUME SessionInv, TableInv, NEW t \in Tools, Hijack(t) PROVE TableInv'
<1> DEFINE idle == cpu \in {"loop", "jmp_main_loop"}
           r == [ses[t] EXCEPT !.phase = "poll", !.left = MaxPolls, !.idle = idle]
<1>1. ses' = [ses EXCEPT ![t] = r] /\ ses[t].phase = "hijack" /\ plan' = plan /\ recs' = recs
  BY DEF Hijack, In, KeepHost, Fixed
<1>2. idle \in BOOLEAN
  OBVIOUS
<1> HIDE DEF idle
<1>3. /\ r \in Session /\ r.phase = "poll" /\ r.stage = ses[t].stage /\ r.exit = ses[t].exit
      /\ r.todo = ses[t].todo /\ r.mhz = ses[t].mhz
      /\ "poll" \in Timed /\ "hijack" \in Timed /\ "hijack" \in Going
  <2>1. ses[t] \in Session /\ MaxPolls \in Nat
    BY SessionAssumption DEF SessionInv, Typed
  <2>2. r \in Session
    BY <1>2, <2>1 DEF Session, Phases, Inside, Wired
  <2>3. /\ r.phase = "poll" /\ r.stage = ses[t].stage /\ r.exit = ses[t].exit
        /\ r.todo = ses[t].todo /\ r.mhz = ses[t].mhz
    BY <2>1 DEF Session
  <2>4. "poll" \in Timed /\ "hijack" \in Timed /\ "hijack" \in Going
    BY DEF Timed, Going, Wired
  <2> QED  BY <2>2, <2>3, <2>4
<1> HIDE DEF r
<1> QED  BY <1>1, <1>3, Untold

LEMMA TableInstall == ASSUME SessionInv, DeviceInv, TableInv, NEW t \in Tools, Install(t) PROVE TableInv'
<1> DEFINE todo == IF ses[t].stage = 3 THEN {InitMhz} ELSE plan[t].speeds
           r == [ses[t] EXCEPT !.phase = "speed", !.todo = todo]
<1>1. /\ ses' = [ses EXCEPT ![t] = r] /\ ses[t].phase = "install" /\ plan' = plan /\ recs' = recs
      /\ ses[t] \in Session /\ ses[t].stage \in 1 .. 3 /\ Filled(t)
  BY DEF Install, In, KeepHost, Fixed, SessionInv, Typed, DeviceInv, Guided, TableInv
<1>2. todo \in SUBSET Nat /\ todo = Requested(t, ses[t].stage)
  BY SessionAssumption DEF SessionInv, Typed, Requested
<1> HIDE DEF todo
<1>3. /\ r \in Session /\ r.phase = "speed" /\ r.stage = ses[t].stage /\ r.exit = ses[t].exit
      /\ r.todo = todo
  BY <1>1, <1>2 DEF Session, Phases, Inside, Wired
<1> HIDE DEF r
<1>4. ses'[t] = r
  BY <1>1 DEF SessionInv, Typed
<1>5. r.exit = "running" /\ "speed" \in Timed /\ "install" \notin Timed
  BY <1>1, <1>3 DEF Filled, Going, Wired, Timed
<1>6. ASSUME NEW k \in 1 .. 3
      PROVE  Recorded(t, k)' = Done(t, k)'
  <2>1. Recorded(t, k)' = Recorded(t, k) /\ Requested(t, k)' = Requested(t, k)
    BY <1>1 DEF Recorded, Requested
  <2>2. Done(t, k) = IF k < ses[t].stage THEN Requested(t, k) ELSE {}
    BY <1>1, <1>5 DEF Done
  <2>3. Done(t, k)' = IF k < ses[t].stage THEN Requested(t, k) ELSE {}
    BY <1>2, <1>3, <1>4, <1>5, <2>1 DEF Done
  <2> QED  BY <1>1, <1>3, <1>5, <2>1, <2>2, <2>3 DEF Filled
<1>7. Requested(t, ses[t].stage)' = todo
  BY <1>1, <1>2, <1>3, <1>4 DEF Requested
<1>8. Filled(t)'
  BY <1>1, <1>3, <1>4, <1>5, <1>6, <1>7 DEF Filled
<1> QED  BY <1>1, <1>3, <1>8, TableStep DEF TableInv

LEMMA TableSetSpeed == ASSUME SessionInv, TableInv, NEW t \in Tools, SetSpeed(t) PROVE TableInv'
<1>1. PICK mhz \in ses[t].todo : ses' = [ses EXCEPT ![t].phase = "scrub", ![t].mhz = mhz]
  BY DEF SetSpeed
<1> DEFINE r == [ses[t] EXCEPT !.phase = "scrub", !.mhz = mhz]
<1>2. /\ ses' = [ses EXCEPT ![t] = r] /\ ses[t].phase = "speed" /\ plan' = plan /\ recs' = recs
      /\ ses[t] \in Session /\ Filled(t)
  BY <1>1 DEF SetSpeed, In, KeepHost, Fixed, SessionInv, Typed, TableInv
<1>3. mhz \in Nat
  BY <1>2 DEF Session
<1>4. /\ r \in Session /\ r.phase = "scrub" /\ r.stage = ses[t].stage /\ r.exit = ses[t].exit
      /\ r.todo = ses[t].todo /\ r.mhz = mhz
  BY <1>2, <1>3 DEF Session, Phases, Inside, Wired
<1> HIDE DEF r
<1>5. ses'[t] = r
  BY <1>2 DEF SessionInv, Typed
<1>6. r.exit = "running" /\ "speed" \in Timed /\ "scrub" \in Timed
  BY <1>2, <1>4 DEF Filled, Going, Wired, Timed
<1>7. \A k \in 1 .. 3 : Done(t, k)' = Done(t, k) /\ Recorded(t, k)' = Recorded(t, k)
  <2>1. recs' = recs /\ plan' = plan /\ ses'[t].stage = ses[t].stage /\ ses'[t].todo = ses[t].todo
    BY <1>2, <1>4, <1>5
  <2>2. ses[t].phase \in Timed /\ ses'[t].phase \in Timed
    BY <1>2, <1>4, <1>5, <1>6
  <2> QED  BY <2>1, <2>2 DEF Done, Recorded, Requested
<1>8. Requested(t, ses[t].stage)' = Requested(t, ses[t].stage)
  BY <1>2, <1>4, <1>5 DEF Requested
<1>9. Filled(t)'
  <2>1. /\ ses'[t].stage = ses[t].stage /\ ses'[t].phase = "scrub" /\ ses'[t].exit = "running"
        /\ ses'[t].mhz = mhz /\ ses'[t].todo = ses[t].todo /\ plan' = plan
    BY <1>2, <1>4, <1>5, <1>6
  <2>2. ses[t].exit = "running"
    BY <1>4, <1>6
  <2>3. /\ ses'[t].stage = 3 => plan'[t].stock
        /\ ses'[t].mhz \in ses'[t].todo
    BY <1>1, <1>2, <2>1 DEF Filled
  <2>4. ses'[t].todo \subseteq Requested(t, ses[t].stage)'
    BY <1>2, <1>6, <1>8, <2>1 DEF Filled
  <2>5. \A k \in 1 .. 3 : Recorded(t, k)' = Done(t, k)'
    BY <1>2, <1>7, <2>2 DEF Filled
  <2> QED  BY <2>1, <2>3, <2>4, <2>5 DEF Filled
<1> QED  BY <1>2, <1>4, <1>9, TableStep DEF TableInv

\* A row more: the speed it is of joins those recorded under its profile.
LEMMA RowAdded ==
  ASSUME TableInv, NEW t \in Tools, NEW s \in 1 .. 3, NEW row \in Row, row.profile = Profiles[s],
         recs' = [recs EXCEPT ![t] = @ \cup {row}]
  PROVE  /\ recs' \in [Tools -> SUBSET Row]
         /\ \A u \in Tools \ {t} : recs'[u] = recs[u]
         /\ \A k \in 1 .. 3 :
              Recorded(t, k)' = IF k = s THEN Recorded(t, k) \cup {row.mhz} ELSE Recorded(t, k)
<1>1. recs'[t] = recs[t] \cup {row} /\ recs' \in [Tools -> SUBSET Row]
      /\ \A u \in Tools \ {t} : recs'[u] = recs[u]
  BY DEF TableInv
<1>2. ASSUME NEW k \in 1 .. 3
      PROVE  Recorded(t, k)' = IF k = s THEN Recorded(t, k) \cup {row.mhz} ELSE Recorded(t, k)
  <2>1. CASE k = s
    BY <1>1, <2>1 DEF Recorded
  <2>2. CASE k # s
    <3>1. row.profile # Profiles[k]
      BY <2>2, ProfilesDistinct
    <3> QED  BY <1>1, <2>2, <3>1 DEF Recorded
  <2> QED  BY <2>1, <2>2
<1> QED  BY <1>1, <1>2

LEMMA TableRecord == ASSUME SessionInv, DeviceInv, TableInv, NEW t \in Tools, Record(t) PROVE TableInv'
<1> DEFINE row == [profile |-> Profiles[ses[t].stage], mhz |-> ses[t].mhz,
                   cycles |-> mem.cycles, idle |-> ses[t].idle]
<1>1. /\ ses[t].phase = "oracle" /\ plan' = plan
      /\ ses[t] \in Session /\ ses[t].stage \in 1 .. 3 /\ Filled(t) /\ mem \in Memory
      /\ ses \in [Tools -> Session]
  BY DEF Record, In, Fixed, SessionInv, Typed, DeviceInv, Guided, TableInv
<1>2. CASE recs' = recs /\ Fail(t)
  BY <1>1, <1>2, UntoldFail
<1>3. CASE recs' = [recs EXCEPT ![t] = @ \cup {row}] /\ ses' = [ses EXCEPT ![t] = AfterRun(t)]
  <2>1. row \in Row /\ row.profile = Profiles[ses[t].stage] /\ row.mhz = ses[t].mhz
    BY <1>1, ProfilesDistinct DEF Row, Session, Memory
  <2> HIDE DEF row
  <2>2. /\ recs' \in [Tools -> SUBSET Row]
        /\ \A u \in Tools \ {t} : recs'[u] = recs[u]
        /\ \A k \in 1 .. 3 :
             Recorded(t, k)' = IF k = ses[t].stage THEN Recorded(t, k) \cup {ses[t].mhz}
                               ELSE Recorded(t, k)
    <3>1. PICK s \in 1 .. 3 : s = ses[t].stage
      BY <1>1
    <3>2. PICK w \in Row : w = row
      BY <2>1
    <3>3. w.profile = Profiles[s] /\ recs' = [recs EXCEPT ![t] = @ \cup {w}] /\ w.mhz = ses[t].mhz
      BY <1>3, <2>1, <3>1, <3>2
    <3>4. /\ recs' \in [Tools -> SUBSET Row]
          /\ \A u \in Tools \ {t} : recs'[u] = recs[u]
          /\ \A k \in 1 .. 3 :
               Recorded(t, k)' = IF k = s THEN Recorded(t, k) \cup {w.mhz} ELSE Recorded(t, k)
      BY <3>3, RowAdded
    <3> QED  BY <3>1, <3>3, <3>4
  <2>3. /\ ses[t].exit = "running" /\ ses[t].mhz \in ses[t].todo
        /\ ses[t].todo \subseteq Requested(t, ses[t].stage)
        /\ ses[t].stage = 3 => plan[t].stock
    BY <1>1 DEF Filled, Going, Timed, Wired
  <2>4. \A k \in 1 .. 3 :
          Recorded(t, k)' = IF k < ses[t].stage THEN Requested(t, k)
                            ELSE IF k = ses[t].stage
                            THEN (Requested(t, k) \ ses[t].todo) \cup {ses[t].mhz} ELSE {}
    <3>1. \A k \in 1 .. 3 :
            Recorded(t, k) = IF k < ses[t].stage THEN Requested(t, k)
                             ELSE IF k = ses[t].stage THEN Requested(t, k) \ ses[t].todo ELSE {}
      BY <1>1, <2>3 DEF Filled, Done, Timed
    <3> QED  BY <1>1, <2>2, <3>1
  <2>5. \A k \in 1 .. 3 : Requested(t, k)' = Requested(t, k)
    BY <1>1 DEF Requested
  <2>6. ASSUME NEW r \in Session, ses' = [ses EXCEPT ![t] = r],
               \/ /\ r.phase = "speed" /\ r.stage = ses[t].stage /\ r.exit = "running"
                  /\ r.todo = ses[t].todo \ {ses[t].mhz}
               \/ /\ ses[t].todo = {ses[t].mhz} /\ r.phase = "init_turbo"
                  /\ ses[t].stage = 1 /\ r.stage = 2 /\ r.exit = "running"
               \/ /\ ses[t].todo = {ses[t].mhz} /\ r.phase = "reboot" /\ plan[t].stock
                  /\ ses[t].stage = 2 /\ r.stage = 3 /\ r.exit = "running"
               \/ /\ ses[t].todo = {ses[t].mhz} /\ r.phase = "finally" /\ r.stage = ses[t].stage
                  /\ ses[t].stage = 3 \/ (ses[t].stage = 2 /\ ~plan[t].stock)
                  /\ r.exit = "zero"
        PROVE  TableInv'
    <3>1. ses'[t] = r
      BY <1>1, <2>6
    <3>2. Filled(t)'
      <4>1. CASE /\ r.phase = "speed" /\ r.stage = ses[t].stage /\ r.exit = "running"
                 /\ r.todo = ses[t].todo \ {ses[t].mhz}
        <5>1. \A k \in 1 .. 3 : Recorded(t, k)' = Done(t, k)'
          BY <1>1, <2>3, <2>4, <2>5, <3>1, <4>1 DEF Done, Timed
        <5>2. r.todo \subseteq Requested(t, ses[t].stage)'
          BY <1>1, <2>3, <3>1, <4>1 DEF Requested
        <5> QED  BY <1>1, <2>3, <3>1, <4>1, <5>1, <5>2 DEF Filled
      <4>2. CASE /\ ses[t].todo = {ses[t].mhz} /\ r.phase = "init_turbo"
                 /\ ses[t].stage = 1 /\ r.stage = 2 /\ r.exit = "running"
        <5>1. \A k \in 1 .. 3 : Recorded(t, k)' = Done(t, k)'
          BY <1>1, <2>3, <2>4, <2>5, <3>1, <4>2 DEF Done, Timed
        <5> QED  BY <3>1, <4>2, <5>1 DEF Filled, Timed
      <4>3. CASE /\ ses[t].todo = {ses[t].mhz} /\ r.phase = "reboot" /\ plan[t].stock
                 /\ ses[t].stage = 2 /\ r.stage = 3 /\ r.exit = "running"
        <5>1. \A k \in 1 .. 3 : Recorded(t, k)' = Done(t, k)'
          BY <1>1, <2>3, <2>4, <2>5, <3>1, <4>3 DEF Done, Timed
        <5> QED  BY <1>1, <3>1, <4>3, <5>1 DEF Filled, Timed
      <4>4. CASE /\ ses[t].todo = {ses[t].mhz} /\ r.phase = "finally" /\ r.stage = ses[t].stage
                 /\ ses[t].stage = 3 \/ (ses[t].stage = 2 /\ ~plan[t].stock)
                 /\ r.exit = "zero"
        <5>1. \A k \in 1 .. 3 :
                Recorded(t, k)' = (IF k = 3 /\ ~plan[t].stock THEN {} ELSE Requested(t, k))'
          BY <1>1, <2>3, <2>4, <2>5, <4>4
        <5> QED  BY <1>1, <2>3, <3>1, <4>4, <5>1 DEF Filled, Timed, Going, Before, Wired
      <4> QED  BY <2>6, <4>1, <4>2, <4>3, <4>4
    <3> QED  BY <1>1, <2>2, <2>6, <3>2, TableStep
  <2> DEFINE more == [ses[t] EXCEPT !.phase = "speed", !.todo = @ \ {ses[t].mhz}]
             second == [ses[t] EXCEPT !.phase = "init_turbo", !.stage = 2]
             third == [ses[t] EXCEPT !.phase = "reboot", !.stage = 3]
             last == [ses[t] EXCEPT !.phase = "finally", !.exit = "zero"]
  <2>7. \/ AfterRun(t) = more
        \/ AfterRun(t) = second /\ ses[t].todo = {ses[t].mhz} /\ ses[t].stage = 1
        \/ AfterRun(t) = third /\ ses[t].todo = {ses[t].mhz} /\ ses[t].stage = 2 /\ plan[t].stock
        \/ /\ AfterRun(t) = last /\ ses[t].todo = {ses[t].mhz}
           /\ ses[t].stage = 3 \/ (ses[t].stage = 2 /\ ~plan[t].stock)
    BY <1>1 DEF AfterRun
  <2>8. ses[t].todo \ {ses[t].mhz} \in SUBSET Nat
    BY <1>1 DEF Session
  <2>9. /\ more \in Session /\ more.phase = "speed" /\ more.stage = ses[t].stage
        /\ more.exit = ses[t].exit /\ more.todo = ses[t].todo \ {ses[t].mhz}
    BY <1>1, <2>8 DEF Session, Phases, Inside, Wired
  <2>10. second \in Session /\ second.phase = "init_turbo" /\ second.stage = 2 /\ second.exit = ses[t].exit
    BY <1>1 DEF Session, Phases, Inside, Wired
  <2>11. third \in Session /\ third.phase = "reboot" /\ third.stage = 3 /\ third.exit = ses[t].exit
    BY <1>1 DEF Session, Phases, Inside, Wired
  <2>12. last \in Session /\ last.phase = "finally" /\ last.stage = ses[t].stage /\ last.exit = "zero"
    BY <1>1 DEF Session, Phases, Inside, Wired
  <2> HIDE DEF more, second, third, last
  <2>13. CASE AfterRun(t) = more
    BY <1>3, <2>3, <2>6, <2>9, <2>13
  <2>14. CASE AfterRun(t) = second /\ ses[t].todo = {ses[t].mhz} /\ ses[t].stage = 1
    BY <1>3, <2>3, <2>6, <2>10, <2>14
  <2>15. CASE AfterRun(t) = third /\ ses[t].todo = {ses[t].mhz} /\ ses[t].stage = 2 /\ plan[t].stock
    BY <1>3, <2>3, <2>6, <2>11, <2>15
  <2>16. CASE /\ AfterRun(t) = last /\ ses[t].todo = {ses[t].mhz}
              /\ ses[t].stage = 3 \/ (ses[t].stage = 2 /\ ~plan[t].stock)
    BY <1>3, <2>6, <2>12, <2>16
  <2> QED  BY <2>7, <2>13, <2>14, <2>15, <2>16
<1> QED  BY <1>2, <1>3 DEF Record

LEMMA InitTable == Init => TableInv
<1> SUFFICES ASSUME Init PROVE TableInv
  OBVIOUS
<1>1. recs \in [Tools -> SUBSET Row]
  BY DEF Init
<1>2. ASSUME NEW t \in Tools
      PROVE  Filled(t)
  <2>1. /\ ses[t].phase \in {"check", "clean"} /\ ses[t].stage = 1 /\ ses[t].exit = "running"
        /\ recs[t] = {}
    BY DEF Init
  <2>2. \A k \in 1 .. 3 : Recorded(t, k) = {} /\ Done(t, k) = {}
    BY <2>1 DEF Recorded, Done, Timed
  <2> QED  BY <2>1, <2>2 DEF Filled, Timed
<1> QED  BY <1>1, <1>2 DEF TableInv

LEMMA StepTable == SessionInv /\ DeviceInv /\ TableInv /\ [Next]_vars => TableInv'
<1> SUFFICES ASSUME SessionInv, DeviceInv, TableInv, [Next]_vars PROVE TableInv'
  OBVIOUS
<1>1. CASE C64 \/ AllDone \/ UNCHANGED vars
  <2>1. plan' = plan /\ ses' = ses /\ recs' = recs
    BY <1>1 DEF C64, ResetEnds, Boot, Initialised, LeaveLoop, TrampolineStep, host, AllDone, vars
  <2>2. ASSUME NEW t \in Tools
        PROVE  /\ \A k \in 1 .. 3 : Recorded(t, k)' = Recorded(t, k) /\ Done(t, k)' = Done(t, k)
               /\ Requested(t, ses[t].stage)' = Requested(t, ses[t].stage)
    BY <2>1 DEF Recorded, Done, Requested
  <2>3. ASSUME NEW t \in Tools
        PROVE  Filled(t)'
    <3>1. Filled(t)
      BY DEF TableInv
    <3>2. ses'[t] = ses[t] /\ plan'[t] = plan[t]
      BY <2>1
    <3>3. ses'[t].exit = "running" => \A k \in 1 .. 3 : Recorded(t, k)' = Done(t, k)'
      BY <2>2, <3>1, <3>2 DEF Filled
    <3>4. ses'[t].exit = "zero" =>
            \A k \in 1 .. 3 :
              Recorded(t, k)' = IF k = 3 /\ ~plan'[t].stock THEN {} ELSE Requested(t, k)'
      <4>1. \A k \in 1 .. 3 : Requested(t, k)' = Requested(t, k)
        BY <2>1 DEF Requested
      <4> QED  BY <2>2, <3>1, <3>2, <4>1 DEF Filled
    <3>5. ses'[t].phase \in Timed => ses'[t].todo \subseteq Requested(t, ses[t].stage)'
      BY <2>2, <3>1, <3>2 DEF Filled
    <3> QED  BY <2>1, <3>1, <3>2, <3>3, <3>4, <3>5 DEF Filled
  <2> QED  BY <2>1, <2>3 DEF TableInv
<1>2. ASSUME NEW t \in Tools, Step(t) \/ Raise(t)
      PROVE  TableInv'
  <2>1. CASE Snapshot(t) \/ Hijack(t)
    BY <2>1, TableSnapshot, TableHijack
  <2>2. CASE Install(t) \/ SetSpeed(t) \/ Record(t)
    BY <2>2, TableInstall, TableSetSpeed, TableRecord
  <2> QED  BY <1>2, <2>1, <2>2, UntoldSteps DEF Step
<1> QED  BY <1>1, <1>2 DEF Next

LEMMA StepMeasurement ==
  SessionInv /\ DeviceInv /\ TableInv /\ MeasurementRight /\ [Next]_vars => MeasurementRight'
<1> SUFFICES ASSUME SessionInv, DeviceInv, TableInv, MeasurementRight, [Next]_vars
             PROVE  MeasurementRight'
  OBVIOUS
<1>1. CASE recs' = recs
  BY <1>1 DEF MeasurementRight
<1>2. ASSUME NEW t \in Tools, Record(t), recs' # recs
      PROVE  MeasurementRight'
  <2> DEFINE row == [profile |-> Profiles[ses[t].stage], mhz |-> ses[t].mhz,
                     cycles |-> mem.cycles, idle |-> ses[t].idle]
  <2>1. recs' = [recs EXCEPT ![t] = @ \cup {row}] /\ recs \in [Tools -> SUBSET Row]
    BY <1>2 DEF Record, TableInv
  <2>2. ses[t].stage \in 1 .. 3 /\ ses[t].idle /\ mem.cycles = Conditions(t)
    BY <1>2 DEF Record, In, DeviceInv, Guided, Measuring, Finished, Timely
  <2>3. /\ row.idle
        /\ row.cycles = [prog    |-> IF row.profile = "default" THEN "default" ELSE "onchip",
                         mhz     |-> row.mhz,
                         reu     |-> row.profile # "onchip-noreu",
                         blanked |-> TRUE]
    <3>1. /\ row.idle = ses[t].idle /\ row.cycles = Conditions(t) /\ row.mhz = ses[t].mhz
          /\ row.profile = Profiles[ses[t].stage]
      BY <2>2
    <3>2. ses[t].stage = 1 \/ ses[t].stage = 2 \/ ses[t].stage = 3
      BY <2>2
    <3> HIDE DEF row
    <3>3. /\ row.profile = "default" <=> ses[t].stage = 1
          /\ row.profile = "onchip-noreu" <=> ses[t].stage = 3
      BY <3>1, <3>2, ProfilesDistinct
    <3> QED  BY <2>2, <3>1, <3>3 DEF Conditions, Program
  <2> HIDE DEF row
  <2>4. \A s \in Tools : recs'[s] = IF s = t THEN recs[s] \cup {row} ELSE recs[s]
    BY <2>1
  <2> QED  BY <2>3, <2>4 DEF MeasurementRight
<1>3. recs' = recs \/ \E t \in Tools : Record(t)
  <2>1. CASE C64 \/ AllDone \/ UNCHANGED vars
    BY <2>1 DEF C64, ResetEnds, Boot, Initialised, LeaveLoop, TrampolineStep, host, AllDone, vars
  <2>2. ASSUME NEW t \in Tools, Step(t) \/ Raise(t)
        PROVE  recs' = recs \/ Record(t)
    <3>1. CASE \/ BuildPrgs(t) \/ CheckFiles(t) \/ Probe(t) \/ AcquireLock(t) \/ GetInfo(t)
               \/ Snapshot(t) \/ Guard(t) \/ Reboot(t) \/ SettleFloor(t) \/ WaitReady(t) \/ SetReu(t)
      BY <3>1 DEF BuildPrgs, CheckFiles, Probe, AcquireLock, GetInfo, Snapshot, Guard, Reboot,
                  SettleFloor, WaitReady, SetReu, KeepHost
    <3>2. CASE \/ InitTurbo(t) \/ ClearScreen(t) \/ RunPrg(t) \/ WaitBanner(t) \/ Install(t)
               \/ SetSpeed(t) \/ Scrub(t) \/ Hijack(t) \/ WaitSentinel(t) \/ RestoreState(t)
               \/ Release(t) \/ Raise(t)
      BY <3>2 DEF InitTurbo, ClearScreen, RunPrg, WaitBanner, Install, SetSpeed, Scrub, Hijack,
                  WaitSentinel, RestoreState, Release, Raise, KeepHost
    <3> QED  BY <2>2, <3>1, <3>2 DEF Step
  <2> QED  BY <2>1, <2>2 DEF Next
<1> QED  BY <1>1, <1>2, <1>3

(* The inductive invariant of the tables: speed by speed and program by        *)
(* program, what a session has recorded so far.                              *)
THEOREM TableInvariance == FairSpec => []TableInv
  BY InitSession, StepSession, InitDevice, StepDevice, InitTable, StepTable, PTL DEF FairSpec

(* Every figure in a table is of the program, the turbo and the REU its row   *)
(* names, with the display blanked, and timed from the idle loop: for any     *)
(* number of sessions, any command lines and any failures.                   *)
THEOREM MeasurementsRight == FairSpec => []MeasurementRight
<1>1. Init => MeasurementRight
  BY DEF Init, MeasurementRight
<1> QED  BY <1>1, SessionInvariance, DeviceInvariance, TableInvariance, StepMeasurement, PTL DEF FairSpec

LEMMA TableComplete == SessionInv /\ DeviceInv /\ TableInv => CompleteOrFailed
<1> SUFFICES ASSUME SessionInv, TableInv, NEW t \in Tools, ses[t].exit = "zero"
             PROVE  {<<r.profile, r.mhz>> : r \in recs[t]} =
                      ({"default", "onchip"} \X plan[t].speeds)
                        \cup (IF plan[t].stock THEN {<<"onchip-noreu", InitMhz>>} ELSE {})
  BY DEF CompleteOrFailed
<1>1. /\ Recorded(t, 1) = plan[t].speeds /\ Recorded(t, 2) = plan[t].speeds
      /\ Recorded(t, 3) = IF plan[t].stock THEN {InitMhz} ELSE {}
  BY DEF TableInv, Filled, Requested
<1>2. /\ Recorded(t, 1) = {r.mhz : r \in {q \in recs[t] : q.profile = "default"}}
      /\ Recorded(t, 2) = {r.mhz : r \in {q \in recs[t] : q.profile = "onchip"}}
      /\ Recorded(t, 3) = {r.mhz : r \in {q \in recs[t] : q.profile = "onchip-noreu"}}
  BY ProfilesDistinct DEF Recorded
<1>3. \A r \in recs[t] : r.profile \in {"default", "onchip", "onchip-noreu"}
  BY DEF TableInv, Row
<1>4. ASSUME NEW x \in {<<r.profile, r.mhz>> : r \in recs[t]}
      PROVE  x \in ({"default", "onchip"} \X plan[t].speeds)
                     \cup (IF plan[t].stock THEN {<<"onchip-noreu", InitMhz>>} ELSE {})
  <2>1. PICK r \in recs[t] : x = <<r.profile, r.mhz>>
    BY <1>4
  <2>2. CASE r.profile \in {"default", "onchip"}
    <3>1. r.mhz \in plan[t].speeds
      BY <1>1, <1>2, <2>2
    <3> QED  BY <2>1, <2>2, <3>1
  <2>3. CASE r.profile = "onchip-noreu"
    <3>1. r.mhz \in IF plan[t].stock THEN {InitMhz} ELSE {}
      BY <1>1, <1>2, <2>3
    <3> QED  BY <2>1, <2>3, <3>1
  <2> QED  BY <1>3, <2>2, <2>3
<1>5. ASSUME NEW p \in {"default", "onchip"}, NEW mhz \in plan[t].speeds
      PROVE  <<p, mhz>> \in {<<r.profile, r.mhz>> : r \in recs[t]}
  <2>1. PICK r \in recs[t] : r.profile = p /\ r.mhz = mhz
    BY <1>1, <1>2, <1>5
  <2> QED  BY <2>1
<1>6. ASSUME plan[t].stock
      PROVE  <<"onchip-noreu", InitMhz>> \in {<<r.profile, r.mhz>> : r \in recs[t]}
  <2>1. PICK r \in recs[t] : r.profile = "onchip-noreu" /\ r.mhz = InitMhz
    BY <1>1, <1>2, <1>6
  <2> QED  BY <2>1
<1> QED  BY <1>4, <1>5, <1>6

(* Exit code 0 means a complete table, for any number of sessions, any        *)
(* command lines and any failures.                                           *)
THEOREM TablesComplete == FairSpec => []CompleteOrFailed
  BY TableComplete, SessionInvariance, DeviceInvariance, TableInvariance, PTL

-----------------------------------------------------------------------------
(***************************************************************************)
(* Only supported configurations are ever written: past the guard a session *)
(* asks for speeds of the product, and restores what it has read.           *)
(***************************************************************************)
Past == Wired \ {"guard"}

Supported ==
  /\ config \in Configs /\ live \in Configs /\ built \subseteq Programs /\ supported \subseteq Steps
  /\ \A t \in Tools : ses[t].orig \in Configs /\ (ses[t].phase \in Past => plan[t].speeds \subseteq Steps)

\* Only Guard lets a session past the guard, only Snapshot changes what it
\* will restore.
LEMMA PastGuard ==
  ASSUME SessionInv, NEW t \in Tools, (Step(t) /\ ~Snapshot(t) /\ ~Guard(t)) \/ Raise(t)
  PROVE  /\ plan' = plan /\ supported' = supported
         /\ \A s \in Tools : /\ ses'[s].orig = ses[s].orig
                             /\ ses'[s].phase \in Past => ses[s].phase \in Past
<1>1. ses \in [Tools -> Session]
  BY DEF SessionInv, Typed
<1>2. ASSUME NEW phase \in Phases, Go(t, phase) \/ Await(t, phase), phase \in Past => ses[t].phase \in Past
      PROVE  \A s \in Tools : /\ ses'[s].orig = ses[s].orig
                              /\ ses'[s].phase \in Past => ses[s].phase \in Past
  BY <1>1, <1>2 DEF Go, Await, Session
<1>3. ASSUME Fail(t) \/ Exit(t, "one") \/ Exit(t, ses[t].exit)
      PROVE  \A s \in Tools : /\ ses'[s].orig = ses[s].orig
                              /\ ses'[s].phase \in Past => ses[s].phase \in Past
  BY <1>1, <1>3 DEF Fail, Exit, Session, Past, Wired
<1>4. ASSUME ses' = [ses EXCEPT ![t].left = @ - 1]
      PROVE  \A s \in Tools : /\ ses'[s].orig = ses[s].orig
                              /\ ses'[s].phase \in Past => ses[s].phase \in Past
  BY <1>1, <1>4 DEF Session
<1>5. CASE Raise(t)
  BY <1>3, <1>5 DEF Raise, KeepHost, Fixed
<1>6. CASE BuildPrgs(t) \/ CheckFiles(t) \/ Probe(t) \/ AcquireLock(t) \/ GetInfo(t) \/ Release(t) \/ RestoreState(t)
  <2>1. plan' = plan /\ supported' = supported
    BY <1>6 DEF BuildPrgs, CheckFiles, Probe, AcquireLock, GetInfo, Release, RestoreState, KeepHost, Fixed
  <2>2. \/ Exit(t, "one") \/ Exit(t, ses[t].exit)
        \/ \E phase \in {"make", "clean_onchip", "make_onchip", "check", "probe", "lock", "info", "snapshot",
                         "release"} : Go(t, phase)
    BY <1>6 DEF BuildPrgs, CheckFiles, Probe, AcquireLock, GetInfo, Release, RestoreState, Clean, Make
  <2>3. ASSUME NEW phase \in {"make", "clean_onchip", "make_onchip", "check", "probe", "lock", "info",
                              "snapshot", "release"}
        PROVE  phase \in Phases /\ phase \notin Past
    BY DEF Phases, Before, Inside, Past, Wired
  <2> QED  BY <1>2, <1>3, <2>1, <2>2, <2>3
<1>7. CASE \/ Reboot(t) \/ SettleFloor(t) \/ WaitReady(t) \/ SetReu(t) \/ InitTurbo(t) \/ ClearScreen(t)
           \/ RunPrg(t) \/ WaitBanner(t) \/ Scrub(t) \/ WaitSentinel(t)
  <2>1. plan' = plan /\ supported' = supported /\ ses[t].phase \in Past
    BY <1>7 DEF Reboot, SettleFloor, WaitReady, SetReu, InitTurbo, ClearScreen, RunPrg, WaitBanner, Scrub,
                WaitSentinel, KeepHost, Fixed, In, Past, Wired
  <2>2. \/ Fail(t) \/ ses' = [ses EXCEPT ![t].left = @ - 1]
        \/ \E phase \in {"settle", "ready", "set_reu", "init_turbo", "clear", "run_prg", "banner", "install",
                         "hijack", "oracle"} : Go(t, phase) \/ Await(t, phase)
    BY <1>7 DEF Reboot, SettleFloor, WaitReady, SetReu, InitTurbo, ClearScreen, RunPrg, WaitBanner, Scrub,
                WaitSentinel
  <2>3. {"settle", "ready", "set_reu", "init_turbo", "clear", "run_prg", "banner", "install",
         "hijack", "oracle"} \subseteq Phases
    BY DEF Phases, Inside, Wired
  <2> QED  BY <1>2, <1>3, <1>4, <2>1, <2>2, <2>3
<1>8. CASE Install(t) \/ SetSpeed(t) \/ Hijack(t)
  <2>1. plan' = plan /\ supported' = supported /\ ses[t].phase \in Past
    BY <1>8 DEF Install, SetSpeed, Hijack, KeepHost, Fixed, In, Past, Wired
  <2>2. \A s \in Tools : ses'[s].orig = ses[s].orig /\ (s # t => ses'[s] = ses[s])
    BY <1>1, <1>8 DEF Install, SetSpeed, Hijack, Session
  <2> QED  BY <2>1, <2>2
<1>9. CASE Record(t)
  <2>1. plan' = plan /\ supported' = supported /\ ses[t].phase \in Past
    BY <1>9 DEF Record, Fixed, In, Past, Wired
  <2>2. CASE ses' = [ses EXCEPT ![t] = AfterRun(t)]
    <3>1. AfterRun(t).orig = ses[t].orig
      BY <1>1 DEF AfterRun, Session
    <3> QED  BY <1>1, <2>1, <2>2, <3>1
  <2> QED  BY <1>3, <1>9, <2>1, <2>2 DEF Record
<1> QED  BY <1>5, <1>6, <1>7, <1>8, <1>9 DEF Step

LEMMA StepSupported == SessionInv /\ DeviceInv /\ TableInv /\ Supported /\ [Next]_vars => Supported'
<1> SUFFICES ASSUME SessionInv, DeviceInv, TableInv, Supported, [Next]_vars PROVE Supported'
  OBVIOUS
<1>1. ses \in [Tools -> Session] /\ config \in Configs /\ live \in Configs /\ built \subseteq Programs
  BY DEF SessionInv, Typed, Supported
<1>2. CASE C64 \/ AllDone \/ UNCHANGED vars
  <2>1. UNCHANGED <<config, live, built, supported, ses, plan>>
    BY <1>2 DEF C64, ResetEnds, Boot, Initialised, LeaveLoop, TrampolineStep, host, AllDone, vars
  <2> QED  BY <2>1 DEF Supported
<1>3. ASSUME NEW t \in Tools, Step(t) \/ Raise(t)
      PROVE  Supported'
  <2>1. built' \subseteq Programs
    BY <1>1, <1>3
    DEF Step, Raise, BuildPrgs, Clean, Make, Programs, CheckFiles, Probe, AcquireLock, GetInfo, Snapshot,
        Guard, Reboot, SettleFloor, WaitReady, SetReu, InitTurbo, ClearScreen, RunPrg, WaitBanner, Install,
        SetSpeed, Scrub, Hijack, WaitSentinel, Record, RestoreState, Release, KeepHost, Fixed
  <2>2. ASSUME NEW c \in Configs, NEW l \in Configs, Write(c, l)
        PROVE  config' \in Configs /\ live' \in Configs
    BY <1>1, <2>2 DEF Write
  <2>3. ASSUME NEW mhz \in Steps, WriteTurbo(mhz)
        PROVE  config' \in Configs /\ live' \in Configs
    <3>1. [config EXCEPT !.turbo = mhz] \in Configs /\ [live EXCEPT !.turbo = mhz] \in Configs
      BY <1>1, <2>3 DEF Configs
    <3> QED  BY <2>2, <2>3, <3>1 DEF WriteTurbo
  <2>4. ASSUME NEW on \in BOOLEAN, WriteReu(on)
        PROVE  config' \in Configs /\ live' \in Configs
    <3>1. [config EXCEPT !.reu = on] \in Configs /\ [live EXCEPT !.reu = on] \in Configs
      BY <1>1, <2>4 DEF Configs
    <3> QED  BY <2>2, <2>4, <3>1 DEF WriteReu
  <2>5. config' \in Configs /\ live' \in Configs
    <3>1. CASE SetReu(t)
      BY <2>4, <3>1 DEF SetReu
    <3>2. CASE InitTurbo(t)
      BY <2>3, <3>2, SessionAssumption DEF InitTurbo
    <3>3. CASE SetSpeed(t)
      <4>1. ses[t].phase = "speed" /\ Filled(t) /\ plan[t].speeds \subseteq Steps /\ InitMhz \in Steps
        BY <3>3, SessionAssumption DEF SetSpeed, In, TableInv, Supported, Past, Wired
      <4>2. ses[t].todo \subseteq Steps
        BY <4>1 DEF Filled, Timed, Requested
      <4> QED  BY <2>3, <3>3, <4>2 DEF SetSpeed
    <3>4. CASE RestoreState(t)
      <4>1. ses[t].orig \in Configs
        BY DEF Supported
      <4> QED  BY <1>1, <2>2, <3>4, <4>1 DEF RestoreState
    <3>5. CASE /\ ~SetReu(t) /\ ~InitTurbo(t) /\ ~SetSpeed(t) /\ ~RestoreState(t)
      <4>1. UNCHANGED <<config, live>>
        BY <1>3, <3>5
        DEF Step, Raise, BuildPrgs, CheckFiles, Probe, AcquireLock, GetInfo, Snapshot, Guard, Reboot,
            SettleFloor, WaitReady, ClearScreen, RunPrg, WaitBanner, Install, Scrub, Hijack, WaitSentinel,
            Record, Release, device
      <4> QED  BY <1>1, <4>1
    <3> QED  BY <3>1, <3>2, <3>3, <3>4, <3>5
  <2>6. CASE Snapshot(t)
    <3>1. /\ plan' = plan /\ supported' = supported
          /\ \A s \in Tools : ses'[s].orig \in {ses[s].orig, config} /\ (s # t => ses'[s] = ses[s])
          /\ ses'[t].phase = "guard"
      BY <1>1, <2>6 DEF Snapshot, KeepHost, Fixed, Session
    <3> QED  BY <1>1, <2>1, <2>5, <3>1 DEF Supported, Past
  <2>7. CASE Guard(t)
    <3>1. /\ plan' = plan /\ supported' = supported
          /\ \A s \in Tools : ses'[s].orig = ses[s].orig /\ (s # t => ses'[s] = ses[s])
          /\ ses'[t].phase = "finally" \/ plan[t].speeds \subseteq supported
      BY <1>1, <2>7 DEF Guard, Go, Fail, KeepHost, Fixed, Session
    <3> QED  BY <2>1, <2>5, <3>1 DEF Supported, Past, Wired
  <2>8. CASE ~Snapshot(t) /\ ~Guard(t)
    BY <1>3, <2>1, <2>5, <2>8, PastGuard DEF Supported
  <2> QED  BY <2>6, <2>7, <2>8
<1> QED  BY <1>2, <1>3 DEF Next

(* Types: among them, that no session ever writes a speed its product has not *)
(* and that the C64 is never led astray by what an earlier session left.      *)
THEOREM TypeCorrect == FairSpec => []TypeOK
<1>1. Init => Supported
  <2> SUFFICES ASSUME Init PROVE Supported
    OBVIOUS
  <2>1. found \in Configs
    BY SessionAssumption DEF Init, Configs
  <2>2. \A t \in Tools : ses[t].orig = found /\ ses[t].phase \notin Past
    BY DEF Init, Past, Wired
  <2> QED  BY <2>1, <2>2 DEF Init, Supported
<1>2. SessionInv /\ DeviceInv /\ Supported => TypeOK
  BY TrampolinePlaces DEF SessionInv, Typed, Session, DeviceInv, Guided, Tame, Supported, TypeOK
<1> QED  BY <1>1, <1>2, SessionInvariance, DeviceInvariance, TableInvariance, StepSupported, PTL DEF FairSpec
===============================================================================
