----------------------------- MODULE CycleBench -----------------------------
(***************************************************************************)
(* The timing brackets of src/src/util.s and the tools that use them:       *)
(* bench_fe_ops.py and bench_x25519.py read the CIA1 cycle counter around a *)
(* thunk they write into the C64, bench_fe_mul.py reads the jiffy clock     *)
(* around a call of its own.  A tool runs its measurements in order; each   *)
(* is one or more calls by the harness, which puts the processor status     *)
(* back after every call (jsr, preserve_state).                             *)
(*                                                                          *)
(* Time passes in cycles; every instruction is one.  While the display is   *)
(* on, the VIC-II takes cycles from the processor.  Timer A of CIA1 is the  *)
(* kernal's 60 Hz timer until bench_cycles_start takes it.                  *)
(***************************************************************************)
EXTENDS Integers, Sequences, FiniteSets, SequencesExt

CONSTANTS
  Base,       \* values of a timer, of a byte pair                       (65536)
  Digit,      \* values of a byte of the jiffy clock, here of two bytes    (256)
  Period,     \* cycles between two jiffy interrupts                    (~17045)
  Handler,    \* most cycles of the kernal's interrupt handler, with those the
              \* VIC-II takes from the request to the end of it
  Steals,     \* bound: other cycles the VIC-II takes during one measurement
  BatchN,     \* calls of a batch                                          (200)
  Body        \* the instructions of each routine that is timed, rts included

ASSUME CycleAssumption ==
  /\ Base \in Nat \ {0} /\ Digit \in Nat \ {0, 1}
  /\ Period \in 2 .. Base /\ Handler \in 1 .. Period - 1 /\ Steals \in Nat
  /\ BatchN \in Nat \ {0}

(***************************************************************************)
(* The routines that are timed.  What they do with the stack and with the   *)
(* interrupt flag matters here: what one pushes it pulls, and it changes    *)
(* the flag only between a php and its plp, as x25519_scalarmult does.      *)
(***************************************************************************)
Routines ==
  {"fe25519_mul", "fe25519_sqr", "fe25519_inv", "fe25519_add", "fe25519_sub",
   "fe25519_reduce_final", "fe25519_mul_a24", "fe25519_cswap", "x25519_base"}

BodyOps == {"work", "php", "sei", "cli", "plp", "rts"}

\* The statuses that the first k instructions of b leave on the stack.
Count(b, op, k) == Cardinality({j \in 1 .. k : b[j] = op})
Depth(b, k)     == Count(b, "php", k) - Count(b, "plp", k)

Balanced(b) ==
  /\ \A k \in 1 .. Len(b) : b[k] \in {"sei", "cli", "plp"} => Depth(b, k - 1) > 0
  /\ Depth(b, Len(b)) = 0

ASSUME BodyAssumption ==
  \A routine \in Routines : Body[routine] \in Seq(BodyOps) \ {<<>>} /\ Balanced(Body[routine])

(***************************************************************************)
(* util.s: the brackets as instructions.                                    *)
(***************************************************************************)
BareStart    == <<"sei", "zero_high", "zero_low">>        \* faulty: before v0.6
BareStop     == <<"snap_high", "snap_low">>               \* faulty: may be torn
UnmaskedIcr  ==                                           \* faulty: interrupts left on
  <<"save_p", "sei", "stop_A", "stop_B", "ack_ICR", "latch_A", "latch_B", "start_B", "start_A">>

BenchStart == <<"php", "sei", "zero_high", "zero_low", "plp">>
BenchStop  == <<"php", "sei", "snap_high", "snap_low", "plp">>

BenchCyclesStart ==
  <<"save_p", "sei", "stop_A", "stop_B", "mask_ICR", "ack_ICR",
    "latch_A", "latch_B", "start_B", "start_A">>

BenchCyclesStop == <<"stop_A", "stop_B", "count_low", "count_high", "restore_p">>

(***************************************************************************)
(* The tools.  A measurement times n calls of a routine, in one of the      *)
(* forms the tools have; a plan is the measurements of one tool in order.   *)
(***************************************************************************)
If(condition, code) == IF condition THEN code ELSE <<>>

Loop(m) == <<"ldx", "jsr">> \o Body[m.routine] \o <<"dec", "bne">>

\* _build_batch_thunk; _bench_single uses it too, with n = 1 and no blanking.
BatchThunk(m) ==
  If(m.blank, <<"vic_blank">>) \o BenchCyclesStart \o Loop(m) \o BenchCyclesStop
    \o If(m.blank, <<"vic_unblank">>)

\* build_bench_subroutine: one call, no loop.
BenchSubroutine(m) ==
  If(m.blank, <<"vic_blank">>) \o BenchCyclesStart \o <<"jsr">> \o Body[m.routine]
    \o BenchCyclesStop \o If(m.blank, <<"vic_unblank">>)

\* The calls by the harness a measurement is made of.
Calls(m) ==
  CASE m.form = "thunk"       -> <<BatchThunk(m)>>
    [] m.form = "subroutine"  -> <<BenchSubroutine(m)>>
    [] m.form = "jiffies"     -> <<BenchStart, Body[m.routine], BenchStop>>
    [] m.form = "jiffy_thunk" -> <<BenchStart \o Loop(m) \o BenchStop>>
    [] m.form = "three_calls" ->
         (IF m.blank THEN <<<<"vic_blank">>>> ELSE <<>>)
           \o <<BenchCyclesStart, Body[m.routine], BenchCyclesStop>>
           \o (IF m.blank THEN <<<<"vic_unblank">>>> ELSE <<>>)

CountsCycles(m) == m.form \in {"thunk", "subroutine", "three_calls"}

M(form, routine, n, blank) == [form |-> form, routine |-> routine, n |-> n, blank |-> blank]

Single(routine)       == M("thunk", routine, 1, FALSE)
Batch(routine, blank) == M("thunk", routine, BatchN, blank)

\* bench_fe_ops.py: the spread of single calls, one of each here, then the batches.
FeOps(blank) ==
  <<Single("fe25519_mul"), Single("fe25519_sqr"), Single("fe25519_inv"),
    Single("fe25519_add"), Single("fe25519_sub"), Single("fe25519_reduce_final"),
    Single("fe25519_mul_a24"), Single("fe25519_cswap"),
    Batch("fe25519_mul", blank), Batch("fe25519_sqr", blank), Batch("fe25519_add", blank),
    Batch("fe25519_sub", blank), Batch("fe25519_reduce_final", blank),
    Batch("fe25519_mul_a24", blank), Batch("fe25519_cswap", blank)>>

\* What goes into the sidecar of bench_fe_ops.py: the batches, and the
\* inversion, which is only ever called singly.
Recorded(m) == m.n > 1 \/ m.routine = "fe25519_inv"

BenchX25519(blank) == <<M("subroutine", "x25519_base", 1, blank)>>

BenchFeMul == <<M("jiffies", "fe25519_mul", 1, FALSE), M("jiffies", "fe25519_mul", 1, FALSE),
                M("jiffies", "fe25519_sqr", 1, FALSE), M("jiffies", "fe25519_sqr", 1, FALSE)>>

\* The guards of test_ct_mul_cycles.py, and test_opt_vic_reduce38.py.
CtGuard == <<M("jiffy_thunk", "fe25519_mul", BatchN, FALSE),
             M("jiffy_thunk", "fe25519_mul", BatchN, FALSE)>>
OptVic  == <<M("three_calls", "fe25519_mul", 1, FALSE), M("three_calls", "fe25519_mul", 1, TRUE)>>

\* A jiffy bracket around a routine that masks interrupts itself.
AroundMasked == <<M("jiffies", "x25519_base", 1, FALSE)>>

Plans == {FeOps(TRUE), FeOps(FALSE), BenchX25519(TRUE), BenchX25519(FALSE), BenchFeMul,
          CtGuard, OptVic, AroundMasked}

\* What the cycle counter is meant to count: the bodies and the scaffold
\* around them, from the instruction after "start_A" to "stop_A".
Counted(m) ==
  m.n * Len(Body[m.routine]) +
    CASE m.form = "thunk" -> 3 * m.n + 2
      [] m.form = "subroutine" -> 2
      [] OTHER -> 1

\* None of it is more than the 32 bits of the counter hold.
ASSUME CountAssumption ==
  \A tool \in Plans : \A k \in DOMAIN tool :
    CountsCycles(tool[k]) => Counted(tool[k]) + Steals < Base * Base

(***************************************************************************)
(* The operands: where a routine's pointers have to point, what the tools   *)
(* set before a measurement, and what a routine leaves behind.              *)
(***************************************************************************)
Operands == [src1 |-> "tmp1", src2 |-> "tmp2", dst |-> "tmp3"]

Uses(routine) ==
  CASE routine \in {"fe25519_mul", "fe25519_add", "fe25519_sub"}     -> {"src1", "src2", "dst"}
    [] routine \in {"fe25519_sqr", "fe25519_inv", "fe25519_mul_a24"} -> {"src1", "dst"}
    [] routine = "fe25519_cswap"        -> {"src1", "src2"}
    [] routine = "fe25519_reduce_final" -> {"dst"}
    [] OTHER -> {}

Primed(ptr, routine) ==
  [q \in DOMAIN ptr |-> IF q \in Uses(routine) THEN Operands[q] ELSE ptr[q]]

Left(ptr, routine) ==
  IF routine \in {"fe25519_inv", "x25519_base"}
  THEN [ptr EXCEPT !.src1 = "elsewhere", !.src2 = "elsewhere"] ELSE ptr

\* bench_start and bench_stop are around routines that never clear the flag.
ASSUME JiffyAssumption ==
  \A tool \in Plans : \A k \in DOMAIN tool :
    LET b == Body[tool[k].routine]
    IN  ~CountsCycles(tool[k]) => Count(b, "cli", Len(b)) = 0

VARIABLES
  plan,        \* the measurements of the tool
  at,          \* the one under way
  call,        \* the call of it under way, 0 before the first
  pc,          \* the next instruction of that call
  p,           \* the I flag
  pushed,      \* the stack: statuses pushed by php
  callerP,     \* the status jsr puts back
  savedP,      \* bench_cycles_saved_p
  x,           \* the loop counter at $0200
  blanked,     \* DEN is clear
  cia,         \* CIA1: the timers and the interrupt control register
  handler,     \* cycles left of the interrupt handler
  jiffy,       \* the jiffy clock: <<high, low>>
  ticks,       \* bench_ticks
  cycles,      \* bench_cycles: <<low, high>>
  ptr,         \* fe25519_src1, fe25519_src2 and fe25519_dst
  stolen,      \* history: cycles stolen in this measurement
  window,      \* history: cycles since the window of the measurement opened
  deaf,        \* history: those of them in which no interrupt was allowed
  open,        \* history: it is open
  reading         \* the measurement just made: what was read, of what, and the window

cycleVars == <<plan, at, call, pc, p, pushed, callerP, savedP, x, blanked, cia, handler,
               jiffy, ticks, cycles, ptr, stolen, window, deaf, open, reading>>

processor == <<p, pushed, callerP, savedP, x, blanked, ticks, cycles, ptr>>

Timed == plan[at]
Code  == Calls(Timed)[call]

KernalTimer == [aOn |-> TRUE, a |-> 0, aLatch |-> Period - 1,
                bOn |-> FALSE, b |-> 0, bLatch |-> 0, enabled |-> TRUE, flag |-> FALSE]

NoReading == [of |-> M("none", "none", 0, FALSE), on |-> <<>>, window |-> 0, deaf |-> 0,
              stolen |-> 0, value |-> 0]

CycleInit ==
  /\ plan \in Plans /\ at = 1
  /\ call = 0 /\ pc = 1
  /\ p \in BOOLEAN /\ pushed = <<>> /\ callerP = p /\ savedP = FALSE /\ x = 0
  /\ blanked = FALSE /\ handler = 0
  /\ cia \in {[KernalTimer EXCEPT !.a = a] : a \in 0 .. Period - 1}
  /\ jiffy \in (0 .. Digit - 1) \X (0 .. Digit - 1)
  /\ ticks = <<0, 0>> /\ cycles = <<0, 0>>
  /\ ptr = [q \in DOMAIN Operands |-> "elsewhere"]
  /\ stolen = 0 /\ window = 0 /\ deaf = 0 /\ open = FALSE /\ reading = NoReading

(***************************************************************************)
(* A cycle.  A timer that counts below zero reloads its latch; timer A then *)
(* requests an interrupt, and timer B counts it.                            *)
(***************************************************************************)
Cycle ==
  LET under == cia.aOn /\ cia.a = 0
  IN  [cia EXCEPT
         !.a    = IF under THEN cia.aLatch ELSE IF cia.aOn THEN @ - 1 ELSE @,
         !.b    = IF under /\ cia.bOn THEN (IF @ = 0 THEN cia.bLatch ELSE @ - 1) ELSE @,
         !.flag = @ \/ under]

\* A cycle inside the window; the handler masks interrupts for less than a period.
Passed(masked) ==
  /\ window' = IF open THEN window + 1 ELSE window
  /\ deaf'   = IF open /\ masked THEN deaf + 1 ELSE deaf

\* The interrupt: taken between two instructions; reading the ICR clears it.
Requested == cia.enabled /\ cia.flag /\ ~p

Steal ==
  /\ call > 0 /\ ~blanked /\ stolen < Steals /\ handler = 0 /\ ~Requested
  /\ stolen' = stolen + 1 /\ cia' = Cycle /\ Passed(p)
  /\ UNCHANGED <<plan, at, call, pc, handler, jiffy, open, reading>> /\ UNCHANGED processor

Interrupt ==
  /\ call > 0 /\ handler = 0 /\ Requested
  /\ handler' \in 1 .. Handler /\ cia' = [cia EXCEPT !.flag = FALSE]
  /\ UNCHANGED <<plan, at, call, pc, jiffy, stolen, window, deaf, open, reading>> /\ UNCHANGED processor

Advanced == IF jiffy[2] = Digit - 1 THEN <<(jiffy[1] + 1) % Digit, 0>>
            ELSE <<jiffy[1], jiffy[2] + 1>>

Handle ==
  /\ handler > 0 /\ handler' = handler - 1 /\ cia' = Cycle /\ Passed(FALSE)
  /\ jiffy' = IF handler = 1 THEN Advanced ELSE jiffy
  /\ UNCHANGED <<plan, at, call, pc, stolen, open, reading>> /\ UNCHANGED processor

(***************************************************************************)
(* An instruction.  The store to a timer register takes effect after its    *)
(* cycle; a write to the latch of a stopped timer loads the counter.        *)
(***************************************************************************)
Cia(op) ==
  LET c == Cycle
  IN CASE op = "stop_A"   -> [c EXCEPT !.aOn = FALSE]
       [] op = "stop_B"   -> [c EXCEPT !.bOn = FALSE]
       [] op = "mask_ICR" -> [c EXCEPT !.enabled = FALSE]
       [] op = "ack_ICR"  -> [c EXCEPT !.flag = FALSE]
       [] op = "latch_A"  -> [c EXCEPT !.a = Base - 1, !.aLatch = Base - 1]
       [] op = "latch_B"  -> [c EXCEPT !.b = Base - 1, !.bLatch = Base - 1]
       [] op = "start_A"  -> [c EXCEPT !.aOn = TRUE, !.a = c.aLatch]
       [] op = "start_B"  -> [c EXCEPT !.bOn = TRUE, !.b = c.bLatch]
       [] OTHER -> c

Flags(op) ==
  /\ p' = CASE op = "sei" -> TRUE
            [] op = "cli" -> FALSE
            [] op = "plp" -> Last(pushed)
            [] op = "restore_p" -> savedP
            [] OTHER -> p
  /\ pushed' = CASE op = "php" -> Append(pushed, p)
                 [] op = "plp" -> Front(pushed)
                 [] OTHER -> pushed
  /\ savedP' = IF op = "save_p" THEN p ELSE savedP

Clocks(op) ==
  /\ jiffy' = CASE op = "zero_high" -> <<0, jiffy[2]>>
                [] op = "zero_low"  -> <<jiffy[1], 0>>
                [] OTHER -> jiffy
  /\ ticks' = CASE op = "snap_high" -> <<jiffy[1], ticks[2]>>
                [] op = "snap_low"  -> <<ticks[1], jiffy[2]>>
                [] OTHER -> ticks
  /\ cycles' = CASE op = "count_low"  -> <<Base - 1 - cia.a, cycles[2]>>
                 [] op = "count_high" -> <<cycles[1], Base - 1 - cia.b>>
                 [] OTHER -> cycles

\* bne -8: back to the jsr.
LoopTop == CHOOSE k \in DOMAIN Code : Code[k] = "jsr"

Branch(op) ==
  /\ x' = CASE op = "ldx" -> Timed.n
            [] op = "dec" -> x - 1
            [] OTHER -> x
  /\ pc' = IF op = "bne" /\ x # 0 THEN LoopTop ELSE pc + 1

Perform(op) ==
  /\ cia' = Cia(op) /\ Flags(op) /\ Clocks(op) /\ Branch(op)
  /\ blanked' = CASE op = "vic_blank" -> TRUE
                  [] op = "vic_unblank" -> FALSE
                  [] OTHER -> blanked
  /\ open' = CASE op \in {"start_A", "zero_low"} -> TRUE
               [] op \in {"stop_A", "snap_low"} -> FALSE
               [] OTHER -> open
  /\ IF op \in {"start_A", "zero_low"} THEN window' = 0 /\ deaf' = 0 ELSE Passed(p)

Execute ==
  /\ call > 0 /\ pc <= Len(Code) /\ handler = 0 /\ ~Requested
  /\ Perform(Code[pc])
  /\ UNCHANGED <<plan, at, call, callerP, handler, ptr, stolen, reading>>

(***************************************************************************)
(* The harness.                                                             *)
(***************************************************************************)
\* The call has returned, and no interrupt is left to be served.
Returned == call > 0 /\ pc > Len(Code) /\ handler = 0 /\ ~Requested

Jsr ==
  /\ at <= Len(plan) /\ call < Len(Calls(Timed))
  /\ call = 0 \/ Returned
  /\ call' = call + 1 /\ pc' = 1
  /\ p' = callerP                       \* preserve_state, after the call before
  /\ ptr' = IF call = 0 THEN Primed(ptr, Timed.routine) ELSE ptr
  /\ UNCHANGED <<plan, at, pushed, callerP, savedP, x, blanked, cia, handler, jiffy, ticks,
                 cycles, stolen, window, deaf, open, reading>>

\* The last call returned: _read_cycles, or the bytes of bench_ticks.
Read ==
  /\ at <= Len(plan) /\ call = Len(Calls(Timed)) /\ Returned
  /\ reading' = [of |-> Timed, on |-> ptr, window |-> window, deaf |-> deaf, stolen |-> stolen,
              value |-> IF CountsCycles(Timed) THEN cycles[1] + cycles[2] * Base
                       ELSE ticks[1] * Digit + ticks[2]]
  /\ at' = at + 1 /\ call' = 0 /\ pc' = 1 /\ p' = callerP /\ stolen' = 0
  /\ ptr' = Left(ptr, Timed.routine)
  /\ UNCHANGED <<plan, pushed, callerP, savedP, x, blanked, cia, handler, jiffy, ticks, cycles,
                 window, deaf, open>>

Finished == at > Len(plan) /\ UNCHANGED cycleVars

CycleNext == Steal \/ Interrupt \/ Handle \/ Execute \/ Jsr \/ Read \/ Finished

CycleSpec == CycleInit /\ [][CycleNext]_cycleVars

(***************************************************************************)
(* Properties.                                                              *)
(***************************************************************************)
Made == reading.of.form # "none"

\* A reading of the counter is the work and its scaffold, to the cycle, when
\* the display is blanked, and otherwise no more than the stolen cycles above
\* it, whatever the interrupt flag the body runs under; and it was taken on
\* the operands of its routine.
CycleCountRight ==
  Made /\ CountsCycles(reading.of) =>
    /\ reading.value \in
         Counted(reading.of) .. Counted(reading.of) + (IF reading.of.blank THEN 0 ELSE reading.stolen)
    /\ \A q \in Uses(reading.of.routine) : reading.on[q] = Operands[q]

\* The stretches of a measurement that the routines it times mask.
Stretches(m) == m.n * Count(Body[m.routine], "sei", Len(Body[m.routine]))

\* A reading of the jiffy clock, modulo what its bytes hold, is the time
\* interrupts were allowed in the window: at most one period less, and less
\* than two periods more for each stretch in which they were masked, that of
\* bench_stop included.  Nothing is torn or lost at zeroing or reading; what
\* a routine spends with interrupts masked is not in it.
JiffiesRight ==
  Made /\ ~CountsCycles(reading.of) =>
    LET heard == reading.window - reading.deaf
    IN  \E n \in 0 .. reading.window :
          /\ reading.value = n % (Digit * Digit)
          /\ n * Period \in heard - Period
               .. heard + (Stretches(reading.of) + 1) * (2 * Period - 1)

\* docs/LIBRARY.md:1542 says of the table of figures: "VIC-II blanked
\* (`jsr vic_blank` before the timed region)", and the sidecar they come from
\* has "vic_blanked": true.  So each of them is the routine and its scaffold,
\* to the cycle, without cycles taken by the display.
FiguresUndisturbed ==
  Made /\ plan = FeOps(TRUE) /\ Recorded(reading.of) => reading.value = Counted(reading.of)

\* A bracket gives back what it found: the stack, the display, the caller's
\* interrupt flag.
CallerRestored ==
  Returned /\ call = Len(Calls(Timed)) => pushed = <<>> /\ ~blanked /\ p = callerP
=============================================================================
