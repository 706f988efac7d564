# A verification project for c64-x25519

c64-x25519 is an X25519 library for the Commodore 64: 6502 assembly that computes
the scalar multiplication of RFC 7748 with products read from quarter-square tables,
and with whole rows of products kept in a RAM expansion unit (REU) and fetched by
DMA. Beside it the repository keeps the tools that measure the library, check its
archives and guard its build. This directory models them in TLA+. TLC checks the modules on small instances;
TLAPS proves the theorems for every value of the constants. Source paths are
relative to the repository's root; the library is in `src/src/*.s` of this tree.

    tlc -workers 2 -config MCX25519.cfg MCX25519.tla     # a run
    tlapm X25519Proofs.tla                                # a module of proofs

`PROJECT.json` lists runs, mutants, findings, hazards and theorems, and maps each
definition to the lines it models.

## 1. The system

| Component | State | Operations | Talks to |
|---|---|---|---|
| `x25519.s` | ladder coordinates `x_1, x_2, z_2, x_3, z_3`, temporaries, scalar, cursor (`x25_byte_idx`, `x25_bit_mask`), `x25_prev_bit` | `x25519_clamp`, `x25519_scalarmult`, `x25519_ladder_step`, `x25519_base` | the field routines, through three pointers in zero page |
| `fe25519.s` | `fe_wide` (64 bytes), masks, counters, pending carries | `add`, `sub`, `cswap`, `reduce_final`, `mul`, `sqr`, `mul_a24`, `inv`, `copy`, `zero`, `one` | the rows of products; each other's scratch |
| `x25519_init.s` | the row tables in the REU; the REU's registers, which latch | `reu_mul_init`, `x25519_sqr_tables_init`, `reu_fetch_mul_row`, `reu_fetch_doubled_row`, `reu_clear_wide`, `reu_probe` | the REU; a provider library under deferral; siblings that use the REU in between |
| `REU_SETTLE` (`constants.s`), `x25519_reu_settle_slow` | spin counter, sample, sticky `x25519_reu_fault` | after every execute | the REU's status register, which reading clears |
| `sqtab_init.s`, `mul_8x8.s` | the table of quarter squares; two self-modified immediates | `sqtab_init`, `ct_mul_8x8` | row generators in `reu_mul_init` and `fe25519_mul`; siblings that share the primitive |
| `data.s`, `mul_stage.s` | buffers, constant tables, staging pages | none | everybody |
| `util.s` | jiffy clock, CIA1's timers, saved interrupt state | `bench_start`, `bench_stop`, `bench_cycles_start`, `bench_cycles_stop`, `vic_blank`, `vic_unblank` | the kernal's interrupt handler; the tools |
| `main.s` | screen, idle loop | boot, banner, idle loop | the host, which patches its idle loop |
| `tools/bench_fe_ops.py`, `bench_x25519.py`, `bench_fe_mul.py` | thunks they write into the C64, operand pointers | timed calls, singly and in batches | `util.s`, the field routines |
| `tools/bench_record.py` | the row so far; `docs/perf_history.csv` | make, sizes and commit, two benchmark tools one after the other, append | the one working tree and build directory, and who else edits or builds there; `.make.lock` |
| `tools/bench_x25519_u64.py`, `u64_preflight.py` | two builds, a device lock, a snapshot of the configuration, results | a session: build, lock, reboot, install, hijack, poll, restore | an Ultimate 64 that other sessions use too |
| `tools/ct_mul_brute_check.py` | result pages on the C64, the mismatches, the first five | the sweep of `ct_mul_8x8` over all pairs of bytes | VICE |
| `Makefile` | the build directory, the stamp of the knobs | build, `-n`, `-q`, `-t`, clean, the lib and gate targets | ca65, ar65, ld65 by file times |
| `tools/check_member_isolation.py`, `check_footprint.py`, `check_zp_roster.py`, `check_precalc_enumeration.py` | none | a verdict on the files of the build directory | od65, ar65, the link map, `zp_config.s` |
| `zp_config.s` | none at run time | macros that define, assert, export and count the zero-page slots | the roster gate, consumers |
| `constants.s`, `reu_config.s`, `lib_*.s`, `precalc_*`, `x25519.inc` | none at run time | assembly-time equates, guards, masks | the linker, other libraries |

Boot: `sqtab_init`, then `reu_mul_init` (default) or the provider's
`reu_mul_tables_init` followed by `x25519_sqr_tables_init` (deferral), or nothing more
(the on-chip profile, which makes each row as it needs it). Afterwards calls are
sequential. `x25519_scalarmult` masks interrupts for its duration; `x25519_base`
copies and clamps before that, and the field routines that may be called directly do
not mask at all.

What is hard here:

* **State left over between calls.** The REU's registers keep what the last
  transfer, or another library, left; `fe25519_mul` writes only three of them per row.
  The bytes baked into the multiply, the staging pages and the zero-page scratch
  are left over too.
* **Carries that are dropped because they are said to be zero.** The constant-time
  rewrites replaced branches on carries by chains of fixed length. Each one
  leaves a carry out somewhere, with a comment; two such comments were wrong once.
* **Reductions that are left out.** The ladder skips `fe25519_reduce_final` where
  the other operand of the next addition or subtraction is canonical. The argument
  crosses iterations and conditional swaps.
* **Transfers that fail.** They may move nothing, be confirmed late, or
  never. The only record is a sticky byte.
* **Two machines.** A session's host and its C64 run on their own; the host patches
  a running program and polls a byte. Every call may fail, every wait has a
  deadline, and the device has other users.
* **Time is not content.** `make` compares file times; the `-D` knobs a file was made
  with are invisible to it. A gate that reads a stale archive says nothing about the
  one that was asked for, and a gate that looks at nothing passes.
* **One working tree.** A recording reads the sizes and, by two git processes, the commit once and its last figure
  a quarter of an hour later, and each of its tools cleans and builds again. People edit and
  commit meanwhile, and other makes want other knobs; a lock that is held or not is all there is.
* **Aliasing.** Source and destination may be the same buffer, and the inversion's
  temporaries are the ladder's.

Correctness, per component: the ladder returns the canonical x-coordinate of the
multiple for any 32-byte input (x25519.s); each field routine returns a
representative of the right residue given its operand contract, without losing a
carry and in place (fe25519.s); every row multiplied with is the row wanted, or the
fault byte says that something failed, and foreign banks are left alone
(x25519_init.s); the fault byte tells exactly what was seen (settle); rows are products
whatever was stale (quarter squares); a bracket counts its body and leaves its caller as it was
(util.s); a figure is of the configuration its row names, and the device is handed
back as found (u64 session); what make calls built has the knobs asked for (Makefile); a recorded row is of one build (bench_record.py); a
gate passes only what it is there to pass (archive gates).

## 2. The modules

| Module | Models | Checked by | Proofs |
|---|---|---|---|
| `FieldOps` | the field routines on whole 256-bit values | all that use it | `FieldOpsProofs` |
| `MontgomeryLadder` | abstract: the ladder of RFC 7748 over exact field elements | as a property of `X25519` | |
| `X25519` | `x25519.s`, one action per field operation of the ladder step | `MCX25519.cfg` | `X25519Proofs` |
| `X25519Curve` | abstract: the curve and its twist, points, chord-and-tangent addition, multiples; what the result and the loop are to be, in these terms | `MCX25519.cfg` | `X25519Proofs` |
| `WideBytes`, `FeScratch` | fields in bytes, `fe_wide` and its ripple; the pointers, counters and carry the routines share | `MCByteOps.cfg` | `FieldOpsProofs`, `FeBytesProofs` |
| `MaskedOps` | add, sub, reduce_final, cswap, byte by byte | `MCByteOps.cfg` | `FeBytesProofs` |
| `WideProduct` | `fe25519_mul`, `fe_reduce_wide` byte by byte | `MCByteOps.cfg` | `FeBytesProofs` |
| `WideSquare` | `fe25519_sqr` byte by byte, beside the multiplication whose folds it shares | `MCByteOps.cfg` | `FeBytesProofs` |
| `A24Product` | `fe25519_mul_a24` byte by byte | `MCByteOps.cfg` | `FeBytesProofs` |
| `FeInv` | `fe25519_inv`, `fe_inv_sqrn_tmp2` | `MCByteOps.cfg` | `FeBytesProofs` |
| `QuarterSquare` | `sqtab_init`, `ct_mul_8x8`, both row generators | `BruteCheck.cfg` | `QuarterSquareProofs` |
| `BruteCheck` | `ct_mul_brute_check.py`, on top of `QuarterSquare` | `BruteCheck.cfg` | `QuarterSquareProofs` |
| `ReuRows` | the row tables in the REU and everything that touches its registers; `reu_probe` | `ReuRows.cfg`, `ReuProbe.cfg` | `ReuRowsProofs` |
| `Settle` | `REU_SETTLE` and its slow path | `Settle.cfg` | `ReuRowsProofs` |
| `CycleBench` | `util.s`, CIA1, the interrupt flag, and the three benchmark tools | `MCCycleBench.cfg`, `FiguresDisplay.cfg` | `BenchProofs` |
| `BenchRecord` | a recording, with whoever edits, commits and builds in the same tree | `BenchRecord.cfg`, `RebuiltFirst.cfg` | `BenchProofs` |
| `U64Session` | sessions on a shared Ultimate 64, with the C64 they drive | `MCU64Session.cfg` | `U64SessionProofs` |
| `BuildTree` | the build directory, its stamp and the guard | `MCArchiveGates.cfg` | `BuildTreeProofs` |
| `ZpRoster`, `PrecalcTables` | what the roster's macros and the tables' labels amount to, and how the gates read them | `MCArchiveGates.cfg` | `BuildTreeProofs` |
| `ArchiveGates` | the four gates, run by make on the tree `BuildTree` leaves | `MCArchiveGates.cfg` | `BuildTreeProofs` |

The layers meet at stated interfaces. `X25519` takes from `FieldOps` what a routine
computes; `MaskedOps`, `WideProduct`, `WideSquare` and `A24Product` show that the byte
loops compute exactly that, and `FeInv` that the chain's exponent is p - 2.
`WideProduct` and `WideSquare` take the products of two bytes as right;
`QuarterSquare` shows that a generated row is right, and `ReuRows` that the row in the
staging pages is the one wanted. `MCByteOps` runs the byte modules and the inversion over one field, on the
pointers, the buffer and the scratch of `FeScratch`, which none of them initialises for another; a behaviour
calls the multiplication and the square in any order, or one of the other routines. `ReuRows` takes a settle's outcome from a set;
`Settle` shows what the outcomes mean. `BruteCheck` puts other bodies of the multiply in
the place of `QuarterSquare`'s; `ArchiveGates` extends `BuildTree`: a gate is a make whose
last step reads the files. `BenchRecord` takes from `BuildTree` that the guard deletes what other
knobs made, and that a make that ends well leaves what was asked for. `U64Session` takes the cycle count of a bracket as
the conditions it was made under, which `CycleBench` justifies.

Definitions keep the source's names where there is one (`fe_wide` is `wide`,
`mul_pending` is `pending`, `x25519_reu_fault` is `fault`). Definitions marked *faulty*
are not part of any specification: they are the plausible mistakes
that `PROJECT.json` substitutes, one for each property, to show that the property
would notice.

### Abstractions

* `X25519`: buffers are named; an action is a whole field routine with its pointer
  setup. `fe25519_inv` leaves anything in the buffers of its chain (`FeInv!FrameKept`
  is the justification). The interrupt bracket is left out.
* `FieldOps`: the prime is 2^k - C; Curve25519 has k = 255, C = 19. The assumptions
  are the inequalities the code's comments rely on (a second fold cannot carry, 2^256 < 3p).
* Byte modules: bytes have B values, elements N bytes, so 256 and 32 are one instance. `WideProduct` multiplies,
  `WideSquare` squares and doubles exactly, with the code's carries. Where a comment
  says a carry is zero, the model drops it as the code does.
* `FeInv`: a buffer holds a power of z; the power is represented by the set of the
  one bits of its exponent, so the real exponents of 255 bits are exact.
* `ReuRows`: memory by pages, page contents by tags (which part of which row), the
  registers at page resolution with the residues of `$DF04` and `$DF0A` as flags.
* `Settle`: the two status bits, any delay of the REU, any number of reads.
* `CycleBench`: an instruction is a cycle; the VIC steals some while the display is
  on. The body of a routine is its instructions, as far as the stack and the interrupt flag see them: it
  pulls what it pushes and changes the flag only between a `php` and its `plp` (`BodyAssumption`; `x25519_scalarmult` is
  the one that does). What a measurement counts fits the 32 bits of the counter (`CountAssumption`).
  The jiffy clock has two digits and may wrap. `Handler` is the longest time from an interrupt's request to the end of its
  handler, the VIC's cycles in between included, and is less than a period; `Steals` bounds the VIC's other cycles. The routines
  that the tools put in a jiffy bracket do not clear the flag (`JiffyAssumption`). Averages and output are left out.
* `BenchRecord`: a file is the source tree and the knobs it was linked from. A make of the
  recording is one step, another make's is several; between any two steps of the recording
  anybody may edit, commit or build, between the two git processes that identify the row (`ReadSha`, `ReadDirty`) too. `lockf` is there and works. A `BUILD_DIR` given to make is
  left aside: the tools read `build/` whatever it says. So is a make that the edit falls into.
* `U64Session`: memory is the few facts a session depends on (which program, its
  tables, banner, shim, trampoline, operand, sentinel, result, counter). A counter's
  content is the configuration it was counted under. Failing calls, lost writes
  during a reset and any order of host and C64 are kept, and so is a `transport.close()` that raises: the exit code
  is then 1 and the lock goes with the process. An interrupt from the keyboard inside the `try` is one of the failures; before it, or in
  the `finally` block itself, where nothing is put back, it is left out.
* `BuildTree`: a file is the knobs it was made with, nothing, or hollow (0 bytes, what
  `-t` leaves); an archive is that per member. Which of two existing files is newer
  is open, so an existing file may or may not be rebuilt. Sources do not change during a
  behaviour; one make runs at a time, as `lockf` has it.
* `ArchiveGates`, `ZpRoster`, `PrecalcTables`: an object is its exports, sizes, labels and
  entries; od65's glued columns are a flag of the name. The roster gate reads
  `zp_config.s` only and excuses a name passed with `-D`; the enumeration gate sees
  exported labels only. Both are so in the tools, and the properties say so.
* `QuarterSquare`: the lo and hi pages of a table are one table of words; the patch
  of the load's page is the index arithmetic it makes.

## 3. The runs

| Run | Instance | Why it is enough | What it shows |
|---|---|---|---|
| `X25519` | p = 29 (2^5 - 3), 6-bit elements, all 64 scalars of two 3-bit bytes, ten values of u | all scalars, clamped or not; u = 0, 1, the base point, points on the curve and the twist, values at and above p and with the top bit set; elements cover 2p .. 2^256 - 1 in kind | operand contract; loop invariant and result against the group law, which is computed by chords and tangents; refinement of `MontgomeryLadder`; return |
| `ByteOps` | p = 3886 (6^5 = 2p + 4, as 2^256 = 2p + 38), five bytes of six values, a24 = 65, five unrolled bodies, both values of SQR_DMA_K's guard; operands: every element whose bytes are 0 or the largest, the neighbours of 0, p, 2p and 6^5, and three for the folds; three interchangeable buffers for the masked routines (symmetry is sound as buffers are only compared); inversion: the real exponents, two buffers outside the chain | every byte sees no and the largest carry; the third fold carries beyond byte 0; a24 is below 2 B^2, as 121665 is, and a product with it wraps past 6^5; decisions turn at p and 2p, aliased in every way; what a call leaves is what the next one finds; every source and destination of the inversion. `InstanceFits` asserts the hypotheses the theorems of `FeBytesProofs` are stated under | sums and rows exact, no carry lost, folds, stages and squares exact, masks and results right; the inverse is z^(p-2), and only the chain's buffers and the result are written |
| `QuarterSquare` | 2-bit bytes, two-byte operands; the sweep over all sixteen pairs and five bodies | every multiplicand and operand; sums cross the page; tables and buffers stale at either extreme; a body wrong in the page, the sign or the borrow | rows right, `sqtab_init` idempotent; the sweep reports exactly the pairs that are wrong |
| `ReuRows` | two rows to a bank, four rows, at most one failing transfer (`MaxFailures`) | rows on both banks of each pair; the failure may hit any transfer; all builds, with and without an REU | rows right, probe's verdict right, foreign banks kept |
| `Settle` | the shipped bound of 8 reads, three transfers at once (`MaxPending`) | the spin's real length; an abandoned transfer may end in any later settle | the fault byte is exact; the settle returns |
| `CycleBench` | timers of 8 values, a jiffy every 5 cycles, two stolen cycles (`Steals`), batches of 3 | an interrupt falls on every instruction of every bracket; counts cross the low timer's underflow; the clock's digit carries between the two snapshots | cycles and jiffies right, the caller restored |
| `U64Session` | two sessions; a full, a short and an invalid command line; one poll to a deadline (`MaxPolls`) | either session meets what the other left; a failure at each call, a write lost in a reset, a program that never answers; two speeds and three stages | figures are of the configuration they name; the sentinel is this run's; the device is handed back; a table is complete or the session fails; a session ends |
| `Gates` | two settings of the knobs, three members, nine to eleven sources for each gate | any history of builds, queries, touches and kills before a gate; each source wrong in one way that the gate names, or under one setting only | make's claim, and each gate's, is about these knobs |
| `BenchRecord` | two trees that assemble and one that does not, two settings of the knobs (interchangeable, so symmetry is sound); an edit and another make during a recording (`MaxEdits`, `MaxMakes`), any number between two | whatever earlier recordings, makes and kills left; the edit and the make at every step; both tools, either, with and without the lock | a row recorded through make is of one build |
| `ReuProbe`, `RebuiltFirst`, `FiguresDisplay` | as `ReuRows`, `BenchRecord` and `CycleBench` | | the disagreements below |

Every run checks deadlock. A run's bounds are its cfg; the bounds in guards are
`MaxFailures`, `MaxPending`, `Steals`, `MaxPolls`, `MaxEdits` and `MaxMakes`. Type invariants are definitions of their
modules; only `X25519`'s is a property of a run, as the index of its cursor is a real question there.

**Fairness.** Three runs check liveness. `X25519` and `Settle` assume weak fairness of the processor's
own steps: once called, the code goes on, which is what a 6502 with interrupts masked
does. Nothing is assumed of the REU in `Settle`, so `SettleReturns` holds though a
transfer may never end. `U64Session` assumes that each host process runs and that a
reset ends, and nothing of the program on the C64, of the probes or of the lock: each wait
has its own deadline, and that is what `SessionEnds` is about. Liveness of the loops with fixed counts is left out: it
would only repeat the counters.

### Findings

* `ReuProbe`. `reu_probe` writes `@orig_byte` back whatever happened
  (`x25519_init.s:857`). If the first fetch moved nothing, that is an old scratch byte,
  and the caller's byte is lost, while the comment at line 854 says the REU is
  undisturbed even if the check fails. The probe's verdict itself is right.
* `RebuiltFirst`. `bench_fe_ops.py:434` looks at neither of its makes' return codes, only at whether
  there is a program. Started by hand while another make holds the lock, both are refused, and it
  measures what that make built, with that make's knobs: the wrong build, which the comment at line 432
  says the clean is there to avoid. `bench_x25519.py` checks. `RowOfOneBuild` holds all the same
  for a recording through make, which holds the lock itself.
* `FiguresDisplay`. `docs/LIBRARY.md:1542` says that the figures were taken with the display
  blanked, and so does the sidecar (`bench_fe_ops.py:635`), but `fe25519_inv` is recorded from single calls,
  whose thunk does not blank (line 196).

Seen while modelling, without a run: the banner of `reu_probe` (`x25519_init.s:730`) says bank 2 is still
populated for legacy callers, and `reu_mul_init` writes nothing there (lines 312-318);
`docs/LIBRARY.md:1562` says the batch averages are taken after subtracting the loop's scaffold, and
`bench_fe_ops.py:573` divides the whole count; `labels.txt` is no target, so a make killed between ld65
and sed (`Makefile:467-469`) leaves it old beside an up-to-date program, and the make that
`bench_record.py:5` runs "so labels.txt + .prg are current" does not mend it (`torn` in `BenchRecord`);
`_git_sha_with_dirty` (`bench_record.py:84`) asks for HEAD and then for changes, so edits made before the recording and committed
between the two give a row the commit before, without `-dirty`, though what was built was not committed
when make began, and the Makefile (line 3603) says such rows have the suffix (`moved` in `BenchRecord`).

Comments that are out of date but say nothing checkable about behaviour: "<= 2p" for
unreduced products in `x25519.s` (the bound is 2p + 37, as `fe25519.s` says),
and row 31 as the one that reads the phantom byte in `data.s` (every row of odd length does);
`mul_8x8.s:70` and `ct_mul_brute_check.py` say the sweep pins the shape of the multiply's code, but it
compares products only: `BruteCheck`'s branching body passes.

## 4. The proofs

All are for arbitrary values of the constants under the named assumptions of the modules.

* `FieldOpsProofs`: from `FieldAssumption`. Division is handled by a few lemmas on
  quotient and remainder; `AddCorrect` and `SubCorrect` are the operand contract
  (second operand canonical, first any 256-bit value, result congruent and below 2^256);
  `ReduceWideCorrect` bounds the three folds, `MulA24Correct` the folds with the wrap.
* `X25519Proofs`, Part 1: `TypeOK` and `OperandContract`. The contract is not inductive by
  itself: the invariant says, for each of the eighteen operations, which buffers are
  canonical at that moment, that `z_2` and `z_3` are at every loop head (so a swap keeps
  it), and what congruence each temporary satisfies.
  `Implementation`, the refinement: the detailed step is mapped to the abstract
  one at the first operation that overwrites a coordinate (operation 10); up to there
  the steps stutter, from there on the abstract coordinates are what the remaining
  operations will make of the temporaries. One lemma per action.
* `X25519Proofs`, Part 2: `LadderInvariant` and `ScalarMultCorrect`: for every prime, curve constant, scalar length, scalar and
  32-byte u, the result is the x-coordinate of the scalar's multiple of the point above u. No ladder occurs in the statement, only
  chords and tangents (`X25519Curve`). `LadderInv`, on the mapped state, is shown for each action of `MontgomeryLadder`
  and comes down to the code by `Implementation`: before bit t the two pairs of coordinates stand for [m]Q and [m + 1]Q (`Pair`), m
  being the bits above t. One step is `StepPair`: the formulas of the code are, as residue classes, those of a doubling (`DoublePoint`) and
  of a differential addition (`AddPoints`), both derived here from the definition of the addition. Every case is covered: the point at
  infinity as z = 0, points of order 2, opposite and equal points, x on the twist, and u = 0, where only x = 0 or z = 0 can be
  kept and is enough (`MultiplesOfZero`). Congruences are kept as equalities of the opaque `Cls`, and each polynomial
  identity as one leaf on integers; [n]Q and the number that bits spell are recursive functions, and their equations are proved
  (`Recursion`, `MultiplesSpec`, `BitsSpec`). Assumed, beside the sizes: p is an odd prime, stated as the existence of inverses
  (`PrimeAssumption`); the curve is not singular, and every x is on it or on its twist (`CurveAssumption`); chord-and-tangent addition is closed and
  associative (`GroupLaw`). These are textbook facts of the curve and say nothing of the code. TLC evaluates them on the
  run's instance; for 2^255 - 19 and A = 486662 they are taken from the literature.
* `FeBytesProofs`, Part 1: `RowsAreExact`, `SumsAreExact`, `NothingDropped` and `ReductionsExact`, for calls of the
  multiplication and the square in any order, from any stale `fe_wide`, for every byte size, length and unrolling
  (`RadixFits`, `OperandsFit`, `UnrollFits`, `SqrFits`). The invariant says at every body that `fe_wide`, with the pending carry at its place,
  is worth the rows done and the part of the row under way (`RowsSum`); for the square, twice the cross products so far
  (`SqrSum`), then the squares of the bytes done as well (`DiagonalSum`), and that twice the cross products and the squares are the
  square of the number. A carry the code drops is zero because the sum so far is below the place the carry would
  have (`CrossBound`, `SquaresBound`): bytes above that place are still 0, which is part of the invariant (`LaterBytes`).
  The reduction is `FoldBegins` (the product is exact when the folds begin) and `Reducing`, one fold per stage; that the last one
  cannot carry out is `ReduceWideCorrect` of `FieldOpsProofs`, so `Mul` and `Sqr` of `FieldOps`, which the scalar multiplication is
  proved from, are what the bytes compute.
* `FeBytesProofs`, Part 2: `DecisionsRight` and `OperationsExact`, for add, sub, reduce_final and cswap with any of their pointers equal.
  The invariant relates, at byte y, the low y bytes of the result and the carry or borrow to the low y bytes of the
  operands as they were at the call, and says that bytes not yet reached are what they were: with a destination that is
  a source, this is what makes reading before writing enough.
* `FeBytesProofs`, Part 3: `A24ProductExact`, for every byte size and length with `A24Fits`. While the product grows, the invariant
  counts all its bytes and the pending carry (`Grown`); between two stages, the low bytes, the carry owed at the place where the next stage takes
  it up, and what is still to be folded are worth one fold of the product (`HighFold`), so a carry that a stage takes up at another place, or
  not at all, breaks it. The top bit's fold cannot carry out of the bytes because `Fold * (A24 + 1) <= R`.
* `FeBytesProofs`, Part 4: `InversionRight` and `InversionFrameKept`, for any buffers beside those of the chain and any two pointers. The exponent is the
  code's (`TopFits`); an operand does not occur. The invariant (`ChainPowers`) says, line by line, the power in every buffer that is
  still read, and in a loop of squarings by how many places the ones of `tmp2` have moved (`Ones`). That a product's two factors have no ones in
  common (`DisjointSum`) is why the chain's comments may count ones; it is false of a chain that reads a buffer too late.
* `ReuRowsProofs`: `RowsAreRight`, `VerdictIsRight` and `BanksKept`, for any number of rows, any history of calls, siblings and failing transfers. The invariant says what
  each bank holds up to the row under way, provided that nothing has failed (the provider's rows whatever fails); what
  the latch holds while `fe25519_mul` relies on it; and what is in the staging pages at each step. A
  sibling may leave anything in the registers, so nothing is said of them outside the routines that write them. Then the settle: `TransfersEnded`, `VerifyExact`, `TimeoutExact`. The invariant
  counts: reads and the counter add up to `Iter`; as long as nothing expired there is at most one transfer, whose END OF BLOCK is
  in exactly one place (yet to come, in the status, or in the sample at hand); and what was seen is in the sample or in the fault byte.
* `QuarterSquareProofs`: the recurrence (`acc = i^2`), the identity of quarter squares
  by parity, and for each row loop that the part done is right. `Idempotent` uses that
  a rebuild writes each entry as it is.
  Part 2, `SweepsAreExact`: nothing of the program is under way during a sweep, so the table stays built and the pages fill
  with what the kernel makes of the body; the invariant (`CountRight`) says that the count is the number of wrong pairs before the
  place reached, and that entry k of the list is the wrong pair with k - 1 before it. The body is arbitrary.
* `BuildTreeProofs`: `ArtifactRight` and `IsolationRight`, for any knobs, members, sources
  and histories. Neither property mentions the stamp; what carries them is that no
  file has knobs other than the stamp's, at every moment, so the guard must delete
  before it writes; that an archive is never part one thing and part another; and that a
  make past its guard has the knobs of the stamp. An archive left out of
  the deletion breaks `InvalidateStep`. `FootprintRight`, `RosterRight` and `EnumerationRight` are the other gates on the same
  tree, for any segments, slots and labels, assuming of the files what their writers
  guarantee: equates are numbers and a segment that is not in the map has no fill (`MapIsTheLinkers`), a name is taken once in a file
  (`SlotsAreTheAssemblers`), what stands at a label ends before the next label and before the member does (`LabelsAreTheLinkers`), the manifest is a member
  (`ManifestIsAMember`), exports are finitely many (`NamesAreFinite`).
* `BenchProofs`, Part 1: `RowIsOfOneBuild` and `LockIsKept`, for any trees, knobs, edits and makes. The
  lock is the recording's from its first step to its last, so no other make is under way and only its own makes touch
  the build directory. The invariant then says, by step, what program, labels and row so far are,
  all in terms of the build of the present tree with the knobs asked for, as long as nobody has edited; the
  exceptions of the property, an edit, labels left old by a killed make (`torn`) and a commit between the two questions to git (`moved`),
  are exactly its weak places. HEAD is what was read as long as nobody commits; a tree without changes is what HEAD names now.
* `BenchProofs`, Part 2: `CycleInvariant`, `CycleCountCorrect` and `CallerUndisturbed`, the timing brackets: for any balanced bodies, number of calls in a
  batch, capacity of the timers, period, handler and stolen cycles, in every plan of the tools. The lemmas on layout say which part
  of which call of a measurement starts and ends where (a bracket, the loop's head, the body, its foot); the invariant `AtPart(m, s, k)` is stated
  per part: before instruction k of it, the two timers together are worth the instructions since the bracket opened and the cycles stolen since (`Running`);
  timer A's interrupt is masked and the flag acknowledged, so that no handler runs inside, whatever the body does
  with the flag; the statuses pushed in the body are as many as its instructions say (`Nested`), the lowest of them what the routine was entered with;
  and `bench_cycles_saved_p`, or for a jiffy bracket the pushed status, is the caller's. A bracket that leaves the interrupt on, or latches
  a timer before it is stopped, breaks it.
* `BenchProofs`, Part 3: `JiffiesCorrect`, for any period, handler, digit and number of masked stretches. The property is about
  a clock that wraps, so it is not inductive; the invariant has the number n of interrupts served since the clock was zeroed. `Ahead(n)` is how far
  those n periods, with the one being handled and the one waiting, are ahead of the time interrupts were allowed in.
  `Bounded(n, r)` keeps it within a period below and, after r instructions that mask, within `Level(r)` above: timer A stays the kernal's
  (`Kernal`), a handler ends before the next request (`Handling`), and only `sei` masks (`Nesting`), so a request is lost only in a masked stretch,
  where a second falls due while the first waits. The clock shows n modulo what its bytes hold (`ClockAdvance`). `Clocked(m, s, k)` places
  this at each instruction of each part: the bracket opens it by zeroing the high byte first and the low byte last (`Opens`), each round of the body
  adds the `sei`s of the routine (`Masked`), and the snapshot closes it with both bytes of one moment (`Closed`). All of it needs zeroing
  and snapshot to be masked: a carry between the two bytes would break it.
* `U64SessionProofs`: `HandedBack` and `Exclusion`, for any number of sessions, plans,
  products and deadlines. The property is about a free device only; the invariant adds
  custody: a holder has a snapshot before its first write, the snapshot is of what
  was found, a holder without one has not written, and a holder that is about to release has restored.
  `SentinelCurrent` then says where the program counter, trampoline, operand, sentinel and counter are at each
  step of the holder (`DeviceInv`): the C64 runs nothing between its idle loop and the trampoline but what the holder
  put there, and the sentinel is cleared before the trampoline is aimed. On top of it `TableInv` says
  under which configuration each figure so far was counted: `MeasurementsRight` and `TablesComplete`.

**The lemmas under the byte proofs** are in `FieldOpsProofs`. `Value`, `Weight`, `Carries` and the
sums of the gates are recursive functions. The library's induction theorems take an operator as a parameter, which none of
the provers can instantiate, so induction is stated over sets instead: a set of naturals that has 0 and is closed under
successor has every natural (`SetInduction`, from the fact that a one-to-one map of a finite
set into itself leaves nothing out; `BoundedInduction` up to a bound). From it follow that the recursive equations have a solution (`WeightExists`, `ValueExists`) and
only one (`SameSolution`), and the working rules: `ValueSplit`, `ValueUpdate` (a byte changes the value by its difference times its place),
`ValueBound`, `ValueOfDigits`, `RippleExact` (the fixed-length ripple adds what it is given, modulo the top). Invariants about
a number in a buffer are then inductive step by step, and no proof looks at a whole buffer again.

Model-checked only: liveness (`CallReturns`, `SettleReturns`, `SessionEnds`), as fairness and ENABLED are out of the
prover's reach. Every safety property and action property of the passing runs is a theorem's.

No module uses RECURSIVE operators: recursion is by recursive functions.

## 5. Not modelled

* `main.s` beyond its boot order, banner and idle loop; output in general.
* The interrupt bracket of `x25519_scalarmult` inside `X25519`, and a handler that uses the
  roster's zero-page slots during an unmasked call: what a consumer's handler touches
  is outside this repository. `CycleBench` has the flag and the kernal's handler.
* The assembly-time contracts (ownership and consume masks, alignment and budget asserts,
  version equates), which ca65 and ld65 decide once and which have no state.
* Of the Makefile: the many verification targets that are scripts over one finished
  build (`test -s`, symbol greps of the full `lib-verify`), two makes without `lockf`, an
  archive that ar65 was killed in the middle of, sources edited within the same second as a
  build, and `stub.map`, which is not among the outputs a knob change deletes.
* Of the benchmark tools: arguments, averages and the layout of the sidecar files; a make without `lockf`. The tools that compare two texts
  or tables in one pass (`perf_diff.py`, `check_doc_snippets.py`,
  `check_gate_citations.py`, `dryrun_negative_mutate.py`, `vice_build.py`): a model would restate them.
* Absolute timing: constant-time behaviour is not claimed.

## 6. Plan

Done: inventory; `FieldOps`, `X25519` and its refinement; settle; the REU rows and the
probe; quarter squares and their sweep; all field routines byte by byte; the brackets and the
tools that use them; the recording of a row; the shared device; the build tree and its four gates; the proofs above.

Next, in this order:

1. A composition of `ReuRows` and `Settle`, in place of the set of outcomes.
2. Two libraries in one program: ownership and consume masks, deferral of
   the tables to a provider, who initialises what, and in which order.
