-------------------------------- MODULE ReuRows --------------------------------
(***************************************************************************)
(* The multiplication-row tables in the REU: how src/src/x25519_init.s      *)
(* builds them, how fe25519_mul, fe25519_sqr and reu_fetch_mul_row bring a  *)
(* row into the staging buffers, and what everybody else does to the REU's  *)
(* registers in between.                                                    *)
(*                                                                          *)
(* Memory is modelled by 256-byte pages.  A page's content is a tag         *)
(* <<m, part, a>>: part "lo", "hi" or "carry" of the row of products m*a*b, *)
(* for b = 0 .. 255; m is 1 (plain) or 2 (doubled).  The REU's registers    *)
(* keep their values across calls, and that is the point: fe25519_mul       *)
(* writes only three of them per row and trusts the rest.                   *)
(***************************************************************************)
EXTENDS Integers

CONSTANTS
  RB,            \* rows of a 64 KB bank, 512 bytes each               (128)
  MaxFailures    \* bound: how many transfers may fail in a behaviour

ASSUME SizeAssumption == RB \in Nat \ {0} /\ MaxFailures \in Nat

Rows  == 0 .. 2 * RB - 1      \* one row for each value of a byte
Pages == 0 .. 2 * RB - 1      \* the pages of a bank: half a row each
Banks == 0 .. 7               \* relative to X25519_REU_BANK

(* The banks of the tables, and the one the probe borrows a byte of. *)
PlainBank   == 0
CarryBank   == 3
DoubledBank == 4
ProbeBank   == 7
Claimed     == {0, 1, 3, 4, 5}

(***************************************************************************)
(* The C64's pages: the staging buffers mul_dma_lo, mul_dma_hi and          *)
(* mul_dma_carry, in this order, whatever follows them, the probe's scratch *)
(* byte, and a buffer of two pages that belongs to somebody else.           *)
(***************************************************************************)
Lo == 0
Hi == 1
Carry == 2
Scratch == 4
Other == 6
C64Pages == 0 .. 7

Junk     == <<0, "junk", 0>>
Zero     == <<0, "zero", 0>>
Sentinel == <<0, "sentinel", 0>>
User     == <<0, "user", 0>>
Content  == ({1, 2} \X {"lo", "hi", "carry"} \X Rows) \cup {Junk, Zero, Sentinel, User}

VARIABLES
  deferred, sqrDma,  \* the build: SHARED_REU_MUL_INIT/FETCH, and SQR_DMA_K > 0
  present,           \* whether there is an REU
  pc, row,           \* the routine's progress; reu_init_a, or row under deferral
  mem, reu,          \* page contents: the C64's, and the REU's by <<bank, page>>
  regs,              \* $DF02-$DF0A, at page resolution
  cached,            \* mul_cached_a
  want,              \* the row <<m, a>> the products of the moment are read from
  fault,             \* x25519_reu_fault: 1 for expired, 2 for verify error
  failures,          \* how many transfers have failed so far
  probe              \* reu_probe's locals, and its verdict

build == <<deferred, sqrDma, present>>

vars == <<build, pc, row, mem, reu, regs, cached, want, fault, failures, probe>>

(***************************************************************************)
(* Registers: the C64 page, the REU bank and page, the length in pages.  lo *)
(* tells whether $DF04 (low byte of the REU address) is other than zero,    *)
(* ctrl whether $DF0A (address control) fixes an address, by bit 6 or 7.    *)
(***************************************************************************)
Registers == [c64 : C64Pages, bank : Banks, page : Pages, len : {1, 2},
              lo : BOOLEAN, ctrl : BOOLEAN]

Aligned(c64, bank, page, len) ==
  [c64 |-> c64, bank |-> bank, page |-> page, len |-> len, lo |-> FALSE, ctrl |-> FALSE]

(* asl / adc #0: row a's page and bank in a pair of banks. *)
RowBankTwice(base, a) == base + (2 * a) \div RB   \* faulty: the carry shifted twice

RowBank(base, a) == base + (2 * a) \div (2 * RB)
RowPage(a)       == (2 * a) % (2 * RB)

(* The latch every fetch of a plain row relies on. *)
Canonical(r) == [r EXCEPT !.c64 = Lo, !.len = 2, !.lo = FALSE, !.ctrl = FALSE]

Sound(r) == ~r.lo /\ ~r.ctrl

(* The pages a transfer covers on the REU side, the i-th for i < len. *)
ReuCell(r, i) == <<r.bank, r.page + i>>

(***************************************************************************)
(* What a transfer moves: a fetch copies REU pages to C64 pages, a stash    *)
(* copies C64 pages to REU pages.  With a residue in $DF04 the pages are    *)
(* shifted, with one in $DF0A an address stands still: junk either way.     *)
(***************************************************************************)
Fetched(m, r) ==
  [p \in C64Pages |->
     IF p \in r.c64 .. r.c64 + r.len - 1
       THEN IF Sound(r) THEN reu[ReuCell(r, p - r.c64)] ELSE Junk
       ELSE m[p]]

Stashed(m, r) ==
  [c \in Banks \X Pages |->
     IF c[1] = r.bank /\ c[2] \in r.page .. r.page + r.len - 1
       THEN IF Sound(r) THEN m[r.c64 + (c[2] - r.page)] ELSE Junk
       ELSE reu[c]]

(***************************************************************************)
(* REU_SETTLE as a whole (module Settle is the detail): the transfer is     *)
(* confirmed; or confirmed with a verify error; or, having moved the data   *)
(* or not, never confirmed within the bound.  Without an REU nothing moves  *)
(* and the status is whatever the bus floats to.                            *)
(***************************************************************************)
Outcomes == [moved : BOOLEAN, faults : SUBSET {1, 2}]

Happens(o) ==
  IF present
    THEN \/ o = [moved |-> TRUE, faults |-> {}]
         \/ failures < MaxFailures /\ o.faults # {} /\ (1 \in o.faults \/ o.moved)
    ELSE ~o.moved

Recorded(o) ==
  /\ fault' = fault \cup o.faults
  /\ failures' = IF present /\ o.faults # {} THEN failures + 1 ELSE failures

(* Registers r are written and the transfer executed; m is the C64's memory. *)
Fetch(m, r) ==
  /\ regs' = r
  /\ \E o \in Outcomes :
       /\ Happens(o) /\ Recorded(o)
       /\ mem' = IF o.moved THEN Fetched(m, r) ELSE m
  /\ UNCHANGED reu

Stash(m, r) ==
  /\ regs' = r
  /\ \E o \in Outcomes :
       /\ Happens(o) /\ Recorded(o)
       /\ reu' = IF o.moved THEN Stashed(m, r) ELSE reu
  /\ mem' = m

(***************************************************************************)
(* Initially nothing is built.  The registers and the REU hold anything;    *)
(* the probed byte may even be the sentinel itself.                         *)
(***************************************************************************)
Foreign == [c64 : {Other}, bank : {2}, page : {0}, len : {1, 2},
            lo : BOOLEAN, ctrl : BOOLEAN]

(* byte is not a local: it is the borrowed byte as reu_probe found it. *)
ProbeIdle == [orig |-> Zero, read |-> Zero, saved |-> Aligned(Other, 2, 0, 1),
              verdict |-> "none", byte |-> User]

Init ==
  /\ deferred \in BOOLEAN /\ sqrDma \in BOOLEAN /\ present \in BOOLEAN
  /\ pc = "cold" /\ row = 0
  /\ mem = [p \in C64Pages |-> IF p = Scratch THEN Zero ELSE Junk]
  /\ \E byte \in {User, Sentinel} :
       reu = [c \in Banks \X Pages |-> IF c = <<ProbeBank, 0>> THEN byte ELSE Junk]
  /\ regs \in Foreign
  /\ cached = 0 /\ want = <<1, 0>>
  /\ fault = {} /\ failures = 0
  /\ probe = ProbeIdle
(***************************************************************************)
(* reu_mul_init: for each row, the products, two stashes of the plain row,  *)
(* then X25519_DBL_STASH_ROW.  It may be called again at any time.  Hosts   *)
(* without an REU do not call it.                                           *)
(***************************************************************************)
InitBegin ==
  /\ pc \in {"cold", "idle"} /\ ~deferred /\ present
  /\ fault' = {}
  /\ row' = 0
  /\ pc' = "plain_lo"
  /\ UNCHANGED <<build, mem, reu, regs, cached, want, failures, probe>>

Generated == [mem EXCEPT ![Lo] = <<1, "lo", row>>, ![Hi] = <<1, "hi", row>>]

InitPlainLo ==
  /\ pc = "plain_lo"
  /\ Stash(Generated, Aligned(Lo, RowBank(PlainBank, row), RowPage(row), 1))
  /\ pc' = "plain_hi"
  /\ UNCHANGED <<build, row, cached, want, probe>>

(* The counter is a byte: after the last row it wraps to 0, which ends the loop. *)
NextRowWide == row + 1     \* faulty: a counter wider than a byte

NextRow == (row + 1) % (2 * RB)

AfterRow(again) ==
  /\ row' = NextRow
  /\ pc' = IF NextRow = 0 THEN "tail" ELSE again

(* a*2 is even, so ORing 1 into the offset selects the row's second page. *)
InitPlainHi ==
  /\ pc = "plain_hi"
  /\ Stash(mem, Aligned(Hi, RowBank(PlainBank, row), RowPage(row) + 1, 1))
  /\ IF sqrDma THEN pc' = "double_lo" /\ UNCHANGED row ELSE AfterRow("plain_lo")
  /\ UNCHANGED <<build, cached, want, probe>>

(***************************************************************************)
(* X25519_DBL_STASH_ROW: the row in the staging buffers is doubled in place *)
(* (a second doubling, or a mixed row, is no row of a table), the 17th bits *)
(* go to mul_dma_carry, and the three pages are stashed.                    *)
(***************************************************************************)
Doubled(m) ==
  LET a == m[Lo][3]
  IN  IF m[Lo] = <<1, "lo", a>> /\ m[Hi] = <<1, "hi", a>>
        THEN [m EXCEPT ![Lo] = <<2, "lo", a>>, ![Hi] = <<2, "hi", a>>, ![Carry] = <<2, "carry", a>>]
        ELSE [m EXCEPT ![Lo] = Junk, ![Hi] = Junk, ![Carry] = Junk]

DoubleLo ==
  /\ pc = "double_lo"
  /\ Stash(Doubled(mem), Aligned(Lo, RowBank(DoubledBank, row), RowPage(row), 1))
  /\ pc' = "double_hi"
  /\ UNCHANGED <<build, row, cached, want, probe>>

DoubleHi ==
  /\ pc = "double_hi"
  /\ Stash(mem, Aligned(Hi, RowBank(DoubledBank, row), RowPage(row) + 1, 1))
  /\ pc' = "double_carry"
  /\ UNCHANGED <<build, row, cached, want, probe>>

DoubleCarry ==
  /\ pc = "double_carry"
  /\ Stash(mem, Aligned(Carry, CarryBank, row, 1))
  /\ AfterRow(IF deferred THEN "derive" ELSE "plain_lo")
  /\ UNCHANGED <<build, cached, want, probe>>

(* Both builds end by leaving the registers ready for fetches of plain rows. *)
InitTail ==
  /\ pc = "tail"
  /\ regs' = Canonical(regs)
  /\ pc' = "idle"
  /\ UNCHANGED <<build, row, mem, reu, cached, want, fault, failures, probe>>

(***************************************************************************)
(* The deferring build: the provider's reu_mul_tables_init (external) makes *)
(* the plain rows from a buffer of its own and leaves the registers there;  *)
(* x25519_sqr_tables_init derives the private banks from its rows.          *)
(***************************************************************************)
PlainCell(a, i) == <<RowBank(PlainBank, a), RowPage(a) + i>>

ProviderInit ==
  /\ pc \in {"cold", "idle"} /\ deferred /\ present
  /\ reu' = [c \in Banks \X Pages |->
               IF \E a \in Rows, i \in {0, 1} : c = PlainCell(a, i)
                 THEN LET a == CHOOSE a \in Rows : c \in {PlainCell(a, 0), PlainCell(a, 1)}
                      IN  IF c = PlainCell(a, 0) THEN <<1, "lo", a>> ELSE <<1, "hi", a>>
                 ELSE reu[c]]
  /\ regs' = Aligned(Other, RowBank(PlainBank, 2 * RB - 1), RowPage(2 * RB - 1), 2)
  /\ pc' = IF sqrDma THEN "provided" ELSE "idle"
  /\ UNCHANGED <<build, row, mem, cached, want, fault, failures, probe>>

DeriveBegin ==
  /\ pc = "provided"
  /\ fault' = {}
  /\ row' = 0
  /\ pc' = "derive"
  /\ UNCHANGED <<build, mem, reu, regs, cached, want, failures, probe>>

DeriveFetch ==
  /\ pc = "derive"
  /\ Fetch(mem, Aligned(Lo, RowBank(PlainBank, row), RowPage(row), 2))
  /\ pc' = "double_lo"
  /\ UNCHANGED <<build, row, cached, want, probe>>

(***************************************************************************)
(* fe25519_mul: $DF04 and $DF0A are zeroed, reu_clear_wide restores C64     *)
(* address and length, and then each row's fetch writes only the offset and *)
(* the bank.  (reu_clear_wide's clearing of fe_wide is not modelled here.)  *)
(***************************************************************************)
ZeroResidue(r) == [r EXCEPT !.lo = FALSE, !.ctrl = FALSE]

ClearWideBare(r) == r      \* faulty: only the product buffer is cleared

ClearWide(r) == [r EXCEPT !.c64 = Lo, !.len = 2]

MulBegin ==
  /\ pc = "idle"
  /\ regs' = ClearWide(ZeroResidue(regs))
  /\ pc' = "mul"
  /\ UNCHANGED <<build, row, mem, reu, cached, want, fault, failures, probe>>

MulFetch ==
  /\ pc \in {"mul", "mul_row"}
  /\ \E a \in Rows :
       /\ Fetch(mem, [regs EXCEPT !.page = RowPage(a), !.bank = RowBank(PlainBank, a)])
       /\ want' = <<1, a>>
  /\ pc' = "mul_row"
  /\ UNCHANGED <<build, row, cached, probe>>

(***************************************************************************)
(* fe25519_sqr: the same prelude; the first SQR_DMA_K rows come from        *)
(* reu_fetch_doubled_row, in two transfers, the second of which leaves the  *)
(* registers at mul_dma_carry with a length of 256.                         *)
(***************************************************************************)
SqrBegin ==
  /\ pc = "idle"
  /\ regs' = ClearWide(ZeroResidue(regs))
  /\ pc' = "sqr"
  /\ UNCHANGED <<build, row, mem, reu, cached, want, fault, failures, probe>>

DoubledFetch ==
  /\ pc \in {"sqr", "sqr_row"} /\ sqrDma
  /\ \E a \in Rows :
       /\ cached' = a
       /\ Fetch(mem, Aligned(Lo, RowBank(DoubledBank, a), RowPage(a), 2))
       /\ want' = <<2, a>>
  /\ pc' = "sqr_carry"
  /\ UNCHANGED <<build, row, probe>>

CarryFetch ==
  /\ pc = "sqr_carry"
  /\ Fetch(mem, Aligned(Carry, CarryBank, cached, 1))
  /\ pc' = "sqr_row"
  /\ UNCHANGED <<build, row, cached, want, probe>>

(***************************************************************************)
(* reu_fetch_mul_row, the entry point for other code: it writes every       *)
(* register.  Under deferral it is the provider's, which does the same but  *)
(* has no mul_cached_a.                                                     *)
(***************************************************************************)
FetchMulRow ==
  /\ pc = "idle"
  /\ \E a \in Rows :
       /\ cached' = IF deferred THEN cached ELSE a
       /\ Fetch(mem, Aligned(Lo, RowBank(PlainBank, a), RowPage(a), 2))
       /\ want' = <<1, a>>
  /\ pc' = "fetched_row"
  /\ UNCHANGED <<build, row, probe>>

(* fe25519_mul_a24 only zeroes the two residues. *)
MulA24 ==
  /\ pc = "idle"
  /\ regs' = ZeroResidue(regs)
  /\ UNCHANGED <<build, pc, row, mem, reu, cached, want, fault, failures, probe>>

Return ==
  /\ pc \in {"mul", "mul_row", "sqr", "sqr_row", "fetched_row"}
  /\ pc' = "idle"
  /\ want' = <<1, 0>>
  /\ UNCHANGED <<build, row, mem, reu, regs, cached, fault, failures, probe>>
(***************************************************************************)
(* Between calls, another library or the host may leave anything in the     *)
(* registers and the staging buffers, and use the bank that is not claimed. *)
(***************************************************************************)
Sibling ==
  /\ pc = "idle"
  /\ regs' \in Foreign
  /\ mem' = [p \in C64Pages |-> IF p = Scratch THEN mem[p] ELSE Junk]
  /\ reu' = [reu EXCEPT ![<<2, 0>>] = User]
  /\ UNCHANGED <<build, pc, row, cached, want, fault, failures, probe>>

(***************************************************************************)
(* reu_probe, before anything is built: fetch the byte at bank 7, stash the *)
(* sentinel, read it back, put the byte back, restore the registers.  The   *)
(* byte has a page's tag here, and a length of one byte is a length of one  *)
(* page.                                                                    *)
(***************************************************************************)
ProbeRegs == Aligned(Scratch, ProbeBank, 0, 1)

ProbeBegin ==
  /\ pc = "cold"
  /\ fault' = {}
  /\ probe' = [probe EXCEPT !.saved = regs, !.verdict = "none",
                           !.byte = reu[<<ProbeBank, 0>>]]
  /\ pc' = "probe_fetch"
  /\ UNCHANGED <<build, row, mem, reu, regs, cached, want, failures>>

ProbeFetch ==
  /\ pc = "probe_fetch"
  /\ Fetch(mem, ProbeRegs)
  /\ probe' = [probe EXCEPT !.orig = mem'[Scratch]]
  /\ pc' = "probe_stash"
  /\ UNCHANGED <<build, row, cached, want>>

ProbeStash ==
  /\ pc = "probe_stash"
  /\ Stash([mem EXCEPT ![Scratch] = Sentinel], ProbeRegs)
  /\ pc' = "probe_read"
  /\ UNCHANGED <<build, row, cached, want, probe>>

ProbeRead ==
  /\ pc = "probe_read"
  /\ Fetch([mem EXCEPT ![Scratch] = Zero], ProbeRegs)
  /\ probe' = [probe EXCEPT !.read = mem'[Scratch]]
  /\ pc' = "probe_restore"
  /\ UNCHANGED <<build, row, cached, want>>

ProbeRestore ==
  /\ pc = "probe_restore"
  /\ Stash([mem EXCEPT ![Scratch] = probe.orig], ProbeRegs)
  /\ pc' = "probe_end"
  /\ UNCHANGED <<build, row, cached, want, probe>>

(* Faulty: the verdict looks at the byte alone. *)
ProbeEndByByte ==
  /\ pc = "probe_end"
  /\ regs' = [probe.saved EXCEPT !.ctrl = FALSE]
  /\ probe' = [probe EXCEPT !.saved = ProbeIdle.saved, !.verdict =
                 IF probe.read = Sentinel THEN "yes" ELSE "no"]
  /\ pc' = "cold"
  /\ UNCHANGED <<build, row, mem, reu, cached, want, fault, failures>>

(* The saved registers are of no use any more. *)
ProbeEnd ==
  /\ pc = "probe_end"
  /\ regs' = [probe.saved EXCEPT !.ctrl = FALSE]
  /\ probe' = [probe EXCEPT !.saved = ProbeIdle.saved, !.verdict =
                 IF probe.read = Sentinel /\ fault = {} THEN "yes" ELSE "no"]
  /\ pc' = "cold"
  /\ UNCHANGED <<build, row, mem, reu, cached, want, fault, failures>>

Initialise ==
  \/ InitBegin \/ InitPlainLo \/ InitPlainHi \/ DoubleLo \/ DoubleHi \/ DoubleCarry
  \/ InitTail \/ ProviderInit \/ DeriveBegin \/ DeriveFetch

FieldOp ==
  \/ MulBegin \/ MulFetch \/ SqrBegin \/ DoubledFetch \/ CarryFetch \/ FetchMulRow
  \/ MulA24 \/ Return

Probe ==
  \/ ProbeBegin \/ ProbeFetch \/ ProbeStash \/ ProbeRead \/ ProbeRestore \/ ProbeEnd

Next == Initialise \/ FieldOp \/ Probe \/ Sibling

Spec == Init /\ [][Next]_vars

(***************************************************************************)
(* Properties.                                                              *)
(***************************************************************************)

(* Types: no transfer touches a page or a bank that does not exist. *)
TypeOK ==
  /\ build \in BOOLEAN \X BOOLEAN \X BOOLEAN
  /\ row \in Rows /\ cached \in Rows
  /\ mem \in [C64Pages -> Content]
  /\ reu \in [Banks \X Pages -> Content]
  /\ regs \in Registers
  /\ want \in {1, 2} \X Rows
  /\ fault \subseteq {1, 2}
  /\ failures \in 0 .. MaxFailures
  /\ probe \in [orig : Content, read : Content, saved : Registers,
                verdict : {"none", "yes", "no"}, byte : Content]

(***************************************************************************)
(* The products a field operation is about to use are those of the row it   *)
(* asked for, unless x25519_reu_fault says that something went wrong since  *)
(* the tables were begun: whatever call came before, whatever the sibling   *)
(* left in the registers, whichever library built the plain rows.           *)
(***************************************************************************)
RowUsable(w) ==
  /\ mem[Lo] = <<w[1], "lo", w[2]>>
  /\ mem[Hi] = <<w[1], "hi", w[2]>>
  /\ w[1] = 2 => mem[Carry] = <<2, "carry", w[2]>>

RowRight ==
  pc \in {"mul_row", "sqr_row", "fetched_row"} /\ present /\ fault = {} => RowUsable(want)

(***************************************************************************)
(* The library writes no bank it does not claim (LIB_X25519_REU_BANKS_USED) *)
(* apart from the byte the probe borrows; without the squaring tables,      *)
(* not even the private banks.                                              *)
(***************************************************************************)
Ours == IF sqrDma THEN Claimed ELSE {0, 1}

ForeignBanksKept ==
  [][\A c \in Banks \X Pages :
       reu'[c] # reu[c] =>
         \/ c[1] \in Ours
         \/ c = <<ProbeBank, 0>> /\ pc \in {"probe_stash", "probe_restore"}
         \/ pc = "idle" /\ pc' = "idle" /\ regs' \in Foreign]_vars

(***************************************************************************)
(* The probe's verdict.  "Present" is only said of an REU that is there and *)
(* whose borrowed byte is back; with an REU and no failed transfer it is    *)
(* always said.                                                             *)
(***************************************************************************)
ProbeVerdict ==
  /\ probe.verdict = "yes" => present /\ reu[<<ProbeBank, 0>>] = probe.byte
  /\ probe.verdict = "no" => ~present \/ failures > 0

(***************************************************************************)
(* What the comment at the restore says: the borrowed byte is put back      *)
(* "BEFORE we examine the result, so the caller's REU is undisturbed even   *)
(* if the check fails".  A restore that fails itself would leave the        *)
(* sentinel, which this does not count.                                     *)
(***************************************************************************)
ProbeUndisturbed ==
  pc = "cold" /\ present /\ probe.verdict # "none" =>
    reu[<<ProbeBank, 0>>] \in {probe.byte, Sentinel}
===============================================================================
