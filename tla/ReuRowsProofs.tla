----------------------------- MODULE ReuRowsProofs -----------------------------
(***************************************************************************)
(* The row tables in the REU, for any number of rows and failing transfers: *)
(* every row multiplied with is the one asked for, the probe's verdict is   *)
(* right, and no foreign bank is written.  And the settle that every        *)
(* transfer of theirs ends with: its samples, its bound, its fault byte.    *)
(***************************************************************************)
EXTENDS ReuRows, Settle, TLAPS

ProbeSteps == {"probe_fetch", "probe_stash", "probe_read", "probe_restore", "probe_end"}
ColdSteps  == {"cold"} \cup ProbeSteps

PlainSteps   == {"plain_lo", "plain_hi"}
DoublingSteps == {"double_lo", "double_hi", "double_carry"}
DeriveSteps  == {"provided", "derive"}
CallSteps    == {"mul", "mul_row", "sqr", "sqr_carry", "sqr_row", "fetched_row"}
Standing     == {"tail", "idle"} \cup CallSteps      \* the tables are complete

Steps == ColdSteps \cup PlainSteps \cup DoublingSteps \cup DeriveSteps \cup Standing

(***************************************************************************)
(* What the tables hold.                                                    *)
(***************************************************************************)
DoubledCell(a, i) == <<RowBank(DoubledBank, a), RowPage(a) + i>>

CarryCell(a) == <<CarryBank, a>>

PlainThere(a) == reu[PlainCell(a, 0)] = <<1, "lo", a>> /\ reu[PlainCell(a, 1)] = <<1, "hi", a>>

DoubledThere(a) ==
  /\ reu[DoubledCell(a, 0)] = <<2, "lo", a>> /\ reu[DoubledCell(a, 1)] = <<2, "hi", a>>
  /\ reu[CarryCell(a)] = <<2, "carry", a>>

(* The rows that are in the tables by now. *)
PlainDone ==
  IF deferred \/ pc \in Standing THEN Rows
  ELSE IF pc \in PlainSteps THEN 0 .. row - 1 ELSE 0 .. row

DoubledDone == IF pc \in Standing THEN Rows ELSE 0 .. row - 1

(***************************************************************************)
(* The inductive invariant.                                                 *)
(***************************************************************************)
Clean == present /\ fault = {}

Course ==
  /\ pc \in Steps
  /\ pc \notin ColdSteps => present
  /\ pc \in PlainSteps => ~deferred
  /\ pc \in DeriveSteps => deferred /\ sqrDma
  /\ pc \in DoublingSteps => sqrDma

\* The latch, while fe25519_mul relies on it.
LatchHeld ==
  pc \in {"mul", "mul_row"} => regs.c64 = Lo /\ regs.len = 2 /\ Sound(regs)

\* The provider's rows are there whatever fails afterwards; the library's own
\* unless a transfer has failed.
PlainKept ==
  pc \notin ColdSteps /\ (deferred \/ Clean) => \A a \in PlainDone : PlainThere(a)

DoubledKept ==
  pc \notin ColdSteps \cup {"provided"} /\ sqrDma /\ Clean => \A a \in DoubledDone : DoubledThere(a)

\* The row under way, between the staging pages and the tables.
StagedPlain ==
  /\ pc = "plain_hi" => reu[PlainCell(row, 0)] = <<1, "lo", row>>
  /\ pc \in {"plain_hi", "double_lo"} => mem[Lo] = <<1, "lo", row>> /\ mem[Hi] = <<1, "hi", row>>

StagedDoubled ==
  /\ pc \in {"double_hi", "double_carry"} => reu[DoubledCell(row, 0)] = <<2, "lo", row>>
  /\ pc = "double_carry" => reu[DoubledCell(row, 1)] = <<2, "hi", row>>
  /\ pc = "double_hi" => mem[Hi] = <<2, "hi", row>>
  /\ pc \in {"double_hi", "double_carry"} => mem[Carry] = <<2, "carry", row>>

StagedForUse ==
  /\ pc = "sqr_carry" =>
       /\ want = <<2, cached>>
       /\ mem[Lo] = <<2, "lo", cached>> /\ mem[Hi] = <<2, "hi", cached>>
  /\ pc \in {"mul_row", "sqr_row", "fetched_row"} => RowUsable(want)
  /\ pc \in {"sqr_carry", "sqr_row"} => sqrDma

Staged == Clean => StagedPlain /\ StagedDoubled /\ StagedForUse

\* The probe: what it has learnt so far, and that a fault since its beginning
\* has been counted.
Borrowed == reu[<<ProbeBank, 0>>]

ProbeUnderWay ==
  pc \in ProbeSteps =>
    /\ probe.verdict = "none"
    /\ present /\ fault # {} => failures > 0
    /\ ~present /\ pc \in {"probe_restore", "probe_end"} => probe.read = Zero
    /\ Clean /\ pc \in {"probe_fetch", "probe_stash", "probe_end"} => Borrowed = probe.byte
    /\ Clean /\ pc \in {"probe_stash", "probe_read", "probe_restore"} => probe.orig = probe.byte
    /\ Clean /\ pc = "probe_read" => Borrowed = Sentinel
    /\ Clean /\ pc \in {"probe_restore", "probe_end"} => probe.read = Sentinel

IInv == TypeOK /\ Course /\ LatchHeld /\ PlainKept /\ DoubledKept /\ Staged /\ ProbeUnderWay /\ ProbeVerdict

(***************************************************************************)
(* Geometry: a bank holds RB rows, so a table is a pair of banks, and cells *)
(* of different rows are different.                                         *)
(***************************************************************************)
LEMMA RowPlace ==
  ASSUME NEW a \in Rows, NEW base \in Int
  PROVE  /\ RowBank(base, a) = IF a < RB THEN base ELSE base + 1
         /\ RowPage(a) = IF a < RB THEN 2 * a ELSE 2 * a - 2 * RB
<1>1. RB \in Nat \ {0} /\ a \in 0 .. 2 * RB - 1
  BY SizeAssumption DEF Rows
<1>2. CASE a < RB
  <2>1. (2 * a) \div (2 * RB) = 0 /\ (2 * a) % (2 * RB) = 2 * a
    BY <1>1, <1>2
  <2> QED  BY <1>2, <2>1 DEF RowBank, RowPage
<1>3. CASE ~(a < RB)
  <2>1. (2 * a) \div (2 * RB) = 1 /\ (2 * a) % (2 * RB) = 2 * a - 2 * RB
    BY <1>1, <1>3
  <2> QED  BY <1>3, <2>1 DEF RowBank, RowPage
<1> QED  BY <1>2, <1>3

LEMMA CellPlaces ==
  ASSUME NEW a \in Rows
  PROVE  /\ RowBank(PlainBank, a) \in {0, 1} /\ RowBank(DoubledBank, a) \in {4, 5}
         /\ RowBank(PlainBank, a) \in Banks /\ RowBank(DoubledBank, a) \in Banks
         /\ RowPage(a) \in Pages /\ RowPage(a) + 1 \in Pages
         /\ \A i \in {0, 1} : PlainCell(a, i) \in Banks \X Pages /\ DoubledCell(a, i) \in Banks \X Pages
         /\ CarryCell(a) \in Banks \X Pages
         /\ PlainCell(a, 0) = <<RowBank(PlainBank, a), RowPage(a)>>
         /\ DoubledCell(a, 0) = <<RowBank(DoubledBank, a), RowPage(a)>>
<1>1. RB \in Nat \ {0} /\ a \in 0 .. 2 * RB - 1
  BY SizeAssumption DEF Rows
<1>2. RowBank(PlainBank, a) \in {0, 1} /\ RowBank(DoubledBank, a) \in {4, 5}
  BY <1>1, RowPlace DEF PlainBank, DoubledBank
<1>3. RowPage(a) \in Pages /\ RowPage(a) + 1 \in Pages
  BY <1>1, RowPlace DEF Pages
<1> QED  BY <1>1, <1>2, <1>3 DEF Banks, PlainCell, DoubledCell, CarryCell, CarryBank, Pages

LEMMA CellsApart ==
  ASSUME NEW a \in Rows, NEW b \in Rows, NEW i \in {0, 1}, NEW j \in {0, 1}, a # b \/ i # j
  PROVE  PlainCell(a, i) # PlainCell(b, j) /\ DoubledCell(a, i) # DoubledCell(b, j)
<1>1. RB \in Nat \ {0} /\ a \in 0 .. 2 * RB - 1 /\ b \in 0 .. 2 * RB - 1
  BY SizeAssumption DEF Rows
<1>2. \A base \in {0, 4} : RowBank(base, a) # RowBank(base, b) \/ RowPage(a) + i # RowPage(b) + j
  BY <1>1, RowPlace
<1> QED  BY <1>2 DEF PlainCell, DoubledCell, PlainBank, DoubledBank

LEMMA TablesApart ==
  ASSUME NEW a \in Rows, NEW b \in Rows, NEW i \in {0, 1}, NEW j \in {0, 1}
  PROVE  /\ PlainCell(a, i) # DoubledCell(b, j) /\ PlainCell(a, i) # CarryCell(b)
         /\ DoubledCell(a, i) # CarryCell(b)
         /\ a # b => CarryCell(a) # CarryCell(b)
         /\ <<ProbeBank, 0>> \notin {PlainCell(a, i), DoubledCell(a, i), CarryCell(a)}
         /\ <<2, 0>> \notin {PlainCell(a, i), DoubledCell(a, i), CarryCell(a)}
<1>1. RowBank(PlainBank, a) \in {0, 1} /\ RowBank(DoubledBank, a) \in {4, 5} /\ RowBank(DoubledBank, b) \in {4, 5}
  BY CellPlaces
<1> QED  BY <1>1 DEF PlainCell, DoubledCell, CarryCell, CarryBank, ProbeBank

(***************************************************************************)
(* Transfers.  Every one is counted; one that is confirmed has moved its    *)
(* data, and one page or one row at a time is all the code moves.           *)
(***************************************************************************)
Counted ==
  /\ fault \subseteq fault' /\ fault' \subseteq {1, 2}
  /\ failures' \in 0 .. MaxFailures /\ failures <= failures'
  /\ present /\ fault' # fault => failures' > 0

LEMMA OutcomeCounted ==
  ASSUME TypeOK, NEW o \in Outcomes, Happens(o), Recorded(o)
  PROVE  Counted /\ (present /\ fault' = {} => o.moved)
<1>1. o.moved \in BOOLEAN /\ o.faults \in SUBSET {1, 2}
  BY DEF Outcomes
<1>2. present \in BOOLEAN /\ fault \subseteq {1, 2} /\ failures \in 0 .. MaxFailures /\ MaxFailures \in Nat
  BY SizeAssumption DEF TypeOK, build
<1>3. CASE present /\ o = [moved |-> TRUE, faults |-> {}]
  BY <1>2, <1>3 DEF Recorded, Counted
<1>4. fault' = fault \cup o.faults /\ fault \subseteq fault' /\ fault' \subseteq {1, 2}
  BY <1>1, <1>2 DEF Recorded
<1>5. CASE present /\ failures < MaxFailures /\ o.faults # {}
  <2>1. failures' = failures + 1 /\ fault' # {}
    BY <1>4, <1>5 DEF Recorded
  <2> QED  BY <1>2, <1>4, <1>5, <2>1 DEF Counted
<1>6. CASE ~present
  <2>1. failures' = failures
    BY <1>6 DEF Recorded
  <2> QED  BY <1>2, <1>4, <1>6, <2>1 DEF Counted
<1> QED  BY <1>2, <1>3, <1>5, <1>6 DEF Happens

LEMMA AlignedRegister ==
  ASSUME NEW c64 \in C64Pages, NEW bank \in Banks, NEW page \in Pages, NEW len \in {1, 2}
  PROVE  LET r == Aligned(c64, bank, page, len)
         IN  /\ r \in Registers /\ Sound(r)
             /\ r.c64 = c64 /\ r.bank = bank /\ r.page = page /\ r.len = len
  BY DEF Aligned, Registers, Sound

Put(c, v) ==
  /\ reu' = reu \/ reu' = [reu EXCEPT ![c] = v]
  /\ present /\ fault' = {} => reu' = [reu EXCEPT ![c] = v]

LEMMA StashPage ==
  ASSUME TypeOK, NEW m \in [C64Pages -> Content],
         NEW c64 \in C64Pages, NEW bank \in Banks, NEW page \in Pages,
         Stash(m, Aligned(c64, bank, page, 1))
  PROVE  /\ regs' = Aligned(c64, bank, page, 1) /\ regs' \in Registers
         /\ mem' = m
         /\ Counted
         /\ Put(<<bank, page>>, m[c64])
<1> DEFINE r == Aligned(c64, bank, page, 1)
<1>1. r \in Registers /\ Sound(r) /\ r.c64 = c64 /\ r.bank = bank /\ r.page = page /\ r.len = 1
  BY AlignedRegister
<1>2. page \in Int /\ c64 \in Int
  BY SizeAssumption DEF Pages, C64Pages
<1>3. Stashed(m, r) = [reu EXCEPT ![<<bank, page>>] = m[c64]]
  <2> HIDE DEF r
  <2>1. reu \in [Banks \X Pages -> Content]
    BY DEF TypeOK
  <2>2. ASSUME NEW c \in Banks \X Pages
        PROVE  Stashed(m, r)[c] = [reu EXCEPT ![<<bank, page>>] = m[c64]][c]
    <3>1. c[2] \in page .. page + 1 - 1 <=> c[2] = page
      BY <1>2, <2>2 DEF Pages
    <3>2. c = <<c[1], c[2]>>
      BY <2>2
    <3> QED  BY <1>1, <1>2, <2>1, <2>2, <3>1, <3>2 DEF Stashed
  <2> QED  BY <2>1, <2>2 DEF Stashed
<1>4. PICK o \in Outcomes : Happens(o) /\ Recorded(o) /\ reu' = IF o.moved THEN Stashed(m, r) ELSE reu
  BY DEF Stash
<1>5. Counted /\ (present /\ fault' = {} => o.moved)
  BY <1>4, OutcomeCounted
<1> QED
  <2>1. regs' = r /\ mem' = m
    BY DEF Stash
  <2>2. Put(<<bank, page>>, m[c64])
    BY <1>3, <1>4, <1>5 DEF Put
  <2> QED  BY <1>1, <1>5, <2>1, <2>2

FetchedRow(m, bank, page) == [m EXCEPT ![Lo] = reu[<<bank, page>>], ![Hi] = reu[<<bank, page + 1>>]]

LEMMA FetchRow ==
  ASSUME TypeOK, NEW m \in [C64Pages -> Content],
         NEW bank \in Banks, NEW page \in Pages, page + 1 \in Pages,
         NEW r \in Registers, Sound(r), r.c64 = Lo, r.len = 2, r.bank = bank, r.page = page,
         Fetch(m, r)
  PROVE  /\ regs' = r /\ reu' = reu
         /\ Counted
         /\ mem' = m \/ mem' = FetchedRow(m, bank, page)
         /\ present /\ fault' = {} => mem' = FetchedRow(m, bank, page)
         /\ mem' \in [C64Pages -> Content]
<1>1. page \in Int
  BY SizeAssumption DEF Pages
<1>2. reu \in [Banks \X Pages -> Content]
  BY DEF TypeOK
<1>3. Fetched(m, r) = FetchedRow(m, bank, page)
  <2>1. ASSUME NEW p \in C64Pages
        PROVE  Fetched(m, r)[p] = FetchedRow(m, bank, page)[p]
    BY <1>1, <1>2 DEF Fetched, FetchedRow, ReuCell, C64Pages, Lo, Hi
  <2> QED  BY <2>1 DEF Fetched, FetchedRow
<1>4. FetchedRow(m, bank, page) \in [C64Pages -> Content]
  BY <1>2 DEF FetchedRow
<1>5. PICK o \in Outcomes : Happens(o) /\ Recorded(o) /\ mem' = IF o.moved THEN Fetched(m, r) ELSE m
  BY DEF Fetch
<1>6. Counted /\ (present /\ fault' = {} => o.moved)
  BY <1>5, OutcomeCounted
<1>7. regs' = r /\ reu' = reu
  BY DEF Fetch
<1> QED  BY <1>3, <1>4, <1>5, <1>6, <1>7

LEMMA FetchPage ==
  ASSUME TypeOK, NEW m \in [C64Pages -> Content],
         NEW c64 \in C64Pages, NEW bank \in Banks, NEW page \in Pages,
         Fetch(m, Aligned(c64, bank, page, 1))
  PROVE  /\ regs' \in Registers /\ reu' = reu
         /\ Counted
         /\ mem' = m \/ mem' = [m EXCEPT ![c64] = reu[<<bank, page>>]]
         /\ present /\ fault' = {} => mem' = [m EXCEPT ![c64] = reu[<<bank, page>>]]
         /\ ~present => mem' = m
         /\ mem' \in [C64Pages -> Content]
<1> DEFINE r == Aligned(c64, bank, page, 1)
<1>1. r \in Registers /\ Sound(r) /\ r.c64 = c64 /\ r.bank = bank /\ r.page = page /\ r.len = 1
  BY AlignedRegister
<1>2. page \in Int /\ c64 \in Int
  BY SizeAssumption DEF Pages, C64Pages
<1>3. reu \in [Banks \X Pages -> Content]
  BY DEF TypeOK
<1>4. Fetched(m, r) = [m EXCEPT ![c64] = reu[<<bank, page>>]]
  <2> HIDE DEF r
  <2>1. ASSUME NEW p \in C64Pages
        PROVE  Fetched(m, r)[p] = [m EXCEPT ![c64] = reu[<<bank, page>>]][p]
    BY <1>1, <1>2, <1>3 DEF Fetched, ReuCell, C64Pages
  <2> QED  BY <2>1 DEF Fetched
<1>5. [m EXCEPT ![c64] = reu[<<bank, page>>]] \in [C64Pages -> Content]
  BY <1>3
<1>6. PICK o \in Outcomes : Happens(o) /\ Recorded(o) /\ mem' = IF o.moved THEN Fetched(m, r) ELSE m
  BY DEF Fetch
<1>7. Counted /\ (present /\ fault' = {} => o.moved)
  BY <1>6, OutcomeCounted
<1>8. ~present => ~o.moved
  BY <1>6 DEF Happens
<1>9. regs' = r /\ reu' = reu
  BY DEF Fetch
<1> QED  BY <1>1, <1>4, <1>5, <1>6, <1>7, <1>8, <1>9

USE DEF ProbeSteps, ColdSteps, PlainSteps, DoublingSteps, DeriveSteps, CallSteps, Standing, Steps

(***************************************************************************)
(* What a step leaves alone.                                                *)
(***************************************************************************)
LEMMA PutType ==
  ASSUME TypeOK, NEW c \in Banks \X Pages, NEW v \in Content, Put(c, v)
  PROVE  /\ reu' \in [Banks \X Pages -> Content]
         /\ \A d \in Banks \X Pages : d # c => reu'[d] = reu[d]
         /\ present /\ fault' = {} => reu'[c] = v
  BY DEF TypeOK, Put

LEMMA TablesAfterPut ==
  ASSUME TypeOK, NEW c \in Banks \X Pages, NEW v \in Content, Put(c, v), NEW a \in Rows
  PROVE  /\ PlainThere(a) /\ c \notin {PlainCell(a, 0), PlainCell(a, 1)} => PlainThere(a)'
         /\ DoubledThere(a) /\ c \notin {DoubledCell(a, 0), DoubledCell(a, 1), CarryCell(a)} => DoubledThere(a)'
  BY PutType, CellPlaces DEF PlainThere, DoubledThere

LEMMA TablesAfterNothing ==
  ASSUME UNCHANGED reu, NEW a \in Rows
  PROVE  (PlainThere(a) => PlainThere(a)') /\ (DoubledThere(a) => DoubledThere(a)')
  BY DEF PlainThere, DoubledThere

\* Outside the probe, its locals and the borrowed byte stay.
LEMMA ProbeFrame ==
  ASSUME IInv, UNCHANGED <<build, probe>>, pc' \notin ProbeSteps,
         failures <= failures', failures' \in Nat,
         reu'[<<ProbeBank, 0>>] = reu[<<ProbeBank, 0>>]
  PROVE  ProbeUnderWay' /\ ProbeVerdict'
<1>1. failures \in Nat
  <2>1. TypeOK
    BY DEF IInv
  <2>2. failures \in 0 .. MaxFailures
    BY <2>1 DEF TypeOK
  <2> QED  BY <2>2, SizeAssumption
<1>2. present' = present /\ probe' = probe
  BY DEF build
<1>3. ProbeUnderWay'
  BY DEF ProbeUnderWay
<1>4. ProbeVerdict
  BY DEF IInv
<1> QED  BY <1>1, <1>2, <1>3, <1>4 DEF ProbeVerdict

\* A stash to a table leaves the borrowed byte and the other tables' cells.
LEMMA ProbeCell == <<ProbeBank, 0>> \in Banks \X Pages
  BY SizeAssumption DEF ProbeBank, Banks, Pages

(***************************************************************************)
(* reu_mul_init.                                                            *)
(***************************************************************************)
LEMMA NextRowIs ==
  ASSUME TypeOK
  PROVE  /\ row \in Rows /\ row \in Nat /\ RB \in Nat \ {0}
         /\ NextRow \in Rows
         /\ NextRow = IF row = 2 * RB - 1 THEN 0 ELSE row + 1
<1>1. RB \in Nat \ {0} /\ row \in 0 .. 2 * RB - 1
  BY SizeAssumption DEF TypeOK, Rows
<1>2. CASE row = 2 * RB - 1
  <2>1. (row + 1) % (2 * RB) = 0
    BY <1>1, <1>2
  <2> QED  BY <1>1, <1>2, <2>1 DEF NextRow, Rows
<1>3. CASE row # 2 * RB - 1
  <2>1. (row + 1) % (2 * RB) = row + 1
    BY <1>1, <1>3
  <2> QED  BY <1>1, <1>3, <2>1 DEF NextRow, Rows
<1> QED  BY <1>2, <1>3

LEMMA RowsBefore ==
  ASSUME NEW n \in Rows, NEW a \in 0 .. n - 1
  PROVE  a \in Rows /\ a <= n - 1 /\ a # n
  BY SizeAssumption DEF Rows

LEMMA InitBeginStep == IInv /\ InitBegin => IInv'
<1> SUFFICES ASSUME IInv, InitBegin PROVE IInv'
  OBVIOUS
<1>1. TypeOK'
  BY SizeAssumption DEF IInv, InitBegin, TypeOK, build, Rows
<1>2. Course' /\ LatchHeld' /\ PlainKept' /\ DoubledKept' /\ Staged'
  BY DEF IInv, InitBegin, build, Course, LatchHeld, PlainKept, PlainDone, DoubledKept, DoubledDone,
         Staged, StagedPlain, StagedDoubled, StagedForUse
<1>3. ProbeUnderWay' /\ ProbeVerdict'
  BY DEF IInv, InitBegin, build, ProbeUnderWay, ProbeVerdict
<1> QED  BY <1>1, <1>2, <1>3 DEF IInv

LEMMA InitPlainLoStep == IInv /\ InitPlainLo => IInv'
<1> SUFFICES ASSUME IInv, InitPlainLo PROVE IInv'
  OBVIOUS
<1> DEFINE c == PlainCell(row, 0)
<1>1. /\ pc = "plain_lo" /\ pc' = "plain_hi" /\ TypeOK /\ Course /\ present /\ ~deferred
      /\ build' = build /\ row' = row /\ row \in Rows /\ deferred' = deferred /\ present' = present /\ sqrDma' = sqrDma
      /\ UNCHANGED <<cached, want, probe>>
  BY DEF IInv, Course, InitPlainLo, TypeOK, build
<1>2. Generated \in [C64Pages -> Content] /\ Generated[Lo] = <<1, "lo", row>> /\ Generated[Hi] = <<1, "hi", row>>
  BY <1>1 DEF Generated, TypeOK, Content, C64Pages, Lo, Hi
<1>3. c = <<RowBank(PlainBank, row), RowPage(row)>> /\ c \in Banks \X Pages
  BY <1>1, CellPlaces
<1>4. regs' \in Registers /\ mem' = Generated /\ Counted /\ Put(c, <<1, "lo", row>>)
  BY <1>1, <1>2, <1>3, CellPlaces, StashPage DEF InitPlainLo, C64Pages, Lo
<1>5. <<1, "lo", row>> \in Content
  BY <1>1 DEF Content
<1>6. /\ reu' \in [Banks \X Pages -> Content]
      /\ \A d \in Banks \X Pages : d # c => reu'[d] = reu[d]
      /\ fault' = {} => reu'[c] = <<1, "lo", row>>
  BY <1>1, <1>3, <1>4, <1>5, PutType
<1>7. TypeOK'
  BY <1>1, <1>2, <1>4, <1>6 DEF TypeOK, Counted
<1>8. Course' /\ LatchHeld'
  BY <1>1 DEF Course, LatchHeld
<1>9. PlainKept'
  <2> SUFFICES ASSUME fault' = {}, NEW a \in 0 .. row - 1 PROVE PlainThere(a)'
    BY <1>1 DEF PlainKept, PlainDone, Clean
  <2>1. a \in Rows /\ a # row /\ PlainThere(a)
    BY <1>1, <1>4, NextRowIs DEF IInv, PlainKept, PlainDone, Clean, Counted, Rows
  <2> QED  BY <1>1, <1>3, <1>4, <1>5, <2>1, CellsApart, TablesAfterPut
<1>10. DoubledKept'
  <2> SUFFICES ASSUME sqrDma, fault' = {}, NEW a \in 0 .. row - 1 PROVE DoubledThere(a)'
    BY <1>1 DEF DoubledKept, DoubledDone, Clean
  <2>1. a \in Rows /\ DoubledThere(a)
    BY <1>1, <1>4, NextRowIs DEF IInv, DoubledKept, DoubledDone, Clean, Counted, Rows
  <2> QED  BY <1>1, <1>3, <1>4, <1>5, <2>1, TablesApart, TablesAfterPut
<1>11. Staged'
  BY <1>1, <1>2, <1>4, <1>6 DEF Staged, StagedPlain, StagedDoubled, StagedForUse, Clean
<1>12. ProbeUnderWay' /\ ProbeVerdict'
  BY <1>1, <1>4, <1>6, ProbeCell, TablesApart, ProbeFrame DEF Counted, TypeOK
<1> QED  BY <1>7, <1>8, <1>9, <1>10, <1>11, <1>12 DEF IInv

\* One row is complete, and the loop goes on or ends.
LEMMA RowCompleted ==
  ASSUME TypeOK, NEW again \in {"plain_lo", "derive"}, AfterRow(again)
  PROVE  /\ pc' \in {again, "tail"} /\ row' \in Rows
         /\ \A a \in Rows : a <= row' - 1 \/ pc' = "tail" => a <= row
  BY NextRowIs DEF AfterRow, Rows

LEMMA InitPlainHiStep == IInv /\ InitPlainHi => IInv'
<1> SUFFICES ASSUME IInv, InitPlainHi PROVE IInv'
  OBVIOUS
<1> DEFINE c == PlainCell(row, 1)
<1>1. /\ pc = "plain_hi" /\ TypeOK /\ Course /\ present /\ ~deferred
      /\ deferred' = deferred /\ present' = present /\ sqrDma' = sqrDma
      /\ UNCHANGED <<build, cached, want, probe>>
  BY DEF IInv, Course, InitPlainHi, build
<1>2. /\ row \in Rows /\ row \in Nat /\ RB \in Nat \ {0} /\ row <= 2 * RB - 1
      /\ mem \in [C64Pages -> Content] /\ sqrDma \in BOOLEAN
  BY <1>1, NextRowIs DEF TypeOK, build, Rows
<1>3. c = <<RowBank(PlainBank, row), RowPage(row) + 1>> /\ c \in Banks \X Pages
  BY <1>2, CellPlaces DEF PlainCell
<1>4. regs' \in Registers /\ mem' = mem /\ Counted /\ Put(c, mem[Hi])
  BY <1>1, <1>2, <1>3, CellPlaces, StashPage DEF InitPlainHi, C64Pages, Hi
<1>5. mem[Hi] \in Content
  BY <1>2 DEF C64Pages, Hi
<1>6. reu' \in [Banks \X Pages -> Content] /\ \A d \in Banks \X Pages : d # c => reu'[d] = reu[d]
  BY <1>1, <1>3, <1>4, <1>5, PutType
<1>7. \/ sqrDma /\ pc' = "double_lo" /\ row' = row
      \/ ~sqrDma /\ AfterRow("plain_lo")
  BY DEF InitPlainHi
<1>8. /\ pc' \in {"double_lo", "plain_lo", "tail"} /\ row' \in Rows
      /\ pc' = "double_lo" => sqrDma /\ row' = row
      /\ pc' # "double_lo" => ~sqrDma /\ \A a \in Rows : a <= row' - 1 \/ pc' = "tail" => a <= row
  BY <1>1, <1>2, <1>7, RowCompleted
<1>9. TypeOK'
  BY <1>1, <1>4, <1>6, <1>8 DEF TypeOK, Counted
<1>10. Course' /\ LatchHeld'
  BY <1>1, <1>8 DEF Course, LatchHeld
<1>11. PlainKept'
  <2>1. PlainDone' = IF pc' = "tail" THEN Rows ELSE IF pc' = "plain_lo" THEN 0 .. row' - 1 ELSE 0 .. row'
    BY <1>1, <1>8 DEF PlainDone
  <2>2. ASSUME NEW a \in Int, a \in PlainDone'
        PROVE  a \in Rows /\ a <= row
    <3>1. CASE pc' = "tail"
      BY <1>2, <1>8, <2>1, <2>2, <3>1
    <3>2. CASE pc' = "plain_lo"
      <4>1. a \in 0 .. row' - 1 /\ row' \in Rows
        BY <1>8, <2>1, <2>2, <3>2
      <4>2. a \in Rows /\ a <= row' - 1
        BY <4>1, RowsBefore
      <4> QED  BY <1>8, <3>2, <4>2
    <3>3. CASE pc' = "double_lo"
      BY <1>2, <1>8, <2>1, <2>2, <3>3 DEF Rows
    <3> QED  BY <1>8, <3>1, <3>2, <3>3
  <2>3. PlainDone' \subseteq Int
    BY <1>2, <1>8, <2>1 DEF Rows
  <2> SUFFICES ASSUME fault' = {}, NEW a \in Rows, a <= row PROVE PlainThere(a)'
    BY <1>1, <1>8, <2>2, <2>3 DEF PlainKept, Clean
  <2>4. fault = {} /\ Clean
    BY <1>1, <1>4 DEF Counted, Clean
  <2>5. CASE a # row
    <3>1. PlainThere(a)
      BY <1>1, <1>2, <2>4, <2>5 DEF IInv, PlainKept, PlainDone, Rows
    <3> QED  BY <1>1, <1>2, <1>3, <1>4, <1>5, <2>5, <3>1, CellsApart, TablesAfterPut
  <2>6. CASE a = row
    <3>1. reu[PlainCell(row, 0)] = <<1, "lo", row>> /\ mem[Hi] = <<1, "hi", row>>
      BY <1>1, <2>4 DEF IInv, Staged, StagedPlain
    <3>2. reu'[PlainCell(row, 0)] = <<1, "lo", row>>
      BY <1>2, <1>6, <3>1, CellPlaces, CellsApart
    <3>3. reu'[PlainCell(row, 1)] = <<1, "hi", row>>
      BY <1>1, <1>3, <1>4, <1>5, <3>1, PutType
    <3> QED  BY <2>6, <3>2, <3>3 DEF PlainThere
  <2> QED  BY <2>5, <2>6
<1>12. DoubledKept'
  <2> SUFFICES ASSUME sqrDma, fault' = {}, NEW a \in 0 .. row - 1 PROVE DoubledThere(a)'
    BY <1>1, <1>8 DEF DoubledKept, DoubledDone, Clean
  <2>1. a \in Rows /\ DoubledThere(a)
    BY <1>1, <1>2, <1>4 DEF IInv, DoubledKept, DoubledDone, Clean, Counted, Rows
  <2> QED  BY <1>1, <1>2, <1>3, <1>4, <1>5, <2>1, TablesApart, TablesAfterPut
<1>13. Staged'
  BY <1>1, <1>4, <1>8 DEF IInv, Staged, StagedPlain, StagedDoubled, StagedForUse, Clean, Counted
<1>14. ProbeUnderWay' /\ ProbeVerdict'
  BY <1>1, <1>2, <1>4, <1>6, <1>8, ProbeCell, TablesApart, ProbeFrame DEF Counted, TypeOK
<1> QED  BY <1>9, <1>10, <1>11, <1>12, <1>13, <1>14 DEF IInv

(***************************************************************************)
(* X25519_DBL_STASH_ROW.  The three stashes leave the plain rows, and the   *)
(* doubled rows before this one.                                            *)
(***************************************************************************)
LEMMA DoublingKeeps ==
  ASSUME IInv, pc \in DoublingSteps, NEW v \in Content, UNCHANGED <<build, probe>>,
         NEW c \in {DoubledCell(row, 0), DoubledCell(row, 1), CarryCell(row)}, Put(c, v), Counted
  PROVE  /\ \A a \in Rows : /\ deferred \/ a <= row
                            /\ deferred \/ Clean'
                            => PlainThere(a)'
         /\ \A a \in 0 .. row - 1 : Clean' => DoubledThere(a)'
         /\ c \in Banks \X Pages
         /\ reu'[<<ProbeBank, 0>>] = reu[<<ProbeBank, 0>>]
         /\ present /\ sqrDma /\ (Clean' => Clean)
<1>1. TypeOK /\ Course /\ present /\ sqrDma
  BY DEF IInv, Course
<1>2. /\ row \in Rows /\ row \in Nat /\ RB \in Nat \ {0} /\ row <= 2 * RB - 1
      /\ deferred \in BOOLEAN
  BY <1>1, NextRowIs DEF TypeOK, build, Rows
<1>3. c \in Banks \X Pages
  BY <1>2, CellPlaces
<1>4. Clean' => Clean
  BY DEF Clean, Counted, build
<1>5. ASSUME NEW a \in Rows, deferred \/ a <= row, deferred \/ Clean'
      PROVE  PlainThere(a)'
  <2>1. PlainThere(a)
    BY <1>2, <1>4, <1>5 DEF IInv, PlainKept, PlainDone, Rows
  <2>2. c \notin {PlainCell(a, 0), PlainCell(a, 1)}
    BY <1>2, TablesApart
  <2> QED  BY <1>1, <1>3, <2>1, <2>2, TablesAfterPut
<1>6. ASSUME NEW a \in 0 .. row - 1, Clean'
      PROVE  DoubledThere(a)'
  <2>1. a \in Rows /\ a # row
    BY <1>2 DEF Rows
  <2>2. DoubledThere(a)
    BY <1>1, <1>4, <1>6 DEF IInv, DoubledKept, DoubledDone
  <2>3. c \notin {DoubledCell(a, 0), DoubledCell(a, 1), CarryCell(a)}
    <3>1. \A i \in {0, 1} : CarryCell(row) # DoubledCell(a, i)
      BY <1>2, <2>1, TablesApart
    <3>2. CarryCell(row) # CarryCell(a)
      BY <1>2, <2>1, 0 \in {0, 1}, TablesApart
    <3>3. ASSUME NEW i \in {0, 1}, NEW j \in {0, 1}
          PROVE  DoubledCell(row, j) # DoubledCell(a, i)
      BY <1>2, <2>1, CellsApart
    <3>4. ASSUME NEW j \in {0, 1}
          PROVE  DoubledCell(row, j) # CarryCell(a)
      BY <1>2, <2>1, TablesApart
    <3> QED  BY <3>1, <3>2, <3>3, <3>4
  <2> QED  BY <1>1, <1>3, <2>1, <2>2, <2>3, TablesAfterPut
<1>7. reu'[<<ProbeBank, 0>>] = reu[<<ProbeBank, 0>>]
  BY <1>1, <1>2, <1>3, ProbeCell, PutType, TablesApart
<1> QED  BY <1>1, <1>3, <1>4, <1>5, <1>6, <1>7

LEMMA DoubledPages ==
  ASSUME TypeOK
  PROVE  /\ Doubled(mem) \in [C64Pages -> Content]
         /\ mem[Lo] = <<1, "lo", row>> /\ mem[Hi] = <<1, "hi", row>> =>
              /\ Doubled(mem)[Lo] = <<2, "lo", row>> /\ Doubled(mem)[Hi] = <<2, "hi", row>>
              /\ Doubled(mem)[Carry] = <<2, "carry", row>>
<1> DEFINE a == mem[Lo][3]
<1>1. mem \in [C64Pages -> Content] /\ Lo \in C64Pages /\ Hi \in C64Pages /\ Carry \in C64Pages
  BY DEF TypeOK, C64Pages, Lo, Hi, Carry
<1>2. mem[Lo] = <<1, "lo", a>> => a \in Rows
  BY <1>1 DEF Content, Junk, Zero, Sentinel, User
<1>3. Junk \in Content /\ \A b \in Rows : {<<2, "lo", b>>, <<2, "hi", b>>, <<2, "carry", b>>} \subseteq Content
  BY DEF Content
<1>4. Doubled(mem) \in [C64Pages -> Content]
  BY <1>1, <1>2, <1>3 DEF Doubled
<1>5. ASSUME mem[Lo] = <<1, "lo", row>>, mem[Hi] = <<1, "hi", row>>
      PROVE  Doubled(mem) = [mem EXCEPT ![Lo] = <<2, "lo", row>>, ![Hi] = <<2, "hi", row>>,
                                        ![Carry] = <<2, "carry", row>>]
  <2>1. mem[Lo][3] = row
    BY <1>5
  <2> QED  BY <1>5, <2>1 DEF Doubled
<1>6. Lo # Hi /\ Lo # Carry /\ Hi # Carry
  BY DEF Lo, Hi, Carry
<1> QED  BY <1>1, <1>4, <1>5, <1>6

\* The first two stashes: the same row goes on.
LEMMA SameRow ==
  ASSUME IInv, pc \in DoublingSteps, NEW v \in Content, UNCHANGED <<build, row, probe>>,
         NEW c \in {DoubledCell(row, 0), DoubledCell(row, 1), CarryCell(row)}, Put(c, v), Counted,
         pc' \in DoublingSteps
  PROVE  Course' /\ LatchHeld' /\ PlainKept' /\ DoubledKept' /\ ProbeUnderWay' /\ ProbeVerdict'
<1>1. /\ \A a \in Rows : (deferred \/ a <= row) /\ (deferred \/ Clean') => PlainThere(a)'
      /\ \A a \in 0 .. row - 1 : Clean' => DoubledThere(a)'
      /\ reu'[<<ProbeBank, 0>>] = reu[<<ProbeBank, 0>>]
      /\ present /\ sqrDma
  BY DoublingKeeps
<1>2. /\ deferred' = deferred /\ present' = present /\ sqrDma' = sqrDma /\ row' = row
      /\ row \in Rows /\ TypeOK
  BY NextRowIs DEF build, IInv
<1>3. Course' /\ LatchHeld'
  BY <1>1, <1>2 DEF Course, LatchHeld
<1>4. \A a \in 0 .. row : a \in Rows /\ a <= row
  BY <1>2, SizeAssumption DEF Rows
<1>5. PlainDone' = IF deferred THEN Rows ELSE 0 .. row
  BY <1>2 DEF PlainDone
<1>6. PlainKept'
  BY <1>1, <1>2, <1>4, <1>5 DEF PlainKept
<1>7. DoubledKept'
  BY <1>1, <1>2 DEF DoubledKept, DoubledDone
<1>8. ProbeUnderWay' /\ ProbeVerdict'
  BY <1>1, SizeAssumption, ProbeFrame DEF Counted
<1> QED  BY <1>3, <1>6, <1>7, <1>8

LEMMA DoubleLoStep == IInv /\ DoubleLo => IInv'
<1> SUFFICES ASSUME IInv, DoubleLo PROVE IInv'
  OBVIOUS
<1> DEFINE c == DoubledCell(row, 0)
<1>1. /\ pc = "double_lo" /\ pc' = "double_hi" /\ TypeOK /\ row \in Rows
      /\ UNCHANGED <<build, row, cached, want, probe>> /\ present' = present
  BY DEF IInv, DoubleLo, TypeOK, build
<1>2. c = <<RowBank(DoubledBank, row), RowPage(row)>> /\ c \in Banks \X Pages
  BY <1>1, CellPlaces
<1>3. Doubled(mem) \in [C64Pages -> Content]
  BY <1>1, DoubledPages
<1>4. regs' \in Registers /\ mem' = Doubled(mem) /\ Counted /\ Put(c, Doubled(mem)[Lo])
  BY <1>1, <1>2, <1>3, CellPlaces, StashPage DEF DoubleLo, C64Pages, Lo
<1>5. Doubled(mem)[Lo] \in Content
  BY <1>3 DEF C64Pages, Lo
<1>6. /\ reu' \in [Banks \X Pages -> Content]
      /\ present /\ fault' = {} => reu'[c] = Doubled(mem)[Lo]
  BY <1>1, <1>2, <1>4, <1>5, PutType
<1>7. TypeOK'
  BY <1>1, <1>3, <1>4, <1>6 DEF TypeOK, Counted
<1>8. Course' /\ LatchHeld' /\ PlainKept' /\ DoubledKept' /\ ProbeUnderWay' /\ ProbeVerdict'
  BY <1>1, <1>4, <1>5, SameRow
<1>9. Staged'
  <2> SUFFICES ASSUME present, fault' = {} PROVE (StagedPlain /\ StagedDoubled /\ StagedForUse)'
    BY <1>1 DEF Staged, Clean
  <2>1. Clean
    BY <1>4 DEF Clean, Counted
  <2>2. mem[Lo] = <<1, "lo", row>> /\ mem[Hi] = <<1, "hi", row>>
    BY <1>1, <2>1 DEF IInv, Staged, StagedPlain
  <2>3. /\ Doubled(mem)[Lo] = <<2, "lo", row>> /\ Doubled(mem)[Hi] = <<2, "hi", row>>
        /\ Doubled(mem)[Carry] = <<2, "carry", row>>
    BY <1>1, <2>2, DoubledPages
  <2>4. StagedDoubled'
    BY <1>1, <1>4, <1>6, <2>3 DEF StagedDoubled
  <2> QED  BY <1>1, <2>4 DEF StagedPlain, StagedForUse
<1> QED  BY <1>7, <1>8, <1>9 DEF IInv

LEMMA DoubleHiStep == IInv /\ DoubleHi => IInv'
<1> SUFFICES ASSUME IInv, DoubleHi PROVE IInv'
  OBVIOUS
<1> DEFINE c == DoubledCell(row, 1)
<1>1. /\ pc = "double_hi" /\ pc' = "double_carry" /\ TypeOK /\ row \in Rows /\ mem \in [C64Pages -> Content]
      /\ UNCHANGED <<build, row, cached, want, probe>> /\ present' = present
  BY DEF IInv, DoubleHi, TypeOK, build
<1>2. c = <<RowBank(DoubledBank, row), RowPage(row) + 1>> /\ c \in Banks \X Pages
  BY <1>1, CellPlaces DEF DoubledCell
<1>3. mem[Hi] \in Content
  BY <1>1 DEF C64Pages, Hi
<1>4. regs' \in Registers /\ mem' = mem /\ Counted /\ Put(c, mem[Hi])
  BY <1>1, <1>2, CellPlaces, StashPage DEF DoubleHi, C64Pages, Hi
<1>5. /\ reu' \in [Banks \X Pages -> Content] /\ \A d \in Banks \X Pages : d # c => reu'[d] = reu[d]
      /\ present /\ fault' = {} => reu'[c] = mem[Hi]
  BY <1>1, <1>2, <1>3, <1>4, PutType
<1>6. TypeOK'
  BY <1>1, <1>4, <1>5 DEF TypeOK, Counted
<1>7. Course' /\ LatchHeld' /\ PlainKept' /\ DoubledKept' /\ ProbeUnderWay' /\ ProbeVerdict'
  BY <1>1, <1>3, <1>4, SameRow
<1>8. Staged'
  <2> SUFFICES ASSUME present, fault' = {} PROVE (StagedPlain /\ StagedDoubled /\ StagedForUse)'
    BY <1>1 DEF Staged, Clean
  <2>1. Clean
    BY <1>4 DEF Clean, Counted
  <2>2. /\ reu[DoubledCell(row, 0)] = <<2, "lo", row>>
        /\ mem[Hi] = <<2, "hi", row>> /\ mem[Carry] = <<2, "carry", row>>
    BY <1>1, <2>1 DEF IInv, Staged, StagedDoubled
  <2>3. reu'[DoubledCell(row, 0)] = <<2, "lo", row>>
    BY <1>1, <1>5, <2>2, CellPlaces, CellsApart
  <2>4. StagedDoubled'
    BY <1>1, <1>4, <1>5, <2>2, <2>3 DEF StagedDoubled
  <2> QED  BY <1>1, <2>4 DEF StagedPlain, StagedForUse
<1> QED  BY <1>6, <1>7, <1>8 DEF IInv

LEMMA DoubleCarryStep == IInv /\ DoubleCarry => IInv'
<1> SUFFICES ASSUME IInv, DoubleCarry PROVE IInv'
  OBVIOUS
<1> DEFINE c == CarryCell(row)
           again == IF deferred THEN "derive" ELSE "plain_lo"
<1>1. /\ pc = "double_carry" /\ TypeOK /\ row \in Rows /\ mem \in [C64Pages -> Content]
      /\ UNCHANGED <<build, cached, want, probe>>
      /\ present' = present /\ deferred' = deferred /\ sqrDma' = sqrDma /\ deferred \in BOOLEAN
  BY DEF IInv, DoubleCarry, TypeOK, build
<1>2. c \in Banks \X Pages /\ row \in Pages /\ CarryBank \in Banks
  BY <1>1, CellPlaces DEF CarryBank, Banks, Rows, Pages
<1>3. mem[Carry] \in Content
  BY <1>1 DEF C64Pages, Carry
<1>4. regs' \in Registers /\ mem' = mem /\ Counted /\ Put(c, mem[Carry])
  BY <1>1, <1>2, StashPage DEF DoubleCarry, C64Pages, Carry, CarryCell
<1>5. /\ reu' \in [Banks \X Pages -> Content] /\ \A d \in Banks \X Pages : d # c => reu'[d] = reu[d]
      /\ present /\ fault' = {} => reu'[c] = mem[Carry]
  BY <1>1, <1>2, <1>3, <1>4, PutType
<1>6. AfterRow(again)
  BY DEF DoubleCarry
<1>7. /\ pc' \in {again, "tail"} /\ row' \in Rows /\ pc' \in {"derive", "plain_lo", "tail"}
      /\ pc' = "derive" => deferred
      /\ pc' = "plain_lo" => ~deferred
  BY <1>1, <1>6, RowCompleted
<1>8. \A a \in Rows : a <= row' - 1 \/ pc' = "tail" => a <= row
  BY <1>1, <1>6, RowCompleted
<1>9. TypeOK'
  BY <1>1, <1>4, <1>5, <1>7 DEF TypeOK, Counted
<1>10. /\ \A a \in Rows : (deferred \/ a <= row) /\ (deferred \/ Clean') => PlainThere(a)'
       /\ \A a \in 0 .. row - 1 : Clean' => DoubledThere(a)'
       /\ reu'[<<ProbeBank, 0>>] = reu[<<ProbeBank, 0>>]
       /\ present /\ sqrDma /\ (Clean' => Clean)
  BY <1>1, <1>3, <1>4, DoublingKeeps
<1>11. Course' /\ LatchHeld'
  BY <1>1, <1>7, <1>10 DEF Course, LatchHeld
<1>12. PlainKept'
  <2>1. PlainDone' = IF deferred \/ pc' = "tail" THEN Rows ELSE 0 .. row' - 1
    BY <1>1, <1>7 DEF PlainDone
  <2>2. \A a \in PlainDone' : a \in Rows /\ (deferred \/ a <= row)
    BY <1>7, <1>8, <2>1, RowsBefore
  <2> QED  BY <1>1, <1>10, <2>2 DEF PlainKept
<1>13. DoubledKept'
  <2> SUFFICES ASSUME Clean', NEW a \in Rows, a <= row PROVE DoubledThere(a)'
    <3>1. DoubledDone' = IF pc' = "tail" THEN Rows ELSE 0 .. row' - 1
      BY <1>7 DEF DoubledDone
    <3>2. \A a \in DoubledDone' : a \in Rows /\ a <= row
      BY <1>7, <1>8, <3>1, RowsBefore
    <3> QED  BY <3>2 DEF DoubledKept
  <2>1. CASE a # row
    <3>1. a \in 0 .. row - 1
      BY <1>1, <2>1 DEF Rows
    <3> QED  BY <1>10, <3>1
  <2>2. CASE a = row
    <3>1. /\ reu[DoubledCell(row, 0)] = <<2, "lo", row>> /\ reu[DoubledCell(row, 1)] = <<2, "hi", row>>
          /\ mem[Carry] = <<2, "carry", row>>
      BY <1>1, <1>10 DEF IInv, Staged, StagedDoubled
    <3>2. reu'[DoubledCell(row, 0)] = <<2, "lo", row>> /\ reu'[DoubledCell(row, 1)] = <<2, "hi", row>>
      BY <1>1, <1>5, <3>1, CellPlaces, TablesApart
    <3>3. reu'[CarryCell(row)] = <<2, "carry", row>>
      BY <1>1, <1>5, <3>1 DEF Clean
    <3> QED  BY <2>2, <3>2, <3>3 DEF DoubledThere
  <2> QED  BY <2>1, <2>2
<1>14. Staged'
  BY <1>7 DEF Staged, StagedPlain, StagedDoubled, StagedForUse
<1>15. ProbeUnderWay' /\ ProbeVerdict'
  BY <1>1, <1>4, <1>7, <1>10, SizeAssumption, ProbeFrame DEF Counted
<1> QED  BY <1>9, <1>11, <1>12, <1>13, <1>14, <1>15 DEF IInv

(***************************************************************************)
(* The end of the initialisation, and the deferring build.                  *)
(***************************************************************************)
\* Steps that write no table.
LEMMA TablesKept ==
  ASSUME IInv, UNCHANGED <<build, row, reu>>, fault \subseteq fault',
         \/ pc = "derive" /\ pc' = "double_lo"
         \/ pc \in Standing /\ pc' \in Standing
  PROVE  PlainKept' /\ DoubledKept'
<1>1. /\ deferred' = deferred /\ present' = present /\ sqrDma' = sqrDma /\ row' = row
      /\ reu' = reu /\ row \in Rows
  BY NextRowIs DEF build, IInv
<1>2. (deferred \/ Clean)' => (deferred \/ Clean)
  BY <1>1 DEF Clean
<1>3. pc = "derive" => deferred
  BY DEF IInv, Course
<1>4. PlainDone' = PlainDone /\ DoubledDone' = DoubledDone
  BY <1>1, <1>3 DEF PlainDone, DoubledDone
<1>5. \A a : (PlainThere(a)' <=> PlainThere(a)) /\ (DoubledThere(a)' <=> DoubledThere(a))
  BY <1>1 DEF PlainThere, DoubledThere
<1>6. PlainKept'
  BY <1>1, <1>2, <1>4, <1>5 DEF IInv, PlainKept
<1>7. DoubledKept'
  BY <1>1, <1>4, <1>5 DEF IInv, DoubledKept, Clean
<1> QED  BY <1>6, <1>7

LEMMA ForeignTypes == Foreign \subseteq Registers
<1>1. Other \in C64Pages /\ 2 \in Banks /\ 0 \in Pages
  BY SizeAssumption DEF C64Pages, Other, Banks, Pages
<1> QED  BY <1>1 DEF Foreign, Registers

LEMMA LatchSet ==
  ASSUME NEW r \in Registers
  PROVE  /\ Canonical(r) \in Registers /\ ZeroResidue(r) \in Registers
         /\ ClearWide(ZeroResidue(r)) \in Registers
         /\ LET s == ClearWide(ZeroResidue(r)) IN s.c64 = Lo /\ s.len = 2 /\ Sound(s)
<1>1. Lo \in C64Pages
  BY DEF C64Pages, Lo
<1>2. ZeroResidue(r) \in Registers
  BY DEF ZeroResidue, Registers
<1>3. ClearWide(ZeroResidue(r)) = Canonical(r)
  BY DEF ZeroResidue, ClearWide, Canonical, Registers
<1>4. Canonical(r) \in Registers
  BY <1>1 DEF Canonical, Registers
<1>5. Canonical(r).c64 = Lo /\ Canonical(r).len = 2 /\ Sound(Canonical(r))
  BY DEF Canonical, Registers, Sound
<1> QED  BY <1>2, <1>3, <1>4, <1>5

LEMMA InitTailStep == IInv /\ InitTail => IInv'
<1> SUFFICES ASSUME IInv, InitTail PROVE IInv'
  OBVIOUS
<1>1. /\ pc = "tail" /\ pc' = "idle" /\ TypeOK
      /\ UNCHANGED <<build, row, mem, reu, cached, want, fault, failures, probe>>
      /\ deferred' = deferred /\ present' = present /\ sqrDma' = sqrDma
  BY DEF IInv, InitTail, build
<1>2. TypeOK'
  <2>1. Canonical(regs) \in Registers
    BY <1>1, LatchSet DEF TypeOK
  <2> QED  BY <1>1, <2>1 DEF InitTail, TypeOK
<1>3. Course' /\ LatchHeld' /\ Staged'
  BY <1>1 DEF IInv, Course, LatchHeld, Staged, StagedPlain, StagedDoubled, StagedForUse
<1>4. PlainKept' /\ DoubledKept'
  BY <1>1, TablesKept
<1>5. ProbeUnderWay' /\ ProbeVerdict'
  <2>1. failures \in Nat
    BY <1>1, SizeAssumption DEF TypeOK
  <2> QED  BY <1>1, <2>1, ProbeFrame
<1> QED  BY <1>2, <1>3, <1>4, <1>5 DEF IInv

LEMMA ProviderInitStep == IInv /\ ProviderInit => IInv'
<1> SUFFICES ASSUME IInv, ProviderInit PROVE IInv'
  OBVIOUS
<1>1. /\ pc \in {"cold", "idle"} /\ pc' = (IF sqrDma THEN "provided" ELSE "idle")
      /\ TypeOK /\ deferred /\ present /\ sqrDma \in BOOLEAN
      /\ UNCHANGED <<build, row, mem, cached, want, fault, failures, probe>>
      /\ deferred' = deferred /\ present' = present /\ sqrDma' = sqrDma
  BY DEF IInv, ProviderInit, TypeOK, build
<1> DEFINE There(c) == \E a \in Rows, i \in {0, 1} : c = PlainCell(a, i)
           Row(c) == CHOOSE a \in Rows : c \in {PlainCell(a, 0), PlainCell(a, 1)}
<1>2. reu' = [c \in Banks \X Pages |->
                IF There(c) THEN IF c = PlainCell(Row(c), 0) THEN <<1, "lo", Row(c)>> ELSE <<1, "hi", Row(c)>>
                ELSE reu[c]]
  BY DEF ProviderInit
<1>3. ASSUME NEW a \in Rows, NEW i \in {0, 1}
      PROVE  Row(PlainCell(a, i)) = a /\ There(PlainCell(a, i)) /\ PlainCell(a, i) \in Banks \X Pages
  <2>1. \A b \in Rows : PlainCell(a, i) \in {PlainCell(b, 0), PlainCell(b, 1)} => b = a
    BY CellsApart
  <2>2. PlainCell(a, i) \in {PlainCell(a, 0), PlainCell(a, 1)}
    OBVIOUS
  <2>3. Row(PlainCell(a, i)) = a
    BY <2>1, <2>2
  <2> QED  BY <2>3, CellPlaces
<1>4. ASSUME NEW a \in Rows
      PROVE  PlainThere(a)'
  <2>1. PlainCell(a, 1) # PlainCell(a, 0)
    BY CellsApart
  <2> HIDE DEF There, Row
  <2>2. reu'[PlainCell(a, 0)] = <<1, "lo", a>>
    BY <1>2, <1>3
  <2>3. reu'[PlainCell(a, 1)] = <<1, "hi", a>>
    BY <1>2, <1>3, <2>1
  <2> QED  BY <2>2, <2>3 DEF PlainThere
<1>5. reu' \in [Banks \X Pages -> Content]
  <2>1. ASSUME NEW c \in Banks \X Pages, There(c)
        PROVE  Row(c) \in Rows
    BY <1>3, <2>1
  <2> HIDE DEF There, Row
  <2>2. \A a \in Rows : <<1, "lo", a>> \in Content /\ <<1, "hi", a>> \in Content
    BY DEF Content
  <2>3. \A c \in Banks \X Pages : reu[c] \in Content
    BY <1>1 DEF TypeOK
  <2> QED  BY <1>2, <2>1, <2>2, <2>3
<1>6. reu'[<<ProbeBank, 0>>] = reu[<<ProbeBank, 0>>]
  <2>1. ~There(<<ProbeBank, 0>>)
    BY TablesApart
  <2> HIDE DEF There, Row
  <2> QED  BY <1>2, <2>1, ProbeCell
<1>7. TypeOK'
  <2>1. 2 * RB - 1 \in Rows
    BY SizeAssumption DEF Rows
  <2>2. RowBank(PlainBank, 2 * RB - 1) \in Banks /\ RowPage(2 * RB - 1) \in Pages
    BY <2>1, CellPlaces
  <2>3. regs' \in Registers
    BY <2>2, AlignedRegister DEF ProviderInit, C64Pages, Other
  <2> QED  BY <1>1, <1>5, <2>3 DEF TypeOK
<1>8. Course' /\ LatchHeld' /\ Staged'
  BY <1>1 DEF Course, LatchHeld, Staged, StagedPlain, StagedDoubled, StagedForUse
<1>9. PlainKept'
  <2>1. PlainDone' = Rows
    BY <1>1 DEF PlainDone
  <2> QED  BY <1>4, <2>1 DEF PlainKept
<1>10. DoubledKept'
  BY <1>1 DEF DoubledKept
<1>11. ProbeUnderWay' /\ ProbeVerdict'
  <2>1. failures \in Nat
    BY <1>1, SizeAssumption DEF TypeOK
  <2> QED  BY <1>1, <1>6, <2>1, ProbeFrame
<1> QED  BY <1>7, <1>8, <1>9, <1>10, <1>11 DEF IInv

LEMMA DeriveBeginStep == IInv /\ DeriveBegin => IInv'
<1> SUFFICES ASSUME IInv, DeriveBegin PROVE IInv'
  OBVIOUS
<1>1. /\ pc = "provided" /\ pc' = "derive" /\ TypeOK /\ deferred /\ row' = 0 /\ fault' = {} /\ Course
      /\ UNCHANGED <<build, mem, reu, regs, cached, want, failures, probe>>
      /\ deferred' = deferred /\ present' = present /\ sqrDma' = sqrDma
  BY DEF IInv, DeriveBegin, Course, build
<1>2. TypeOK'
  BY <1>1, SizeAssumption DEF TypeOK, Rows
<1>3. Course' /\ LatchHeld' /\ Staged'
  BY <1>1 DEF Course, LatchHeld, Staged, StagedPlain, StagedDoubled, StagedForUse
<1>4. PlainKept'
  <2>1. PlainDone' = PlainDone
    BY <1>1 DEF PlainDone
  <2>2. \A a \in PlainDone : PlainThere(a)
    BY <1>1 DEF IInv, PlainKept
  <2>3. \A a : PlainThere(a)' <=> PlainThere(a)
    BY <1>1 DEF PlainThere
  <2> QED  BY <2>1, <2>2, <2>3 DEF PlainKept
<1>5. DoubledKept'
  <2>1. DoubledDone' = {}
    BY <1>1 DEF DoubledDone
  <2> QED  BY <2>1 DEF DoubledKept
<1>6. ProbeUnderWay' /\ ProbeVerdict'
  <2>1. failures \in Nat
    BY <1>1, SizeAssumption DEF TypeOK
  <2> QED  BY <1>1, <2>1, ProbeFrame
<1> QED  BY <1>2, <1>3, <1>4, <1>5, <1>6 DEF IInv

LEMMA DeriveFetchStep == IInv /\ DeriveFetch => IInv'
<1> SUFFICES ASSUME IInv, DeriveFetch PROVE IInv'
  OBVIOUS
<1> DEFINE r == Aligned(Lo, RowBank(PlainBank, row), RowPage(row), 2)
<1>1. /\ pc = "derive" /\ pc' = "double_lo" /\ TypeOK /\ deferred /\ sqrDma /\ Course
      /\ row \in Rows /\ mem \in [C64Pages -> Content]
      /\ UNCHANGED <<build, row, cached, want, probe>>
      /\ deferred' = deferred /\ present' = present /\ sqrDma' = sqrDma
  BY DEF IInv, DeriveFetch, Course, TypeOK, build
<1>2. /\ regs' = r /\ r \in Registers /\ reu' = reu /\ Counted /\ mem' \in [C64Pages -> Content]
      /\ present /\ fault' = {} => mem' = FetchedRow(mem, RowBank(PlainBank, row), RowPage(row))
  <2>1. /\ RowBank(PlainBank, row) \in Banks /\ RowPage(row) \in Pages /\ RowPage(row) + 1 \in Pages
        /\ Lo \in C64Pages
    BY <1>1, CellPlaces DEF C64Pages, Lo
  <2>2. /\ r \in Registers /\ Sound(r) /\ r.c64 = Lo /\ r.len = 2
        /\ r.bank = RowBank(PlainBank, row) /\ r.page = RowPage(row)
    BY <2>1, AlignedRegister
  <2>3. Fetch(mem, r)
    BY DEF DeriveFetch
  <2> HIDE DEF r
  <2> QED  BY <1>1, <2>1, <2>2, <2>3, FetchRow
<1>3. TypeOK'
  BY <1>1, <1>2 DEF TypeOK, Counted
<1>4. Course' /\ LatchHeld'
  BY <1>1 DEF Course, LatchHeld
<1>5. PlainKept' /\ DoubledKept'
  BY <1>1, <1>2, TablesKept DEF Counted
<1>6. Staged'
  <2> SUFFICES ASSUME present, fault' = {} PROVE StagedPlain'
    BY <1>1 DEF Staged, Clean, StagedDoubled, StagedForUse
  <2>1. PlainThere(row)
    BY <1>1 DEF IInv, PlainKept, PlainDone
  <2>2. mem'[Lo] = <<1, "lo", row>> /\ mem'[Hi] = <<1, "hi", row>>
    BY <1>1, <1>2, <2>1, CellPlaces DEF FetchedRow, PlainThere, PlainCell, C64Pages, Lo, Hi
  <2> QED  BY <1>1, <2>2 DEF StagedPlain
<1>7. ProbeUnderWay' /\ ProbeVerdict'
  BY <1>1, <1>2, SizeAssumption, ProbeFrame DEF Counted
<1> QED  BY <1>3, <1>4, <1>5, <1>6, <1>7 DEF IInv

(***************************************************************************)
(* The field operations.  The tables stand; what is new is in the staging   *)
(* pages, and there the latch decides which pages they are.                 *)
(***************************************************************************)
LEMMA CallFrame ==
  ASSUME IInv, UNCHANGED <<build, row, reu, probe>>,
         fault \subseteq fault', failures <= failures', failures' \in Nat,
         pc \in Standing, pc' \in Standing
  PROVE  /\ Course' /\ PlainKept' /\ DoubledKept' /\ ProbeUnderWay' /\ ProbeVerdict'
         /\ StagedPlain' /\ StagedDoubled'
<1>1. Course' /\ StagedPlain' /\ StagedDoubled'
  BY DEF IInv, Course, StagedPlain, StagedDoubled, build
<1>2. PlainKept' /\ DoubledKept'
  BY TablesKept
<1>3. ProbeUnderWay' /\ ProbeVerdict'
  BY ProbeFrame
<1> QED  BY <1>1, <1>2, <1>3

LEMMA MulBeginStep == IInv /\ (MulBegin \/ SqrBegin) => IInv'
<1> SUFFICES ASSUME IInv, MulBegin \/ SqrBegin PROVE IInv'
  OBVIOUS
<1>1. /\ pc = "idle" /\ pc' \in {"mul", "sqr"} /\ TypeOK
      /\ UNCHANGED <<build, row, mem, reu, cached, want, fault, failures, probe>>
      /\ regs' = ClearWide(ZeroResidue(regs))
  BY DEF IInv, MulBegin, SqrBegin
<1>2. /\ regs' \in Registers /\ regs'.c64 = Lo /\ regs'.len = 2 /\ Sound(regs')
      /\ failures \in Nat
  BY <1>1, LatchSet, SizeAssumption DEF TypeOK
<1>3. TypeOK' /\ LatchHeld'
  BY <1>1, <1>2 DEF TypeOK, LatchHeld, Sound, build
<1>4. Course' /\ PlainKept' /\ DoubledKept' /\ ProbeUnderWay' /\ ProbeVerdict' /\ StagedPlain' /\ StagedDoubled'
  BY <1>1, <1>2, CallFrame
<1>5. StagedForUse'
  BY <1>1 DEF StagedForUse
<1> QED  BY <1>3, <1>4, <1>5 DEF IInv, Staged

LEMMA ReturnStep == IInv /\ (Return \/ MulA24) => IInv'
<1> SUFFICES ASSUME IInv, Return \/ MulA24 PROVE IInv'
  OBVIOUS
<1>1. /\ pc \in Standing /\ pc' = "idle" /\ TypeOK
      /\ UNCHANGED <<build, row, mem, reu, cached, fault, failures, probe>>
      /\ regs' \in {regs, ZeroResidue(regs)} /\ want' \in {want, <<1, 0>>}
  BY DEF IInv, Return, MulA24
<1>2. regs' \in Registers /\ failures \in Nat /\ want' \in {1, 2} \X Rows
  BY <1>1, LatchSet, SizeAssumption DEF TypeOK, Rows
<1>3. TypeOK' /\ LatchHeld' /\ StagedForUse'
  BY <1>1, <1>2 DEF TypeOK, LatchHeld, StagedForUse, build
<1>4. Course' /\ PlainKept' /\ DoubledKept' /\ ProbeUnderWay' /\ ProbeVerdict' /\ StagedPlain' /\ StagedDoubled'
  BY <1>1, <1>2, CallFrame
<1> QED  BY <1>3, <1>4 DEF IInv, Staged

\* What a fetch of a row of a standing table brings.
LEMMA StandingRow ==
  ASSUME IInv, pc \in Standing, NEW a \in Rows, Clean, NEW m \in [C64Pages -> Content]
  PROVE  /\ FetchedRow(m, RowBank(PlainBank, a), RowPage(a))[Lo] = <<1, "lo", a>>
         /\ FetchedRow(m, RowBank(PlainBank, a), RowPage(a))[Hi] = <<1, "hi", a>>
         /\ sqrDma => /\ FetchedRow(m, RowBank(DoubledBank, a), RowPage(a))[Lo] = <<2, "lo", a>>
                      /\ FetchedRow(m, RowBank(DoubledBank, a), RowPage(a))[Hi] = <<2, "hi", a>>
                      /\ reu[CarryCell(a)] = <<2, "carry", a>>
<1>1. PlainThere(a) /\ (sqrDma => DoubledThere(a))
  BY DEF IInv, PlainKept, PlainDone, DoubledKept, DoubledDone
<1>2. /\ PlainCell(a, 0) = <<RowBank(PlainBank, a), RowPage(a)>>
      /\ PlainCell(a, 1) = <<RowBank(PlainBank, a), RowPage(a) + 1>>
      /\ DoubledCell(a, 0) = <<RowBank(DoubledBank, a), RowPage(a)>>
      /\ DoubledCell(a, 1) = <<RowBank(DoubledBank, a), RowPage(a) + 1>>
  BY CellPlaces DEF PlainCell, DoubledCell
<1>3. Lo \in C64Pages /\ Hi \in C64Pages /\ Lo # Hi
  BY DEF C64Pages, Lo, Hi
<1> QED  BY <1>1, <1>2, <1>3 DEF FetchedRow, PlainThere, DoubledThere

LEMMA MulFetchStep == IInv /\ MulFetch => IInv'
<1> SUFFICES ASSUME IInv, MulFetch PROVE IInv'
  OBVIOUS
<1>1. /\ pc \in {"mul", "mul_row"} /\ pc' = "mul_row" /\ TypeOK /\ LatchHeld
      /\ mem \in [C64Pages -> Content] /\ regs \in Registers
      /\ UNCHANGED <<build, row, cached, probe>>
  BY DEF IInv, MulFetch, TypeOK
<1>2. PICK a \in Rows :
        /\ Fetch(mem, [regs EXCEPT !.page = RowPage(a), !.bank = RowBank(PlainBank, a)])
        /\ want' = <<1, a>>
  BY DEF MulFetch
<1> DEFINE r == [regs EXCEPT !.page = RowPage(a), !.bank = RowBank(PlainBank, a)]
<1>3. RowBank(PlainBank, a) \in Banks /\ RowPage(a) \in Pages /\ RowPage(a) + 1 \in Pages
  BY CellPlaces
<1>4. r \in Registers
  BY <1>1, <1>3 DEF Registers
<1>5. Sound(r) /\ r.c64 = Lo /\ r.len = 2 /\ r.bank = RowBank(PlainBank, a) /\ r.page = RowPage(a)
  BY <1>1 DEF LatchHeld, Registers, Sound
<1>6. Fetch(mem, r)
  BY <1>2
<1> HIDE DEF r
<1>7. /\ regs' = r /\ reu' = reu /\ Counted /\ mem' \in [C64Pages -> Content]
      /\ present /\ fault' = {} => mem' = FetchedRow(mem, RowBank(PlainBank, a), RowPage(a))
  BY <1>1, <1>3, <1>4, <1>5, <1>6, FetchRow
<1>8. TypeOK' /\ LatchHeld'
  BY <1>1, <1>2, <1>4, <1>5, <1>7 DEF TypeOK, LatchHeld, Counted, build, Sound
<1>9. Course' /\ PlainKept' /\ DoubledKept' /\ ProbeUnderWay' /\ ProbeVerdict' /\ StagedPlain' /\ StagedDoubled'
  BY <1>1, <1>7, SizeAssumption, CallFrame DEF Counted
<1>10. Clean' => StagedForUse'
  <2> SUFFICES ASSUME Clean' PROVE RowUsable(want)'
    BY <1>1 DEF StagedForUse
  <2>1. Clean
    BY <1>1, <1>7 DEF Clean, Counted, build
  <2>2. mem'[Lo] = <<1, "lo", a>> /\ mem'[Hi] = <<1, "hi", a>>
    BY <1>1, <1>7, <2>1, StandingRow DEF Clean, build
  <2> QED  BY <1>2, <2>2 DEF RowUsable
<1> QED  BY <1>8, <1>9, <1>10 DEF IInv, Staged

LEMMA FetchMulRowStep == IInv /\ FetchMulRow => IInv'
<1> SUFFICES ASSUME IInv, FetchMulRow PROVE IInv'
  OBVIOUS
<1>1. /\ pc = "idle" /\ pc' = "fetched_row" /\ TypeOK
      /\ mem \in [C64Pages -> Content] /\ cached \in Rows
      /\ UNCHANGED <<build, row, probe>>
  BY DEF IInv, FetchMulRow, TypeOK
<1>2. PICK a \in Rows :
        /\ cached' = IF deferred THEN cached ELSE a
        /\ Fetch(mem, Aligned(Lo, RowBank(PlainBank, a), RowPage(a), 2))
        /\ want' = <<1, a>>
  BY DEF FetchMulRow
<1> DEFINE r == Aligned(Lo, RowBank(PlainBank, a), RowPage(a), 2)
<1>3. /\ regs' = r /\ r \in Registers /\ reu' = reu /\ Counted /\ mem' \in [C64Pages -> Content]
      /\ present /\ fault' = {} => mem' = FetchedRow(mem, RowBank(PlainBank, a), RowPage(a))
  <2>1. Fetch(mem, r)
    BY <1>2
  <2>2. RowBank(PlainBank, a) \in Banks /\ RowPage(a) \in Pages /\ RowPage(a) + 1 \in Pages /\ Lo \in C64Pages
    BY CellPlaces DEF C64Pages, Lo
  <2>3. /\ r \in Registers /\ Sound(r) /\ r.c64 = Lo /\ r.len = 2
        /\ r.bank = RowBank(PlainBank, a) /\ r.page = RowPage(a)
    BY <2>2, AlignedRegister
  <2> HIDE DEF r
  <2> QED  BY <1>1, <2>1, <2>2, <2>3, FetchRow
<1>4. TypeOK' /\ LatchHeld'
  BY <1>1, <1>2, <1>3 DEF TypeOK, LatchHeld, Counted, build
<1>5. Course' /\ PlainKept' /\ DoubledKept' /\ ProbeUnderWay' /\ ProbeVerdict' /\ StagedPlain' /\ StagedDoubled'
  BY <1>1, <1>3, SizeAssumption, CallFrame DEF Counted
<1>6. Clean' => StagedForUse'
  <2> SUFFICES ASSUME Clean' PROVE RowUsable(want)'
    BY <1>1 DEF StagedForUse
  <2>1. Clean
    BY <1>1, <1>3 DEF Clean, Counted, build
  <2>2. mem'[Lo] = <<1, "lo", a>> /\ mem'[Hi] = <<1, "hi", a>>
    BY <1>1, <1>3, <2>1, StandingRow DEF Clean, build
  <2> QED  BY <1>2, <2>2 DEF RowUsable
<1> QED  BY <1>4, <1>5, <1>6 DEF IInv, Staged

LEMMA DoubledFetchStep == IInv /\ DoubledFetch => IInv'
<1> SUFFICES ASSUME IInv, DoubledFetch PROVE IInv'
  OBVIOUS
<1>1. /\ pc \in {"sqr", "sqr_row"} /\ pc' = "sqr_carry" /\ TypeOK /\ sqrDma
      /\ mem \in [C64Pages -> Content]
      /\ UNCHANGED <<build, row, probe>> /\ sqrDma' = sqrDma
  BY DEF IInv, DoubledFetch, TypeOK, build
<1>2. PICK a \in Rows :
        /\ cached' = a
        /\ Fetch(mem, Aligned(Lo, RowBank(DoubledBank, a), RowPage(a), 2))
        /\ want' = <<2, a>>
  BY DEF DoubledFetch
<1> DEFINE r == Aligned(Lo, RowBank(DoubledBank, a), RowPage(a), 2)
<1>3. /\ regs' = r /\ r \in Registers /\ reu' = reu /\ Counted /\ mem' \in [C64Pages -> Content]
      /\ present /\ fault' = {} => mem' = FetchedRow(mem, RowBank(DoubledBank, a), RowPage(a))
  <2>1. /\ RowBank(DoubledBank, a) \in Banks /\ RowPage(a) \in Pages /\ RowPage(a) + 1 \in Pages
        /\ Lo \in C64Pages
    BY CellPlaces DEF C64Pages, Lo
  <2>2. /\ r \in Registers /\ Sound(r) /\ r.c64 = Lo /\ r.len = 2
        /\ r.bank = RowBank(DoubledBank, a) /\ r.page = RowPage(a)
    BY <2>1, AlignedRegister
  <2>3. Fetch(mem, r)
    BY <1>2
  <2> HIDE DEF r
  <2> QED  BY <1>1, <2>1, <2>2, <2>3, FetchRow
<1>4. TypeOK' /\ LatchHeld'
  BY <1>1, <1>2, <1>3 DEF TypeOK, LatchHeld, Counted, build
<1>5. Course' /\ PlainKept' /\ DoubledKept' /\ ProbeUnderWay' /\ ProbeVerdict' /\ StagedPlain' /\ StagedDoubled'
  BY <1>1, <1>3, SizeAssumption, CallFrame DEF Counted
<1>6. Clean' => StagedForUse'
  <2> SUFFICES ASSUME Clean' PROVE mem'[Lo] = <<2, "lo", a>> /\ mem'[Hi] = <<2, "hi", a>>
    BY <1>1, <1>2 DEF StagedForUse
  <2>1. Clean
    BY <1>1, <1>3 DEF Clean, Counted, build
  <2> QED  BY <1>1, <1>3, <2>1, StandingRow DEF Clean, build
<1> QED  BY <1>4, <1>5, <1>6 DEF IInv, Staged

LEMMA CarryFetchStep == IInv /\ CarryFetch => IInv'
<1> SUFFICES ASSUME IInv, CarryFetch PROVE IInv'
  OBVIOUS
<1>1. /\ pc = "sqr_carry" /\ pc' = "sqr_row" /\ TypeOK /\ cached \in Rows
      /\ mem \in [C64Pages -> Content]
      /\ UNCHANGED <<build, row, cached, want, probe>> /\ sqrDma' = sqrDma
  BY DEF IInv, CarryFetch, TypeOK, build
<1>2. cached \in Pages /\ CarryBank \in Banks /\ Carry \in C64Pages
  BY <1>1 DEF CarryBank, Banks, Rows, Pages, Carry, C64Pages
<1>3. /\ regs' \in Registers /\ reu' = reu /\ Counted /\ mem' \in [C64Pages -> Content]
      /\ present /\ fault' = {} => mem' = [mem EXCEPT ![Carry] = reu[<<CarryBank, cached>>]]
  BY <1>1, <1>2, FetchPage DEF CarryFetch
<1>4. TypeOK' /\ LatchHeld'
  BY <1>1, <1>3 DEF TypeOK, LatchHeld, Counted, build
<1>5. Course' /\ PlainKept' /\ DoubledKept' /\ ProbeUnderWay' /\ ProbeVerdict' /\ StagedPlain' /\ StagedDoubled'
  BY <1>1, <1>3, SizeAssumption, CallFrame DEF Counted
<1>6. Clean' => StagedForUse'
  <2> SUFFICES ASSUME Clean' PROVE StagedForUse'
    OBVIOUS
  <2>1. Clean
    BY <1>1, <1>3 DEF Clean, Counted, build
  <2>2. /\ want = <<2, cached>> /\ sqrDma
        /\ mem[Lo] = <<2, "lo", cached>> /\ mem[Hi] = <<2, "hi", cached>>
    BY <1>1, <2>1 DEF IInv, Staged, StagedForUse
  <2>3. reu[<<CarryBank, cached>>] = <<2, "carry", cached>>
    BY <1>1, <2>1, <2>2, StandingRow DEF CarryCell
  <2>4. /\ mem'[Lo] = mem[Lo] /\ mem'[Hi] = mem[Hi] /\ mem'[Carry] = <<2, "carry", cached>>
    BY <1>1, <1>3, <2>1, <2>3 DEF Clean, build, C64Pages, Lo, Hi, Carry
  <2>5. RowUsable(want)'
    BY <1>1, <2>2, <2>4 DEF RowUsable
  <2> QED  BY <1>1, <2>2, <2>5 DEF StagedForUse
<1> QED  BY <1>4, <1>5, <1>6 DEF IInv, Staged

LEMMA SiblingStep == IInv /\ Sibling => IInv'
<1> SUFFICES ASSUME IInv, Sibling PROVE IInv'
  OBVIOUS
<1>1. /\ pc = "idle" /\ pc' = "idle" /\ TypeOK /\ regs' \in Foreign
      /\ UNCHANGED <<build, row, cached, want, fault, failures, probe>>
      /\ reu' = [reu EXCEPT ![<<2, 0>>] = User]
      /\ deferred' = deferred /\ present' = present /\ sqrDma' = sqrDma
      /\ Course
  BY DEF IInv, Sibling, build
<1>2. <<2, 0>> \in Banks \X Pages /\ User \in Content /\ <<2, 0>> # <<ProbeBank, 0>>
  BY SizeAssumption DEF Banks, Pages, Content, ProbeBank
<1>3. /\ reu' \in [Banks \X Pages -> Content]
      /\ \A d \in Banks \X Pages : d # <<2, 0>> => reu'[d] = reu[d]
  BY <1>1, <1>2 DEF TypeOK
<1>4. \A a \in Rows : (PlainThere(a) => PlainThere(a)') /\ (DoubledThere(a) => DoubledThere(a)')
  BY <1>3, CellPlaces, TablesApart DEF PlainThere, DoubledThere
<1>5. regs' \in Registers
  BY <1>1, ForeignTypes
<1>6. mem' \in [C64Pages -> Content]
  BY DEF IInv, TypeOK, Sibling, Content
<1>7. TypeOK' /\ LatchHeld'
  BY <1>1, <1>3, <1>5, <1>6 DEF TypeOK, LatchHeld, build
<1>8. Course' /\ Staged'
  BY <1>1 DEF Course, Staged, StagedPlain, StagedDoubled, StagedForUse
<1>9. PlainKept' /\ DoubledKept'
  <2>1. PlainDone = Rows /\ PlainDone' = Rows /\ DoubledDone = Rows /\ DoubledDone' = Rows
    BY <1>1 DEF PlainDone, DoubledDone
  <2> QED  BY <1>1, <1>4, <2>1 DEF IInv, PlainKept, DoubledKept, Clean
<1>10. ProbeUnderWay' /\ ProbeVerdict'
  <2>1. failures \in Nat
    BY <1>1, SizeAssumption DEF TypeOK
  <2> QED  BY <1>1, <1>2, <1>3, <2>1, ProbeCell, ProbeFrame
<1> QED  BY <1>7, <1>8, <1>9, <1>10 DEF IInv

(***************************************************************************)
(* reu_probe.                                                               *)
(***************************************************************************)
LEMMA ColdFrame ==
  ASSUME pc' \in ColdSteps
  PROVE  Course' /\ LatchHeld' /\ PlainKept' /\ DoubledKept' /\ Staged'
  BY DEF Course, LatchHeld, PlainKept, DoubledKept, Staged, StagedPlain, StagedDoubled, StagedForUse

LEMMA ProbeCounts ==
  ASSUME IInv, pc \in ProbeSteps, UNCHANGED build, Counted
  PROVE  (present /\ fault' # {} => failures' > 0) /\ (Clean' => Clean)
<1>1. /\ fault \subseteq fault' /\ failures' \in 0 .. MaxFailures /\ failures <= failures'
      /\ present /\ fault' # fault => failures' > 0
  BY DEF Counted
<1>2. present /\ fault # {} => failures > 0
  BY DEF IInv, ProbeUnderWay
<1>3. failures \in Nat /\ failures' \in Nat
  BY <1>1, SizeAssumption DEF IInv, TypeOK
<1> QED  BY <1>1, <1>2, <1>3 DEF Clean, build

LEMMA ProbePlace ==
  /\ ProbeBank \in Banks /\ 0 \in Pages /\ Scratch \in C64Pages
  /\ {Sentinel, Zero} \subseteq Content /\ Sentinel # Zero
  BY SizeAssumption DEF ProbeBank, Banks, Pages, Scratch, C64Pages, Content, Sentinel, Zero

LEMMA ProbeBeginStep == IInv /\ ProbeBegin => IInv'
<1> SUFFICES ASSUME IInv, ProbeBegin PROVE IInv'
  OBVIOUS
<1>1. /\ pc' = "probe_fetch" /\ TypeOK /\ fault' = {}
      /\ UNCHANGED <<build, row, mem, reu, regs, cached, want, failures>>
      /\ present' = present /\ regs \in Registers /\ reu[<<ProbeBank, 0>>] \in Content
  BY ProbeCell DEF IInv, ProbeBegin, TypeOK, build
<1>2. /\ probe'.verdict = "none" /\ probe'.byte = reu[<<ProbeBank, 0>>]
      /\ probe' \in [orig : Content, read : Content, saved : Registers, verdict : {"none", "yes", "no"},
                     byte : Content]
  BY <1>1 DEF ProbeBegin, TypeOK
<1>3. TypeOK'
  BY <1>1, <1>2 DEF TypeOK
<1>4. ProbeUnderWay'
  BY <1>1, <1>2 DEF ProbeUnderWay, Borrowed
<1>5. ProbeVerdict'
  BY <1>2 DEF ProbeVerdict
<1> QED  BY <1>1, <1>3, <1>4, <1>5, ColdFrame DEF IInv

LEMMA ProbeFetchStep == IInv /\ ProbeFetch => IInv'
<1> SUFFICES ASSUME IInv, ProbeFetch PROVE IInv'
  OBVIOUS
<1>1. /\ pc = "probe_fetch" /\ pc' = "probe_stash" /\ TypeOK /\ mem \in [C64Pages -> Content]
      /\ UNCHANGED <<build, row, cached, want>> /\ present' = present
      /\ probe' = [probe EXCEPT !.orig = mem'[Scratch]]
  BY DEF IInv, ProbeFetch, TypeOK, build
<1>2. /\ regs' \in Registers /\ reu' = reu /\ Counted /\ mem' \in [C64Pages -> Content]
      /\ present /\ fault' = {} => mem' = [mem EXCEPT ![Scratch] = reu[<<ProbeBank, 0>>]]
  BY <1>1, ProbePlace, FetchPage DEF ProbeFetch, ProbeRegs
<1>3. /\ probe'.verdict = probe.verdict /\ probe'.byte = probe.byte /\ probe'.orig = mem'[Scratch]
      /\ probe' \in [orig : Content, read : Content, saved : Registers, verdict : {"none", "yes", "no"},
                     byte : Content]
  BY <1>1, <1>2, ProbePlace DEF TypeOK
<1>4. TypeOK'
  BY <1>1, <1>2, <1>3 DEF TypeOK, Counted
<1>5. (present /\ fault' # {} => failures' > 0) /\ (Clean' => Clean)
  BY <1>1, <1>2, ProbeCounts
<1>6. probe.verdict = "none" /\ (Clean => Borrowed = probe.byte)
  BY <1>1 DEF IInv, ProbeUnderWay
<1>7. Clean' => Borrowed' = probe'.byte /\ probe'.orig = probe'.byte
  BY <1>1, <1>2, <1>3, <1>5, <1>6, ProbePlace DEF Clean, Borrowed
<1>8. ProbeUnderWay'
  BY <1>1, <1>3, <1>5, <1>6, <1>7 DEF ProbeUnderWay
<1>9. ProbeVerdict'
  BY <1>3, <1>6 DEF ProbeVerdict
<1> QED  BY <1>1, <1>4, <1>8, <1>9, ColdFrame DEF IInv

LEMMA ProbeStashStep == IInv /\ ProbeStash => IInv'
<1> SUFFICES ASSUME IInv, ProbeStash PROVE IInv'
  OBVIOUS
<1> DEFINE m == [mem EXCEPT ![Scratch] = Sentinel]
<1>1. /\ pc = "probe_stash" /\ pc' = "probe_read" /\ TypeOK /\ mem \in [C64Pages -> Content]
      /\ UNCHANGED <<build, row, cached, want, probe>> /\ present' = present
  BY DEF IInv, ProbeStash, TypeOK, build
<1>2. m \in [C64Pages -> Content] /\ m[Scratch] = Sentinel
  BY <1>1, ProbePlace
<1>3. regs' \in Registers /\ mem' = m /\ Counted /\ Put(<<ProbeBank, 0>>, Sentinel)
  BY <1>1, <1>2, ProbePlace, StashPage DEF ProbeStash, ProbeRegs
<1>4. /\ reu' \in [Banks \X Pages -> Content]
      /\ present /\ fault' = {} => reu'[<<ProbeBank, 0>>] = Sentinel
  BY <1>1, <1>3, ProbeCell, ProbePlace, PutType
<1>5. TypeOK'
  BY <1>1, <1>2, <1>3, <1>4 DEF TypeOK, Counted
<1>6. (present /\ fault' # {} => failures' > 0) /\ (Clean' => Clean)
  BY <1>1, <1>3, ProbeCounts
<1>7. probe.verdict = "none" /\ (Clean => probe.orig = probe.byte)
  BY <1>1 DEF IInv, ProbeUnderWay
<1>8. Clean' => Borrowed' = Sentinel
  BY <1>1, <1>4 DEF Clean, Borrowed
<1>9. ProbeUnderWay'
  BY <1>1, <1>6, <1>7, <1>8 DEF ProbeUnderWay
<1>10. ProbeVerdict'
  BY <1>1, <1>7 DEF ProbeVerdict
<1> QED  BY <1>1, <1>5, <1>9, <1>10, ColdFrame DEF IInv

LEMMA ProbeReadStep == IInv /\ ProbeRead => IInv'
<1> SUFFICES ASSUME IInv, ProbeRead PROVE IInv'
  OBVIOUS
<1> DEFINE m == [mem EXCEPT ![Scratch] = Zero]
<1>1. /\ pc = "probe_read" /\ pc' = "probe_restore" /\ TypeOK /\ mem \in [C64Pages -> Content]
      /\ UNCHANGED <<build, row, cached, want>> /\ present' = present
      /\ probe' = [probe EXCEPT !.read = mem'[Scratch]]
  BY DEF IInv, ProbeRead, TypeOK, build
<1>2. m \in [C64Pages -> Content] /\ m[Scratch] = Zero
  BY <1>1, ProbePlace
<1>3. Fetch(m, Aligned(Scratch, ProbeBank, 0, 1))
  BY DEF ProbeRead, ProbeRegs
<1> HIDE DEF m
<1>4. /\ regs' \in Registers /\ reu' = reu /\ Counted /\ mem' \in [C64Pages -> Content]
      /\ present /\ fault' = {} => mem' = [m EXCEPT ![Scratch] = reu[<<ProbeBank, 0>>]]
      /\ ~present => mem' = m
  BY <1>1, <1>2, <1>3, ProbePlace, FetchPage
<1>5. /\ probe'.verdict = probe.verdict /\ probe'.byte = probe.byte /\ probe'.orig = probe.orig
      /\ probe'.read = mem'[Scratch]
      /\ probe' \in [orig : Content, read : Content, saved : Registers, verdict : {"none", "yes", "no"},
                     byte : Content]
  BY <1>1, <1>4, ProbePlace DEF TypeOK
<1>6. TypeOK'
  BY <1>1, <1>4, <1>5 DEF TypeOK, Counted
<1>7. (present /\ fault' # {} => failures' > 0) /\ (Clean' => Clean)
  BY <1>1, <1>4, ProbeCounts
<1>8. /\ probe.verdict = "none"
      /\ Clean => probe.orig = probe.byte /\ Borrowed = Sentinel
  BY <1>1 DEF IInv, ProbeUnderWay
<1>9. (~present => probe'.read = Zero) /\ (Clean' => probe'.read = Sentinel)
  BY <1>1, <1>2, <1>4, <1>5, <1>7, <1>8, ProbePlace DEF Clean, Borrowed
<1>10. ProbeUnderWay'
  BY <1>1, <1>5, <1>7, <1>8, <1>9 DEF ProbeUnderWay
<1>11. ProbeVerdict'
  BY <1>5, <1>8 DEF ProbeVerdict
<1> QED  BY <1>1, <1>6, <1>10, <1>11, ColdFrame DEF IInv

LEMMA ProbeRestoreStep == IInv /\ ProbeRestore => IInv'
<1> SUFFICES ASSUME IInv, ProbeRestore PROVE IInv'
  OBVIOUS
<1> DEFINE m == [mem EXCEPT ![Scratch] = probe.orig]
<1>1. /\ pc = "probe_restore" /\ pc' = "probe_end" /\ TypeOK /\ mem \in [C64Pages -> Content]
      /\ UNCHANGED <<build, row, cached, want, probe>> /\ present' = present /\ probe.orig \in Content
  BY DEF IInv, ProbeRestore, TypeOK, build
<1>2. m \in [C64Pages -> Content] /\ m[Scratch] = probe.orig
  BY <1>1, ProbePlace
<1>3. regs' \in Registers /\ mem' = m /\ Counted /\ Put(<<ProbeBank, 0>>, probe.orig)
  BY <1>1, <1>2, ProbePlace, StashPage DEF ProbeRestore, ProbeRegs
<1>4. /\ reu' \in [Banks \X Pages -> Content]
      /\ present /\ fault' = {} => reu'[<<ProbeBank, 0>>] = probe.orig
  BY <1>1, <1>3, ProbeCell, PutType
<1>5. TypeOK'
  BY <1>1, <1>2, <1>3, <1>4 DEF TypeOK, Counted
<1>6. (present /\ fault' # {} => failures' > 0) /\ (Clean' => Clean)
  BY <1>1, <1>3, ProbeCounts
<1>7. /\ probe.verdict = "none" /\ (~present => probe.read = Zero)
      /\ Clean => probe.orig = probe.byte /\ probe.read = Sentinel
  BY <1>1 DEF IInv, ProbeUnderWay
<1>8. Clean' => Borrowed' = probe.byte
  BY <1>1, <1>4, <1>6, <1>7 DEF Clean, Borrowed
<1>9. ProbeUnderWay'
  BY <1>1, <1>6, <1>7, <1>8 DEF ProbeUnderWay
<1>10. ProbeVerdict'
  BY <1>1, <1>7 DEF ProbeVerdict
<1> QED  BY <1>1, <1>5, <1>9, <1>10, ColdFrame DEF IInv

LEMMA ProbeEndStep == IInv /\ ProbeEnd => IInv'
<1> SUFFICES ASSUME IInv, ProbeEnd PROVE IInv'
  OBVIOUS
<1>1. /\ pc = "probe_end" /\ pc' = "cold" /\ TypeOK
      /\ UNCHANGED <<build, row, mem, reu, cached, want, fault, failures>> /\ present' = present
      /\ regs' = [probe.saved EXCEPT !.ctrl = FALSE] /\ present \in BOOLEAN
  BY DEF IInv, ProbeEnd, TypeOK, build
<1> DEFINE verdict == IF probe.read = Sentinel /\ fault = {} THEN "yes" ELSE "no"
<1>2. ProbeIdle.saved \in Registers
  BY ProbePlace, AlignedRegister DEF ProbeIdle, Banks, C64Pages, Other
<1>3. /\ probe'.verdict = verdict /\ probe'.byte = probe.byte
      /\ probe' \in [orig : Content, read : Content, saved : Registers, verdict : {"none", "yes", "no"},
                     byte : Content]
  BY <1>1, <1>2 DEF ProbeEnd, TypeOK
<1>4. regs' \in Registers
  <2>1. probe.saved \in Registers
    BY <1>1 DEF TypeOK
  <2> QED  BY <1>1, <2>1 DEF Registers
<1>5. TypeOK'
  BY <1>1, <1>3, <1>4 DEF TypeOK
<1>6. /\ present /\ fault # {} => failures > 0
      /\ ~present => probe.read = Zero
      /\ Clean => Borrowed = probe.byte /\ probe.read = Sentinel
  BY <1>1 DEF IInv, ProbeUnderWay
<1>7. ProbeVerdict'
  <2>1. verdict = "yes" => present /\ Borrowed = probe.byte
    BY <1>1, <1>6, ProbePlace DEF Clean
  <2>2. verdict = "no" => ~present \/ failures > 0
    BY <1>1, <1>6 DEF Clean
  <2> QED  BY <1>1, <1>3, <2>1, <2>2 DEF ProbeVerdict, Borrowed
<1>8. ProbeUnderWay'
  BY <1>1 DEF ProbeUnderWay
<1> QED  BY <1>1, <1>5, <1>7, <1>8, ColdFrame DEF IInv

(***************************************************************************)
(* The theorems.                                                            *)
(***************************************************************************)
LEMMA InitIInv == Init => IInv
<1> SUFFICES ASSUME Init PROVE IInv
  OBVIOUS
<1>1. /\ pc = "cold" /\ row = 0 /\ regs \in Registers /\ cached = 0 /\ want = <<1, 0>>
      /\ fault = {} /\ failures = 0 /\ probe = ProbeIdle
      /\ deferred \in BOOLEAN /\ sqrDma \in BOOLEAN /\ present \in BOOLEAN
  BY ForeignTypes DEF Init
<1>2. {Junk, Zero, User, Sentinel} \subseteq Content
  BY DEF Content
<1>3. mem \in [C64Pages -> Content] /\ reu \in [Banks \X Pages -> Content]
  BY <1>2 DEF Init
<1>4. probe \in [orig : Content, read : Content, saved : Registers, verdict : {"none", "yes", "no"},
                 byte : Content]
  BY <1>1, <1>2, ProbePlace, AlignedRegister DEF ProbeIdle, Banks, C64Pages, Other
<1>5. TypeOK
  BY <1>1, <1>3, <1>4, SizeAssumption DEF TypeOK, build, Rows
<1>6. Course /\ LatchHeld /\ PlainKept /\ DoubledKept /\ Staged
  BY <1>1 DEF Course, LatchHeld, PlainKept, DoubledKept, Staged, StagedPlain, StagedDoubled, StagedForUse
<1>7. ProbeUnderWay /\ ProbeVerdict
  BY <1>1 DEF ProbeUnderWay, ProbeVerdict, ProbeIdle
<1> QED  BY <1>5, <1>6, <1>7 DEF IInv

LEMMA StutterStep == IInv /\ UNCHANGED vars => IInv'
<1> SUFFICES ASSUME IInv, UNCHANGED vars PROVE IInv'
  OBVIOUS
<1> USE DEF vars, build
<1>1. TypeOK'
  BY DEF IInv, TypeOK
<1>2. Course' /\ LatchHeld'
  BY DEF IInv, Course, LatchHeld, Sound
<1>3. PlainKept'
  BY DEF IInv, PlainKept, PlainDone, PlainThere, Clean
<1>4. DoubledKept'
  BY DEF IInv, DoubledKept, DoubledDone, DoubledThere, Clean
<1>5. Staged'
  BY DEF IInv, Staged, StagedPlain, StagedDoubled, StagedForUse, RowUsable, Clean
<1>6. ProbeUnderWay' /\ ProbeVerdict'
  BY DEF IInv, ProbeUnderWay, ProbeVerdict, Clean, Borrowed
<1> QED  BY <1>1, <1>2, <1>3, <1>4, <1>5, <1>6 DEF IInv

LEMMA StepIInv == IInv /\ [Next]_vars => IInv'
<1>1. IInv /\ Initialise => IInv'
  BY InitBeginStep, InitPlainLoStep, InitPlainHiStep, DoubleLoStep, DoubleHiStep, DoubleCarryStep,
     InitTailStep, ProviderInitStep, DeriveBeginStep, DeriveFetchStep DEF Initialise
<1>2. IInv /\ FieldOp => IInv'
  BY MulBeginStep, MulFetchStep, DoubledFetchStep, CarryFetchStep, FetchMulRowStep, ReturnStep
     DEF FieldOp
<1>3. IInv /\ Probe => IInv'
  BY ProbeBeginStep, ProbeFetchStep, ProbeStashStep, ProbeReadStep, ProbeRestoreStep, ProbeEndStep
     DEF Probe
<1> QED  BY <1>1, <1>2, <1>3, SiblingStep, StutterStep DEF Next

LEMMA Invariance == Spec => []IInv
<1> QED  BY InitIInv, StepIInv, PTL DEF Spec

(* No transfer of any length or place touches a page that does not exist. *)
THEOREM TypeCorrect == Spec => []TypeOK
<1>1. IInv => TypeOK
  BY DEF IInv
<1> QED  BY <1>1, Invariance, PTL

(* However the calls follow one another, whatever a sibling leaves in the   *)
(* registers and however often transfers fail: the products at hand are the *)
(* wanted row's, or x25519_reu_fault says they may not be.                  *)
THEOREM RowsAreRight == Spec => []RowRight
<1>1. IInv => RowRight
  BY DEF IInv, Staged, StagedForUse, RowRight, Clean
<1> QED  BY <1>1, Invariance, PTL

(* reu_probe says "present" only of an REU that is there and has its byte   *)
(* back, and "absent" only without one or after a failed transfer.          *)
THEOREM VerdictIsRight == Spec => []ProbeVerdict
<1>1. IInv => ProbeVerdict
  BY DEF IInv
<1> QED  BY <1>1, Invariance, PTL

\* A stash of one page writes that page only.
LEMMA StashWrites ==
  ASSUME TypeOK, NEW m \in [C64Pages -> Content],
         NEW c64 \in C64Pages, NEW bank \in Banks, NEW page \in Pages,
         Stash(m, Aligned(c64, bank, page, 1))
  PROVE  \A c \in Banks \X Pages : reu'[c] # reu[c] => c = <<bank, page>>
<1>1. Put(<<bank, page>>, m[c64]) /\ <<bank, page>> \in Banks \X Pages /\ m[c64] \in Content
  BY StashPage
<1> QED  BY <1>1, PutType

LEMMA TablesWritten ==
  ASSUME IInv, Initialise, NEW c \in Banks \X Pages, reu'[c] # reu[c]
  PROVE  c[1] \in Ours
<1>1. TypeOK /\ row \in Rows /\ mem \in [C64Pages -> Content] /\ Course
  BY DEF IInv, TypeOK
<1>2. /\ RowBank(PlainBank, row) \in {0, 1} /\ RowBank(DoubledBank, row) \in {4, 5}
      /\ RowBank(PlainBank, row) \in Banks /\ RowBank(DoubledBank, row) \in Banks
      /\ RowPage(row) \in Pages /\ RowPage(row) + 1 \in Pages
      /\ CarryBank = 3 /\ CarryBank \in Banks /\ row \in Pages
      /\ Lo \in C64Pages /\ Hi \in C64Pages /\ Carry \in C64Pages
  BY <1>1, CellPlaces DEF CarryBank, Banks, C64Pages, Lo, Hi, Carry, Rows, Pages
<1>3. {0, 1} \subseteq Ours /\ (sqrDma => {3, 4, 5} \subseteq Ours)
  BY DEF Ours, Claimed
<1>4. CASE InitPlainLo
  <2>1. Generated \in [C64Pages -> Content]
    BY <1>1 DEF Generated, TypeOK, Content, C64Pages, Lo, Hi
  <2>2. c = <<RowBank(PlainBank, row), RowPage(row)>>
    BY <1>1, <1>2, <1>4, <2>1, StashWrites DEF InitPlainLo
  <2> QED  BY <1>2, <1>3, <2>2
<1>5. CASE InitPlainHi
  <2>1. c = <<RowBank(PlainBank, row), RowPage(row) + 1>>
    BY <1>1, <1>2, <1>5, StashWrites DEF InitPlainHi
  <2> QED  BY <1>2, <1>3, <2>1
<1>6. CASE DoubleLo
  <2>1. c = <<RowBank(DoubledBank, row), RowPage(row)>> /\ sqrDma
    BY <1>1, <1>2, <1>6, DoubledPages, StashWrites DEF DoubleLo, Course
  <2> QED  BY <1>2, <1>3, <2>1
<1>7. CASE DoubleHi
  <2>1. c = <<RowBank(DoubledBank, row), RowPage(row) + 1>> /\ sqrDma
    BY <1>1, <1>2, <1>7, StashWrites DEF DoubleHi, Course
  <2> QED  BY <1>2, <1>3, <2>1
<1>8. CASE DoubleCarry
  <2>1. c = <<CarryBank, row>> /\ sqrDma
    BY <1>1, <1>2, <1>8, StashWrites DEF DoubleCarry, Course
  <2> QED  BY <1>2, <1>3, <2>1
<1>9. CASE ProviderInit
  <2>1. PICK a \in Rows, i \in {0, 1} : c = PlainCell(a, i)
    BY <1>9 DEF ProviderInit
  <2>2. RowBank(PlainBank, a) \in {0, 1}
    BY CellPlaces
  <2> QED  BY <1>3, <2>1, <2>2 DEF PlainCell
<1>10. CASE DeriveFetch
  BY <1>10 DEF DeriveFetch, Fetch
<1>11. CASE InitBegin \/ InitTail \/ DeriveBegin
  BY <1>11 DEF InitBegin, InitTail, DeriveBegin
<1> QED  BY <1>4, <1>5, <1>6, <1>7, <1>8, <1>9, <1>10, <1>11 DEF Initialise

LEMMA ByteBorrowed ==
  ASSUME IInv, Probe, NEW c \in Banks \X Pages, reu'[c] # reu[c]
  PROVE  c = <<ProbeBank, 0>> /\ pc \in {"probe_stash", "probe_restore"}
<1>1. TypeOK /\ mem \in [C64Pages -> Content] /\ probe.orig \in Content
  BY DEF IInv, TypeOK
<1>2. CASE ProbeStash
  <2> DEFINE m == [mem EXCEPT ![Scratch] = Sentinel]
  <2>1. m \in [C64Pages -> Content]
    BY <1>1, ProbePlace
  <2>2. pc = "probe_stash" /\ Stash(m, Aligned(Scratch, ProbeBank, 0, 1))
    BY <1>2 DEF ProbeStash, ProbeRegs
  <2> HIDE DEF m
  <2>3. \A d \in Banks \X Pages : reu'[d] # reu[d] => d = <<ProbeBank, 0>>
    BY <1>1, <2>1, <2>2, ProbePlace, StashWrites
  <2>4. c = <<ProbeBank, 0>>
    BY <2>3
  <2> QED  BY <2>2, <2>4
<1>3. CASE ProbeRestore
  <2> DEFINE m == [mem EXCEPT ![Scratch] = probe.orig]
  <2>1. m \in [C64Pages -> Content]
    BY <1>1, ProbePlace
  <2>2. pc = "probe_restore" /\ Stash(m, Aligned(Scratch, ProbeBank, 0, 1))
    BY <1>3 DEF ProbeRestore, ProbeRegs
  <2> HIDE DEF m
  <2>3. \A d \in Banks \X Pages : reu'[d] # reu[d] => d = <<ProbeBank, 0>>
    BY <1>1, <2>1, <2>2, ProbePlace, StashWrites
  <2>4. c = <<ProbeBank, 0>>
    BY <2>3
  <2> QED  BY <2>2, <2>4
<1>4. CASE ProbeBegin \/ ProbeFetch \/ ProbeRead \/ ProbeEnd
  BY <1>4 DEF ProbeBegin, ProbeFetch, ProbeRead, ProbeEnd, Fetch
<1> QED  BY <1>2, <1>3, <1>4 DEF Probe

LEMMA FieldOpWritesNothing == FieldOp => reu' = reu
  BY DEF FieldOp, MulBegin, MulFetch, SqrBegin, DoubledFetch, CarryFetch, FetchMulRow, MulA24, Return,
         Fetch

(* No step writes a bank the library does not claim, but for the byte the   *)
(* probe borrows; a build without the squaring tables keeps to two banks.   *)
THEOREM BanksKept == Spec => ForeignBanksKept
<1>1. IInv /\ [Next]_vars =>
        [\A c \in Banks \X Pages :
           reu'[c] # reu[c] =>
             \/ c[1] \in Ours
             \/ c = <<ProbeBank, 0>> /\ pc \in {"probe_stash", "probe_restore"}
             \/ pc = "idle" /\ pc' = "idle" /\ regs' \in Foreign]_vars
  <2> SUFFICES ASSUME IInv, Next, NEW c \in Banks \X Pages, reu'[c] # reu[c]
               PROVE  \/ c[1] \in Ours
                      \/ c = <<ProbeBank, 0>> /\ pc \in {"probe_stash", "probe_restore"}
                      \/ pc = "idle" /\ pc' = "idle" /\ regs' \in Foreign
    OBVIOUS
  <2>1. CASE Initialise
    BY <2>1, TablesWritten
  <2>2. CASE FieldOp
    BY <2>2, FieldOpWritesNothing
  <2>3. CASE Probe
    BY <2>3, ByteBorrowed
  <2>4. CASE Sibling
    BY <2>4 DEF Sibling
  <2> QED  BY <2>1, <2>2, <2>3, <2>4 DEF Next
<1> QED  BY <1>1, Invariance, PTL DEF Spec, ForeignBanksKept

(***************************************************************************)
(* The settle after every transfer, for every spin bound and any number of  *)
(* transfers under way.                                                     *)
(***************************************************************************)

(***************************************************************************)
(* As long as nothing expired at most one transfer is under way, and its    *)
(* END OF BLOCK is in exactly one place: not yet set, in the status, or in  *)
(* the sample being looked at.                                              *)
(***************************************************************************)
OneEndOfBlock ==
  Expired \notin settleFault =>
    /\ settlePc = "idle" => pending = 0 /\ EndOfBlock \notin status
    /\ settlePc = "macro" => pending <= 1 /\ (EndOfBlock \in status <=> pending = 0)
    /\ settlePc \in {"slow", "check"} =>
         IF EndOfBlock \in smp
           THEN pending = 0 /\ EndOfBlock \notin status
           ELSE pending <= 1 /\ (EndOfBlock \in status <=> pending = 0)

(* The counter and the reads made so far add up to the bound. *)
ReadsCounted ==
  /\ settlePc = "macro" => reads = 0 /\ seen = {}
  /\ settlePc = "slow"  => reads = 1 /\ (EndOfBlock \in seen <=> EndOfBlock \in smp)
  /\ settlePc = "check" => /\ cnt \in 1 .. Iter
                           /\ reads + cnt = Iter + 1
                           /\ EndOfBlock \in seen <=> EndOfBlock \in smp

(* Bit 5, once sampled, is in the fault byte or in the sample at hand. *)
VerifyTracked ==
  /\ settlePc \in {"idle", "macro"}  => (misread <=> Verify \in settleFault)
  /\ settlePc \in {"slow", "check"} =>
       (misread <=> Verify \in settleFault \/ VerifyError \in smp)

SettleInv == SettleTypeOK /\ OneEndOfBlock /\ ReadsCounted /\ VerifyTracked

(* It holds initially. *)
LEMMA SettleStart ==
  SettleInit => SettleInv
<1> SUFFICES ASSUME SettleInit  PROVE SettleInv
  OBVIOUS
<1>1. SettleTypeOK
  <2>1. 0 \in 0 .. Iter /\ 0 \in 0 .. MaxPending
    BY IterAssumption
  <2> QED  BY <2>1 DEF SettleInit, SettleTypeOK
<1>2. OneEndOfBlock
  BY DEF SettleInit, OneEndOfBlock
<1>3. ReadsCounted
  BY DEF SettleInit, ReadsCounted
<1>4. VerifyTracked
  BY DEF SettleInit, VerifyTracked
<1> QED  BY <1>1, <1>2, <1>3, <1>4 DEF SettleInv

(* Every step preserves it. *)
LEMMA SettleStep ==
  SettleInv /\ [SettleNext]_settleVars => SettleInv'
<1> SUFFICES ASSUME SettleInv, [SettleNext]_settleVars
             PROVE  SettleInv'
  OBVIOUS
<1> USE IterAssumption DEF SettleInv, Bits, EndOfBlock, VerifyError, Expired, Verify,
            WithVerify, Sample
<1>1. CASE End
  <2>1. SettleTypeOK' /\ ReadsCounted' /\ VerifyTracked'
    BY <1>1 DEF End, SettleTypeOK, ReadsCounted, VerifyTracked
  <2>2. OneEndOfBlock'
    BY <1>1 DEF End, SettleTypeOK, OneEndOfBlock
  <2> QED  BY <2>1, <2>2
<1>2. CASE Misread
  <2>1. SettleTypeOK' /\ ReadsCounted' /\ VerifyTracked'
    BY <1>2 DEF Misread, SettleTypeOK, ReadsCounted, VerifyTracked
  <2>2. OneEndOfBlock'
    BY <1>2 DEF Misread, SettleTypeOK, OneEndOfBlock
  <2> QED  BY <2>1, <2>2
<1>3. CASE BootEntry
  BY <1>3 DEF BootEntry, SettleTypeOK, OneEndOfBlock, ReadsCounted, VerifyTracked
<1>4. CASE Execute
  BY <1>4 DEF Execute, SettleTypeOK, OneEndOfBlock, ReadsCounted, VerifyTracked
<1>5. CASE MacroRead
  <2>1. SettleTypeOK'
    BY <1>5 DEF MacroRead, SettleTypeOK, ReadsCounted
  <2>2. OneEndOfBlock'
    BY <1>5 DEF MacroRead, SettleTypeOK, OneEndOfBlock
  <2>3. ReadsCounted'
    BY <1>5 DEF MacroRead, SettleTypeOK, ReadsCounted
  <2>4. VerifyTracked'
    <3>1. misread <=> Verify \in settleFault
      BY <1>5 DEF MacroRead, VerifyTracked
    <3>2. /\ settleFault' = settleFault /\ smp' = status
          /\ misread' = (misread \/ VerifyError \in status)
      BY <1>5 DEF MacroRead
    <3>3. settlePc' = "slow" \/ (settlePc' = "idle" /\ VerifyError \notin status)
      BY <1>5 DEF MacroRead
    <3> QED  BY <3>1, <3>2, <3>3 DEF VerifyTracked
  <2> QED  BY <2>1, <2>2, <2>3, <2>4
<1>6. CASE SlowEntry
  BY <1>6 DEF SlowEntry, SettleTypeOK, OneEndOfBlock, ReadsCounted, VerifyTracked
<1>7. CASE Confirmed
  BY <1>7 DEF Confirmed, SettleTypeOK, OneEndOfBlock, ReadsCounted, VerifyTracked
<1>8. CASE GiveUp
  BY <1>8 DEF GiveUp, SettleTypeOK, OneEndOfBlock, ReadsCounted, VerifyTracked
<1>9. CASE ReadAgain
  <2>1. SettleTypeOK' /\ ReadsCounted'
    BY <1>9 DEF ReadAgain, SettleTypeOK, ReadsCounted
  <2>2. OneEndOfBlock'
    BY <1>9 DEF ReadAgain, SettleTypeOK, OneEndOfBlock
  <2>3. VerifyTracked'
    BY <1>9 DEF ReadAgain, SettleTypeOK, VerifyTracked
  <2> QED  BY <2>1, <2>2, <2>3
<1>10. CASE UNCHANGED settleVars
  BY <1>10 DEF settleVars, SettleTypeOK, OneEndOfBlock, ReadsCounted, VerifyTracked
<1> QED
  BY <1>1, <1>2, <1>3, <1>4, <1>5, <1>6, <1>7, <1>8, <1>9, <1>10
     DEF SettleNext, Cpu

(* The strengthened invariant. *)
LEMMA SettleInvariance ==
  SettleSpec => []SettleInv
<1> QED  BY SettleStart, SettleStep, PTL DEF SettleSpec

(***************************************************************************)
(* The types, among them that the status is read at most Iter times.        *)
(***************************************************************************)
THEOREM SettleTypeCorrect ==
  SettleSpec => []SettleTypeOK
<1>1. SettleInv => SettleTypeOK
  BY DEF SettleInv
<1> QED  BY <1>1, SettleInvariance, PTL

(***************************************************************************)
(* A settle that returns without $01 in x25519_reu_fault leaves no transfer *)
(* under way.                                                               *)
(***************************************************************************)
THEOREM TransfersEnded ==
  SettleSpec => []NothingUnderWay
<1>1. SettleInv => NothingUnderWay
  BY DEF SettleInv, OneEndOfBlock, NothingUnderWay
<1> QED  BY <1>1, SettleInvariance, PTL

(* $02 is recorded exactly for the verify errors that were sampled. *)
THEOREM VerifyExact ==
  SettleSpec => []VerifyRecorded
<1>1. SettleInv => VerifyRecorded
  BY DEF SettleInv, VerifyTracked, VerifyRecorded
<1> QED  BY <1>1, SettleInvariance, PTL

(* $01 is recorded only after Iter samples without END OF BLOCK. *)
THEOREM TimeoutExact ==
  SettleSpec => NoHastyTimeout
<1>1. SettleInv /\ [SettleNext]_settleVars =>
        [(Expired \in settleFault' \ settleFault)
           => reads = Iter /\ EndOfBlock \notin seen]_settleVars
  <2> SUFFICES ASSUME SettleInv, SettleNext, Expired \in settleFault' \ settleFault
               PROVE  reads = Iter /\ EndOfBlock \notin seen
    BY DEF settleVars
  <2>1. GiveUp
    BY DEF SettleNext, Cpu, End, Misread, BootEntry, Execute, MacroRead,
       SlowEntry, Confirmed, ReadAgain, WithVerify, Expired, Verify
  <2>2. cnt \in 1 .. Iter /\ reads + cnt = Iter + 1 /\ cnt - 1 = 0 /\ reads \in 0 .. Iter
    BY <2>1, IterAssumption DEF GiveUp, SettleInv, ReadsCounted, SettleTypeOK
  <2> QED  BY <2>1, <2>2, IterAssumption DEF GiveUp, SettleInv, ReadsCounted
<1> QED  BY <1>1, SettleInvariance, PTL DEF SettleSpec, NoHastyTimeout
================================================================================
