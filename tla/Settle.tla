-------------------------------- MODULE Settle --------------------------------
(***************************************************************************)
(* REU_SETTLE (src/src/constants.s) and its slow path                       *)
(* x25519_reu_settle_slow (src/src/x25519_init.s): after every REU execute, *)
(* the status register is read until it shows END OF BLOCK, at most Iter    *)
(* times, and what went wrong is left in the sticky x25519_reu_fault.       *)
(*                                                                          *)
(* Reading the status clears it, so no sample may be lost.  The REU runs on *)
(* its own: a transfer ends some time after the execute, or never, and one  *)
(* the library has given up on may still end, and set the status, later.    *)
(***************************************************************************)
EXTENDS Integers

CONSTANTS
  Iter,         \* X25519_REU_SETTLE_ITER: status reads before giving up    (8)
  MaxPending    \* bound: transfers under way at once

ASSUME IterAssumption == Iter \in 2 .. 255 /\ MaxPending \in Nat \ {0}

EndOfBlock  == 6
VerifyError == 5
Bits        == {EndOfBlock, VerifyError}

Expired == 1      \* $01 in x25519_reu_fault
Verify  == 2      \* $02

VARIABLES
  settlePc,         \* "idle", or inside the settle: "macro", "slow", "check"
  smp,        \* the sample: A, then x25519_reu_settle_smp
  cnt,        \* x25519_reu_settle_cnt
  settleFault,      \* x25519_reu_fault
  status,     \* bits 5 and 6 of $DF00
  pending,    \* transfers executed that have not ended
  reads, seen,  \* history: the status reads of this settle, the bits they showed
  misread       \* history: whether bit 5 was sampled since BootEntry

settleVars == <<settlePc, smp, cnt, settleFault, status, pending, reads, seen, misread>>

SettleInit ==
  /\ settlePc = "idle" /\ smp = {} /\ cnt = 0 /\ settleFault = {}
  /\ status = {} /\ pending = 0
  /\ reads = 0 /\ seen = {} /\ misread = FALSE

(***************************************************************************)
(* The REU.                                                                 *)
(***************************************************************************)
End ==
  /\ pending > 0
  /\ pending' = pending - 1
  /\ status' = status \cup {EndOfBlock}
  /\ UNCHANGED <<settlePc, smp, cnt, settleFault, reads, seen, misread>>

Misread ==
  /\ pending > 0
  /\ status' = status \cup {VerifyError}
  /\ UNCHANGED <<settlePc, smp, cnt, settleFault, pending, reads, seen, misread>>

(***************************************************************************)
(* The library.                                                             *)
(***************************************************************************)
(***************************************************************************)
(* A boot routine (reu_mul_init, x25519_sqr_tables_init, reu_probe) clears  *)
(* the fault byte at its entry.  The host is assumed not to enter one while *)
(* an abandoned transfer or its status is still out: the code does not look.*)
(***************************************************************************)
BootEntry ==
  /\ settlePc = "idle" /\ pending = 0 /\ status = {} /\ settleFault # {}
  /\ settleFault' = {} /\ misread' = FALSE
  /\ UNCHANGED <<settlePc, smp, cnt, status, pending, reads, seen>>

Execute ==
  /\ settlePc = "idle" /\ pending < MaxPending
  /\ pending' = pending + 1
  /\ reads' = 0 /\ seen' = {}
  /\ settlePc' = "macro"
  /\ UNCHANGED <<smp, cnt, settleFault, status, misread>>

(* lda reu_status / and #$60: the read clears both bits. *)
Sample ==
  /\ smp' = status
  /\ status' = {}
  /\ reads' = reads + 1
  /\ seen' = seen \cup status
  /\ misread' = (misread \/ VerifyError \in status)

(* The macro's one read: done when bit 6 is set and bit 5 clear. *)
MacroRead ==
  /\ settlePc = "macro"
  /\ Sample
  /\ settlePc' = IF status = {EndOfBlock} THEN "idle" ELSE "slow"
  /\ UNCHANGED <<cnt, settleFault, pending>>

(* Faulty: it takes a sample of its own. *)
SlowEntryAfresh ==
  /\ settlePc = "slow"
  /\ Sample
  /\ cnt' = Iter
  /\ settlePc' = "check"
  /\ UNCHANGED <<settleFault, pending>>

(* x25519_reu_settle_slow takes over the macro's sample. *)
SlowEntry ==
  /\ settlePc = "slow"
  /\ cnt' = Iter
  /\ settlePc' = "check"
  /\ UNCHANGED <<smp, settleFault, status, pending, reads, seen, misread>>

(* Faulty: a sample that ends the spin is not looked at for bit 5. *)
WithVerifyUnlessDone ==
  IF VerifyError \in smp /\ EndOfBlock \notin smp THEN settleFault \cup {Verify} ELSE settleFault

(* Bit 5 is recorded on any sample, and does not end the spin. *)
WithVerify == IF VerifyError \in smp THEN settleFault \cup {Verify} ELSE settleFault

Confirmed ==
  /\ settlePc = "check" /\ EndOfBlock \in smp
  /\ settleFault' = WithVerify
  /\ settlePc' = "idle"
  /\ UNCHANGED <<smp, cnt, status, pending, reads, seen, misread>>

(* Faulty: the bound is taken for a confirmation. *)
GiveUpSilently ==
  /\ settlePc = "check" /\ EndOfBlock \notin smp /\ cnt - 1 = 0
  /\ cnt' = 0
  /\ settleFault' = WithVerify
  /\ settlePc' = "idle"
  /\ UNCHANGED <<smp, status, pending, reads, seen, misread>>

GiveUp ==
  /\ settlePc = "check" /\ EndOfBlock \notin smp /\ cnt - 1 = 0
  /\ cnt' = 0
  /\ settleFault' = WithVerify \cup {Expired}
  /\ settlePc' = "idle"
  /\ UNCHANGED <<smp, status, pending, reads, seen, misread>>

(* Faulty: the counter is not decremented on the way round. *)
ReadAgainForever ==
  /\ settlePc = "check" /\ EndOfBlock \notin smp /\ cnt - 1 # 0
  /\ settleFault' = WithVerify
  /\ smp' = status /\ status' = {} /\ seen' = seen \cup status
  /\ misread' = (misread \/ VerifyError \in status)
  /\ UNCHANGED <<settlePc, pending, cnt, reads>>

ReadAgain ==
  /\ settlePc = "check" /\ EndOfBlock \notin smp /\ cnt - 1 # 0
  /\ cnt' = cnt - 1
  /\ settleFault' = WithVerify
  /\ Sample
  /\ UNCHANGED <<settlePc, pending>>

Cpu == Execute \/ MacroRead \/ SlowEntry \/ Confirmed \/ GiveUp \/ ReadAgain

Spin == MacroRead \/ SlowEntry \/ Confirmed \/ GiveUp \/ ReadAgain

SettleNext == Cpu \/ BootEntry \/ End \/ Misread

SettleSpec == SettleInit /\ [][SettleNext]_settleVars

(* The processor keeps executing; of the REU nothing is assumed. *)
SettleFairSpec == SettleSpec /\ WF_settleVars(Spin)

(***************************************************************************)
(* Properties.                                                              *)
(***************************************************************************)

SettleTypeOK ==
  /\ settlePc \in {"idle", "macro", "slow", "check"}
  /\ smp \subseteq Bits /\ status \subseteq Bits /\ seen \subseteq Bits
  /\ cnt \in 0 .. Iter
  /\ settleFault \subseteq {Expired, Verify}
  /\ pending \in 0 .. MaxPending
  /\ reads \in 0 .. Iter /\ misread \in BOOLEAN

(***************************************************************************)
(* When the settle returns and x25519_reu_fault has no $01, every transfer  *)
(* executed has ended: no END OF BLOCK was mistaken for another's, and none *)
(* was lost to the read that clears it.                                     *)
(***************************************************************************)
NothingUnderWay == settlePc = "idle" /\ Expired \notin settleFault => pending = 0

(***************************************************************************)
(* x25519_reu_fault has $02 exactly when some sample showed bit 5, whether  *)
(* or not that sample ended the spin.                                       *)
(***************************************************************************)
VerifyRecorded == settlePc = "idle" => (Verify \in settleFault <=> misread)

(***************************************************************************)
(* $01 is recorded only after Iter reads of the status, the macro's         *)
(* included, of which none showed END OF BLOCK.                             *)
(***************************************************************************)
NoHastyTimeout ==
  [][(Expired \in settleFault' \ settleFault) => reads = Iter /\ EndOfBlock \notin seen]_settleVars

(* The settle always returns, though the transfer may never end. *)
SettleReturns == settlePc # "idle" ~> settlePc = "idle"
===============================================================================
