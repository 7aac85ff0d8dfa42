------------------------ MODULE MakerRecoveryProofs ------------------------
(***************************************************************************)
(* Proofs about MakerRecovery, for every set of pages, plans and           *)
(* identities: the inductive invariant of pages, log, wallet and network   *)
(* together, the safety properties it implies, and the two refinements.    *)
(* First what the commit check of the store guarantees, whoever calls it.  *)
(***************************************************************************)
EXTENDS MakerRecovery, TLAPS

(* What makes the promises of the store inductive: a record on disk is well *)
(* formed and, when terminal, its archive entry is there.                   *)
StoreInv ==
    /\ StoreTypeOK
    /\ active = Absent \/ WellFormed(active)
    /\ TerminalArchived

LEMMA StoreInvInit == StoreInit => StoreInv
PROOF
<1>. SUFFICES ASSUME StoreInit PROVE StoreInv
  OBVIOUS
<1>1. Absent \in Record
  BY DEF Absent, Record
<1>2. StoreTypeOK
  BY <1>1 DEF StoreInit, StoreTypeOK
<1>3. TerminalArchived
  BY DEF StoreInit, Absent, TerminalArchived
<1>. QED  BY <1>2, <1>3 DEF StoreInit, StoreInv

(* A commit leaves a typed, well-formed record and typed archives. *)
LEMMA CommitTyped ==
    ASSUME StoreInv, active' \in Record, CompareAndSwap
    PROVE  StoreTypeOK' /\ WellFormed(active)'
PROOF
<1>. PICK o \in Operation : Admits(active', o) /\ Put(active', o)
  BY DEF CompareAndSwap
<1>1. WellFormed(active') /\ active'.proof \in Plan \cup {NoPlan}
  BY DEF Admits, Record
<1>2. WellFormed(active)'
  BY <1>1 DEF WellFormed
<1>3. o = "completionReceipt" => active'.proof \in Plan
  BY <1>1 DEF Admits, AdmitsReceipt, WellFormed
<1>4. o = "archiveFinalizedFailure" => active'.proof \in Plan
  <2>. SUFFICES ASSUME o = "archiveFinalizedFailure" PROVE active'.proof \in Plan
    OBVIOUS
  <2>1. active'.state = "FINALIZED_FAILURE"
    BY DEF Admits, AdmitsUpdate
  <2>2. active'.proof = active'.plan /\ active'.plan # NoPlan
    BY <1>1, <2>1 DEF WellFormed, TombstoneState
  <2>. QED  BY <2>2 DEF Record
<1>5. o = "expireNotFound" => active'.proof \in Plan
  BY <1>1 DEF Admits, AdmitsExpire, WellFormed
<1>6. receipts' \in [Identity -> Plan \cup {NoPlan}]
  BY <1>3 DEF Put, StoreInv, StoreTypeOK
<1>7. failures' \subseteq Plan
  BY <1>4 DEF Put, StoreInv, StoreTypeOK
<1>8. expirations' \subseteq Plan
  BY <1>5 DEF Put, StoreInv, StoreTypeOK
<1>9. leaseOver' \in BOOLEAN
  BY DEF Put
<1>. QED  BY <1>2, <1>6, <1>7, <1>8, <1>9 DEF StoreTypeOK

(* The record a terminal commit names is the one its option archives. *)
LEMMA CommitArchives ==
    ASSUME StoreInv, active' \in Record, CompareAndSwap
    PROVE  TerminalArchived'
PROOF
<1>. USE PlanAssumption
<1>. PICK o \in Operation : Admits(active', o) /\ Put(active', o)
  BY DEF CompareAndSwap
<1>1. StoreTypeOK' /\ WellFormed(active)'
  BY CommitTyped
<1>2. active'.state = "CLEANED" =>
        /\ o = "completionReceipt" /\ active'.proof \in Plan
  BY DEF Admits, AdmitsCreate, AdmitsUpdate, AdmitsDiscard, AdmitsReset, AdmitsReceipt,
         AdmitsExpire, AdmitsReplace, AdmitsReplaceFailure, NextAttempt, TombstoneState,
         WellFormed
<1>3. active'.state = "FINALIZED_FAILURE" =>
        /\ o = "archiveFinalizedFailure" /\ active'.proof = active'.plan
  BY DEF Admits, AdmitsCreate, AdmitsUpdate, AdmitsDiscard, AdmitsReset, AdmitsReceipt,
         AdmitsExpire, AdmitsReplace, AdmitsReplaceFailure, NextAttempt, WellFormed
<1>4. active'.state = "EXPIRED_NOT_FOUND" =>
        /\ o = "expireNotFound" /\ active'.proof = active.plan
        /\ active'.mark > Expiration[active.plan]
  BY DEF Admits, AdmitsCreate, AdmitsUpdate, AdmitsDiscard, AdmitsReset, AdmitsReceipt,
         AdmitsExpire, AdmitsReplace, AdmitsReplaceFailure, NextAttempt, TombstoneState,
         WellFormed
<1>5. active'.state = "CLEANED" => receipts'[IdentityOf[active'.proof]] = active'.proof
  BY <1>2 DEF Put, StoreInv, StoreTypeOK
<1>6. active'.state = "FINALIZED_FAILURE" => active'.plan \in failures'
  BY <1>3 DEF Put
<1>7. active'.state = "EXPIRED_NOT_FOUND" =>
        active'.proof \in expirations' /\ active'.mark > Expiration[active'.proof]
  BY <1>4 DEF Put
<1>. QED  BY <1>5, <1>6, <1>7 DEF TerminalArchived

LEMMA StoreInvNext == StoreInv /\ [StoreNext]_storeVars => StoreInv'
PROOF
<1>. SUFFICES ASSUME StoreInv, [StoreNext]_storeVars PROVE StoreInv'
  OBVIOUS
<1>1. CASE active' \in Record /\ CompareAndSwap
  BY <1>1, CommitTyped, CommitArchives DEF StoreInv
<1>2. CASE LeaseExpires
  BY <1>2 DEF LeaseExpires, StoreInv, StoreTypeOK, WellFormed, TerminalArchived
<1>3. CASE UNCHANGED storeVars
  BY <1>3 DEF storeVars, StoreInv, StoreTypeOK, WellFormed, TerminalArchived
<1>. QED  BY <1>1, <1>2, <1>3 DEF StoreNext

THEOREM StoreInductive == StoreSpec => []StoreInv
PROOF
<1>. QED  BY StoreInvInit, StoreInvNext, PTL DEF StoreSpec

(* Type correctness of the log: every record and archive entry an admitted  *)
(* commit leaves has the shape the adapter validates on load.               *)
THEOREM StoreTyped == StoreSpec => []StoreTypeOK
PROOF
<1>1. StoreInv => StoreTypeOK
  BY DEF StoreInv
<1>. QED  BY <1>1, StoreInductive, PTL

(* A terminal record never lacks its archive entry, whoever calls           *)
(* compareAndSwap and however many plans, pages and identities there are.   *)
THEOREM TerminalIsArchived == StoreSpec => []TerminalArchived
PROOF
<1>1. StoreInv => TerminalArchived
  BY DEF StoreInv
<1>. QED  BY <1>1, StoreInductive, PTL

(* A commit takes the plan of signed bytes away only with its archive entry.*)
LEMMA CommitKeepsSigned ==
    ASSUME StoreInv, active' \in Record, CompareAndSwap,
           active.state \in SignedState, active'.plan # active.plan
    PROVE  \/ receipts'[IdentityOf[active.plan]] = active.plan
           \/ active.plan \in failures' \cup expirations'
PROOF
<1>. USE PlanAssumption
<1>. PICK o \in Operation : Admits(active', o) /\ Put(active', o)
  BY DEF CompareAndSwap
<1>0. /\ active # Absent
      /\ active.state \notin {"READY", "AWAITING_SIGNATURE"} \cup TombstoneState
      /\ WellFormed(active)
  BY DEF StoreInv, Absent, SignedState, TombstoneState
<1>1. /\ ~AdmitsCreate(active') /\ ~AdmitsUpdate(active', TRUE)
      /\ ~AdmitsUpdate(active', FALSE) /\ ~AdmitsDiscard(active')
      /\ ~AdmitsReset(active') /\ ~AdmitsReplace(active')
  BY <1>0 DEF AdmitsCreate, AdmitsUpdate, AdmitsDiscard, AdmitsReset, AdmitsReplace
<1>2. active.plan \in Plan
  BY <1>0 DEF WellFormed, StoreInv, StoreTypeOK, Record
<1>3. CASE o = "completionReceipt"
  <2>1. active'.proof = active.plan
    BY <1>0, <1>3 DEF Admits, AdmitsReceipt, WellFormed
  <2>. QED  BY <1>2, <1>3, <2>1 DEF Put, StoreInv, StoreTypeOK
<1>4. CASE o = "expireNotFound"
  BY <1>4 DEF Admits, AdmitsExpire, Put
<1>5. CASE o = "replaceFinalizedFailure"
  <2>1. active.plan \in failures
    BY <1>5 DEF Admits, AdmitsReplaceFailure, StoreInv, TerminalArchived
  <2>. QED  BY <1>5, <2>1 DEF Put
<1>. QED  BY <1>1, <1>3, <1>4, <1>5 DEF Admits

(* Signed bytes leave the log only into an archive: "a direct adapter       *)
(* caller cannot bypass" the check, at any size.                            *)
THEOREM SignedBytesKept == StoreSpec => StoreKeepsSigned
PROOF
<1>1. StoreInv /\ [StoreNext]_storeVars =>
        [active.state \in SignedState /\ active'.plan # active.plan
           => \/ receipts'[IdentityOf[active.plan]] = active.plan
              \/ active.plan \in failures' \cup expirations']_storeVars
  BY CommitKeepsSigned DEF StoreNext, LeaseExpires
<1>. QED  BY <1>1, StoreInductive, PTL DEF StoreSpec, StoreKeepsSigned

(* No commit rewrites an archive entry or takes a counter back.             *)
LEMMA CommitOnlyGrows ==
    ASSUME StoreInv, active' \in Record, CompareAndSwap
    PROVE  /\ \A i \in Identity : receipts[i] # NoPlan => receipts'[i] = receipts[i]
           /\ failures \subseteq failures' /\ expirations \subseteq expirations'
           /\ \/ active'.attempt > active.attempt
              \/ active'.attempt = active.attempt /\ active'.casts >= active.casts
PROOF
<1>. USE PlanAssumption
<1>. PICK o \in Operation : Admits(active', o) /\ Put(active', o)
  BY DEF CompareAndSwap
<1>1. failures \subseteq failures' /\ expirations \subseteq expirations'
  BY DEF Put
<1>2. ASSUME NEW i \in Identity, receipts[i] # NoPlan
      PROVE  receipts'[i] = receipts[i]
  <2>1. CASE o = "completionReceipt"
    <3>1. WellFormed(active) /\ active'.proof = active.plan
      BY <2>1 DEF Admits, AdmitsReceipt, StoreInv, Absent, WellFormed
    <3>2. receipts[IdentityOf[active'.proof]] = NoPlan
      BY <2>1, <3>1 DEF Admits, AdmitsReceipt
    <3>. QED  BY <1>2, <2>1, <3>2 DEF Put, StoreInv, StoreTypeOK
  <2>2. CASE o # "completionReceipt"
    BY <2>2 DEF Put
  <2>. QED  BY <2>1, <2>2
<1>3. active.attempt \in Nat /\ active.casts \in Nat
  BY DEF StoreInv, StoreTypeOK, Record
<1>4. \/ active'.attempt > active.attempt
      \/ active'.attempt = active.attempt /\ active'.casts >= active.casts
  BY <1>3 DEF Admits, AdmitsCreate, AdmitsUpdate, AdmitsDiscard, AdmitsReset, AdmitsReceipt,
              AdmitsExpire, AdmitsReplace, AdmitsReplaceFailure, NextAttempt, SameAttempt,
              Absent
<1>. QED  BY <1>1, <1>2, <1>4

(* Archives are write-once and counters monotone, at any size. *)
THEOREM ArchivesOnlyGrow == StoreSpec => StoreOnlyGrows
PROOF
<1>1. StoreInv /\ [StoreNext]_storeVars =>
        [/\ \A i \in Identity : receipts[i] # NoPlan => receipts'[i] = receipts[i]
         /\ failures \subseteq failures' /\ expirations \subseteq expirations'
         /\ \/ active'.attempt > active.attempt
            \/ active'.attempt = active.attempt /\ active'.casts >= active.casts]_storeVars
  <2>. SUFFICES ASSUME StoreInv, StoreNext
                PROVE  /\ \A i \in Identity : receipts[i] # NoPlan => receipts'[i] = receipts[i]
                       /\ failures \subseteq failures' /\ expirations \subseteq expirations'
                       /\ \/ active'.attempt > active.attempt
                          \/ active'.attempt = active.attempt /\ active'.casts >= active.casts
    OBVIOUS
  <2>1. CASE active' \in Record /\ CompareAndSwap
    BY <2>1, CommitOnlyGrows
  <2>2. CASE LeaseExpires
    BY <2>2 DEF LeaseExpires, StoreInv, StoreTypeOK, Record
  <2>. QED  BY <2>1, <2>2 DEF StoreNext
<1>. QED  BY <1>1, StoreInductive, PTL DEF StoreSpec, StoreOnlyGrows

-----------------------------------------------------------------------------

(* A page never remembers a revision the log has not reached, and what it   *)
(* works on is a plan.                                                      *)
Behind(s) ==
    /\ op[s].revision <= active.revision
    /\ op[s].pc # "idle" => op[s].plan \in Plan

(* What page s may rely on while the record is still the one it read. *)
Relies(s) ==
    /\ active.plan = op[s].plan
    /\ op[s].pc \in {"wallet", "signed"} =>
         /\ active.state = "AWAITING_SIGNATURE" /\ active.owner = s
         /\ active.disp = "REQUEST_IN_FLIGHT"
    /\ op[s].pc = "confirm" => active.state = "AWAITING_SIGNATURE" /\ leaseOver
    /\ op[s].pc \in Asking \cup QueryStatus => active.state \in Recoverable
    /\ op[s].pc = "readback" =>
         active.state = "OUTCOME_PENDING" /\ active.query = "FINALIZED_SUCCESS"
    /\ op[s].pc = "decide" =>
         active.state = "OUTCOME_PENDING" /\ active.query = "NOT_FOUND"
    /\ op[s].pc \in {"send", "ack"} => active.state = "BROADCASTING"

CurrentRelies(s) ==
    op[s].pc \in Returning \cup {"send"} /\ Current(s) => Relies(s)

(* What a page was told of the chain is true, or can only be out of date    *)
(* while the digest may still execute.                                      *)
AnswerTrue(s) ==
    /\ op[s].pc \in {"FINALIZED_SUCCESS", "readback"} => fate[op[s].plan] = "success"
    /\ op[s].pc = "FINALIZED_FAILURE" => fate[op[s].plan] = "failure"
    /\ op[s].pc = "secondRead" => op[s].mark <= epoch
    /\ op[s].pc \in {"NOT_FOUND", "decide"} /\ op[s].mark > Expiration[op[s].plan]
         => fate[op[s].plan] = "none" /\ epoch > Expiration[op[s].plan]

(* A plan that is not settled can be prepared: neither it nor its action    *)
(* has an archive entry.                                                    *)
Open(p) == /\ receipts[IdentityOf[p]] = NoPlan
           /\ p \notin failures \cup expirations

CheckedStillOpen(s) ==
    op[s].pc = "checked" /\ op[s].revision = active.revision => Open(op[s].plan)

SendsDurable(s) == op[s].pc \in {"send", "ack"} => op[s].plan \in durable

PageInv(s) == /\ Behind(s) /\ CurrentRelies(s) /\ AnswerTrue(s)
              /\ CheckedStillOpen(s) /\ SendsDurable(s)

RecordOpen ==
    active.state \in (UnsignedState \cup SignedState) \ {"FINALIZED_FAILURE"}
        => Open(active.plan)

(* Signed bytes come from the log, and stay there until they are settled.   *)
BytesAccounted ==
    /\ \A p \in Plan : fate[p] # "none" => sends[p] > 0
    /\ \A p \in Plan : sends[p] > 0 => p \in durable
    /\ active.state \in SignedState => active.plan \in durable
    /\ \A p \in durable : Settled(p) \/ Tracked(p)

RecordInv == RecordOpen /\ BytesAccounted /\ ArchivesAgreeWithChain

IInv ==
    /\ TypeOK /\ StoreInv
    /\ \A s \in Session : PageInv(s)
    /\ RecordInv

-----------------------------------------------------------------------------
(* Every write of the controller is a commit the store admits.              *)

Commit == active' \in Record /\ CompareAndSwap

LEMMA Written ==
    ASSUME IInv, active.state # "ABSENT"
    PROVE  active \in Record /\ WellFormed(active) /\ active # Absent
BY DEF IInv, StoreInv, StoreTypeOK, Absent

LEMMA Reliable ==
    ASSUME IInv, NEW s \in Session, op[s].pc \in Returning \cup {"send"}, Current(s)
    PROVE  Relies(s) /\ op[s].plan \in Plan
BY DEF IInv, PageInv, CurrentRelies, Behind, Returning, Asking, QueryStatus

(* The record constructors build records. *)
LEMMA NextTyped ==
    ASSUME active \in Record, NEW s \in Session, NEW state \in State
    PROVE  NextRecord(s, state) \in Record
PROOF
<1>1. active.revision + 1 \in Nat
  BY DEF Record
<1>. QED  BY <1>1 DEF Record, NextRecord

LEMMA AnsweredTyped ==
    ASSUME NEW r \in Record, NEW status \in QueryStatus, NEW mark \in Nat
    PROVE  Answered(r, status, mark) \in Record
BY DEF Record, Answered

LEMMA NoRequestTyped == ASSUME NEW r \in Record PROVE NoRequest(r) \in Record
BY DEF Record, NoRequest

LEMMA TombstoneTyped ==
    ASSUME NEW r \in Record, NEW mark \in Nat
    PROVE  Tombstone(r, mark) \in Record
BY DEF Record, Tombstone

(* One admitted proposal, put in the log, is a commit. *)
LEMMA UpdateAdmitted ==
    ASSUME NEW next, AdmitsUpdate(next, FALSE), WellFormed(next),
           next.revision = active.revision + 1
    PROVE  Admits(next, "update")
BY Zenon DEF Admits

LEMMA ArchiveAdmitted ==
    ASSUME NEW next, AdmitsUpdate(next, TRUE), WellFormed(next),
           next.revision = active.revision + 1
    PROVE  Admits(next, "archiveFinalizedFailure")
BY Zenon DEF Admits

LEMMA PutCommits ==
    ASSUME NEW next \in Record, NEW o \in Operation, Admits(next, o), Put(next, o)
    PROVE  Commit
PROOF
<1>1. active' = next
  BY DEF Put
<1>. QED  BY <1>1 DEF Commit, CompareAndSwap

LEMMA DiscardCommits ==
    ASSUME IInv, NEW s \in Session, DiscardUnsigned(s)
    PROVE  Commit
PROOF
<1>. USE PlanAssumption
<1>. DEFINE next == Tombstone(NextRecord(s, "DISCARDED"), 0)
<1>1. active \in Record /\ WellFormed(active) /\ active # Absent
  BY Written DEF DiscardUnsigned
<1>2. active.state = "READY"
  BY DEF DiscardUnsigned, IInv, RecordInv, RecordOpen, Open, UnsignedState, SignedState
<1>3. next \in Record
  <2>1. "DISCARDED" \in State
    BY <1>2 DEF State, UnsignedState, SignedState, TombstoneState, Recoverable
  <2>2. NextRecord(s, "DISCARDED") \in Record
    BY <1>1, <2>1, NextTyped
  <2>3. Tombstone(NextRecord(s, "DISCARDED"), 0) \in Record
    BY <1>2, <2>2, TombstoneTyped DEF QueryStatus
  <2>. QED  BY <2>3
<1>4. WellFormed(next)
  BY <1>1, <1>2, <1>3 DEF NextRecord, Answered, NoRequest, Tombstone, Record, WellFormed, State, TombstoneState,
                          UnsignedState, SignedState, Disposition, QueryStatus, Recoverable
<1>5. AdmitsDiscard(next)
  BY <1>1, <1>2 DEF AdmitsDiscard, SameAttempt, NextRecord, Tombstone, Record
<1>6. next.revision = active.revision + 1
  BY <1>1 DEF NextRecord, Answered, NoRequest, Tombstone, Record
<1>7. Admits(next, "discardUnsigned")
  BY <1>4, <1>5, <1>6 DEF Admits
<1>. QED  BY <1>3, <1>7, PutCommits DEF Operation, DiscardUnsigned

LEMMA RequestCommits ==
    ASSUME IInv, NEW s \in Session, RequestSignature(s)
    PROVE  Commit
PROOF
<1>. USE PlanAssumption
<1>. DEFINE next == [NextRecord(s, "AWAITING_SIGNATURE") EXCEPT
                      !.owner = s, !.disp = "REQUEST_IN_FLIGHT"]
<1>1. active \in Record /\ WellFormed(active) /\ active # Absent
  BY Written DEF RequestSignature
<1>2. active.state = "READY"
  BY DEF RequestSignature, IInv, RecordInv, RecordOpen, Open, UnsignedState, SignedState
<1>3. next \in Record
  <2>1. "AWAITING_SIGNATURE" \in State
    BY <1>2 DEF State, UnsignedState, SignedState, TombstoneState, Recoverable
  <2>2. NextRecord(s, "AWAITING_SIGNATURE") \in Record
    BY <1>1, <2>1, NextTyped
  <2>. QED  BY <1>1, <1>2, <2>2 DEF Record, Disposition, WellFormed
<1>4. WellFormed(next)
  BY <1>1, <1>2, <1>3 DEF NextRecord, Answered, NoRequest, Tombstone, Record, WellFormed, State, TombstoneState,
                          UnsignedState, SignedState, Disposition, QueryStatus, Recoverable
<1>5. AdmitsUpdate(next, FALSE)
  BY <1>1, <1>2 DEF AdmitsUpdate, SameAttempt, AllowedTransition, NextRecord, Answered, NoRequest, Tombstone, Record, TombstoneState, UnsignedState, SignedState, Recoverable, WellFormed
<1>6. next.revision = active.revision + 1
  BY <1>1 DEF NextRecord, Answered, NoRequest, Tombstone, Record
<1>7. Admits(next, "update")
  BY <1>4, <1>5, <1>6, UpdateAdmitted
<1>. QED  BY <1>3, <1>7, PutCommits DEF Operation, RequestSignature

LEMMA PersistCommits ==
    ASSUME IInv, NEW s \in Session, PersistSignature(s)
    PROVE  Commit
PROOF
<1>. USE PlanAssumption
<1>. DEFINE next == NoRequest(NextRecord(s, "SIGNED_DURABLE"))
<1>1. active \in Record /\ WellFormed(active) /\ active # Absent
  <2>1. Relies(s) /\ op[s].plan \in Plan
    BY Reliable DEF PersistSignature, Returning, Asking, QueryStatus
  <2>2. active.state # "ABSENT"
    BY <2>1 DEF PersistSignature, Relies, Recoverable, Asking, QueryStatus
  <2>. QED  BY <2>2, Written
<1>2. active.state = "AWAITING_SIGNATURE" /\ active.owner = s /\ active.disp = "REQUEST_IN_FLIGHT"
  <2>1. Relies(s) /\ op[s].plan \in Plan
    BY Reliable DEF PersistSignature, Returning, Asking, QueryStatus
  <2>. QED  BY <2>1 DEF PersistSignature, Relies, Asking, QueryStatus
<1>3. next \in Record
  <2>1. "SIGNED_DURABLE" \in State
    BY <1>2 DEF State, UnsignedState, SignedState, TombstoneState, Recoverable
  <2>2. NextRecord(s, "SIGNED_DURABLE") \in Record
    BY <1>1, <2>1, NextTyped
  <2>3. NoRequest(NextRecord(s, "SIGNED_DURABLE")) \in Record
    BY <1>2, <2>2, NoRequestTyped DEF QueryStatus
  <2>. QED  BY <2>3
<1>4. WellFormed(next)
  BY <1>1, <1>2, <1>3 DEF NextRecord, Answered, NoRequest, Tombstone, Record, WellFormed, State, TombstoneState,
                          UnsignedState, SignedState, Disposition, QueryStatus, Recoverable
<1>5. AdmitsUpdate(next, FALSE)
  BY <1>1, <1>2 DEF AdmitsUpdate, SameAttempt, AllowedTransition, NextRecord, Answered, NoRequest, Tombstone, Record, TombstoneState, UnsignedState, SignedState, Recoverable, WellFormed
<1>6. next.revision = active.revision + 1
  BY <1>1 DEF NextRecord, Answered, NoRequest, Tombstone, Record
<1>7. Admits(next, "update")
  BY <1>4, <1>5, <1>6, UpdateAdmitted
<1>. QED  BY <1>3, <1>7, PutCommits DEF Operation, PersistSignature

LEMMA ReclaimCommits ==
    ASSUME IInv, NEW s \in Session, ReclaimAwaitingSignature(s)
    PROVE  Commit
PROOF
<1>. USE PlanAssumption
<1>. DEFINE next == NoRequest(NextRecord(s, "READY"))
<1>1. active \in Record /\ WellFormed(active) /\ active # Absent
  <2>1. Relies(s) /\ op[s].plan \in Plan
    BY Reliable DEF ReclaimAwaitingSignature, Returning, Asking, QueryStatus
  <2>2. active.state # "ABSENT"
    BY <2>1 DEF ReclaimAwaitingSignature, Relies, Recoverable, Asking, QueryStatus
  <2>. QED  BY <2>2, Written
<1>2. active.state = "AWAITING_SIGNATURE" /\ leaseOver
  <2>1. Relies(s) /\ op[s].plan \in Plan
    BY Reliable DEF ReclaimAwaitingSignature, Returning, Asking, QueryStatus
  <2>. QED  BY <2>1 DEF ReclaimAwaitingSignature, Relies, Asking, QueryStatus
<1>3. next \in Record
  <2>1. "READY" \in State
    BY <1>2 DEF State, UnsignedState, SignedState, TombstoneState, Recoverable
  <2>2. NextRecord(s, "READY") \in Record
    BY <1>1, <2>1, NextTyped
  <2>3. NoRequest(NextRecord(s, "READY")) \in Record
    BY <1>2, <2>2, NoRequestTyped DEF QueryStatus
  <2>. QED  BY <2>3
<1>4. WellFormed(next)
  BY <1>1, <1>2, <1>3 DEF NextRecord, Answered, NoRequest, Tombstone, Record, WellFormed, State, TombstoneState,
                          UnsignedState, SignedState, Disposition, QueryStatus, Recoverable
<1>5. AdmitsReset(next)
  BY <1>1, <1>2 DEF AdmitsReset, SameAttempt, NextRecord, NoRequest, Record
<1>6. next.revision = active.revision + 1
  BY <1>1 DEF NextRecord, Answered, NoRequest, Tombstone, Record
<1>7. Admits(next, "resetUnsigned")
  BY <1>4, <1>5, <1>6 DEF Admits
<1>. QED  BY <1>3, <1>7, PutCommits DEF Operation, ReclaimAwaitingSignature

LEMMA QueryFailsCommits ==
    ASSUME IInv, NEW s \in Session, QueryFails(s)
    PROVE  Commit
PROOF
<1>. USE PlanAssumption
<1>. DEFINE next == NextRecord(s, IF active.state = "BROADCASTING"
                                 THEN "OUTCOME_PENDING" ELSE active.state)
<1>1. active \in Record /\ WellFormed(active) /\ active # Absent
  <2>1. Relies(s) /\ op[s].plan \in Plan
    BY Reliable DEF QueryFails, Returning, Asking, QueryStatus
  <2>2. active.state # "ABSENT"
    BY <2>1 DEF QueryFails, Relies, Recoverable, Asking, QueryStatus
  <2>. QED  BY <2>2, Written
<1>2. active.state \in Recoverable
  <2>1. Relies(s) /\ op[s].plan \in Plan
    BY Reliable DEF QueryFails, Returning, Asking, QueryStatus
  <2>. QED  BY <2>1 DEF QueryFails, Relies, Asking, QueryStatus
<1>3. next \in Record
  <2>1. (IF active.state = "BROADCASTING"
                                 THEN "OUTCOME_PENDING" ELSE active.state) \in State
    BY <1>2 DEF State, UnsignedState, SignedState, TombstoneState, Recoverable
  <2>2. NextRecord(s, IF active.state = "BROADCASTING"
                                 THEN "OUTCOME_PENDING" ELSE active.state) \in Record
    BY <1>1, <2>1, NextTyped
  <2>. QED  BY <2>2
<1>4. WellFormed(next)
  BY <1>1, <1>2, <1>3 DEF NextRecord, Answered, NoRequest, Tombstone, Record, WellFormed, State, TombstoneState,
                          UnsignedState, SignedState, Disposition, QueryStatus, Recoverable
<1>5. AdmitsUpdate(next, FALSE)
  BY <1>1, <1>2 DEF AdmitsUpdate, SameAttempt, AllowedTransition, NextRecord, Answered, NoRequest, Tombstone, Record, TombstoneState, UnsignedState, SignedState, Recoverable, WellFormed
<1>6. next.revision = active.revision + 1
  BY <1>1 DEF NextRecord, Answered, NoRequest, Tombstone, Record
<1>7. Admits(next, "update")
  BY <1>4, <1>5, <1>6, UpdateAdmitted
<1>. QED  BY <1>3, <1>7, PutCommits DEF Operation, QueryFails

LEMMA ArchiveCommits ==
    ASSUME IInv, NEW s \in Session, ArchiveFailure(s)
    PROVE  Commit
PROOF
<1>. USE PlanAssumption
<1>. DEFINE next == [Answered(NextRecord(s, "FINALIZED_FAILURE"), "FINALIZED_FAILURE", 0)
                      EXCEPT !.proof = active.plan]
<1>1. active \in Record /\ WellFormed(active) /\ active # Absent
  <2>1. Relies(s) /\ op[s].plan \in Plan
    BY Reliable DEF ArchiveFailure, Returning, Asking, QueryStatus
  <2>2. active.state # "ABSENT"
    BY <2>1 DEF ArchiveFailure, Relies, Recoverable, Asking, QueryStatus
  <2>. QED  BY <2>2, Written
<1>2. active.state \in Recoverable
  <2>1. Relies(s) /\ op[s].plan \in Plan
    BY Reliable DEF ArchiveFailure, Returning, Asking, QueryStatus
  <2>. QED  BY <2>1 DEF ArchiveFailure, Relies, Asking, QueryStatus
<1>8. Open(active.plan)
  BY <1>2 DEF IInv, RecordInv, RecordOpen, Recoverable, SignedState
<1>3. next \in Record
  <2>1. "FINALIZED_FAILURE" \in State
    BY <1>2 DEF State, UnsignedState, SignedState, TombstoneState, Recoverable
  <2>2. NextRecord(s, "FINALIZED_FAILURE") \in Record
    BY <1>1, <2>1, NextTyped
  <2>3. Answered(NextRecord(s, "FINALIZED_FAILURE"), "FINALIZED_FAILURE", 0) \in Record
    BY <1>2, <2>2, AnsweredTyped DEF QueryStatus
  <2>. QED  BY <1>1, <1>2, <2>3 DEF Record, Disposition, WellFormed
<1>4. WellFormed(next)
  BY <1>1, <1>2, <1>3 DEF NextRecord, Answered, NoRequest, Tombstone, Record, WellFormed, State, TombstoneState,
                          UnsignedState, SignedState, Disposition, QueryStatus, Recoverable
<1>5. AdmitsUpdate(next, TRUE)
  BY <1>1, <1>2, <1>8 DEF AdmitsUpdate, SameAttempt, AllowedTransition, NextRecord, Answered, NoRequest, Tombstone, Record, TombstoneState, UnsignedState, SignedState, Recoverable, WellFormed, Open
<1>6. next.revision = active.revision + 1
  BY <1>1 DEF NextRecord, Answered, NoRequest, Tombstone, Record
<1>7. Admits(next, "archiveFinalizedFailure")
  BY <1>4, <1>5, <1>6, ArchiveAdmitted
<1>. QED  BY <1>3, <1>7, PutCommits DEF Operation, ArchiveFailure

LEMMA VerifyCommits ==
    ASSUME IInv, NEW s \in Session, Verify(s)
    PROVE  Commit
PROOF
<1>. USE PlanAssumption
<1>. DEFINE next == [NextRecord(s, "VERIFIED") EXCEPT !.proof = active.plan]
<1>1. active \in Record /\ WellFormed(active) /\ active # Absent
  <2>1. Relies(s) /\ op[s].plan \in Plan
    BY Reliable DEF Verify, Returning, Asking, QueryStatus
  <2>2. active.state # "ABSENT"
    BY <2>1 DEF Verify, Relies, Recoverable, Asking, QueryStatus
  <2>. QED  BY <2>2, Written
<1>2. active.state = "OUTCOME_PENDING" /\ active.query = "FINALIZED_SUCCESS"
  <2>1. Relies(s) /\ op[s].plan \in Plan
    BY Reliable DEF Verify, Returning, Asking, QueryStatus
  <2>. QED  BY <2>1 DEF Verify, Relies, Asking, QueryStatus
<1>3. next \in Record
  <2>1. "VERIFIED" \in State
    BY <1>2 DEF State, UnsignedState, SignedState, TombstoneState, Recoverable
  <2>2. NextRecord(s, "VERIFIED") \in Record
    BY <1>1, <2>1, NextTyped
  <2>. QED  BY <1>1, <1>2, <2>2 DEF Record, Disposition, WellFormed
<1>4. WellFormed(next)
  BY <1>1, <1>2, <1>3 DEF NextRecord, Answered, NoRequest, Tombstone, Record, WellFormed, State, TombstoneState,
                          UnsignedState, SignedState, Disposition, QueryStatus, Recoverable
<1>5. AdmitsUpdate(next, FALSE)
  BY <1>1, <1>2 DEF AdmitsUpdate, SameAttempt, AllowedTransition, NextRecord, Answered, NoRequest, Tombstone, Record, TombstoneState, UnsignedState, SignedState, Recoverable, WellFormed
<1>6. next.revision = active.revision + 1
  BY <1>1 DEF NextRecord, Answered, NoRequest, Tombstone, Record
<1>7. Admits(next, "update")
  BY <1>4, <1>5, <1>6, UpdateAdmitted
<1>. QED  BY <1>3, <1>7, PutCommits DEF Operation, Verify

LEMMA ReadbackFailsCommits ==
    ASSUME IInv, NEW s \in Session, ReadbackFails(s)
    PROVE  Commit
PROOF
<1>. USE PlanAssumption
<1>. DEFINE next == NextRecord(s, "OUTCOME_PENDING")
<1>1. active \in Record /\ WellFormed(active) /\ active # Absent
  <2>1. Relies(s) /\ op[s].plan \in Plan
    BY Reliable DEF ReadbackFails, Returning, Asking, QueryStatus
  <2>2. active.state # "ABSENT"
    BY <2>1 DEF ReadbackFails, Relies, Recoverable, Asking, QueryStatus
  <2>. QED  BY <2>2, Written
<1>2. active.state = "OUTCOME_PENDING" /\ active.query = "FINALIZED_SUCCESS"
  <2>1. Relies(s) /\ op[s].plan \in Plan
    BY Reliable DEF ReadbackFails, Returning, Asking, QueryStatus
  <2>. QED  BY <2>1 DEF ReadbackFails, Relies, Asking, QueryStatus
<1>3. next \in Record
  <2>1. "OUTCOME_PENDING" \in State
    BY <1>2 DEF State, UnsignedState, SignedState, TombstoneState, Recoverable
  <2>2. NextRecord(s, "OUTCOME_PENDING") \in Record
    BY <1>1, <2>1, NextTyped
  <2>. QED  BY <2>2
<1>4. WellFormed(next)
  BY <1>1, <1>2, <1>3 DEF NextRecord, Answered, NoRequest, Tombstone, Record, WellFormed, State, TombstoneState,
                          UnsignedState, SignedState, Disposition, QueryStatus, Recoverable
<1>5. AdmitsUpdate(next, FALSE)
  BY <1>1, <1>2 DEF AdmitsUpdate, SameAttempt, AllowedTransition, NextRecord, Answered, NoRequest, Tombstone, Record, TombstoneState, UnsignedState, SignedState, Recoverable, WellFormed
<1>6. next.revision = active.revision + 1
  BY <1>1 DEF NextRecord, Answered, NoRequest, Tombstone, Record
<1>7. Admits(next, "update")
  BY <1>4, <1>5, <1>6, UpdateAdmitted
<1>. QED  BY <1>3, <1>7, PutCommits DEF Operation, ReadbackFails

LEMMA ExpireCommits ==
    ASSUME IInv, NEW s \in Session, Expire(s)
    PROVE  Commit
PROOF
<1>. USE PlanAssumption
<1>. DEFINE next == [Tombstone(NextRecord(s, "EXPIRED_NOT_FOUND"), op[s].mark)
                      EXCEPT !.proof = active.plan]
<1>1. active \in Record /\ WellFormed(active) /\ active # Absent
  <2>1. Relies(s) /\ op[s].plan \in Plan
    BY Reliable DEF Expire, Returning, Asking, QueryStatus
  <2>2. active.state # "ABSENT"
    BY <2>1 DEF Expire, Relies, Recoverable, Asking, QueryStatus
  <2>. QED  BY <2>2, Written
<1>2. /\ active.state = "OUTCOME_PENDING" /\ active.query = "NOT_FOUND"
      /\ op[s].mark > Expiration[active.plan] /\ op[s].mark \in Nat
  <2>1. Relies(s) /\ op[s].plan \in Plan
    BY Reliable DEF Expire, Returning, Asking, QueryStatus
  <2>. QED  BY <2>1 DEF Expire, Expired, IInv, TypeOK, Operating, Relies, Asking, QueryStatus
<1>8. Open(active.plan)
  BY <1>2 DEF IInv, RecordInv, RecordOpen, Recoverable, SignedState
<1>3. next \in Record
  <2>1. "EXPIRED_NOT_FOUND" \in State
    BY <1>2 DEF State, UnsignedState, SignedState, TombstoneState, Recoverable
  <2>2. NextRecord(s, "EXPIRED_NOT_FOUND") \in Record
    BY <1>1, <2>1, NextTyped
  <2>3. Tombstone(NextRecord(s, "EXPIRED_NOT_FOUND"), op[s].mark) \in Record
    BY <1>2, <2>2, TombstoneTyped DEF QueryStatus
  <2>. QED  BY <1>1, <1>2, <2>3 DEF Record, Disposition, WellFormed
<1>4. WellFormed(next)
  BY <1>1, <1>2, <1>3 DEF NextRecord, Answered, NoRequest, Tombstone, Record, WellFormed, State, TombstoneState,
                          UnsignedState, SignedState, Disposition, QueryStatus, Recoverable
<1>5. AdmitsExpire(next)
  BY <1>1, <1>2, <1>8 DEF AdmitsExpire, SameAttempt, NextRecord, Tombstone, Record, Open
<1>6. next.revision = active.revision + 1
  BY <1>1 DEF NextRecord, Answered, NoRequest, Tombstone, Record
<1>7. Admits(next, "expireNotFound")
  BY <1>4, <1>5, <1>6 DEF Admits
<1>. QED  BY <1>3, <1>7, PutCommits DEF Operation, Expire, Expired

LEMMA MarkCommits ==
    ASSUME IInv, NEW s \in Session, MarkBroadcasting(s)
    PROVE  Commit
PROOF
<1>. USE PlanAssumption
<1>. DEFINE next == [NextRecord(s, "BROADCASTING") EXCEPT !.casts = @ + 1]
<1>1. active \in Record /\ WellFormed(active) /\ active # Absent
  <2>1. Relies(s) /\ op[s].plan \in Plan
    BY Reliable DEF MarkBroadcasting, Returning, Asking, QueryStatus
  <2>2. active.state # "ABSENT"
    BY <2>1 DEF MarkBroadcasting, Relies, Recoverable, Asking, QueryStatus
  <2>. QED  BY <2>2, Written
<1>2. active.state = "OUTCOME_PENDING" /\ active.query = "NOT_FOUND"
  <2>1. Relies(s) /\ op[s].plan \in Plan
    BY Reliable DEF MarkBroadcasting, Returning, Asking, QueryStatus
  <2>. QED  BY <2>1 DEF MarkBroadcasting, Relies, Asking, QueryStatus
<1>3. next \in Record
  <2>1. "BROADCASTING" \in State
    BY <1>2 DEF State, UnsignedState, SignedState, TombstoneState, Recoverable
  <2>2. NextRecord(s, "BROADCASTING") \in Record
    BY <1>1, <2>1, NextTyped
  <2>. QED  BY <1>1, <1>2, <2>2 DEF Record, Disposition, WellFormed
<1>4. WellFormed(next)
  BY <1>1, <1>2, <1>3 DEF NextRecord, Answered, NoRequest, Tombstone, Record, WellFormed, State, TombstoneState,
                          UnsignedState, SignedState, Disposition, QueryStatus, Recoverable
<1>5. AdmitsUpdate(next, FALSE)
  BY <1>1, <1>2 DEF AdmitsUpdate, SameAttempt, AllowedTransition, NextRecord, Answered, NoRequest, Tombstone, Record, TombstoneState, UnsignedState, SignedState, Recoverable, WellFormed
<1>6. next.revision = active.revision + 1
  BY <1>1 DEF NextRecord, Answered, NoRequest, Tombstone, Record
<1>7. Admits(next, "update")
  BY <1>4, <1>5, <1>6, UpdateAdmitted
<1>. QED  BY <1>3, <1>7, PutCommits DEF Operation, MarkBroadcasting

LEMMA AcknowledgeCommits ==
    ASSUME IInv, NEW s \in Session, Acknowledge(s)
    PROVE  Commit
PROOF
<1>. USE PlanAssumption
<1>. DEFINE next == Answered(NextRecord(s, "OUTCOME_PENDING"), "PENDING", 0)
<1>1. active \in Record /\ WellFormed(active) /\ active # Absent
  <2>1. Relies(s) /\ op[s].plan \in Plan
    BY Reliable DEF Acknowledge, Returning, Asking, QueryStatus
  <2>2. active.state # "ABSENT"
    BY <2>1 DEF Acknowledge, Relies, Recoverable, Asking, QueryStatus
  <2>. QED  BY <2>2, Written
<1>2. active.state = "BROADCASTING"
  <2>1. Relies(s) /\ op[s].plan \in Plan
    BY Reliable DEF Acknowledge, Returning, Asking, QueryStatus
  <2>. QED  BY <2>1 DEF Acknowledge, Relies, Asking, QueryStatus
<1>3. next \in Record
  <2>1. "OUTCOME_PENDING" \in State
    BY <1>2 DEF State, UnsignedState, SignedState, TombstoneState, Recoverable
  <2>2. NextRecord(s, "OUTCOME_PENDING") \in Record
    BY <1>1, <2>1, NextTyped
  <2>3. Answered(NextRecord(s, "OUTCOME_PENDING"), "PENDING", 0) \in Record
    BY <1>2, <2>2, AnsweredTyped DEF QueryStatus
  <2>. QED  BY <2>3
<1>4. WellFormed(next)
  BY <1>1, <1>2, <1>3 DEF NextRecord, Answered, NoRequest, Tombstone, Record, WellFormed, State, TombstoneState,
                          UnsignedState, SignedState, Disposition, QueryStatus, Recoverable
<1>5. AdmitsUpdate(next, FALSE)
  BY <1>1, <1>2 DEF AdmitsUpdate, SameAttempt, AllowedTransition, NextRecord, Answered, NoRequest, Tombstone, Record, TombstoneState, UnsignedState, SignedState, Recoverable, WellFormed
<1>6. next.revision = active.revision + 1
  BY <1>1 DEF NextRecord, Answered, NoRequest, Tombstone, Record
<1>7. Admits(next, "update")
  BY <1>4, <1>5, <1>6, UpdateAdmitted
<1>. QED  BY <1>3, <1>7, PutCommits DEF Operation, Acknowledge

LEMMA AmbiguousCommits ==
    ASSUME IInv, NEW s \in Session, BroadcastAmbiguous(s)
    PROVE  Commit
PROOF
<1>. USE PlanAssumption
<1>. DEFINE next == NextRecord(s, "OUTCOME_PENDING")
<1>1. active \in Record /\ WellFormed(active) /\ active # Absent
  <2>1. Relies(s) /\ op[s].plan \in Plan
    BY Reliable DEF BroadcastAmbiguous, Returning, Asking, QueryStatus
  <2>2. active.state # "ABSENT"
    BY <2>1 DEF BroadcastAmbiguous, Relies, Recoverable, Asking, QueryStatus
  <2>. QED  BY <2>2, Written
<1>2. active.state = "BROADCASTING"
  <2>1. Relies(s) /\ op[s].plan \in Plan
    BY Reliable DEF BroadcastAmbiguous, Returning, Asking, QueryStatus
  <2>. QED  BY <2>1 DEF BroadcastAmbiguous, Relies, Asking, QueryStatus
<1>3. next \in Record
  <2>1. "OUTCOME_PENDING" \in State
    BY <1>2 DEF State, UnsignedState, SignedState, TombstoneState, Recoverable
  <2>2. NextRecord(s, "OUTCOME_PENDING") \in Record
    BY <1>1, <2>1, NextTyped
  <2>. QED  BY <2>2
<1>4. WellFormed(next)
  BY <1>1, <1>2, <1>3 DEF NextRecord, Answered, NoRequest, Tombstone, Record, WellFormed, State, TombstoneState,
                          UnsignedState, SignedState, Disposition, QueryStatus, Recoverable
<1>5. AdmitsUpdate(next, FALSE)
  BY <1>1, <1>2 DEF AdmitsUpdate, SameAttempt, AllowedTransition, NextRecord, Answered, NoRequest, Tombstone, Record, TombstoneState, UnsignedState, SignedState, Recoverable, WellFormed
<1>6. next.revision = active.revision + 1
  BY <1>1 DEF NextRecord, Answered, NoRequest, Tombstone, Record
<1>7. Admits(next, "update")
  BY <1>4, <1>5, <1>6, UpdateAdmitted
<1>. QED  BY <1>3, <1>7, PutCommits DEF Operation, BroadcastAmbiguous

LEMMA CleanupCommits ==
    ASSUME IInv, NEW s \in Session, CleanupVerified(s)
    PROVE  Commit
PROOF
<1>. USE PlanAssumption
<1>. DEFINE next == Tombstone(NextRecord(s, "CLEANED"), 0)
<1>1. active \in Record /\ WellFormed(active) /\ active # Absent
  BY Written DEF CleanupVerified
<1>2. active.state = "VERIFIED" /\ Open(active.plan)
  BY DEF CleanupVerified, IInv, RecordInv, RecordOpen, Open, UnsignedState, SignedState
<1>3. next \in Record
  <2>1. "CLEANED" \in State
    BY <1>2 DEF State, UnsignedState, SignedState, TombstoneState, Recoverable
  <2>2. NextRecord(s, "CLEANED") \in Record
    BY <1>1, <2>1, NextTyped
  <2>3. Tombstone(NextRecord(s, "CLEANED"), 0) \in Record
    BY <1>2, <2>2, TombstoneTyped DEF QueryStatus
  <2>. QED  BY <2>3
<1>4. WellFormed(next)
  BY <1>1, <1>2, <1>3 DEF NextRecord, Answered, NoRequest, Tombstone, Record, WellFormed, State, TombstoneState,
                          UnsignedState, SignedState, Disposition, QueryStatus, Recoverable
<1>5. AdmitsReceipt(next)
  BY <1>1, <1>2 DEF AdmitsReceipt, SameAttempt, NextRecord, Tombstone, Record, Open
<1>6. next.revision = active.revision + 1
  BY <1>1 DEF NextRecord, Answered, NoRequest, Tombstone, Record
<1>7. Admits(next, "completionReceipt")
  BY <1>4, <1>5, <1>6 DEF Admits
<1>. QED  BY <1>3, <1>7, PutCommits DEF Operation, CleanupVerified

LEMMA WalletFailsCommits ==
    ASSUME IInv, NEW s \in Session, NEW disp \in Disposition, WalletFails(s, disp)
    PROVE  Commit
PROOF
<1>. USE PlanAssumption
<1>. DEFINE next == [NextRecord(s, "AWAITING_SIGNATURE") EXCEPT !.disp = disp]
<1>1. active \in Record /\ WellFormed(active) /\ active # Absent
  <2>1. Relies(s) /\ op[s].plan \in Plan
    BY Reliable DEF WalletFails, Returning, Asking, QueryStatus
  <2>2. active.state # "ABSENT"
    BY <2>1 DEF WalletFails, Relies, Recoverable, Asking, QueryStatus
  <2>. QED  BY <2>2, Written
<1>2. active.state = "AWAITING_SIGNATURE" /\ active.owner = s /\ active.disp = "REQUEST_IN_FLIGHT"
  <2>1. Relies(s) /\ op[s].plan \in Plan
    BY Reliable DEF WalletFails, Returning, Asking, QueryStatus
  <2>. QED  BY <2>1 DEF WalletFails, Relies, Asking, QueryStatus
<1>3. next \in Record
  <2>1. "AWAITING_SIGNATURE" \in State
    BY <1>2 DEF State, UnsignedState, SignedState, TombstoneState, Recoverable
  <2>2. NextRecord(s, "AWAITING_SIGNATURE") \in Record
    BY <1>1, <2>1, NextTyped
  <2>. QED  BY <1>1, <1>2, <2>2 DEF Record, Disposition, WellFormed
<1>4. WellFormed(next)
  BY <1>1, <1>2, <1>3 DEF NextRecord, Answered, NoRequest, Tombstone, Record, WellFormed, State, TombstoneState,
                          UnsignedState, SignedState, Disposition, QueryStatus, Recoverable
<1>5. AdmitsUpdate(next, FALSE)
  BY <1>1, <1>2 DEF AdmitsUpdate, SameAttempt, AllowedTransition, NextRecord, Answered, NoRequest, Tombstone, Record, TombstoneState, UnsignedState, SignedState, Recoverable, WellFormed, Disposition
<1>6. next.revision = active.revision + 1
  BY <1>1 DEF NextRecord, Answered, NoRequest, Tombstone, Record
<1>7. Admits(next, "update")
  BY <1>4, <1>5, <1>6, UpdateAdmitted
<1>. QED  BY <1>3, <1>7, PutCommits DEF Operation, WalletFails

LEMMA SaveAnswerCommits ==
    ASSUME IInv, NEW s \in Session, NEW status \in QueryStatus, NEW mark \in Nat, NEW pc,
           SaveAnswer(s, status, mark, pc)
    PROVE  Commit
PROOF
<1>. USE PlanAssumption
<1>. DEFINE next == Answered(NextRecord(s, "OUTCOME_PENDING"), status, mark)
<1>1. active \in Record /\ WellFormed(active) /\ active # Absent
  <2>1. Relies(s) /\ op[s].plan \in Plan
    BY Reliable DEF SaveAnswer, Returning, Asking, QueryStatus
  <2>2. active.state # "ABSENT"
    BY <2>1 DEF SaveAnswer, Relies, Recoverable, Asking, QueryStatus
  <2>. QED  BY <2>2, Written
<1>2. active.state \in Recoverable
  <2>1. Relies(s) /\ op[s].plan \in Plan
    BY Reliable DEF SaveAnswer, Returning, Asking, QueryStatus
  <2>. QED  BY <2>1 DEF SaveAnswer, Relies, Asking, QueryStatus
<1>3. next \in Record
  <2>1. "OUTCOME_PENDING" \in State
    BY <1>2 DEF State, UnsignedState, SignedState, TombstoneState, Recoverable
  <2>2. NextRecord(s, "OUTCOME_PENDING") \in Record
    BY <1>1, <2>1, NextTyped
  <2>3. Answered(NextRecord(s, "OUTCOME_PENDING"), status, mark) \in Record
    BY <1>2, <2>2, AnsweredTyped DEF QueryStatus
  <2>. QED  BY <2>3
<1>4. WellFormed(next)
  BY <1>1, <1>2, <1>3 DEF NextRecord, Answered, NoRequest, Tombstone, Record, WellFormed, State, TombstoneState,
                          UnsignedState, SignedState, Disposition, QueryStatus, Recoverable
<1>5. AdmitsUpdate(next, FALSE)
  BY <1>1, <1>2 DEF AdmitsUpdate, SameAttempt, AllowedTransition, NextRecord, Answered, NoRequest, Tombstone, Record, TombstoneState, UnsignedState, SignedState, Recoverable, WellFormed, QueryStatus
<1>6. next.revision = active.revision + 1
  BY <1>1 DEF NextRecord, Answered, NoRequest, Tombstone, Record
<1>7. Admits(next, "update")
  BY <1>4, <1>5, <1>6, UpdateAdmitted
<1>. QED  BY <1>3, <1>7, PutCommits DEF Operation, SaveAnswer

LEMMA InitialTyped ==
    ASSUME NEW p \in Plan, NEW s \in Session, NEW n \in Nat, NEW a \in Nat, n >= 1, a >= 1
    PROVE  Initial(p, s, n, a) \in Record /\ WellFormed(Initial(p, s, n, a))
PROOF
<1>. USE PlanAssumption
<1>1. Absent \in Record
  BY DEF Absent, Record
<1>2. Initial(p, s, n, a) \in Record
  BY <1>1 DEF Initial, Record, State, UnsignedState
<1>3. WellFormed(Initial(p, s, n, a))
  BY DEF Initial, Absent, WellFormed, TombstoneState, UnsignedState
<1>. QED  BY <1>2, <1>3

LEMMA CreateCommits ==
    ASSUME IInv, NEW s \in Session, op[s].plan \in Plan, PrepareCreate(s)
    PROVE  Commit
PROOF
<1>. DEFINE next == Initial(op[s].plan, s, 1, 1)
<1>1. next \in Record /\ WellFormed(next)
  BY InitialTyped
<1>2. AdmitsCreate(next)
  BY DEF PrepareCreate, AdmitsCreate, Initial, Absent
<1>3. next.revision = active.revision + 1
  BY DEF PrepareCreate, Initial, Absent
<1>4. Admits(next, "create")
  BY <1>1, <1>2, <1>3 DEF Admits
<1>. QED  BY <1>1, <1>4, PutCommits DEF Operation, PrepareCreate

(* Evidence older than the record is refused, so what the archives said     *)
(* still holds when the next attempt is written.                            *)
LEMMA ReplaceCommits ==
    ASSUME IInv, NEW s \in Session, op[s].plan \in Plan, Open(op[s].plan),
           PrepareReplace(s)
    PROVE  Commit
PROOF
<1>. USE PlanAssumption
<1>. DEFINE next == Initial(op[s].plan, s, active.revision + 1, active.attempt + 1)
<1>1. active \in Record /\ WellFormed(active)
  BY Written DEF PrepareReplace, TombstoneState
<1>2. next \in Record /\ WellFormed(next)
  <2>1. /\ active.revision + 1 \in Nat /\ active.revision + 1 >= 1
        /\ active.attempt + 1 \in Nat /\ active.attempt + 1 >= 1
    BY <1>1 DEF Record
  <2>. QED  BY <2>1, InitialTyped
<1>3. next.revision = active.revision + 1
  BY DEF Initial, Absent
<1>4. next.plan = op[s].plan /\ NextAttempt(next)
  BY DEF Initial, Absent, NextAttempt
<1>5. CASE /\ active.state \in TombstoneState
           /\ active.state = "CLEANED" => receipts[IdentityOf[active.proof]] = active.proof
           /\ active.state = "EXPIRED_NOT_FOUND" => active.proof \in expirations
           /\ Put(next, "replaceTombstone")
  <2>1. AdmitsReplace(next)
    BY <1>4, <1>5 DEF AdmitsReplace, Open
  <2>2. Admits(next, "replaceTombstone")
    BY <1>2, <1>3, <2>1 DEF Admits
  <2>. QED  BY <1>2, <1>5, <2>2, PutCommits DEF Operation
<1>6. CASE /\ active.state = "FINALIZED_FAILURE"
           /\ active.plan # op[s].plan /\ active.plan \in failures
           /\ Put(next, "replaceFinalizedFailure")
  <2>1. AdmitsReplaceFailure(next)
    BY <1>1, <1>4, <1>6 DEF AdmitsReplaceFailure, WellFormed
  <2>2. Admits(next, "replaceFinalizedFailure")
    BY <1>2, <1>3, <2>1 DEF Admits
  <2>. QED  BY <1>2, <1>6, <2>2, PutCommits DEF Operation
<1>. QED  BY <1>5, <1>6 DEF PrepareReplace

LEMMA CheckedIsOpen ==
    ASSUME IInv, NEW s \in Session, Prepare(s)
    PROVE  op[s].plan \in Plan /\ Open(op[s].plan)
PROOF
<1>1. op[s].pc = "checked" /\ PageInv(s)
  BY DEF Prepare, IInv
<1>2. op[s].revision \in Nat /\ active.revision \in Nat
  BY DEF IInv, TypeOK, Operating, StoreTypeOK, Record
<1>3. op[s].revision = active.revision
  BY <1>1, <1>2 DEF Prepare, PrepareCreate, PrepareReplace, Fresh, Absent, PageInv, Behind
<1>. QED  BY <1>1, <1>3 DEF PageInv, Behind, CheckedStillOpen

LEMMA PrepareCommits ==
    ASSUME IInv, NEW s \in Session, Prepare(s)
    PROVE  Commit
BY CheckedIsOpen, CreateCommits, ReplaceCommits DEF Prepare

(* A commit is a later record than any page has read. *)
LEMMA CommitAdvances ==
    ASSUME IInv, Commit
    PROVE  /\ active.revision \in Nat /\ active'.revision = active.revision + 1
           /\ StoreInv'
BY CommitTyped, CommitArchives DEF Commit, CompareAndSwap, Admits, IInv, StoreInv, StoreTypeOK, Record

-----------------------------------------------------------------------------
(* What every step leaves to the pages that did not take it. *)

ChainGrows ==
    /\ epoch' \in Nat /\ epoch' >= epoch
    /\ fate' \in [Plan -> {"none", "success", "failure"}]
    /\ \A p \in Plan :
         fate'[p] # fate[p] => fate[p] = "none" /\ epoch <= Expiration[p]
    /\ sends' \in [Plan -> Nat]
    /\ durable \subseteq durable' /\ durable' \subseteq Plan
    /\ faults' \in Nat

LogSteps == Commit \/ LeaseExpires \/ UNCHANGED storeVars

LEMMA LogGrows ==
    ASSUME IInv, LogSteps
    PROVE  /\ StoreInv'
           /\ active.revision \in Nat /\ active'.revision \in Nat
           /\ active'.revision >= active.revision
           /\ active'.revision = active.revision =>
                /\ UNCHANGED <<active, receipts, failures, expirations>>
                /\ leaseOver => leaseOver'
PROOF
<1>0. active.revision \in Nat /\ StoreInv
  BY DEF IInv, StoreInv, StoreTypeOK, Record
<1>1. CASE Commit
  BY <1>0, <1>1, CommitAdvances
<1>2. CASE LeaseExpires
  BY <1>0, <1>2, StoreInvNext DEF LeaseExpires, StoreNext
<1>3. CASE UNCHANGED storeVars
  BY <1>0, <1>3, StoreInvNext DEF storeVars
<1>. QED  BY <1>1, <1>2, <1>3 DEF LogSteps

LEMMA OtherPage ==
    ASSUME IInv, LogSteps, ChainGrows, NEW t \in Session, op'[t] = op[t]
    PROVE  PageInv(t)'
PROOF
<1>. USE PlanAssumption
<1>1. PageInv(t) /\ op[t] \in Operating /\ epoch \in Nat
  BY DEF IInv, TypeOK
<1>2. /\ active.revision \in Nat /\ active'.revision \in Nat
      /\ active'.revision >= active.revision
      /\ active'.revision = active.revision =>
           /\ UNCHANGED <<active, receipts, failures, expirations>>
           /\ leaseOver => leaseOver'
  BY LogGrows
<1>3. Behind(t)'
  BY <1>1, <1>2 DEF PageInv, Behind, Operating
<1>4. CurrentRelies(t)'
  <2>. SUFFICES ASSUME op[t].pc \in Returning \cup {"send"}, op[t].revision = active'.revision
                PROVE  Relies(t)'
    BY DEF CurrentRelies, Current
  <2>1. active'.revision = active.revision
    BY <1>1, <1>2 DEF PageInv, Behind, Operating
  <2>2. Relies(t)
    BY <1>1, <2>1 DEF PageInv, CurrentRelies, Current
  <2>. QED  BY <1>2, <2>1, <2>2 DEF Relies
<1>5. AnswerTrue(t)'
  <2>1. op[t].pc # "idle" => op[t].plan \in Plan
    BY <1>1 DEF PageInv, Behind
  <2>. QED  BY <1>1, <2>1 DEF PageInv, AnswerTrue, ChainGrows, Operating
<1>6. CheckedStillOpen(t)'
  <2>. SUFFICES ASSUME op[t].pc = "checked", op[t].revision = active'.revision
                PROVE  Open(op[t].plan)'
    BY DEF CheckedStillOpen
  <2>1. active'.revision = active.revision
    BY <1>1, <1>2 DEF PageInv, Behind, Operating
  <2>. QED  BY <1>1, <1>2, <2>1 DEF PageInv, CheckedStillOpen, Open
<1>7. SendsDurable(t)'
  BY <1>1 DEF PageInv, SendsDurable, ChainGrows
<1>. QED  BY <1>3, <1>4, <1>5, <1>6, <1>7 DEF PageInv

LEMMA IdlePage ==
    ASSUME IInv, LogSteps, NEW t \in Session, op'[t] = Idle
    PROVE  PageInv(t)'
PROOF
<1>1. active'.revision \in Nat
  BY LogGrows
<1>. QED  BY <1>1 DEF PageInv, Behind, CurrentRelies, AnswerTrue, CheckedStillOpen,
                      SendsDurable, Idle, Returning, Asking, QueryStatus

(* A step is enough if it keeps what the page that took it and the log rely *)
(* on.                                                                      *)
LEMMA ByPage ==
    ASSUME IInv, NEW s \in Session, NEW after \in Operating,
           op' = [op EXCEPT ![s] = after],
           LogSteps, ChainGrows, PageInv(s)', RecordInv'
    PROVE  IInv'
PROOF
<1>1. op \in [Session -> Operating]
  BY DEF IInv, TypeOK
<1>2. op' \in [Session -> Operating] /\ \A t \in Session \ {s} : op'[t] = op[t]
  BY <1>1
<1>3. StoreInv'
  BY LogGrows
<1>4. TypeOK'
  BY <1>2, <1>3 DEF TypeOK, ChainGrows, StoreInv
<1>5. \A t \in Session : PageInv(t)'
  BY <1>2, OtherPage
<1>. QED  BY <1>3, <1>4, <1>5 DEF IInv

LEMMA ChainStays ==
    ASSUME IInv, UNCHANGED chainVars, durable' = durable, faults' = faults \/ Fault
    PROVE  ChainGrows
BY BoundAssumption DEF IInv, TypeOK, chainVars, ChainGrows, Fault

(* A step that writes nothing durable keeps what the log relies on. *)
LEMMA RecordStays ==
    ASSUME IInv, UNCHANGED <<active, receipts, failures, expirations, chainVars, durable>>
    PROVE  RecordInv'
BY DEF IInv, RecordInv, RecordOpen, Open, BytesAccounted, Settled, Tracked,
       ArchivesAgreeWithChain, chainVars

-----------------------------------------------------------------------------
(* The steps of a page that write nothing durable. *)

LEMMA IdleOperating == Idle \in Operating
BY DEF Idle, Operating, Step

(* Moving on, or moving to an answer, with the log and the chain as they are. *)
LEMMA QuietStep ==
    ASSUME IInv, NEW s \in Session, NEW after \in Operating,
           op' = [op EXCEPT ![s] = after],
           UNCHANGED <<storeVars, chainVars, durable>>, faults' = faults \/ Fault,
           PageInv(s)'
    PROVE  IInv'
PROOF
<1>1. ChainGrows
  BY ChainStays
<1>2. RecordInv'
  BY RecordStays DEF storeVars
<1>. QED  BY <1>1, <1>2, ByPage DEF LogSteps

LEMMA QuietFinish ==
    ASSUME IInv, NEW s \in Session, Finish(s),
           UNCHANGED <<storeVars, chainVars, durable>>, faults' = faults \/ Fault
    PROVE  IInv'
PROOF
<1>1. op'[s] = Idle
  BY DEF Finish, IInv, TypeOK
<1>2. PageInv(s)'
  BY <1>1, IdlePage DEF LogSteps
<1>. QED  BY <1>2, IdleOperating, QuietStep DEF Finish

LEMMA DryRunKeeps == ASSUME IInv, NEW s \in Session, NEW p \in Plan, DryRun(s, p) PROVE IInv'
PROOF
<1>. DEFINE after == At("evidence", active.revision, p, 0)
<1>0. active.revision \in Nat /\ op \in [Session -> Operating]
  BY DEF IInv, TypeOK, StoreTypeOK, Record
<1>1. after \in Operating
  BY <1>0 DEF At, Operating, Step
<1>2. op'[s] = after
  BY <1>0 DEF DryRun
<1>3. PageInv(s)'
  BY <1>0, <1>2 DEF DryRun, At, storeVars, PageInv, Behind, CurrentRelies, AnswerTrue,
                    CheckedStillOpen, SendsDurable, Returning, Asking, QueryStatus
<1>. QED  BY <1>1, <1>3, QuietStep DEF DryRun

LEMMA CheckArchivesKeeps == ASSUME IInv, NEW s \in Session, CheckArchives(s) PROVE IInv'
PROOF
<1>0. op \in [Session -> Operating] /\ PageInv(s)
  BY DEF IInv, TypeOK
<1>1. CASE Finish(s)
  BY <1>1, QuietFinish DEF CheckArchives
<1>2. CASE Open(op[s].plan) /\ Goto(s, "checked")
  <2>. DEFINE after == [op[s] EXCEPT !.pc = "checked"]
  <2>1. after \in Operating /\ op' = [op EXCEPT ![s] = after] /\ op'[s] = after
    BY <1>0, <1>2 DEF Goto, Operating, Step
  <2>2. PageInv(s)'
    BY <1>0, <1>2, <2>1
    DEF CheckArchives, storeVars, PageInv, Behind, CurrentRelies, AnswerTrue, Open, Operating,
        CheckedStillOpen, SendsDurable, Returning, Asking, QueryStatus
  <2>. QED  BY <2>1, <2>2, QuietStep DEF CheckArchives
<1>. QED  BY <1>1, <1>2 DEF CheckArchives, Open

LEMMA DropEvidenceKeeps == ASSUME IInv, NEW s \in Session, DropEvidence(s) PROVE IInv'
BY QuietFinish DEF DropEvidence

LEMMA LeaveNotFoundKeeps == ASSUME IInv, NEW s \in Session, LeaveNotFound(s) PROVE IInv'
BY QuietFinish DEF LeaveNotFound

LEMMA LoseRaceKeeps == ASSUME IInv, NEW s \in Session, LoseRace(s) PROVE IInv'
BY QuietFinish DEF LoseRace

LEMMA AbandonKeeps == ASSUME IInv, NEW s \in Session, Abandon(s) PROVE IInv'
BY QuietFinish DEF Abandon

(* A page that moves on to pc keeps the plan and the revision it read. *)
LEMMA MovesOn ==
    ASSUME IInv, NEW s \in Session, NEW pc \in Step, NEW mark \in Nat,
           op' = [op EXCEPT ![s] = [@ EXCEPT !.pc = pc, !.mark = mark]],
           UNCHANGED <<storeVars, chainVars, durable, faults>>,
           op[s].pc \in Returning, pc \in Returning, pc # "ack",
           Current(s) => Relies(s)', AnswerTrue(s)'
    PROVE  IInv'
PROOF
<1>. DEFINE after == [op[s] EXCEPT !.pc = pc, !.mark = mark]
<1>0. op \in [Session -> Operating] /\ PageInv(s)
  BY DEF IInv, TypeOK
<1>1. after \in Operating /\ op' = [op EXCEPT ![s] = after] /\ op'[s] = after
  BY <1>0 DEF Operating
<1>2. /\ op[s].pc # "idle"
      /\ pc \notin {"idle", "checked", "send", "ack"}
  BY DEF Returning, Asking, QueryStatus
<1>3. Behind(s)' /\ CheckedStillOpen(s)' /\ SendsDurable(s)'
  BY <1>0, <1>1, <1>2 DEF PageInv, Behind, CheckedStillOpen, SendsDurable, storeVars, Operating
<1>4. CurrentRelies(s)'
  BY <1>0, <1>1 DEF CurrentRelies, Current, storeVars, Operating
<1>5. PageInv(s)'
  BY <1>3, <1>4 DEF PageInv
<1>. QED  BY <1>1, <1>5, QuietStep

LEMMA GotoMoves ==
    ASSUME IInv, NEW s \in Session, NEW pc \in Step, Goto(s, pc)
    PROVE  /\ op[s].mark \in Nat /\ op[s].revision \in Nat
           /\ op' = [op EXCEPT ![s] = [@ EXCEPT !.pc = pc, !.mark = op[s].mark]]
           /\ op'[s] = [op[s] EXCEPT !.pc = pc]
PROOF
<1>0. op \in [Session -> Operating]
  BY DEF IInv, TypeOK
<1>1. op[s] \in Operating
  BY <1>0
<1>2. [op[s] EXCEPT !.pc = pc] = [op[s] EXCEPT !.pc = pc, !.mark = op[s].mark]
  BY <1>1 DEF Operating
<1>. QED  BY <1>0, <1>1, <1>2 DEF Goto, Operating

LEMMA WalletSignsKeeps == ASSUME IInv, NEW s \in Session, WalletSigns(s) PROVE IInv'
PROOF
<1>1. "signed" \in Step /\ "signed" \in Returning /\ op[s].pc \in Returning
  BY DEF Step, Returning, WalletSigns
<1>2. /\ op[s].mark \in Nat
      /\ op' = [op EXCEPT ![s] = [@ EXCEPT !.pc = "signed", !.mark = op[s].mark]]
      /\ op'[s] = [op[s] EXCEPT !.pc = "signed"]
  BY <1>1, GotoMoves DEF WalletSigns
<1>3. Current(s) => Relies(s)'
  <2>. SUFFICES ASSUME Current(s) PROVE Relies(s)'
    OBVIOUS
  <2>1. Relies(s) /\ op[s] \in Operating
    BY <1>1, Reliable DEF IInv, TypeOK
  <2>. QED  BY <1>2, <2>1 DEF Relies, WalletSigns, storeVars, Asking, QueryStatus, Operating
<1>4. AnswerTrue(s)'
  <2>1. op[s] \in Operating
    BY DEF IInv, TypeOK
  <2>. QED  BY <1>2, <2>1 DEF AnswerTrue, Operating
<1>. QED  BY <1>1, <1>2, <1>3, <1>4, MovesOn DEF WalletSigns

(* A page that opens an operation on the record it has just loaded. *)
LEMMA OpensOn ==
    ASSUME IInv, NEW s \in Session, NEW pc \in {"confirm", "firstRead"},
           active.plan \in Plan,
           op' = [op EXCEPT ![s] = At(pc, active.revision, active.plan, 0)],
           UNCHANGED <<storeVars, chainVars, durable, faults>>,
           pc = "confirm" => active.state = "AWAITING_SIGNATURE" /\ leaseOver,
           pc = "firstRead" => active.state \in Recoverable
    PROVE  IInv'
PROOF
<1>. DEFINE after == At(pc, active.revision, active.plan, 0)
<1>0. op \in [Session -> Operating] /\ active.revision \in Nat
  BY DEF IInv, TypeOK, StoreTypeOK, Record
<1>1. after \in Operating /\ op'[s] = after
  BY <1>0 DEF At, Operating, Step, Returning, Asking
<1>2. Relies(s)'
  BY <1>1 DEF At, Relies, storeVars, Asking, QueryStatus
<1>3. PageInv(s)'
  BY <1>0, <1>1, <1>2 DEF At, storeVars, PageInv, Behind, CurrentRelies, AnswerTrue,
                          CheckedStillOpen, SendsDurable
<1>. QED  BY <1>1, <1>3, QuietStep

LEMMA AskNoArtifactKeeps == ASSUME IInv, NEW s \in Session, AskNoArtifact(s) PROVE IInv'
PROOF
<1>1. active.plan \in Plan
  BY Written DEF AskNoArtifact, WellFormed, Record, TombstoneState
<1>. QED  BY <1>1, OpensOn DEF AskNoArtifact

LEMMA StartRecoverKeeps == ASSUME IInv, NEW s \in Session, StartRecover(s) PROVE IInv'
PROOF
<1>1. active.plan \in Plan
  BY Written DEF StartRecover, WellFormed, Record, TombstoneState, Recoverable
<1>. QED  BY <1>1, OpensOn DEF StartRecover

(* The three reads of a query. *)
LEMMA QueryMoves ==
    ASSUME IInv, NEW s \in Session, op[s].pc \in Asking,
           NEW pc \in {"watermark", "secondRead"} \cup QueryStatus, NEW mark \in Nat,
           op' = [op EXCEPT ![s] = [@ EXCEPT !.pc = pc, !.mark = mark]],
           UNCHANGED <<storeVars, chainVars, durable, faults>>,
           AnswerTrue(s)'
    PROVE  IInv'
PROOF
<1>1. /\ pc \in Step /\ pc \in Returning /\ pc # "ack" /\ op[s].pc \in Returning
  BY DEF Step, Returning, Asking, QueryStatus
<1>2. op[s] \in Operating /\ op'[s] = [op[s] EXCEPT !.pc = pc, !.mark = mark]
  BY DEF IInv, TypeOK
<1>3. Current(s) => Relies(s)'
  <2>. SUFFICES ASSUME Current(s) PROVE Relies(s)'
    OBVIOUS
  <2>1. Relies(s)
    BY <1>1, Reliable
  <2>2. op'[s].pc = pc /\ op'[s].plan = op[s].plan
    BY <1>2 DEF Operating
  <2>. QED  BY <2>1, <2>2 DEF Relies, storeVars, Asking, QueryStatus
<1>. QED  BY <1>1, <1>3, MovesOn

LEMMA FirstReadKeeps == ASSUME IInv, NEW s \in Session, FirstRead(s) PROVE IInv'
PROOF
<1>1. op[s].plan \in Plan /\ op[s] \in Operating /\ op[s].pc \in Asking
  BY Reliable DEF FirstRead, IInv, TypeOK, PageInv, Behind, Asking
<1>2. ASSUME NEW pc \in {"watermark", "PENDING", "FINALIZED_SUCCESS", "FINALIZED_FAILURE"},
             Goto(s, pc), pc = "FINALIZED_SUCCESS" => fate[op[s].plan] = "success",
             pc = "FINALIZED_FAILURE" => fate[op[s].plan] = "failure"
      PROVE  IInv'
  <2>1. pc \in Step
    BY DEF Step, Returning, Asking, QueryStatus
  <2>2. /\ op[s].mark \in Nat
        /\ op' = [op EXCEPT ![s] = [@ EXCEPT !.pc = pc, !.mark = op[s].mark]]
        /\ op'[s] = [op[s] EXCEPT !.pc = pc]
    BY <1>2, <2>1, GotoMoves
  <2>3. AnswerTrue(s)'
    BY <1>1, <1>2, <2>2 DEF AnswerTrue, FirstRead, chainVars, Operating
  <2>4. pc \in {"watermark", "secondRead"} \cup QueryStatus
    BY DEF QueryStatus
  <2>. QED  BY <1>1, <2>2, <2>3, <2>4, QueryMoves DEF FirstRead
<1>3. fate[op[s].plan] \in {"none", "success", "failure"}
  BY <1>1 DEF IInv, TypeOK
<1>4. CASE fate[op[s].plan] # "none" /\ Goto(s, Finalized(op[s].plan))
  BY <1>2, <1>3, <1>4 DEF Finalized
<1>. QED  BY <1>2, <1>4 DEF FirstRead

LEMMA ReadWatermarkKeeps == ASSUME IInv, NEW s \in Session, ReadWatermark(s) PROVE IInv'
PROOF
<1>1. op[s].pc \in Asking /\ op[s] \in Operating /\ epoch \in Nat
  BY DEF ReadWatermark, Asking, IInv, TypeOK
<1>2. op' = [op EXCEPT ![s] = [@ EXCEPT !.pc = "secondRead", !.mark = epoch]]
  BY DEF ReadWatermark
<1>3. op'[s] = [op[s] EXCEPT !.pc = "secondRead", !.mark = epoch]
  BY <1>2 DEF IInv, TypeOK
<1>4. AnswerTrue(s)'
  <2>1. op'[s].pc = "secondRead" /\ op'[s].mark = epoch /\ epoch' = epoch
    BY <1>1, <1>3 DEF ReadWatermark, chainVars, Operating
  <2>. QED  BY <1>1, <2>1 DEF AnswerTrue
<1>. QED  BY <1>1, <1>2, <1>4, QueryMoves DEF ReadWatermark

LEMMA SecondReadKeeps == ASSUME IInv, NEW s \in Session, SecondRead(s) PROVE IInv'
PROOF
<1>. USE PlanAssumption
<1>1. /\ op[s].plan \in Plan /\ op[s] \in Operating /\ op[s].pc \in Asking
      /\ op[s].mark <= epoch /\ epoch \in Nat
  BY DEF SecondRead, IInv, TypeOK, PageInv, Behind, AnswerTrue, Asking
<1>2. ASSUME NEW pc \in {"NOT_FOUND", "FINALIZED_SUCCESS", "FINALIZED_FAILURE"},
             Goto(s, pc), pc = "FINALIZED_SUCCESS" => fate[op[s].plan] = "success",
             pc = "FINALIZED_FAILURE" => fate[op[s].plan] = "failure",
             pc = "NOT_FOUND" => fate[op[s].plan] = "none"
      PROVE  IInv'
  <2>1. pc \in Step
    BY DEF Step, Returning, Asking, QueryStatus
  <2>2. /\ op[s].mark \in Nat
        /\ op' = [op EXCEPT ![s] = [@ EXCEPT !.pc = pc, !.mark = op[s].mark]]
        /\ op'[s] = [op[s] EXCEPT !.pc = pc]
    BY <1>2, <2>1, GotoMoves
  <2>3. AnswerTrue(s)'
    BY <1>1, <1>2, <2>2 DEF AnswerTrue, SecondRead, chainVars, Operating
  <2>4. pc \in {"watermark", "secondRead"} \cup QueryStatus
    BY DEF QueryStatus
  <2>. QED  BY <1>1, <2>2, <2>3, <2>4, QueryMoves DEF SecondRead
<1>3. fate[op[s].plan] \in {"none", "success", "failure"}
  BY <1>1 DEF IInv, TypeOK
<1>4. CASE fate[op[s].plan] # "none" /\ Goto(s, Finalized(op[s].plan))
  BY <1>2, <1>3, <1>4 DEF Finalized
<1>5. CASE fate[op[s].plan] = "none" /\ Goto(s, "NOT_FOUND")
  BY <1>2, <1>5
<1>. QED  BY <1>4, <1>5 DEF SecondRead

LEMMA BroadcastKeeps == ASSUME IInv, NEW s \in Session, Broadcast(s) PROVE IInv'
PROOF
<1>. DEFINE after == [op[s] EXCEPT !.pc = "ack"]
<1>1. op[s] \in Operating /\ op[s].plan \in Plan /\ PageInv(s) /\ op[s].plan \in durable
  BY DEF Broadcast, IInv, TypeOK, PageInv, Behind, SendsDurable
<1>2. after \in Operating /\ op' = [op EXCEPT ![s] = after] /\ op'[s] = after
  BY <1>1 DEF Broadcast, Goto, Operating, Step, Returning, IInv, TypeOK
<1>3. ChainGrows
  BY <1>1 DEF Broadcast, ChainGrows, IInv, TypeOK
<1>4. PageInv(s)'
  BY <1>1, <1>2 DEF Broadcast, PageInv, Behind, CurrentRelies, Current, Relies, AnswerTrue,
                    CheckedStillOpen, SendsDurable, Operating, storeVars, Asking, QueryStatus
<1>5. RecordInv'
  <2>1. BytesAccounted'
    BY <1>1 DEF Broadcast, storeVars, IInv, TypeOK, RecordInv, BytesAccounted, Settled, Tracked
  <2>2. RecordOpen' /\ ArchivesAgreeWithChain'
    BY DEF Broadcast, storeVars, IInv, RecordInv, RecordOpen, Open, ArchivesAgreeWithChain
  <2>. QED  BY <2>1, <2>2 DEF RecordInv
<1>. QED  BY <1>2, <1>3, <1>4, <1>5, ByPage DEF Broadcast, LogSteps

-----------------------------------------------------------------------------
(* The steps of a page that write the log. *)

LEMMA WriteFinishes ==
    ASSUME IInv, NEW s \in Session, Finish(s), Commit, ChainGrows, RecordInv'
    PROVE  IInv'
PROOF
<1>1. op'[s] = Idle /\ op' = [op EXCEPT ![s] = Idle]
  BY DEF Finish, IInv, TypeOK
<1>2. PageInv(s)'
  BY <1>1, IdlePage DEF LogSteps
<1>. QED  BY <1>1, <1>2, IdleOperating, ByPage DEF LogSteps

LEMMA WriteIdles ==
    ASSUME IInv, NEW s \in Session, op[s] = Idle, op' = op, Commit, ChainGrows, RecordInv'
    PROVE  IInv'
PROOF
<1>1. op'[s] = Idle /\ op' = [op EXCEPT ![s] = Idle]
  BY DEF IInv, TypeOK
<1>2. PageInv(s)'
  BY <1>1, IdlePage DEF LogSteps
<1>. QED  BY <1>1, <1>2, IdleOperating, ByPage DEF LogSteps

(* The write leaves page s at pc with the record it wrote. *)
LEMMA WriteContinues ==
    ASSUME IInv, NEW s \in Session, Commit, ChainGrows, RecordInv',
           NEW pc \in {"wallet", "readback", "decide", "send"}, NEW mark \in Nat,
           active.plan \in Plan,
           op' = [op EXCEPT ![s] = At(pc, active.revision + 1, active.plan, mark)],
           Relies(s)', AnswerTrue(s)', SendsDurable(s)'
    PROVE  IInv'
PROOF
<1>. DEFINE after == At(pc, active.revision + 1, active.plan, mark)
<1>0. active.revision \in Nat /\ active'.revision = active.revision + 1
  BY CommitAdvances
<1>1. after \in Operating /\ op'[s] = after
  BY <1>0 DEF At, Operating, Step, Returning, IInv, TypeOK
<1>2. Behind(s)' /\ CurrentRelies(s)' /\ CheckedStillOpen(s)'
  BY <1>0, <1>1 DEF At, Behind, CurrentRelies, CheckedStillOpen
<1>3. PageInv(s)'
  BY <1>2 DEF PageInv
<1>. QED  BY <1>1, <1>3, ByPage DEF LogSteps

(* A write that keeps the plan, signed or not, and the archives. *)
LEMMA PlanKept ==
    ASSUME IInv, active.state \in (UnsignedState \cup SignedState) \ {"FINALIZED_FAILURE"},
           active'.state \in (UnsignedState \cup SignedState) \ {"FINALIZED_FAILURE"},
           active.state \in SignedState <=> active'.state \in SignedState,
           active'.plan = active.plan,
           active'.state = "VERIFIED" => fate[active.plan] = "success",
           UNCHANGED <<receipts, failures, expirations, chainVars, durable>>
    PROVE  RecordInv'
BY DEF IInv, RecordInv, RecordOpen, Open, BytesAccounted, Settled, Tracked,
       ArchivesAgreeWithChain, chainVars

LEMMA RequestKeeps == ASSUME IInv, NEW s \in Session, RequestSignature(s) PROVE IInv'
PROOF
<1>. DEFINE next == [NextRecord(s, "AWAITING_SIGNATURE") EXCEPT
                      !.owner = s, !.disp = "REQUEST_IN_FLIGHT"]
<1>1. active \in Record /\ active.state = "READY" /\ active.plan \in Plan
  BY Written DEF RequestSignature, WellFormed, Record, TombstoneState
<1>2. active' = next /\ UNCHANGED <<receipts, failures, expirations>>
  BY DEF RequestSignature, Put
<1>3. /\ active'.state = "AWAITING_SIGNATURE" /\ active'.plan = active.plan
      /\ active'.owner = s /\ active'.disp = "REQUEST_IN_FLIGHT"
  BY <1>1, <1>2 DEF NextRecord, Record
<1>4. RecordInv'
  BY <1>1, <1>2, <1>3, PlanKept DEF RequestSignature, UnsignedState, SignedState
<1>5. Commit /\ ChainGrows
  BY RequestCommits, ChainStays DEF RequestSignature
<1>6. op'[s] = At("wallet", active.revision + 1, active.plan, 0)
  BY DEF RequestSignature, IInv, TypeOK
<1>7. Relies(s)' /\ AnswerTrue(s)' /\ SendsDurable(s)'
  BY <1>3, <1>6 DEF At, Relies, AnswerTrue, SendsDurable, Asking, QueryStatus
<1>. QED  BY <1>1, <1>4, <1>5, <1>7, WriteContinues DEF RequestSignature

LEMMA WalletFailsKeeps ==
    ASSUME IInv, NEW s \in Session, NEW disp \in Disposition, WalletFails(s, disp)
    PROVE  IInv'
PROOF
<1>1. active.state = "AWAITING_SIGNATURE" /\ active \in Record
  BY Reliable DEF WalletFails, Returning, Relies, IInv, TypeOK, StoreTypeOK
<1>2. /\ active'.state = "AWAITING_SIGNATURE" /\ active'.plan = active.plan
      /\ UNCHANGED <<receipts, failures, expirations>>
  BY <1>1 DEF WalletFails, Put, NextRecord, Record
<1>3. RecordInv'
  BY <1>1, <1>2, PlanKept DEF WalletFails, UnsignedState, SignedState
<1>4. Commit /\ ChainGrows
  BY WalletFailsCommits, ChainStays DEF WalletFails
<1>. QED  BY <1>3, <1>4, WriteFinishes DEF WalletFails

LEMMA PersistKeeps == ASSUME IInv, NEW s \in Session, PersistSignature(s) PROVE IInv'
PROOF
<1>1. /\ active.state = "AWAITING_SIGNATURE" /\ active \in Record
      /\ active.plan = op[s].plan /\ op[s].plan \in Plan
  BY Reliable DEF PersistSignature, Returning, Relies, IInv, TypeOK, StoreTypeOK
<1>2. /\ active'.state = "SIGNED_DURABLE" /\ active'.plan = active.plan
      /\ UNCHANGED <<receipts, failures, expirations>>
  BY <1>1 DEF PersistSignature, Put, NextRecord, NoRequest, Record
<1>3. RecordInv'
  BY <1>1, <1>2 DEF PersistSignature, IInv, RecordInv, RecordOpen, Open, BytesAccounted,
     Settled, Tracked, ArchivesAgreeWithChain, chainVars, UnsignedState, SignedState
<1>4. Commit
  BY PersistCommits
<1>5. ChainGrows
  BY <1>1 DEF PersistSignature, chainVars, ChainGrows, IInv, TypeOK
<1>. QED  BY <1>3, <1>4, <1>5, WriteFinishes DEF PersistSignature

LEMMA ReclaimKeeps == ASSUME IInv, NEW s \in Session, ReclaimAwaitingSignature(s) PROVE IInv'
PROOF
<1>1. active.state = "AWAITING_SIGNATURE" /\ active \in Record
  BY Reliable DEF ReclaimAwaitingSignature, Returning, Relies, IInv, TypeOK, StoreTypeOK
<1>2. /\ active'.state = "READY" /\ active'.plan = active.plan
      /\ UNCHANGED <<receipts, failures, expirations>>
  BY <1>1 DEF ReclaimAwaitingSignature, Put, NextRecord, NoRequest, Record
<1>3. RecordInv'
  BY <1>1, <1>2, PlanKept DEF ReclaimAwaitingSignature, UnsignedState, SignedState
<1>4. Commit /\ ChainGrows
  BY ReclaimCommits, ChainStays DEF ReclaimAwaitingSignature
<1>. QED  BY <1>3, <1>4, WriteFinishes DEF ReclaimAwaitingSignature

LEMMA QueryFailsKeeps == ASSUME IInv, NEW s \in Session, QueryFails(s) PROVE IInv'
PROOF
<1>1. active.state \in Recoverable /\ active \in Record
  BY Reliable DEF QueryFails, Returning, Asking, Relies, IInv, TypeOK, StoreTypeOK
<1>2. /\ active'.state \in {"SIGNED_DURABLE", "OUTCOME_PENDING"}
      /\ active'.plan = active.plan
      /\ UNCHANGED <<receipts, failures, expirations>>
  BY <1>1 DEF QueryFails, Put, NextRecord, Record, Recoverable
<1>3. RecordInv'
  BY <1>1, <1>2, PlanKept DEF QueryFails, UnsignedState, SignedState, Recoverable
<1>4. Commit /\ ChainGrows
  BY QueryFailsCommits, ChainStays DEF QueryFails
<1>. QED  BY <1>3, <1>4, WriteFinishes DEF QueryFails

LEMMA ArchiveKeeps == ASSUME IInv, NEW s \in Session, ArchiveFailure(s) PROVE IInv'
PROOF
<1>1. /\ active.state \in Recoverable /\ active \in Record
      /\ active.plan = op[s].plan /\ op[s].plan \in Plan
  BY Reliable DEF ArchiveFailure, Returning, QueryStatus, Relies, IInv, TypeOK, StoreTypeOK
<1>2. fate[active.plan] = "failure"
  BY <1>1 DEF ArchiveFailure, IInv, PageInv, AnswerTrue
<1>3. /\ active'.state = "FINALIZED_FAILURE" /\ active'.plan = active.plan
      /\ failures' = failures \cup {active.plan}
      /\ UNCHANGED <<receipts, expirations>>
  BY <1>1 DEF ArchiveFailure, Put, NextRecord, Answered, Record
<1>4. RecordInv'
  BY <1>1, <1>2, <1>3 DEF ArchiveFailure, IInv, RecordInv, RecordOpen, BytesAccounted, Settled,
     Tracked, ArchivesAgreeWithChain, chainVars, SignedState, Recoverable
<1>5. Commit /\ ChainGrows
  BY ArchiveCommits, ChainStays DEF ArchiveFailure
<1>. QED  BY <1>4, <1>5, WriteFinishes DEF ArchiveFailure

LEMMA SaveAnswerKeeps ==
    ASSUME IInv, NEW s \in Session,
           \/ SaveSuccess(s) \/ SavePending(s) \/ SaveNotFound(s)
    PROVE  IInv'
PROOF
<1>0. PICK status \in QueryStatus, mark \in Nat, pc \in {"readback", "idle", "decide"} :
          /\ SaveAnswer(s, status, mark, pc)
          /\ pc = "readback" => status = "FINALIZED_SUCCESS"
          /\ pc = "decide" => status = "NOT_FOUND" /\ mark = op[s].mark
  BY DEF SaveSuccess, SavePending, SaveNotFound, QueryStatus, IInv, TypeOK, Operating
<1>1. /\ active.state \in Recoverable /\ active \in Record
      /\ active.plan = op[s].plan /\ op[s].plan \in Plan
  BY <1>0, Reliable DEF SaveAnswer, Returning, Relies, IInv, TypeOK, StoreTypeOK
<1>2. /\ active'.state = "OUTCOME_PENDING" /\ active'.plan = active.plan
      /\ active'.query = status
      /\ UNCHANGED <<receipts, failures, expirations>>
  BY <1>0, <1>1 DEF SaveAnswer, Put, NextRecord, Answered, Record
<1>3. RecordInv'
  BY <1>0, <1>1, <1>2, PlanKept DEF SaveAnswer, UnsignedState, SignedState, Recoverable
<1>4. Commit /\ ChainGrows
  BY <1>0, SaveAnswerCommits, ChainStays DEF SaveAnswer
<1>5. CASE pc = "idle"
  <2>1. Finish(s)
    BY <1>0, <1>5 DEF SaveAnswer, Finish
  <2>. QED  BY <1>3, <1>4, <2>1, WriteFinishes
<1>6. CASE pc \in {"readback", "decide"}
  <2>1. op' = [op EXCEPT ![s] = At(pc, active.revision + 1, active.plan, mark)]
    BY <1>0, <1>1, <1>6 DEF SaveAnswer
  <2>2. op'[s] = At(pc, active.revision + 1, active.plan, mark)
    BY <2>1 DEF IInv, TypeOK
  <2>3. Relies(s)' /\ SendsDurable(s)'
    BY <1>0, <1>2, <1>6, <2>2 DEF At, Relies, SendsDurable, Asking, QueryStatus
  <2>4. AnswerTrue(s)
    BY DEF IInv, PageInv
  <2>5. AnswerTrue(s)'
    BY <1>0, <1>1, <1>6, <2>2, <2>4 DEF At, AnswerTrue, SaveAnswer, chainVars
  <2>. QED  BY <1>1, <1>3, <1>4, <1>6, <2>1, <2>3, <2>5, WriteContinues
<1>. QED  BY <1>5, <1>6

LEMMA VerifyKeeps == ASSUME IInv, NEW s \in Session, Verify(s) PROVE IInv'
PROOF
<1>1. active.state = "OUTCOME_PENDING" /\ active \in Record /\ active.plan = op[s].plan
  BY Reliable DEF Verify, Returning, Relies, IInv, TypeOK, StoreTypeOK
<1>2. fate[active.plan] = "success"
  BY <1>1 DEF Verify, IInv, PageInv, AnswerTrue
<1>3. /\ active'.state = "VERIFIED" /\ active'.plan = active.plan
      /\ UNCHANGED <<receipts, failures, expirations>>
  BY <1>1 DEF Verify, Put, NextRecord, Record
<1>4. RecordInv'
  BY <1>1, <1>2, <1>3, PlanKept DEF Verify, UnsignedState, SignedState
<1>5. Commit /\ ChainGrows
  BY VerifyCommits, ChainStays DEF Verify
<1>. QED  BY <1>4, <1>5, WriteFinishes DEF Verify

LEMMA ReadbackFailsKeeps == ASSUME IInv, NEW s \in Session, ReadbackFails(s) PROVE IInv'
PROOF
<1>1. active.state = "OUTCOME_PENDING" /\ active \in Record
  BY Reliable DEF ReadbackFails, Returning, Relies, IInv, TypeOK, StoreTypeOK
<1>2. /\ active'.state = "OUTCOME_PENDING" /\ active'.plan = active.plan
      /\ UNCHANGED <<receipts, failures, expirations>>
  BY <1>1 DEF ReadbackFails, Put, NextRecord, Record
<1>3. RecordInv'
  BY <1>1, <1>2, PlanKept DEF ReadbackFails, UnsignedState, SignedState
<1>4. Commit /\ ChainGrows
  BY ReadbackFailsCommits, ChainStays DEF ReadbackFails
<1>. QED  BY <1>3, <1>4, WriteFinishes DEF ReadbackFails

LEMMA AcknowledgeKeeps == ASSUME IInv, NEW s \in Session, Acknowledge(s) PROVE IInv'
PROOF
<1>1. active.state = "BROADCASTING" /\ active \in Record
  BY Reliable DEF Acknowledge, Returning, Relies, IInv, TypeOK, StoreTypeOK
<1>2. /\ active'.state = "OUTCOME_PENDING" /\ active'.plan = active.plan
      /\ UNCHANGED <<receipts, failures, expirations>>
  BY <1>1 DEF Acknowledge, Put, NextRecord, Answered, Record
<1>3. RecordInv'
  BY <1>1, <1>2, PlanKept DEF Acknowledge, UnsignedState, SignedState
<1>4. Commit /\ ChainGrows
  BY AcknowledgeCommits, ChainStays DEF Acknowledge
<1>. QED  BY <1>3, <1>4, WriteFinishes DEF Acknowledge

LEMMA AmbiguousKeeps == ASSUME IInv, NEW s \in Session, BroadcastAmbiguous(s) PROVE IInv'
PROOF
<1>1. active.state = "BROADCASTING" /\ active \in Record
  BY Reliable DEF BroadcastAmbiguous, Returning, Relies, IInv, TypeOK, StoreTypeOK
<1>2. /\ active'.state = "OUTCOME_PENDING" /\ active'.plan = active.plan
      /\ UNCHANGED <<receipts, failures, expirations>>
  BY <1>1 DEF BroadcastAmbiguous, Put, NextRecord, Record
<1>3. RecordInv'
  BY <1>1, <1>2, PlanKept DEF BroadcastAmbiguous, UnsignedState, SignedState
<1>4. Commit /\ ChainGrows
  BY AmbiguousCommits, ChainStays DEF BroadcastAmbiguous
<1>. QED  BY <1>3, <1>4, WriteFinishes DEF BroadcastAmbiguous

LEMMA ExpireKeeps == ASSUME IInv, NEW s \in Session, Expire(s) PROVE IInv'
PROOF
<1>1. /\ active.state = "OUTCOME_PENDING" /\ active \in Record
      /\ active.plan = op[s].plan /\ op[s].plan \in Plan
  BY Reliable DEF Expire, Returning, Relies, IInv, TypeOK, StoreTypeOK
<1>2. fate[active.plan] = "none" /\ epoch > Expiration[active.plan]
  BY <1>1 DEF Expire, Expired, IInv, PageInv, AnswerTrue
<1>3. /\ active'.state = "EXPIRED_NOT_FOUND"
      /\ expirations' = expirations \cup {active.plan}
      /\ UNCHANGED <<receipts, failures>>
  BY <1>1 DEF Expire, Put, NextRecord, Tombstone, Record
<1>4. RecordInv'
  BY <1>1, <1>2, <1>3 DEF Expire, IInv, RecordInv, RecordOpen, BytesAccounted, Settled,
     Tracked, ArchivesAgreeWithChain, chainVars, SignedState, UnsignedState
<1>5. Commit /\ ChainGrows
  BY ExpireCommits, ChainStays DEF Expire
<1>. QED  BY <1>4, <1>5, WriteFinishes DEF Expire

LEMMA MarkKeeps == ASSUME IInv, NEW s \in Session, MarkBroadcasting(s) PROVE IInv'
PROOF
<1>1. /\ active.state = "OUTCOME_PENDING" /\ active \in Record
      /\ active.plan = op[s].plan /\ op[s].plan \in Plan
  BY Reliable DEF MarkBroadcasting, Returning, Relies, IInv, TypeOK, StoreTypeOK
<1>2. /\ active'.state = "BROADCASTING" /\ active'.plan = active.plan
      /\ UNCHANGED <<receipts, failures, expirations>>
  BY <1>1 DEF MarkBroadcasting, Put, NextRecord, Record
<1>3. RecordInv'
  BY <1>1, <1>2, PlanKept DEF MarkBroadcasting, UnsignedState, SignedState
<1>4. Commit /\ ChainGrows
  BY MarkCommits, ChainStays DEF MarkBroadcasting
<1>5. op' = [op EXCEPT ![s] = At("send", active.revision + 1, active.plan, 0)]
  BY <1>1 DEF MarkBroadcasting
<1>6. op'[s] = At("send", active.revision + 1, active.plan, 0)
  BY <1>5 DEF IInv, TypeOK
<1>7. active.plan \in durable
  BY <1>1 DEF IInv, RecordInv, BytesAccounted, SignedState
<1>8. Relies(s)' /\ AnswerTrue(s)' /\ SendsDurable(s)'
  BY <1>2, <1>6, <1>7 DEF MarkBroadcasting, At, Relies, AnswerTrue, SendsDurable, Asking, QueryStatus
<1>. QED  BY <1>1, <1>3, <1>4, <1>5, <1>8, WriteContinues

LEMMA CleanupKeeps == ASSUME IInv, NEW s \in Session, CleanupVerified(s) PROVE IInv'
PROOF
<1>. USE PlanAssumption
<1>1. /\ active.state = "VERIFIED" /\ active \in Record
      /\ active.plan \in Plan /\ active.proof = active.plan
  BY Written DEF CleanupVerified, WellFormed, Record, TombstoneState
<1>2. fate[active.plan] = "success" /\ Open(active.plan)
  BY <1>1 DEF IInv, RecordInv, ArchivesAgreeWithChain, RecordOpen, SignedState
<1>3. /\ active'.state = "CLEANED"
      /\ receipts' = [receipts EXCEPT ![IdentityOf[active.plan]] = active.plan]
      /\ UNCHANGED <<failures, expirations>>
  BY <1>1 DEF CleanupVerified, Put, NextRecord, Tombstone, Record
<1>4. receipts \in [Identity -> Plan \cup {NoPlan}]
  BY DEF IInv, TypeOK, StoreTypeOK
<1>5. \A p \in Plan : receipts[IdentityOf[p]] = p => receipts'[IdentityOf[p]] = p
  BY <1>1, <1>2, <1>3, <1>4 DEF Open
<1>6. RecordInv'
  <2>1. RecordOpen'
    BY <1>3 DEF RecordOpen, SignedState, UnsignedState
  <2>2. BytesAccounted'
    BY <1>1, <1>3, <1>4, <1>5 DEF CleanupVerified, IInv, TypeOK, RecordInv, BytesAccounted,
       Settled, Tracked, SignedState, chainVars
  <2>3. ArchivesAgreeWithChain'
    BY <1>1, <1>2, <1>3, <1>4 DEF CleanupVerified, IInv, RecordInv, ArchivesAgreeWithChain, chainVars
  <2>. QED  BY <2>1, <2>2, <2>3 DEF RecordInv
<1>7. Commit /\ ChainGrows
  BY CleanupCommits, ChainStays DEF CleanupVerified
<1>. QED  BY <1>6, <1>7, WriteIdles DEF CleanupVerified

LEMMA DiscardKeeps == ASSUME IInv, NEW s \in Session, DiscardUnsigned(s) PROVE IInv'
PROOF
<1>1. active.state = "READY" /\ active \in Record
  BY DEF DiscardUnsigned, IInv, TypeOK, StoreTypeOK
<1>2. active'.state = "DISCARDED" /\ UNCHANGED <<receipts, failures, expirations>>
  BY <1>1 DEF DiscardUnsigned, Put, NextRecord, Tombstone, Record
<1>3. RecordInv'
  BY <1>1, <1>2 DEF DiscardUnsigned, IInv, RecordInv, RecordOpen, BytesAccounted, Settled,
     Tracked, ArchivesAgreeWithChain, chainVars, SignedState, UnsignedState
<1>4. Commit /\ ChainGrows
  BY DiscardCommits, ChainStays DEF DiscardUnsigned
<1>. QED  BY <1>3, <1>4, WriteIdles DEF DiscardUnsigned

LEMMA PrepareKeeps == ASSUME IInv, NEW s \in Session, Prepare(s) PROVE IInv'
PROOF
<1>1. op[s].plan \in Plan /\ Open(op[s].plan)
  BY CheckedIsOpen
<1>2. /\ active'.state = "READY" /\ active'.plan = op[s].plan
      /\ UNCHANGED <<receipts, failures, expirations>>
  BY DEF Prepare, PrepareCreate, PrepareReplace, Put, Initial, Absent
<1>3. active.state \in SignedState => active.plan \in failures
  BY DEF Prepare, PrepareCreate, PrepareReplace, Absent, SignedState, TombstoneState
<1>4. RecordInv'
  <2>1. RecordOpen'
    BY <1>1, <1>2 DEF RecordOpen, Open
  <2>2. BytesAccounted'
    BY <1>2, <1>3 DEF Prepare, IInv, RecordInv, BytesAccounted, Settled, Tracked, SignedState, chainVars
  <2>3. ArchivesAgreeWithChain'
    BY <1>2 DEF Prepare, IInv, RecordInv, ArchivesAgreeWithChain, chainVars
  <2>. QED  BY <2>1, <2>2, <2>3 DEF RecordInv
<1>5. Commit /\ ChainGrows
  BY PrepareCommits, ChainStays DEF Prepare
<1>. QED  BY <1>4, <1>5, WriteFinishes DEF Prepare

-----------------------------------------------------------------------------
(* The steps of the chain and of the clock. *)

(* Bytes that are settled cannot execute any more. *)
LEMMA ExecuteIsTracked ==
    ASSUME IInv, NEW p \in Plan, Execute(p)
    PROVE  Tracked(p) /\ active.state # "VERIFIED" /\ p \in durable
PROOF
<1>. USE PlanAssumption
<1>1. /\ p \in durable /\ (Settled(p) \/ Tracked(p)) /\ fate[p] = "none"
      /\ epoch <= Expiration[p] /\ epoch \in Nat
  BY DEF Execute, IInv, TypeOK, RecordInv, BytesAccounted
<1>2. ArchivesAgreeWithChain
  BY DEF IInv, RecordInv
<1>3. receipts[IdentityOf[p]] # p
  <2>. SUFFICES ASSUME receipts[IdentityOf[p]] = p PROVE FALSE
    OBVIOUS
  <2>1. fate[p] = "success"
    BY <1>2 DEF ArchivesAgreeWithChain
  <2>. QED  BY <1>1, <2>1
<1>4. p \notin failures \cup expirations
  BY <1>1, <1>2 DEF ArchivesAgreeWithChain
<1>. QED  BY <1>1, <1>2, <1>3, <1>4 DEF Settled, Tracked, ArchivesAgreeWithChain

LEMMA NoPageSteps ==
    ASSUME IInv, op' = op, LogSteps, ChainGrows, RecordInv'
    PROVE  IInv'
PROOF
<1>1. StoreInv'
  BY LogGrows
<1>2. TypeOK'
  BY <1>1 DEF TypeOK, IInv, ChainGrows, StoreInv
<1>3. \A t \in Session : PageInv(t)'
  BY OtherPage
<1>. QED  BY <1>1, <1>2, <1>3 DEF IInv

LEMMA ExecuteKeeps == ASSUME IInv, NEW p \in Plan, Execute(p) PROVE IInv'
PROOF
<1>1. Tracked(p) /\ active.state # "VERIFIED" /\ p \in durable
  BY ExecuteIsTracked
<1>2. PICK outcome \in {"success", "failure"} : fate' = [fate EXCEPT ![p] = outcome]
  BY DEF Execute
<1>3. ChainGrows
  BY <1>2 DEF Execute, ChainGrows, IInv, TypeOK
<1>4. RecordInv'
  <2>1. RecordOpen'
    BY DEF Execute, storeVars, IInv, RecordInv, RecordOpen, Open
  <2>2. BytesAccounted'
    BY <1>1, <1>2 DEF Execute, storeVars, IInv, TypeOK, RecordInv, BytesAccounted, Settled, Tracked
  <2>3. ArchivesAgreeWithChain'
    <3>1. ArchivesAgreeWithChain /\ UNCHANGED <<storeVars, epoch>>
      BY DEF IInv, RecordInv, Execute
    <3>2. /\ fate[p] = "none" /\ epoch <= Expiration[p]
          /\ fate \in [Plan -> {"none", "success", "failure"}] /\ epoch \in Nat
          /\ receipts \in [Identity -> Plan \cup {NoPlan}]
          /\ failures \subseteq Plan /\ expirations \subseteq Plan
      BY DEF Execute, IInv, TypeOK, StoreTypeOK
    <3>3. \A q \in Plan : q # p => fate'[q] = fate[q]
      BY <1>2, <3>2
    <3>4. p \notin failures /\ p \notin expirations /\ \A i \in Identity : receipts[i] # p
      BY <3>1, <3>2, PlanAssumption DEF ArchivesAgreeWithChain
    <3>. QED  BY <1>1, <3>1, <3>2, <3>3, <3>4 DEF ArchivesAgreeWithChain, storeVars
  <2>. QED  BY <2>1, <2>2, <2>3 DEF RecordInv
<1>. QED  BY <1>3, <1>4, NoPageSteps DEF Execute, LogSteps

LEMMA AdvanceEpochKeeps == ASSUME IInv, AdvanceEpoch PROVE IInv'
PROOF
<1>. USE PlanAssumption
<1>1. ChainGrows
  BY DEF AdvanceEpoch, ChainGrows, IInv, TypeOK
<1>2. RecordInv'
  BY DEF AdvanceEpoch, storeVars, IInv, TypeOK, StoreTypeOK, RecordInv, RecordOpen, Open,
         BytesAccounted, Settled, Tracked, ArchivesAgreeWithChain
<1>. QED  BY <1>1, <1>2, NoPageSteps DEF AdvanceEpoch, LogSteps

LEMMA ClockKeeps == ASSUME IInv, ClockPassesLease PROVE IInv'
PROOF
<1>1. ChainGrows
  BY ChainStays DEF ClockPassesLease
<1>2. RecordInv'
  BY RecordStays DEF ClockPassesLease, LeaseExpires
<1>. QED  BY <1>1, <1>2, NoPageSteps DEF ClockPassesLease, LogSteps

-----------------------------------------------------------------------------
LEMMA PageKeeps == ASSUME IInv, NEW s \in Session, Page(s) PROVE IInv'
PROOF
<1>1. CASE \E p \in Plan : DryRun(s, p)
  BY <1>1, DryRunKeeps
<1>2. CASE CheckArchives(s) \/ Prepare(s) \/ DiscardUnsigned(s)
  BY <1>2, CheckArchivesKeeps, PrepareKeeps, DiscardKeeps
<1>3. CASE RequestSignature(s) \/ AnswerPrompt(s)
  BY <1>3, RequestKeeps, WalletSignsKeeps, WalletFailsKeeps DEF AnswerPrompt
<1>4. CASE AskNoArtifact(s) \/ ReclaimAwaitingSignature(s)
  BY <1>4, AskNoArtifactKeeps, ReclaimKeeps
<1>5. CASE StartRecover(s) \/ Query(s) \/ QueryFails(s)
  BY <1>5, StartRecoverKeeps, FirstReadKeeps, ReadWatermarkKeeps, SecondReadKeeps,
     QueryFailsKeeps DEF Query
<1>6. CASE Settle(s)
  BY <1>6, ArchiveKeeps, SaveAnswerKeeps, VerifyKeeps, ExpireKeeps, LeaveNotFoundKeeps,
     MarkKeeps, BroadcastKeeps, AcknowledgeKeeps, AmbiguousKeeps DEF Settle
<1>7. CASE PersistSignature(s) \/ LoseRace(s) \/ DropEvidence(s)
  BY <1>7, PersistKeeps, LoseRaceKeeps, DropEvidenceKeeps
<1>8. CASE ReadbackFails(s) \/ CleanupVerified(s) \/ Abandon(s)
  BY <1>8, ReadbackFailsKeeps, CleanupKeeps, AbandonKeeps
<1>. QED  BY <1>1, <1>2, <1>3, <1>4, <1>5, <1>6, <1>7, <1>8 DEF Page, Continue

LEMMA StutterKeeps == ASSUME IInv, UNCHANGED vars PROVE IInv'
PROOF
<1>1. ChainGrows
  BY ChainStays DEF vars
<1>2. RecordInv'
  BY RecordStays DEF vars, storeVars
<1>. QED  BY <1>1, <1>2, NoPageSteps DEF vars, LogSteps

LEMMA IInvNext == IInv /\ [Next]_vars => IInv'
BY PageKeeps, ExecuteKeeps, AdvanceEpochKeeps, ClockKeeps, StutterKeeps DEF Next

LEMMA IInvInit == Init => IInv
PROOF
<1>. SUFFICES ASSUME Init PROVE IInv
  OBVIOUS
<1>1. StoreInv
  BY StoreInvInit DEF Init
<1>2. TypeOK
  BY <1>1, IdleOperating DEF Init, TypeOK, StoreInv
<1>3. ASSUME NEW s \in Session PROVE PageInv(s)
  BY DEF Init, StoreInit, Absent, Idle, PageInv, Behind, CurrentRelies, AnswerTrue,
         CheckedStillOpen, SendsDurable, Returning, Asking, QueryStatus
<1>4. RecordInv
  BY DEF Init, StoreInit, Absent, RecordInv, RecordOpen, BytesAccounted,
         ArchivesAgreeWithChain, UnsignedState, SignedState
<1>. QED  BY <1>1, <1>2, <1>3, <1>4 DEF IInv

THEOREM Inductive == Spec => []IInv
PROOF
<1>. QED  BY IInvInit, IInvNext, PTL DEF Spec

(* Type correctness of pages, log, wallet and network together.             *)
THEOREM TypeCorrect == Spec => []TypeOK
PROOF
<1>1. IInv => TypeOK
  BY DEF IInv
<1>. QED  BY <1>1, Inductive, PTL

(* Submitted bytes that may still execute are the bytes in the log, for any *)
(* number of racing and crashing pages: nothing can replace them unseen.    *)
THEOREM LiveBytesStay == Spec => []LiveBytesTracked
PROOF
<1>1. IInv => LiveBytesTracked
  <2>. USE PlanAssumption
  <2>. SUFFICES ASSUME IInv, NEW p \in Plan, sends[p] > 0, ~Decided(p) PROVE Tracked(p)
    BY DEF LiveBytesTracked
  <2>1. Settled(p) \/ Tracked(p)
    BY DEF IInv, RecordInv, BytesAccounted
  <2>2. receipts[IdentityOf[p]] = p => fate[p] = "success"
    BY DEF IInv, RecordInv, ArchivesAgreeWithChain
  <2>3. p \in failures \cup expirations => Decided(p)
    BY DEF IInv, RecordInv, ArchivesAgreeWithChain, Decided
  <2>. QED  BY <2>1, <2>2, <2>3 DEF Settled, Decided
<1>. QED  BY <1>1, Inductive, PTL

(* Archives and terminal records tell what happened on chain.               *)
THEOREM ArchivesTrue == Spec => []ArchivesAgreeWithChain
PROOF
<1>1. IInv => ArchivesAgreeWithChain
  BY DEF IInv, RecordInv
<1>. QED  BY <1>1, Inductive, PTL

(* No execution goes unrecorded.                                            *)
THEOREM OutcomeKept == Spec => []OutcomeNeverLost
PROOF
<1>1. IInv => OutcomeNeverLost
  BY DEF IInv, RecordInv, BytesAccounted, OutcomeNeverLost
<1>. QED  BY <1>1, Inductive, PTL

(* Bytes are broadcast only after the log holds them.                       *)
THEOREM DurableFirst == Spec => []DurableBeforeBroadcast
PROOF
<1>1. IInv => DurableBeforeBroadcast
  BY DEF IInv, RecordInv, BytesAccounted, DurableBeforeBroadcast
<1>. QED  BY <1>1, Inductive, PTL

(* A settled digest is never offered to a wallet again.                     *)
THEOREM NoReplacementSignature == Spec => []SettledNeverSignedAgain
PROOF
<1>1. IInv => SettledNeverSignedAgain
  <2>. SUFFICES ASSUME IInv, active.state \in UnsignedState PROVE ~Settled(active.plan)
    BY DEF SettledNeverSignedAgain
  <2>1. Open(active.plan) /\ active.plan # NoPlan
    BY Written DEF IInv, RecordInv, RecordOpen, UnsignedState, WellFormed, TombstoneState
  <2>. QED  BY <2>1 DEF Open, Settled
<1>. QED  BY <1>1, Inductive, PTL

(* An action identity succeeds at most once, whatever is prepared for it in *)
(* how many pages and epochs.                                               *)
THEOREM AtMostOneSuccess == Spec => []OneSuccessPerIdentity
PROOF
<1>1. IInv => OneSuccessPerIdentity
  <2>. SUFFICES ASSUME IInv, NEW p \in Plan, NEW q \in Plan, fate[p] = "success",
                       fate[q] = "success", IdentityOf[p] = IdentityOf[q]
                PROVE  p = q
    BY DEF OneSuccessPerIdentity
  <2>1. ASSUME NEW r \in Plan, fate[r] = "success"
        PROVE  \/ receipts[IdentityOf[r]] = r
               \/ Tracked(r) /\ receipts[IdentityOf[r]] = NoPlan
    <3>1. r \notin failures \cup expirations
      BY <2>1 DEF IInv, RecordInv, ArchivesAgreeWithChain
    <3>2. receipts[IdentityOf[r]] = r \/ Tracked(r)
      BY <2>1, <3>1 DEF IInv, RecordInv, BytesAccounted, Settled
    <3>3. CASE Tracked(r)
      <4>1. active.state # "FINALIZED_FAILURE"
        BY <3>1, <3>3 DEF IInv, StoreInv, TerminalArchived, Tracked
      <4>. QED  BY <3>3, <4>1 DEF IInv, RecordInv, RecordOpen, Open, Tracked
    <3>. QED  BY <3>2, <3>3
  <2>. QED  BY <2>1, PlanAssumption DEF Tracked
<1>. QED  BY <1>1, Inductive, PTL

-----------------------------------------------------------------------------
(* The two refinements.                                                     *)

(* A page's step commits to the log or leaves it, and never moves the chain.*)
LEMMA PageCommits ==
    ASSUME IInv, NEW s \in Session, Page(s)
    PROVE  (Commit \/ UNCHANGED storeVars) /\ UNCHANGED <<epoch, fate>>
PROOF
<1>1. CASE \E p \in Plan : DryRun(s, p)
  BY <1>1 DEF DryRun, chainVars
<1>2. CASE CheckArchives(s) \/ Prepare(s) \/ DiscardUnsigned(s)
  BY <1>2, PrepareCommits, DiscardCommits DEF CheckArchives, Prepare, DiscardUnsigned, chainVars
<1>3. CASE RequestSignature(s) \/ AnswerPrompt(s)
  BY <1>3, RequestCommits, WalletFailsCommits
  DEF AnswerPrompt, RequestSignature, WalletSigns, WalletFails, chainVars
<1>4. CASE AskNoArtifact(s) \/ ReclaimAwaitingSignature(s)
  BY <1>4, ReclaimCommits DEF AskNoArtifact, ReclaimAwaitingSignature, chainVars
<1>5. CASE StartRecover(s) \/ Query(s) \/ QueryFails(s)
  BY <1>5, QueryFailsCommits
  DEF StartRecover, Query, FirstRead, ReadWatermark, SecondRead, QueryFails, chainVars
<1>6. CASE Settle(s)
  <2>1. CASE SaveSuccess(s) \/ SavePending(s) \/ SaveNotFound(s)
    BY <2>1, SaveAnswerCommits
    DEF SaveSuccess, SavePending, SaveNotFound, SaveAnswer, QueryStatus, chainVars, IInv,
        TypeOK, Operating
  <2>2. CASE ArchiveFailure(s) \/ Verify(s) \/ Expire(s)
    BY <2>2, ArchiveCommits, VerifyCommits, ExpireCommits
    DEF ArchiveFailure, Verify, Expire, chainVars
  <2>3. CASE LeaveNotFound(s) \/ MarkBroadcasting(s) \/ Broadcast(s)
    BY <2>3, MarkCommits DEF LeaveNotFound, MarkBroadcasting, Broadcast, chainVars
  <2>4. CASE Acknowledge(s) \/ BroadcastAmbiguous(s)
    BY <2>4, AcknowledgeCommits, AmbiguousCommits DEF Acknowledge, BroadcastAmbiguous, chainVars
  <2>. QED  BY <1>6, <2>1, <2>2, <2>3, <2>4 DEF Settle
<1>7. CASE PersistSignature(s) \/ LoseRace(s) \/ DropEvidence(s)
  BY <1>7, PersistCommits DEF PersistSignature, LoseRace, DropEvidence, chainVars
<1>8. CASE ReadbackFails(s) \/ CleanupVerified(s) \/ Abandon(s)
  BY <1>8, ReadbackFailsCommits, CleanupCommits
  DEF ReadbackFails, CleanupVerified, Abandon, chainVars
<1>. QED  BY <1>1, <1>2, <1>3, <1>4, <1>5, <1>6, <1>7, <1>8 DEF Page, Continue

LEMMA StoreStep == IInv /\ [Next]_vars => [StoreNext]_storeVars
PROOF
<1>. SUFFICES ASSUME IInv, [Next]_vars PROVE [StoreNext]_storeVars
  OBVIOUS
<1>1. CASE \E s \in Session : Page(s)
  BY <1>1, PageCommits DEF Commit, StoreNext
<1>2. CASE \E p \in Plan : Execute(p)
  BY <1>2 DEF Execute
<1>3. CASE AdvanceEpoch \/ ClockPassesLease
  BY <1>3 DEF AdvanceEpoch, ClockPassesLease, StoreNext
<1>4. CASE UNCHANGED vars
  BY <1>4 DEF vars
<1>. QED  BY <1>1, <1>2, <1>3, <1>4 DEF Next

(* The controller implements the store: none of its writes is ever refused  *)
(* by the check the adapter runs, except for losing a race.                 *)
THEOREM ControllerImplementsStore == Spec => StoreNeverRefuses
PROOF
<1>1. Init => StoreInit
  BY DEF Init
<1>. QED  BY <1>1, StoreStep, Inductive, PTL DEF Spec, StoreSpec, StoreNeverRefuses

(* Signed bytes leave the log only into an archive. *)
LEMMA CommitSettles ==
    ASSUME IInv, Commit, NEW p \in Plan, Tracked(p), ~Tracked(p)'
    PROVE  Settled(p)'
PROOF
<1>. PICK o \in Operation : Admits(active', o) /\ Put(active', o)
  BY DEF Commit, CompareAndSwap
<1>1. active.plan = p /\ active.state \in SignedState /\ StoreInv
  BY DEF Tracked, IInv
<1>2. CASE active'.plan # active.plan
  BY <1>1, <1>2, CommitKeepsSigned DEF Commit, Settled
<1>3. CASE active'.plan = active.plan
  <2>1. active'.state \notin SignedState
    BY <1>1, <1>3 DEF Tracked
  <2>2. active'.state \notin TombstoneState
    BY <1>1, <1>3, PlanAssumption DEF Admits, WellFormed
  <2>3. /\ ~AdmitsCreate(active') /\ ~AdmitsDiscard(active') /\ ~AdmitsReset(active')
        /\ ~AdmitsReceipt(active') /\ ~AdmitsExpire(active') /\ ~AdmitsReplace(active')
    BY <1>1, <2>1, <2>2
    DEF AdmitsCreate, AdmitsDiscard, AdmitsReset, AdmitsReceipt, AdmitsExpire, AdmitsReplace,
        Absent, SignedState, TombstoneState
  <2>4. ~AdmitsReplaceFailure(active')
    BY <1>1, <1>3 DEF AdmitsReplaceFailure, StoreInv, Absent, WellFormed
  <2>5. ~AdmitsUpdate(active', FALSE) /\ ~AdmitsUpdate(active', TRUE)
    BY <1>1, <2>1, <2>2 DEF AdmitsUpdate, AllowedTransition, SignedState, TombstoneState
  <2>. QED  BY <2>3, <2>4, <2>5 DEF Admits
<1>. QED  BY <1>2, <1>3

THEOREM SignedKeptUntilSettled == Spec => SignedUntilSettled
PROOF
<1>1. IInv /\ [Next]_vars =>
        [\A p \in Plan : Tracked(p) /\ ~Tracked(p)' => Settled(p)']_vars
  <2>. SUFFICES ASSUME IInv, [Next]_vars, NEW p \in Plan, Tracked(p), ~Tracked(p)'
                PROVE  Settled(p)'
    OBVIOUS
  <2>1. CASE active' \in Record /\ CompareAndSwap
    BY <2>1, CommitSettles DEF Commit
  <2>2. CASE LeaseExpires \/ UNCHANGED storeVars
    BY <2>2 DEF LeaseExpires, storeVars, Tracked
  <2>. QED  BY <2>1, <2>2, StoreStep DEF StoreNext
<1>. QED  BY <1>1, Inductive, PTL DEF Spec, SignedUntilSettled

(* What the abstract specification sees of a commit: a launch, a retirement *)
(* under the outcome the archives and the chain agree on, or nothing.       *)
LEMMA FlightStays ==
    ASSUME UNCHANGED <<receipts, failures, expirations, epoch, fate>>, InFlight' = InFlight
    PROVE  UNCHANGED Abstract!flightVars
BY DEF Abstract!flightVars, Entry

LEMMA LedgerEntry ==
    ASSUME NEW p \in Plan, NEW entry, Entry(p)' = entry,
           \A q \in Plan \ {p} : Entry(q)' = Entry(q)
    PROVE  [q \in Plan |-> Entry(q)]' = [[q \in Plan |-> Entry(q)] EXCEPT ![p] = entry]
OBVIOUS

LEMMA FlightCommits ==
    ASSUME IInv, IInv', Commit, UNCHANGED <<epoch, fate>>
    PROVE  [Abstract!FlightNext]_(Abstract!flightVars)
PROOF
<1>. USE PlanAssumption
<1>. PICK o \in Operation : Admits(active', o) /\ Put(active', o)
  BY DEF Commit, CompareAndSwap
<1>. PICK p : p = active.plan
  OBVIOUS
<1>1. ASSUME o \in {"create", "discardUnsigned", "resetUnsigned", "replaceTombstone",
                    "replaceFinalizedFailure"}
      PROVE  UNCHANGED Abstract!flightVars
  <2>1. UNCHANGED <<receipts, failures, expirations>>
    BY <1>1 DEF Put
  <2>2. /\ active.state \in {"ABSENT", "READY", "AWAITING_SIGNATURE", "FINALIZED_FAILURE"}
                           \cup TombstoneState
        /\ active'.state \in {"READY", "DISCARDED"}
    <3>1. CASE o = "create"
      BY <3>1 DEF Admits, AdmitsCreate, Absent
    <3>2. CASE o \in {"discardUnsigned", "resetUnsigned"}
      BY <3>2 DEF Admits, AdmitsDiscard, AdmitsReset
    <3>3. CASE o \in {"replaceTombstone", "replaceFinalizedFailure"}
      BY <3>3 DEF Admits, AdmitsReplace, AdmitsReplaceFailure, NextAttempt
    <3>. QED  BY <1>1, <3>1, <3>2, <3>3
  <2>3. InFlight = NoPlan /\ InFlight' = NoPlan
    BY <2>2 DEF InFlight, SignedState, TombstoneState
  <2>. QED  BY <2>1, <2>3, FlightStays
<1>2. CASE o = "update" /\ active.state = "AWAITING_SIGNATURE" /\ active'.state = "SIGNED_DURABLE"
  <2>1. p \in Plan /\ Open(p) /\ active'.plan = p
    BY <1>2, Written DEF IInv, RecordInv, RecordOpen, UnsignedState, WellFormed, Record,
       TombstoneState, Admits, AdmitsUpdate
  <2>2. UNCHANGED <<receipts, failures, expirations>>
    BY <1>2 DEF Put
  <2>3. Abstract!Launch(p)
    BY <1>2, <2>1, <2>2 DEF Abstract!Launch, InFlight, SignedState, Entry, Open
  <2>. QED  BY <2>1, <2>3 DEF Abstract!FlightNext
<1>3. CASE o = "update" /\ ~(active.state = "AWAITING_SIGNATURE" /\ active'.state = "SIGNED_DURABLE")
  <2>1. AdmitsUpdate(active', FALSE)
    BY <1>3 DEF Admits
  <2>2. UNCHANGED <<receipts, failures, expirations>>
    BY <1>3 DEF Put
  <2>3. InFlight' = InFlight
    BY <1>3, <2>1 DEF AdmitsUpdate, AllowedTransition, InFlight, SignedState, TombstoneState
  <2>. QED  BY <2>2, <2>3, FlightStays
<1>4. ASSUME active.state \in SignedState \ {"FINALIZED_FAILURE"}
      PROVE  p \in Plan /\ Open(p) /\ InFlight = p
  BY <1>4, Written DEF IInv, RecordInv, RecordOpen, SignedState, WellFormed, Record,
     TombstoneState, InFlight
<1>5. receipts \in [Identity -> Plan \cup {NoPlan}]
  BY DEF IInv, TypeOK, StoreTypeOK
<1>6. CASE o = "archiveFinalizedFailure"
  <2>1. AdmitsUpdate(active', TRUE) /\ WellFormed(active')
    BY <1>6 DEF Admits
  <2>2. /\ active.state \in SignedState \ {"FINALIZED_FAILURE"}
        /\ active'.state = "FINALIZED_FAILURE" /\ active'.plan = p
    BY <2>1 DEF AdmitsUpdate, AllowedTransition, SignedState
  <2>3. p \in Plan /\ Open(p) /\ InFlight = p
    BY <1>4, <2>2
  <2>4. failures' = failures \cup {p} /\ UNCHANGED <<receipts, expirations>>
    BY <1>6, <2>1, <2>2 DEF Put, WellFormed
  <2>5. fate[p] = "failure"
    BY <2>4 DEF IInv, RecordInv, ArchivesAgreeWithChain
  <2>6. [q \in Plan |-> Entry(q)]' = [[q \in Plan |-> Entry(q)] EXCEPT ![p] = "failure"]
    <3>1. Entry(p)' = "failure"
      BY <2>3, <2>4 DEF Entry, Open
    <3>2. ASSUME NEW q \in Plan \ {p} PROVE Entry(q)' = Entry(q)
      BY <2>3, <2>4 DEF Entry, Open
    <3>. QED  BY <2>3, <3>1, <3>2, LedgerEntry
  <2>7. Abstract!Retire(p, "failure")
    BY <2>2, <2>3, <2>5, <2>6 DEF Abstract!Retire, InFlight
  <2>. QED  BY <2>3, <2>7 DEF Abstract!FlightNext
<1>7. CASE o = "completionReceipt"
  <2>1. /\ active.state = "VERIFIED" /\ active'.state = "CLEANED"
        /\ active'.proof = active.proof
    BY <1>7 DEF Admits, AdmitsReceipt
  <2>2. active.proof = p
    BY <2>1, Written DEF WellFormed
  <2>3. p \in Plan /\ Open(p) /\ InFlight = p
    BY <1>4, <2>1 DEF SignedState
  <2>4. /\ receipts' = [receipts EXCEPT ![IdentityOf[p]] = p]
        /\ UNCHANGED <<failures, expirations>>
    BY <1>7, <2>1, <2>2 DEF Put
  <2>5. fate[p] = "success"
    BY <2>1 DEF IInv, RecordInv, ArchivesAgreeWithChain
  <2>6. [q \in Plan |-> Entry(q)]' = [[q \in Plan |-> Entry(q)] EXCEPT ![p] = "receipt"]
    <3>1. Entry(p)' = "receipt"
      BY <1>5, <2>3, <2>4 DEF Entry, Open
    <3>2. ASSUME NEW q \in Plan \ {p} PROVE Entry(q)' = Entry(q)
      BY <1>5, <2>3, <2>4 DEF Entry, Open
    <3>. QED  BY <2>3, <3>1, <3>2, LedgerEntry
  <2>7. Abstract!Retire(p, "receipt")
    BY <2>1, <2>3, <2>5, <2>6 DEF Abstract!Retire, InFlight, SignedState
  <2>. QED  BY <2>3, <2>7 DEF Abstract!FlightNext
<1>8. CASE o = "expireNotFound"
  <2>1. /\ active.state \in SignedState \ {"FINALIZED_FAILURE"}
        /\ active'.state = "EXPIRED_NOT_FOUND" /\ active'.proof = p
    BY <1>8 DEF Admits, AdmitsExpire, SignedState
  <2>2. p \in Plan /\ Open(p) /\ InFlight = p
    BY <1>4, <2>1
  <2>3. expirations' = expirations \cup {p} /\ UNCHANGED <<receipts, failures>>
    BY <1>8, <2>1 DEF Put
  <2>4. fate[p] = "none" /\ epoch > Expiration[p]
    BY <2>3 DEF IInv, RecordInv, ArchivesAgreeWithChain
  <2>5. [q \in Plan |-> Entry(q)]' = [[q \in Plan |-> Entry(q)] EXCEPT ![p] = "expired"]
    <3>1. Entry(p)' = "expired"
      BY <2>2, <2>3 DEF Entry, Open
    <3>2. ASSUME NEW q \in Plan \ {p} PROVE Entry(q)' = Entry(q)
      BY <2>2, <2>3 DEF Entry, Open
    <3>. QED  BY <2>2, <3>1, <3>2, LedgerEntry
  <2>6. Abstract!Retire(p, "expired")
    BY <2>1, <2>2, <2>4, <2>5 DEF Abstract!Retire, InFlight, SignedState
  <2>. QED  BY <2>2, <2>6 DEF Abstract!FlightNext
<1>. QED  BY <1>1, <1>2, <1>3, <1>6, <1>7, <1>8 DEF Operation

LEMMA FlightExecutes ==
    ASSUME IInv, NEW p \in Plan, Execute(p)
    PROVE  Abstract!FlightNext
PROOF
<1>1. PICK outcome \in {"success", "failure"} : fate' = [fate EXCEPT ![p] = outcome]
  BY DEF Execute
<1>2. Tracked(p)
  BY ExecuteIsTracked
<1>3. active.state # "FINALIZED_FAILURE"
  BY <1>2 DEF Execute, IInv, StoreInv, TerminalArchived, RecordInv, ArchivesAgreeWithChain, Tracked
<1>4. InFlight = p
  BY <1>2, <1>3 DEF Tracked, InFlight
<1>5. InFlight' = InFlight /\ \A q \in Plan : Entry(q)' = Entry(q)
  BY DEF Execute, storeVars, InFlight, Entry
<1>6. Abstract!Land(p, outcome)
  BY <1>1, <1>4, <1>5 DEF Execute, Abstract!Land
<1>. QED  BY <1>6 DEF Abstract!FlightNext

LEMMA FlightStep == IInv /\ IInv' /\ [Next]_vars => [Abstract!FlightNext]_(Abstract!flightVars)
PROOF
<1>. SUFFICES ASSUME IInv, IInv', [Next]_vars
              PROVE  [Abstract!FlightNext]_(Abstract!flightVars)
  OBVIOUS
<1>1. CASE \E s \in Session : Page(s)
  <2>1. (Commit \/ UNCHANGED storeVars) /\ UNCHANGED <<epoch, fate>>
    BY <1>1, PageCommits
  <2>2. CASE UNCHANGED storeVars
    BY <2>1, <2>2, FlightStays DEF storeVars, InFlight
  <2>. QED  BY <2>1, <2>2, FlightCommits
<1>2. CASE \E p \in Plan : Execute(p)
  BY <1>2, FlightExecutes
<1>3. CASE AdvanceEpoch
  BY <1>3 DEF AdvanceEpoch, Abstract!FlightNext, Abstract!Tick, storeVars, InFlight, Entry
<1>4. CASE ClockPassesLease
  BY <1>4, FlightStays DEF ClockPassesLease, LeaseExpires, chainVars, InFlight
<1>5. CASE UNCHANGED vars
  BY <1>5, FlightStays DEF vars, storeVars, chainVars, InFlight
<1>. QED  BY <1>1, <1>2, <1>3, <1>4, <1>5 DEF Next

LEMMA FlightStart == Init => Abstract!FlightInit
PROOF
<1>. SUFFICES ASSUME Init PROVE Abstract!FlightInit
  OBVIOUS
<1>1. \A p \in Plan : Entry(p) = "open"
  BY PlanAssumption DEF Init, StoreInit, Entry
<1>2. InFlight = NoPlan
  BY DEF Init, StoreInit, Absent, InFlight, SignedState
<1>. QED  BY <1>1, <1>2 DEF Init, Abstract!FlightInit

(* Pages, log, wallet and network together are one transaction in flight at *)
(* a time with a truthful ledger, at any size.                              *)
THEOREM OneInFlight == Spec => OneTransactionInFlight
PROOF
<1>. QED  BY FlightStart, FlightStep, Inductive, PTL
          DEF Spec, OneTransactionInFlight, Abstract!FlightSpec
=============================================================================
