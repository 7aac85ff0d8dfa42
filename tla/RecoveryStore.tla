--------------------------- MODULE RecoveryStore ---------------------------
(***************************************************************************)
(* The durable write-ahead log of one chain + Root scope: the `active'     *)
(* recovery record and the three archives beside it, as the persistence    *)
(* adapter keeps them (one IndexedDB transaction per compareAndSwap), and  *)
(* the check that every commit must pass whoever proposes it,              *)
(* assertMakerV8RecoveryPersistenceCommit in maker-v8-recovery.js.         *)
(*                                                                         *)
(* A plan, its fingerprint and its transaction digest determine each       *)
(* other, so one model value stands for the three.  A signed artifact      *)
(* exists in a record exactly in the states of SignedState (the record     *)
(* check forces it) and carries the plan's bytes, so it needs no field.    *)
(* Wording (lastError) and wall-clock values are left out; the order of    *)
(* two writes of a scope is the order of their revisions.                  *)
(***************************************************************************)
EXTENDS Naturals

CONSTANTS
    Session,        \* random ids of open pages, one per controller instance
    Plan,           \* transaction plans that may be prepared for this Root
    Identity,       \* immutable action identities
    IdentityOf,     \* the identity a plan was built for
    Expiration,     \* last epoch in which a plan's bytes can execute
    NoPlan,
    NoSession

ASSUME PlanAssumption ==
    /\ IdentityOf \in [Plan -> Identity]
    /\ Expiration \in [Plan -> Nat \ {0}]
    /\ NoPlan \notin Plan
    /\ NoSession \notin Session

TombstoneState == {"DISCARDED", "CLEANED", "EXPIRED_NOT_FOUND"}
UnsignedState  == {"READY", "AWAITING_SIGNATURE"}
SignedState    == {"SIGNED_DURABLE", "BROADCASTING", "OUTCOME_PENDING",
                   "VERIFIED", "FINALIZED_FAILURE"}
State          == UnsignedState \cup SignedState \cup TombstoneState
Disposition    == {"REQUEST_IN_FLIGHT", "DEFINITIVE_REJECTION", "OUTCOME_UNKNOWN"}
QueryStatus    == {"NOT_FOUND", "PENDING", "FINALIZED_SUCCESS", "FINALIZED_FAILURE"}

(* `proof' is the digest bound by the receipt, failure or expiration that   *)
(* the record carries; `mark' the checkpoint epoch of its absence evidence. *)
Record ==
    [state    : State \cup {"ABSENT"},
     revision : Nat,
     attempt  : Nat,
     plan     : Plan \cup {NoPlan},
     owner    : Session \cup {NoSession},     \* signatureSessionId and lease
     disp     : Disposition \cup {"NONE"},
     writer   : Session \cup {NoSession},
     casts    : Nat,                          \* broadcastCount
     query    : QueryStatus \cup {"NONE"},
     mark     : Nat,
     proof    : Plan \cup {NoPlan}]

(* What load answers for a scope that was never written. *)
Absent ==
    [state |-> "ABSENT", revision |-> 0, attempt |-> 0, plan |-> NoPlan,
     owner |-> NoSession, disp |-> "NONE", writer |-> NoSession, casts |-> 0,
     query |-> "NONE", mark |-> 0, proof |-> NoPlan]

Initial(p, s, revision, attempt) ==
    [Absent EXCEPT !.state = "READY", !.plan = p, !.writer = s,
                   !.revision = revision, !.attempt = attempt]

-----------------------------------------------------------------------------
(* The shape of a durable record: which fields each state must and must not *)
(* carry.                                                                   *)
WellFormed(r) ==
    /\ r.revision >= 1 /\ r.attempt >= 1
    /\ r.writer \in Session
    /\ (r.state \in TombstoneState) <=> (r.plan = NoPlan)
    /\ r.state \in UnsignedState \cup {"SIGNED_DURABLE"} => r.query = "NONE"
    /\ r.state = "BROADCASTING" => r.query = "NOT_FOUND"
    /\ r.state = "OUTCOME_PENDING" => r.query # "NONE"
    /\ r.state = "VERIFIED" => r.query = "FINALIZED_SUCCESS"
    /\ r.state = "FINALIZED_FAILURE" => r.query = "FINALIZED_FAILURE"
    /\ r.state \in TombstoneState => r.query = "NONE"
    /\ IF r.state = "AWAITING_SIGNATURE"
       THEN r.owner \in Session /\ r.disp \in Disposition
       ELSE r.owner = NoSession /\ r.disp = "NONE"
    /\ r.state \in {"VERIFIED", "FINALIZED_FAILURE"} => r.proof = r.plan
    /\ r.state \in {"CLEANED", "EXPIRED_NOT_FOUND"} => r.proof \in Plan
    /\ r.state \notin {"VERIFIED", "FINALIZED_FAILURE", "CLEANED", "EXPIRED_NOT_FOUND"}
         => r.proof = NoPlan

(* ALLOWED_TRANSITIONS: READY -> EXPIRED_NOT_FOUND, say, is not among them. *)
AllowedTransition ==
       {"READY"} \X {"AWAITING_SIGNATURE", "DISCARDED"}
    \cup {"AWAITING_SIGNATURE"} \X
            {"READY", "AWAITING_SIGNATURE", "SIGNED_DURABLE", "DISCARDED"}
    \cup {"SIGNED_DURABLE"} \X
            {"SIGNED_DURABLE", "OUTCOME_PENDING", "FINALIZED_FAILURE", "EXPIRED_NOT_FOUND"}
    \cup {"BROADCASTING"} \X
            {"OUTCOME_PENDING", "FINALIZED_FAILURE", "EXPIRED_NOT_FOUND"}
    \cup {"OUTCOME_PENDING"} \X
            {"OUTCOME_PENDING", "BROADCASTING", "VERIFIED", "FINALIZED_FAILURE",
             "EXPIRED_NOT_FOUND"}
    \cup {<<"VERIFIED", "CLEANED">>}

-----------------------------------------------------------------------------
VARIABLES
    active,         \* the scope's record
    receipts,       \* identity -> digest of its completion receipt
    failures,       \* digests archived as finalized failures
    expirations,    \* digests archived as expired and never found
    leaseOver       \* the clock has passed active.signatureLease.expiresAtMs

storeVars == <<active, receipts, failures, expirations, leaseOver>>

SameAttempt(next) == next.attempt = active.attempt
NextAttempt(next) == /\ next.state = "READY"
                     /\ next.attempt = active.attempt + 1
                     /\ next.casts = 0
                     /\ next.query = "NONE"

AdmitsCreate(next) ==
    /\ active = Absent
    /\ next.state = "READY"
    /\ next.attempt = 1 /\ next.casts = 0

AdmitsDiscard(next) ==
    /\ active.state = "READY" /\ next.state = "DISCARDED"
    /\ SameAttempt(next) /\ next.casts = active.casts

AdmitsReset(next) ==
    /\ active.state = "AWAITING_SIGNATURE" /\ next.state = "READY"
    /\ leaseOver
    /\ next.plan = active.plan
    /\ SameAttempt(next) /\ next.casts = active.casts

AdmitsReceipt(next) ==
    /\ active.state = "VERIFIED" /\ next.state = "CLEANED"
    /\ next.proof = active.proof
    /\ receipts[IdentityOf[active.plan]] = NoPlan
    /\ SameAttempt(next) /\ next.casts = active.casts

AdmitsExpire(next) ==
    /\ active.state \in {"SIGNED_DURABLE", "BROADCASTING", "OUTCOME_PENDING"}
    /\ active.query = "NOT_FOUND"
    /\ next.state = "EXPIRED_NOT_FOUND"
    /\ next.proof = active.plan
    /\ next.mark > Expiration[active.plan]
    /\ active.plan \notin expirations
    /\ SameAttempt(next) /\ next.casts = active.casts

AdmitsReplace(next) ==
    /\ active.state \in TombstoneState
    /\ NextAttempt(next)
    /\ active.state = "CLEANED" => receipts[IdentityOf[active.proof]] = active.proof
    /\ active.state = "EXPIRED_NOT_FOUND" =>
         /\ active.proof \in expirations
         /\ next.plan # active.proof

AdmitsReplaceFailure(next) ==
    /\ active.state = "FINALIZED_FAILURE"
    /\ NextAttempt(next)
    /\ active.proof \in failures
    /\ next.plan # active.proof

(* The commits with no option, and archiveFinalizedFailure.  *)
AdmitsUpdate(next, archiving) ==
    /\ active # Absent
    /\ <<active.state, next.state>> \in AllowedTransition
    /\ next.state \notin TombstoneState
    /\ ~(active.state = "AWAITING_SIGNATURE" /\ next.state = "READY")
    /\ archiving <=> next.state = "FINALIZED_FAILURE"
    /\ archiving => active.plan \notin failures
    /\ next.plan = active.plan /\ SameAttempt(next)
    /\ active.state \in UnsignedState /\ next.state \in SignedState
         => active.state = "AWAITING_SIGNATURE" /\ next.state = "SIGNED_DURABLE"
    /\ next.casts = active.casts + (IF next.state = "BROADCASTING" THEN 1 ELSE 0)
    /\ active.state = "AWAITING_SIGNATURE" /\ next.state = "AWAITING_SIGNATURE" =>
         /\ next.owner = active.owner /\ next.writer = active.owner
         /\ active.disp # "REQUEST_IN_FLIGHT" => next.disp = active.disp
    /\ active.state = "READY" /\ next.state = "AWAITING_SIGNATURE" =>
         next.disp = "REQUEST_IN_FLIGHT" /\ next.writer = next.owner
    /\ next.state = "SIGNED_DURABLE" /\ active.state = "AWAITING_SIGNATURE" =>
         active.disp = "REQUEST_IN_FLIGHT" /\ next.writer = active.owner
    /\ next.state = "BROADCASTING" =>
         /\ active.state = "OUTCOME_PENDING"
         /\ active.query = "NOT_FOUND"
         /\ next.query = active.query /\ next.mark = active.mark

Operation == {"create", "update", "discardUnsigned", "resetUnsigned", "completionReceipt",
              "expireNotFound", "replaceTombstone", "replaceFinalizedFailure",
              "archiveFinalizedFailure"}

Admits(next, op) ==
    /\ \/ op = "create"                  /\ AdmitsCreate(next)
       \/ op = "update"                  /\ AdmitsUpdate(next, FALSE)
       \/ op = "archiveFinalizedFailure" /\ AdmitsUpdate(next, TRUE)
       \/ op = "discardUnsigned"         /\ AdmitsDiscard(next)
       \/ op = "resetUnsigned"           /\ AdmitsReset(next)
       \/ op = "completionReceipt"       /\ AdmitsReceipt(next)
       \/ op = "expireNotFound"          /\ AdmitsExpire(next)
       \/ op = "replaceTombstone"        /\ AdmitsReplace(next)
       \/ op = "replaceFinalizedFailure" /\ AdmitsReplaceFailure(next)
    /\ next.revision = active.revision + 1
    /\ WellFormed(next)

-----------------------------------------------------------------------------
(* The writes of one compareAndSwap: the record and, in the same           *)
(* transaction, the archive entry its option names.  Beginning a wallet    *)
(* request starts a new lease.                                             *)
Put(next, op) ==
    /\ active' = next
    /\ receipts' = IF op = "completionReceipt"
                   THEN [receipts EXCEPT ![IdentityOf[next.proof]] = next.proof]
                   ELSE receipts
    /\ failures' = IF op = "archiveFinalizedFailure"
                   THEN failures \cup {next.proof} ELSE failures
    /\ expirations' = IF op = "expireNotFound"
                      THEN expirations \cup {next.proof} ELSE expirations
    /\ leaseOver' = (leaseOver /\ next.state = "AWAITING_SIGNATURE"
                               /\ active.state = "AWAITING_SIGNATURE")

(* The clock passes the expiry of the lease now on record. *)
LeaseExpires ==
    /\ active.state = "AWAITING_SIGNATURE" /\ ~leaseOver
    /\ leaseOver' = TRUE
    /\ UNCHANGED <<active, receipts, failures, expirations>>

(* A compareAndSwap by any caller: whatever record it proposes. *)
CompareAndSwap ==
    \E op \in Operation : Admits(active', op) /\ Put(active', op)

StoreInit ==
    /\ active = Absent
    /\ receipts = [i \in Identity |-> NoPlan]
    /\ failures = {} /\ expirations = {}
    /\ leaseOver = FALSE

StoreNext == (active' \in Record /\ CompareAndSwap) \/ LeaseExpires

StoreSpec == StoreInit /\ [][StoreNext]_storeVars

-----------------------------------------------------------------------------
StoreTypeOK ==
    /\ active \in Record
    /\ receipts \in [Identity -> Plan \cup {NoPlan}]
    /\ failures \subseteq Plan
    /\ expirations \subseteq Plan
    /\ leaseOver \in BOOLEAN

(* A terminal record and its archive entry are written together, so the     *)
(* proof that let the signed bytes go is never missing.                     *)
TerminalArchived ==
    /\ active.state = "CLEANED" => receipts[IdentityOf[active.proof]] = active.proof
    /\ active.state = "FINALIZED_FAILURE" => active.plan \in failures
    /\ active.state = "EXPIRED_NOT_FOUND" =>
         active.proof \in expirations /\ active.mark > Expiration[active.proof]

(* "A direct adapter caller cannot bypass": no commit erases or replaces    *)
(* signed bytes, unless it archives them.                                   *)
StoreKeepsSigned ==
    [][active.state \in SignedState /\ active'.plan # active.plan
         => \/ receipts'[IdentityOf[active.plan]] = active.plan
            \/ active.plan \in failures' \cup expirations']_storeVars

(* Archives are written once, and the pair attempt, broadcastCount never    *)
(* goes back: no commit can hide that bytes were submitted.                 *)
StoreOnlyGrows ==
    [][/\ \A i \in Identity : receipts[i] # NoPlan => receipts'[i] = receipts[i]
       /\ failures \subseteq failures' /\ expirations \subseteq expirations'
       /\ \/ active'.attempt > active.attempt
          \/ active'.attempt = active.attempt /\ active'.casts >= active.casts]_storeVars
=============================================================================
