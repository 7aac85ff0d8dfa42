--------------------------- MODULE MakerRecovery ---------------------------
(***************************************************************************)
(* The signature recovery controller, createMakerV8RecoveryController in   *)
(* maker-v8-recovery.js, as it runs in several open pages that share one   *)
(* durable log (RecoveryStore), a wallet per page, and the chain.          *)
(*                                                                         *)
(* A controller operation is a sequence of awaits; op[s] is where page s   *)
(* stands in the one it runs and what it read before the await.  Two       *)
(* awaits are one step only when nothing another page does in between can  *)
(* show: a load followed by a compareAndSwap of what was loaded commits    *)
(* exactly when the record did not change, so the pair is one step; the    *)
(* archives that prepare reads only grow, so reading them at one instant   *)
(* refuses least.                                                          *)
(*                                                                         *)
(* The chain is the view of the one fullnode the client is bound to: what  *)
(* it has checkpointed, in epoch order.                                    *)
(***************************************************************************)
EXTENDS RecoveryStore

CONSTANTS
    MaxRevision,    \* bound: no new request or query past this revision
    MaxPoll,        \* bound: no query of an undecided digest past this revision
    Allowance,      \* bound: how much later both are for each further attempt
    MaxAttempt,     \* bound: attempts of the scope
    MaxEpoch,       \* bound: last epoch of the chain
    MaxFaults       \* bound: operations that fail or die midway

ASSUME BoundAssumption ==
    /\ {MaxRevision, MaxPoll, Allowance, MaxAttempt, MaxEpoch, MaxFaults} \subseteq Nat
    /\ \A p \in Plan : Expiration[p] < MaxEpoch

VARIABLES
    op,             \* page -> the controller operation it is running
    epoch,          \* current epoch of the chain
    fate,           \* digest -> "none", or how its execution was finalized
    sends,          \* digest -> submissions of its signed bytes the network got
    durable,        \* history: digests whose signature was ever durable
    faults          \* operations that failed so far

chainVars == <<epoch, fate, sends>>
vars == <<storeVars, op, chainVars, durable, faults>>

Idle == [pc |-> "idle", revision |-> 0, plan |-> NoPlan, mark |-> 0]
At(pc, revision, p, mark) ==
    [pc |-> pc, revision |-> revision, plan |-> p, mark |-> mark]

Asking    == {"firstRead", "watermark", "secondRead"}
Returning == {"wallet", "signed", "confirm", "readback", "decide", "ack"}
             \cup Asking \cup QueryStatus
Step      == {"idle", "evidence", "checked", "send"} \cup Returning

Operating == [pc : Step, revision : Nat, plan : Plan \cup {NoPlan}, mark : Nat]

Recoverable == {"SIGNED_DURABLE", "BROADCASTING", "OUTCOME_PENDING"}

Goto(s, pc)  == op' = [op EXCEPT ![s].pc = pc]
Finish(s)    == op' = [op EXCEPT ![s] = Idle]
Fault        == faults < MaxFaults /\ faults' = faults + 1

(* Mutant: a store that swaps without comparing. *)
AlwaysCurrent(s) == TRUE

(* The record is still the one page s read. *)
Current(s) == active.revision = op[s].revision

Until(bound) == bound + Allowance * (active.attempt - 1)

(* nextRecord *)
NextRecord(s, state) ==
    [active EXCEPT !.state = state, !.revision = @ + 1, !.writer = s]

Answered(r, status, mark) == [r EXCEPT !.query = status, !.mark = mark]
NoRequest(r) == [r EXCEPT !.owner = NoSession, !.disp = "NONE"]
Tombstone(r, mark) == [r EXCEPT !.plan = NoPlan, !.query = "NONE", !.mark = mark]

Init ==
    /\ StoreInit
    /\ op = [s \in Session |-> Idle]
    /\ epoch = 0
    /\ fate = [p \in Plan |-> "none"]
    /\ sends = [p \in Plan |-> 0]
    /\ durable = {} /\ faults = 0

-----------------------------------------------------------------------------
(* A build reads the epoch and then simulates; when the simulation returns, *)
(* the epoch may have passed.  The evidence remembers which writes of the   *)
(* scope it came after (dryRunAtMs against updatedAt).                      *)
DryRun(s, p) ==
    /\ op[s] = Idle
    /\ epoch \in {Expiration[p] - 1, Expiration[p]}
    /\ op' = [op EXCEPT ![s] = At("evidence", active.revision, p, 0)]
    /\ UNCHANGED <<storeVars, chainVars, durable, faults>>

(* Mutant: evidence is good for any later record. *)
AnyEvidence(s) == TRUE

Fresh(s) == op[s].revision >= active.revision

(* prepare, up to its load of the scope: the digest is not archived and the *)
(* identity has no receipt.                                                 *)
CheckArchives(s) ==
    /\ op[s].pc = "evidence"
    /\ IF /\ op[s].plan \notin failures \cup expirations
          /\ receipts[IdentityOf[op[s].plan]] = NoPlan
       THEN Goto(s, "checked") ELSE Finish(s)
    /\ UNCHANGED <<storeVars, chainVars, durable, faults>>

(* Evidence is one-shot and bounded in age: refused, or never used. *)
DropEvidence(s) ==
    /\ op[s].pc \in {"evidence", "checked"}
    /\ Finish(s)
    /\ UNCHANGED <<storeVars, chainVars, durable, faults>>

PrepareCreate(s) ==
    /\ active = Absent
    /\ Put(Initial(op[s].plan, s, 1, 1), "create")

PrepareReplace(s) ==
    /\ active.attempt < MaxAttempt
    /\ Fresh(s)
    /\ \/ /\ active.state \in TombstoneState
          /\ active.state = "CLEANED" => receipts[IdentityOf[active.proof]] = active.proof
          /\ active.state = "EXPIRED_NOT_FOUND" => active.proof \in expirations
          /\ Put(Initial(op[s].plan, s, active.revision + 1, active.attempt + 1),
                 "replaceTombstone")
       \/ /\ active.state = "FINALIZED_FAILURE"      \* and afterFinalizedFailure
          /\ active.plan # op[s].plan
          /\ active.plan \in failures
          /\ Put(Initial(op[s].plan, s, active.revision + 1, active.attempt + 1),
                 "replaceFinalizedFailure")

(* The rest of prepare: a first READY record, or the next attempt after a   *)
(* settled one.  Every other record is refused, or returned if it is the    *)
(* plan's own, and nothing is written (DropEvidence).                       *)
Prepare(s) ==
    /\ op[s].pc = "checked"
    /\ Finish(s)
    /\ PrepareCreate(s) \/ PrepareReplace(s)
    /\ UNCHANGED <<chainVars, durable, faults>>

DiscardUnsigned(s) ==
    /\ op[s] = Idle
    /\ active.state = "READY"
    /\ Put(Tombstone(NextRecord(s, "DISCARDED"), 0), "discardUnsigned")
    /\ UNCHANGED <<op, chainVars, durable, faults>>

-----------------------------------------------------------------------------
(* requestSignature: the READY record and the evidence must agree in full,  *)
(* then the request is durable before the wallet is asked.                  *)
RequestSignature(s) ==
    /\ op[s].pc = "evidence"
    /\ active.state = "READY" /\ active.plan = op[s].plan
    /\ Fresh(s)
    /\ active.revision <= Until(MaxRevision)
    /\ Put([NextRecord(s, "AWAITING_SIGNATURE") EXCEPT
              !.owner = s, !.disp = "REQUEST_IN_FLIGHT"], "update")
    /\ op' = [op EXCEPT ![s] = At("wallet", active.revision + 1, active.plan, 0)]
    /\ UNCHANGED <<chainVars, durable, faults>>

WalletSigns(s) ==
    /\ op[s].pc = "wallet"
    /\ Goto(s, "signed")
    /\ UNCHANGED <<storeVars, chainVars, durable, faults>>

(* The wallet throws, or returns bytes that do not verify. *)
WalletFails(s, disp) ==
    /\ op[s].pc = "wallet" /\ Current(s)
    /\ disp \in {"DEFINITIVE_REJECTION", "OUTCOME_UNKNOWN"}
    /\ Put([NextRecord(s, "AWAITING_SIGNATURE") EXCEPT !.disp = disp], "update")
    /\ Finish(s) /\ Fault
    /\ UNCHANGED <<chainVars, durable>>

PersistSignature(s) ==
    /\ op[s].pc = "signed" /\ Current(s)
    /\ Put(NoRequest(NextRecord(s, "SIGNED_DURABLE")), "update")
    /\ durable' = durable \cup {op[s].plan}
    /\ Finish(s)
    /\ UNCHANGED <<chainVars, faults>>

(* Mutant: only a request with a known end can be reclaimed. *)
AskAfterAnswer(s) ==
    /\ op[s] = Idle
    /\ active.state = "AWAITING_SIGNATURE" /\ leaseOver
    /\ active.disp # "REQUEST_IN_FLIGHT"
    /\ op' = [op EXCEPT ![s] = At("confirm", active.revision, active.plan, 0)]
    /\ UNCHANGED <<storeVars, chainVars, durable, faults>>

(* reclaimAwaitingSignature, up to the question whether a signed artifact   *)
(* exists; only after the lease.                                            *)
AskNoArtifact(s) ==
    /\ op[s] = Idle
    /\ active.state = "AWAITING_SIGNATURE" /\ leaseOver
    /\ op' = [op EXCEPT ![s] = At("confirm", active.revision, active.plan, 0)]
    /\ UNCHANGED <<storeVars, chainVars, durable, faults>>

ReclaimAwaitingSignature(s) ==
    /\ op[s].pc = "confirm" /\ Current(s)
    /\ Put(NoRequest(NextRecord(s, "READY")), "resetUnsigned")
    /\ Finish(s)
    /\ UNCHANGED <<chainVars, durable, faults>>

-----------------------------------------------------------------------------
(* recover asks the chain for the digest before anything else.              *)
Decided(p) == fate[p] # "none" \/ epoch > Expiration[p]

StartRecover(s) ==
    /\ op[s] = Idle
    /\ active.state \in Recoverable
    /\ active.revision <= Until(IF Decided(active.plan) THEN MaxRevision ELSE MaxPoll)
    /\ op' = [op EXCEPT ![s] = At("firstRead", active.revision, active.plan, 0)]
    /\ UNCHANGED <<storeVars, chainVars, durable, faults>>

(* What a digest that has executed answers. *)
Finalized(p) == IF fate[p] = "success" THEN "FINALIZED_SUCCESS" ELSE "FINALIZED_FAILURE"

FirstRead(s) ==
    /\ op[s].pc = "firstRead"
    /\ LET p == op[s].plan IN
       IF fate[p] # "none" THEN Goto(s, Finalized(p))
       ELSE \/ Goto(s, "watermark")
            \/ sends[p] > 0 /\ ~Decided(p) /\ Goto(s, "PENDING")
    /\ UNCHANGED <<storeVars, chainVars, durable, faults>>

ReadWatermark(s) ==
    /\ op[s].pc = "watermark"
    /\ op' = [op EXCEPT ![s].pc = "secondRead", ![s].mark = epoch]
    /\ UNCHANGED <<storeVars, chainVars, durable, faults>>

(* Mutant: the first absence is trusted. *)
TrustFirstRead(s) ==
    /\ op[s].pc = "secondRead"
    /\ Goto(s, "NOT_FOUND")
    /\ UNCHANGED <<storeVars, chainVars, durable, faults>>

(* Absence counts only if the digest is still not found after the watermark. *)
SecondRead(s) ==
    /\ op[s].pc = "secondRead"
    /\ LET p == op[s].plan IN
       IF fate[p] # "none" THEN Goto(s, Finalized(p)) ELSE Goto(s, "NOT_FOUND")
    /\ UNCHANGED <<storeVars, chainVars, durable, faults>>

(* The query fails: rememberError in the same state, and never BROADCASTING. *)
QueryFails(s) ==
    /\ op[s].pc \in Asking /\ Current(s)
    /\ Put(NextRecord(s, IF active.state = "BROADCASTING"
                         THEN "OUTCOME_PENDING" ELSE active.state), "update")
    /\ Finish(s) /\ Fault
    /\ UNCHANGED <<chainVars, durable>>

ArchiveFailure(s) ==
    /\ op[s].pc = "FINALIZED_FAILURE" /\ Current(s)
    /\ Put([Answered(NextRecord(s, "FINALIZED_FAILURE"), "FINALIZED_FAILURE", 0)
              EXCEPT !.proof = active.plan], "archiveFinalizedFailure")
    /\ Finish(s)
    /\ UNCHANGED <<chainVars, durable, faults>>

(* The durable answer of the query comes before what is done about it.      *)
SaveAnswer(s, status, mark, pc) ==
    /\ op[s].pc = status /\ Current(s)
    /\ Put(Answered(NextRecord(s, "OUTCOME_PENDING"), status, mark), "update")
    /\ op' = [op EXCEPT ![s] = IF pc = "idle" THEN Idle
                               ELSE At(pc, active.revision + 1, @.plan, mark)]
    /\ UNCHANGED <<chainVars, durable, faults>>

SaveSuccess(s)  == SaveAnswer(s, "FINALIZED_SUCCESS", 0, "readback")
SavePending(s)  == SaveAnswer(s, "PENDING", 0, "idle")
SaveNotFound(s) == SaveAnswer(s, "NOT_FOUND", op[s].mark, "decide")

Verify(s) ==
    /\ op[s].pc = "readback" /\ Current(s)
    /\ Put([NextRecord(s, "VERIFIED") EXCEPT !.proof = active.plan], "update")
    /\ Finish(s)
    /\ UNCHANGED <<chainVars, durable, faults>>

(* Not indexed yet, or evidence that does not match: still pending. *)
ReadbackFails(s) ==
    /\ op[s].pc = "readback" /\ Current(s)
    /\ Put(NextRecord(s, "OUTCOME_PENDING"), "update")
    /\ Finish(s) /\ Fault
    /\ UNCHANGED <<chainVars, durable>>

(* Mutants: the last epoch counts as over; expiration is never concluded. *)
ExpiredInLastEpoch(s) == op[s].mark >= Expiration[op[s].plan]
NeverExpired(s) == FALSE

(* The watermark of the absence lies past the plan's last epoch. *)
Expired(s) == op[s].mark > Expiration[op[s].plan]

Expire(s) ==
    /\ op[s].pc = "decide" /\ Current(s) /\ Expired(s)
    /\ Put([Tombstone(NextRecord(s, "EXPIRED_NOT_FOUND"), op[s].mark)
              EXCEPT !.proof = active.plan], "expireNotFound")
    /\ Finish(s)
    /\ UNCHANGED <<chainVars, durable, faults>>

(* No replay was asked for, or the live context drifted. *)
LeaveNotFound(s) ==
    /\ op[s].pc = "decide" /\ ~Expired(s)
    /\ Finish(s)
    /\ UNCHANGED <<storeVars, chainVars, durable, faults>>

(* Mutant: the submission is not counted. *)
MarkUncounted(s) ==
    /\ op[s].pc = "decide" /\ Current(s) /\ ~Expired(s)
    /\ epoch = Expiration[op[s].plan] - 1
    /\ Put(NextRecord(s, "BROADCASTING"), "update")
    /\ op' = [op EXCEPT ![s] = At("send", active.revision + 1, @.plan, 0)]
    /\ UNCHANGED <<chainVars, durable, faults>>

(* replayIfNotFound, in the epoch the evidence was captured in. *)
MarkBroadcasting(s) ==
    /\ op[s].pc = "decide" /\ Current(s) /\ ~Expired(s)
    /\ epoch = Expiration[op[s].plan] - 1
    /\ Put([NextRecord(s, "BROADCASTING") EXCEPT !.casts = @ + 1], "update")
    /\ op' = [op EXCEPT ![s] = At("send", active.revision + 1, @.plan, 0)]
    /\ UNCHANGED <<chainVars, durable, faults>>

(* The network gets the bytes, or they are lost on the way. *)
Broadcast(s) ==
    /\ op[s].pc = "send"
    /\ sends' = [sends EXCEPT ![op[s].plan] = @ + 1] \/ UNCHANGED sends
    /\ Goto(s, "ack")
    /\ UNCHANGED <<storeVars, epoch, fate, durable, faults>>

Acknowledge(s) ==
    /\ op[s].pc = "ack" /\ Current(s)
    /\ sends[op[s].plan] > 0
    /\ Put(Answered(NextRecord(s, "OUTCOME_PENDING"), "PENDING", 0), "update")
    /\ Finish(s)
    /\ UNCHANGED <<chainVars, durable, faults>>

(* An ambiguous answer: rememberError keeps the absence it was sent under.  *)
BroadcastAmbiguous(s) ==
    /\ op[s].pc = "ack" /\ Current(s)
    /\ Put(NextRecord(s, "OUTCOME_PENDING"), "update")
    /\ Finish(s)
    /\ UNCHANGED <<chainVars, durable, faults>>

(* Mutant: the log is cleaned without its receipt. *)
CleanupUnreceipted(s) ==
    /\ op[s] = Idle
    /\ active.state = "VERIFIED"
    /\ Put(Tombstone(NextRecord(s, "CLEANED"), 0), "update")
    /\ UNCHANGED <<op, chainVars, durable, faults>>

CleanupVerified(s) ==
    /\ op[s] = Idle
    /\ active.state = "VERIFIED"
    /\ Put(Tombstone(NextRecord(s, "CLEANED"), 0), "completionReceipt")
    /\ UNCHANGED <<op, chainVars, durable, faults>>

-----------------------------------------------------------------------------
(* A compareAndSwap answers CAS_CONFLICT: the operation ends, nothing is    *)
(* written (rememberError only reloads).                                    *)
LoseRace(s) ==
    /\ op[s].pc \in Returning /\ ~Current(s)
    /\ Finish(s)
    /\ UNCHANGED <<storeVars, chainVars, durable, faults>>

(* The page is closed, or storage, readback or context throws, at any await.*)
(* The slot is then a new page.                                             *)
Abandon(s) ==
    /\ op[s].pc \in Returning \cup {"send"}
    /\ Finish(s) /\ Fault
    /\ UNCHANGED <<storeVars, chainVars, durable>>

(* Signed bytes the network has may execute until their last epoch is over. *)
Execute(p) ==
    /\ sends[p] > 0 /\ fate[p] = "none"
    /\ epoch <= Expiration[p]
    /\ \E outcome \in {"success", "failure"} : fate' = [fate EXCEPT ![p] = outcome]
    /\ UNCHANGED <<storeVars, op, epoch, sends, durable, faults>>

AdvanceEpoch ==
    /\ epoch < MaxEpoch
    /\ epoch' = epoch + 1
    /\ UNCHANGED <<storeVars, op, fate, sends, durable, faults>>

ClockPassesLease ==
    /\ LeaseExpires
    /\ UNCHANGED <<op, chainVars, durable, faults>>

Query(s) == FirstRead(s) \/ ReadWatermark(s) \/ SecondRead(s)

Settle(s) ==
    \/ ArchiveFailure(s) \/ SaveSuccess(s) \/ SavePending(s) \/ SaveNotFound(s)
    \/ Verify(s) \/ Expire(s) \/ LeaveNotFound(s)
    \/ MarkBroadcasting(s) \/ Broadcast(s) \/ Acknowledge(s) \/ BroadcastAmbiguous(s)

AnswerPrompt(s) == WalletSigns(s) \/ \E disp \in Disposition : WalletFails(s, disp)

Continue(s) ==
    Query(s) \/ Settle(s) \/ PersistSignature(s) \/ LoseRace(s) \/ DropEvidence(s)

Page(s) ==
    \/ \E p \in Plan : DryRun(s, p)
    \/ CheckArchives(s) \/ Prepare(s) \/ DiscardUnsigned(s)
    \/ RequestSignature(s) \/ AnswerPrompt(s)
    \/ AskNoArtifact(s) \/ ReclaimAwaitingSignature(s)
    \/ StartRecover(s) \/ Continue(s) \/ QueryFails(s) \/ ReadbackFails(s)
    \/ CleanupVerified(s) \/ Abandon(s)

Next ==
    \/ \E s \in Session : Page(s)
    \/ \E p \in Plan : Execute(p)
    \/ AdvanceEpoch \/ ClockPassesLease

Spec == Init /\ [][Next]_vars

(* An operation that runs is carried on by its page, and evidence ages; a   *)
(* prompt is answered; a user with a pending log opens it again and again,  *)
(* to recover it or to say that nothing was signed; time and epochs pass.   *)
Fairness ==
    /\ WF_vars(AdvanceEpoch) /\ WF_vars(ClockPassesLease)
    /\ \A s \in Session :
         /\ WF_vars(Continue(s)) /\ SF_vars(StartRecover(s))
         /\ WF_vars(AnswerPrompt(s)) /\ WF_vars(ReclaimAwaitingSignature(s))
         /\ SF_vars(AskNoArtifact(s))

FairSpec == Spec /\ Fairness

-----------------------------------------------------------------------------
TypeOK ==
    /\ StoreTypeOK
    /\ op \in [Session -> Operating]
    /\ epoch \in Nat
    /\ fate \in [Plan -> {"none", "success", "failure"}]
    /\ sends \in [Plan -> Nat]
    /\ durable \subseteq Plan
    /\ faults \in Nat

(* The log still holds p's signed bytes. *)
Tracked(p) == active.state \in SignedState /\ active.plan = p

Settled(p) == \/ receipts[IdentityOf[p]] = p
              \/ p \in failures \cup expirations

(* "Unknown transaction outcomes require query-first recovery, never a     *)
(* replacement signature": whatever pages crash or race, signed bytes that *)
(* may still execute are still the ones in the log.                         *)
LiveBytesTracked ==
    \A p \in Plan : sends[p] > 0 /\ ~Decided(p) => Tracked(p)

(* The archives and the terminal records never contradict the chain: a     *)
(* receipt means success, a failure failed, an expiration can never execute.*)
ArchivesAgreeWithChain ==
    /\ \A i \in Identity : receipts[i] # NoPlan => fate[receipts[i]] = "success"
    /\ \A p \in failures : fate[p] = "failure"
    /\ \A p \in expirations : fate[p] = "none" /\ epoch > Expiration[p]
    /\ active.state = "VERIFIED" => fate[active.plan] = "success"

(* No outcome is lost: what was executed is archived or still in the log.   *)
OutcomeNeverLost ==
    \A p \in Plan : fate[p] # "none" => Settled(p) \/ Tracked(p)

(* The bytes that reach the network were durable in the log before.         *)
DurableBeforeBroadcast == \A p \in Plan : sends[p] > 0 => p \in durable

(* An immutable action identity succeeds on chain at most once. *)
OneSuccessPerIdentity ==
    \A p, q \in Plan : fate[p] = "success" /\ fate[q] = "success"
                       /\ IdentityOf[p] = IdentityOf[q] => p = q

(* A digest that failed, expired or completed never receives another        *)
(* signature request.                                                       *)
SettledNeverSignedAgain ==
    active.state \in UnsignedState => ~Settled(active.plan)

(* The log counts every submission: a crash between the count and the       *)
(* submission loses none.                                                   *)
CastsCountSends ==
    \A p \in Plan : Tracked(p) => sends[p] <= active.casts

(* Each durable signature is asked for, broadcast and settled before the    *)
(* next: in any step, the log lets go of signed bytes only into an archive. *)
SignedUntilSettled ==
    [][\A p \in Plan : Tracked(p) /\ ~Tracked(p)' => Settled(p)']_vars

(* The store's own check, written apart from the controller, never refuses  *)
(* a write the controller proposes: every step is a step of the store.      *)
StoreNeverRefuses == StoreSpec

(* The plan in flight, and the ledger the archives make. *)
InFlight == IF active.state \in SignedState \ {"FINALIZED_FAILURE"}
            THEN active.plan ELSE NoPlan
Entry(p) == CASE receipts[IdentityOf[p]] = p -> "receipt"
              [] p \in failures -> "failure"
              [] p \in expirations -> "expired"
              [] OTHER -> "open"

Abstract == INSTANCE SingleFlight
    WITH flight <- InFlight, ledger <- [p \in Plan |-> Entry(p)]

(* Pages, log, wallet and network together are one transaction in flight at *)
(* a time with a truthful ledger.                                           *)
OneTransactionInFlight == Abstract!FlightSpec

(* A wallet request does not block the Root for ever, even when the page    *)
(* that made it died with the prompt open.                                  *)
RequestResolves ==
    (active.state = "AWAITING_SIGNATURE") ~> (active.state # "AWAITING_SIGNATURE")

(* Signed bytes do not stay in doubt: one page that keeps recovering, with  *)
(* finitely many failures, reaches an outcome.                              *)
DoubtResolves ==
    \A p \in Plan : (active.plan = p /\ active.state \in Recoverable)
        ~> (active.plan # p \/ active.state \notin Recoverable)
=============================================================================
