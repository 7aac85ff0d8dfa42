--------------------------- MODULE MakerPublication ---------------------------
(***************************************************************************)
(* Publishing a Maker: createMakerV8PublicationControllerV8 drives the log *)
(* of PublicationStore, one transaction after another, in any number of    *)
(* tabs that know of each other only through the revisions they compare.   *)
(*                                                                         *)
(* A call is a sequence of awaits.  call[t] is where tab t stands in the   *)
(* one it runs, with the plan it read.  Every build of a transaction has a *)
(* random nonce, so each is a digest of its own; it may execute during the *)
(* epoch it was built in and the next, which nothing in the controller     *)
(* looks at: here it may lapse at any time.                                *)
(***************************************************************************)
EXTENDS PublicationStore

CONSTANTS
    Tabs,
    MaxDoubts       \* bound: queries and wallets that fail without an answer

ASSUME MakerPublicationAssumption == MaxDoubts \in Nat /\ None \notin Attempts

VARIABLES
    call,           \* tab -> the controller call it is running
    built,          \* digest -> the attempt and ordinal it was built for
    sent,           \* digests that the network was given
    fate,           \* digest -> what became of it on the chain
    doubts          \* failures without an answer so far

chainVars == <<sent, fate>>
vars == <<logVars, call, built, chainVars, doubts>>

-----------------------------------------------------------------------------

Steps == {"idle", "review", "wallet", "opened", "ask", "answered", "replay",
          "accepted", "successor"}

Replies == {"NONE", "NOT_FOUND", "FINALIZED_SUCCESS", "FINALIZED_FAILURE"}

Call == [at : Steps, attempt : Attempts \cup {None}, plan : Plan,
         digest : Digests \cup {None}, reply : Replies, replaying : BOOLEAN]

Idle == [at |-> "idle", attempt |-> None, plan |-> Unused, digest |-> None,
         reply |-> "NONE", replaying |-> FALSE]

Unbuilt == [attempt |-> None, ordinal |-> 0]

Init ==
    /\ LogInit
    /\ call = [t \in Tabs |-> Idle]
    /\ built = [d \in Digests |-> Unbuilt]
    /\ sent = {}
    /\ fate = [d \in Digests |-> "none"]
    /\ doubts = 0

Rev(t) == call[t].plan.revision

Return(t) == call' = [call EXCEPT ![t] = Idle]

Goto(t, at) == call' = [call EXCEPT ![t].at = at]

(* A write is read back, and the call goes on with the plan it wrote.      *)
Reread(t, at) ==
    call' = [call EXCEPT ![t].at = at, ![t].plan = plans'[call[t].attempt]]

Begin(t, a, at, replaying) ==
    /\ call[t] = Idle
    /\ call' = [call EXCEPT ![t] = [Idle EXCEPT !.at = at, !.attempt = a,
                               !.plan = plans[a], !.replaying = replaying]]

Doubt == doubts < MaxDoubts /\ doubts' = doubts + 1

-----------------------------------------------------------------------------
(* Preparing and giving up.                                                *)

Prepare(a) ==
    /\ CreateAttempt(a)
    /\ UNCHANGED <<call, built, chainVars, doubts>>

(* deleteUnsigned compares the revision just read: nothing was written.    *)
DiscardUnsigned(a) ==
    /\ DeleteUnsigned(a)
    /\ UNCHANGED <<call, built, chainVars, doubts>>

(* inspect and resume, where a checkpoint asks for the next transaction.   *)
StartSuccessor(t, a) ==
    /\ plans[a].status = "ACTIVE" /\ plans[a].outcome = "NONE"
    /\ Begin(t, a, "successor", FALSE)
    /\ UNCHANGED <<logVars, built, chainVars, doubts>>

PrepareSuccessor(t) ==
    /\ call[t].at = "successor"
    /\ PutSuccessor(call[t].attempt, Rev(t))
    /\ Return(t)
    /\ UNCHANGED <<built, chainVars, doubts>>

(* The owned object a READY transaction names has moved on.                *)
RepairReference(a) ==
    /\ RepairUnsignedOwnedReference(a, plans[a].revision)
    /\ UNCHANGED <<call, built, chainVars, doubts>>

-----------------------------------------------------------------------------
(* requestSignature.  Nothing is written before the wallet has answered.   *)

Ready(a) == plans[a].status = "ACTIVE" /\ plans[a].outcome = "READY"

(* prepareReview builds and simulates a transaction, which signReviewed    *)
(* takes to the wallet if the plan is still at the revision.               *)
RequestSignature(t, a, d) ==
    /\ Ready(a) /\ built[d] = Unbuilt
    /\ call[t] = Idle
    /\ \E at \in {"review", "wallet"} :
           call' = [call EXCEPT ![t] = [Idle EXCEPT !.at = at, !.attempt = a,
                                           !.plan = plans[a], !.digest = d]]
    /\ built' = [built EXCEPT ![d] = [attempt |-> a, ordinal |-> plans[a].ordinal]]
    /\ UNCHANGED <<logVars, chainVars, doubts>>

SignReviewed(t) ==
    /\ call[t].at = "review"
    /\ Ready(call[t].attempt) /\ plans[call[t].attempt].revision = Rev(t)
    /\ Goto(t, "wallet")
    /\ UNCHANGED <<logVars, built, chainVars, doubts>>

WalletRejects(t) ==
    /\ call[t].at = "wallet"
    /\ AppendEvent(call[t].attempt, Rev(t), "WALLET_REJECTED", None)
    /\ Return(t)
    /\ UNCHANGED <<built, chainVars, doubts>>

(* Mutant: the bytes are sent although their signature was not stored. *)
SendUnlogged(t) ==
    /\ call[t].at = "wallet"
    /\ sent' = sent \cup {call[t].digest}
    /\ Return(t)
    /\ UNCHANGED <<logVars, built, fate, doubts>>

KeepSignature(t) ==
    /\ call[t].at = "wallet"
    /\ AppendEvent(call[t].attempt, Rev(t), "SIGNED", call[t].digest)
    /\ Return(t)
    /\ UNCHANGED <<built, chainVars, doubts>>

-----------------------------------------------------------------------------
(* recoverOutcome, and replayExact, which sends the bytes again if they    *)
(* are not found.                                                          *)

(* Mutant: an unknown outcome is left as it is. *)
RecoverKnown(t, a, replaying) ==
    /\ plans[a].status = "ACTIVE" /\ plans[a].outcome \in {"SIGNED", "OUTCOME_PENDING"}
    /\ Begin(t, a, "opened", replaying)
    /\ UNCHANGED <<logVars, built, chainVars, doubts>>

StartRecover(t, a, replaying) ==
    /\ plans[a].status = "ACTIVE" /\ plans[a].outcome \in InFlight
    /\ Begin(t, a, "opened", replaying)
    /\ UNCHANGED <<logVars, built, chainVars, doubts>>

(* The plan is made pending before its digest is asked for.  It stays as   *)
(* it is where the last event says so already.                             *)
AppendPending(t) ==
    LET c == call[t] IN
    /\ c.at = "opened"
    /\ IF /\ c.plan.outcome = "OUTCOME_PENDING"
          /\ Head_(Log(c.attempt, c.plan.ordinal)).status # "BROADCAST_ACCEPTED"
       THEN Goto(t, "ask") /\ UNCHANGED logVars
       ELSE /\ AppendEvent(c.attempt, Rev(t), "OUTCOME_PENDING", c.plan.digest)
            /\ Reread(t, "ask")
    /\ UNCHANGED <<built, chainVars, doubts>>

(* What a node answers is so, but it may not have seen it yet.             *)
Answers(d) ==
    {"NOT_FOUND"} \cup
        CASE fate[d] = "success" -> {"FINALIZED_SUCCESS"}
          [] fate[d] = "failure" -> {"FINALIZED_FAILURE"}
          [] fate[d] \in {"none", "lapsed"} -> {}

QueryTransaction(t) ==
    /\ call[t].at = "ask"
    /\ \E reply \in Answers(call[t].plan.digest) :
           call' = [call EXCEPT ![t].at = "answered", ![t].reply = reply]
    /\ UNCHANGED <<logVars, built, chainVars, doubts>>

AppendUnknown(t) ==
    /\ call[t].at = "ask" /\ Doubt
    /\ AppendEvent(call[t].attempt, Rev(t), "OUTCOME_UNKNOWN", call[t].plan.digest)
    /\ Return(t)
    /\ UNCHANGED <<built, chainVars>>

(* The plan is read again: its revision must still be the one it had.      *)
AppendFailure(t) ==
    /\ call[t].at = "answered" /\ call[t].reply = "FINALIZED_FAILURE"
    /\ AppendEvent(call[t].attempt, Rev(t), "FINALIZED_FAILURE", call[t].plan.digest)
    /\ Return(t)
    /\ UNCHANGED <<built, chainVars, doubts>>

FinalizeSuccess(t) ==
    /\ call[t].at = "answered" /\ call[t].reply = "FINALIZED_SUCCESS"
    /\ AppendEvent(call[t].attempt, Rev(t), "FINALIZED_SUCCESS", call[t].plan.digest)
    /\ Return(t)
    /\ UNCHANGED <<built, chainVars, doubts>>

(* The exact bytes, from the log, if nothing was written since the query.  *)
StartReplay(t) ==
    /\ call[t].at = "answered" /\ call[t].reply = "NOT_FOUND"
    /\ call[t].replaying
    /\ plans[call[t].attempt].revision = Rev(t)
    /\ Goto(t, "replay")
    /\ UNCHANGED <<logVars, built, chainVars, doubts>>

(* The call may fail after the network has got the bytes.                  *)
Broadcast(t) ==
    /\ call[t].at = "replay"
    /\ sent' = sent \cup {call[t].plan.digest}
    /\ Goto(t, "accepted")
    /\ UNCHANGED <<logVars, built, fate, doubts>>

AppendAccepted(t) ==
    /\ call[t].at = "accepted"
    /\ AppendEvent(call[t].attempt, Rev(t), "BROADCAST_ACCEPTED", call[t].plan.digest)
    /\ call' = [call EXCEPT ![t].at = "opened", ![t].replaying = FALSE,
                            ![t].plan = plans'[call[t].attempt], ![t].reply = "NONE"]
    /\ UNCHANGED <<built, chainVars, doubts>>

(* The call throws or returns without a write: an answer that was not      *)
(* found, a lost compareAndSwap, a wallet in doubt, a closed tab.          *)
Abandon(t) ==
    /\ call[t] # Idle
    /\ Return(t)
    /\ UNCHANGED <<logVars, built, chainVars, doubts>>

-----------------------------------------------------------------------------
(* The chain.                                                              *)

Execute(d) ==
    /\ d \in sent /\ fate[d] = "none"
    /\ \E outcome \in {"success", "failure"} : fate' = [fate EXCEPT ![d] = outcome]
    /\ UNCHANGED <<logVars, call, built, sent, doubts>>

Lapse(d) ==
    /\ built[d] # Unbuilt /\ fate[d] = "none"
    /\ fate' = [fate EXCEPT ![d] = "lapsed"]
    /\ UNCHANGED <<logVars, call, built, sent, doubts>>

Advance(t) ==
    \/ PrepareSuccessor(t) \/ SignReviewed(t) \/ WalletRejects(t) \/ KeepSignature(t)
    \/ AppendPending(t) \/ QueryTransaction(t) \/ AppendUnknown(t)
    \/ AppendFailure(t) \/ FinalizeSuccess(t) \/ StartReplay(t) \/ Broadcast(t)
    \/ AppendAccepted(t)

Next ==
    \/ \E a \in Attempts : Prepare(a) \/ DiscardUnsigned(a) \/ RepairReference(a)
    \/ \E t \in Tabs, a \in Attempts :
           \/ StartSuccessor(t, a)
           \/ \E d \in Digests : RequestSignature(t, a, d)
           \/ \E replaying \in BOOLEAN : StartRecover(t, a, replaying)
    \/ \E t \in Tabs : Advance(t) \/ Abandon(t)
    \/ \E d \in Digests : Execute(d) \/ Lapse(d)

Spec == Init /\ [][Next]_vars

(* A tab that is left open keeps asking for the outcome.  Each step of its *)
(* calls may be cut off any number of times, but not for ever; nor does a  *)
(* node that the outcome has reached keep saying that it has not.          *)
Learn(t) == QueryTransaction(t) /\ call'[t].reply # "NOT_FOUND"

Recovering(t) ==
    /\ \A a \in Attempts : SF_vars(StartRecover(t, a, FALSE))
    /\ SF_vars(AppendPending(t)) /\ SF_vars(Learn(t)) /\ SF_vars(FinalizeSuccess(t))
    /\ WF_vars(Abandon(t))

LiveSpec == Spec /\ \A t \in Tabs : Recovering(t)

-----------------------------------------------------------------------------
(* Properties.                                                             *)

(* Every variable has its type. *)
TypeOK ==
    /\ StoreTypeOK
    /\ call \in [Tabs -> Call]
    /\ built \in [Digests -> [attempt : Attempts \cup {None}, ordinal : Ordinals]]
    /\ sent \subseteq Digests
    /\ fate \in [Digests -> {"none", "success", "failure", "lapsed"}]
    /\ doubts \in Nat

(* Only bytes whose signature the log holds are sent, and only when every  *)
(* ordinal before theirs is checkpointed.                                  *)
SentIsDurable ==
    \A d \in sent :
        LET a == built[d].attempt IN
        /\ a \in Attempts
        /\ \E i \in DOMAIN Log(a, built[d].ordinal) :
               Log(a, built[d].ordinal)[i].digest = d
        /\ built[d].ordinal <= Len(checkpoints[a])

(* A step of an attempt succeeds at most once, however many tabs have a    *)
(* build of it before their wallet.                                        *)
OneSuccessPerOrdinal ==
    \A d, e \in Digests :
        fate[d] = "success" /\ fate[e] = "success" /\ built[d] = built[e] => d = e

(* What the log says of the chain is so, and a success the log does not    *)
(* have yet is one that the cursor still asks for.                         *)
LogAgreesWithChain ==
    /\ \A a \in Attempts :
           /\ \A i \in DOMAIN checkpoints[a] :
                  /\ fate[checkpoints[a][i]] = "success"
                  /\ built[checkpoints[a][i]] = [attempt |-> a, ordinal |-> i - 1]
           /\ plans[a].outcome = "FINALIZED_FAILURE" => fate[plans[a].digest] = "failure"
    /\ \A d \in Digests :
           fate[d] = "success" =>
               LET a == built[d].attempt IN
               \/ \E i \in DOMAIN checkpoints[a] : checkpoints[a][i] = d
               \/ plans[a].digest = d /\ plans[a].outcome \in InFlight

(* Signed bytes leave the cursor only for a checkpoint: an outcome that is *)
(* not known never permits another signature, and an attempt that has      *)
(* signed is never deleted.                                                *)
SignedStaysInFlight ==
    [][\A a \in Attempts :
           plans[a].digest # None /\ plans'[a].digest # plans[a].digest =>
               /\ plans'[a].digest = None
               /\ fate[plans[a].digest] = "success"
               /\ checkpoints'[a] = Append(checkpoints[a], plans[a].digest)]_vars

(* The controller implements the sequence of transactions.                 *)
Sequence == INSTANCE PublicationSequence WITH
    done <- checkpoints,
    flight <- [a \in Attempts |-> plans[a].digest],
    given <- sent,
    ledger <- fate,
    Length <- LastOrdinal + 1

OneTransactionInFlight == Sequence!SeqSpec

(* A transaction that succeeded is checkpointed in the end, although       *)
(* answers are lost and calls are cut off.                                 *)
SuccessIsRecorded ==
    \A d \in Digests :
        fate[d] = "success" ~>
            \E a \in Attempts, i \in Ordinals :
                i < Len(checkpoints[a]) /\ checkpoints[a][i + 1] = d
=============================================================================
