------------------------------ MODULE WalrusUpload ------------------------------
(***************************************************************************)
(* Walrus uploads: every blob has a durable record of its own, which goes  *)
(* through two signed transactions, the purchase of its storage (REGISTER) *)
(* and the certification of what the relay stored (CERTIFY).  A group of   *)
(* records may be claimed by a batch, which takes all of them through the  *)
(* same two transactions at once.  Any number of tabs act on one store, of *)
(* which every write compares all it replaces.                             *)
(*                                                                         *)
(* A job is what is signed for: {u} is the record of upload u, a larger    *)
(* group is the batch of its members.  ENCODED and UPLOADED are the state  *)
(* "ready" of the two stages, and "finalized" is REGISTER_FINALIZED.       *)
(***************************************************************************)
EXTENDS Integers, Sequences, FiniteSets

CONSTANTS
    Uploads,
    Groups,       \* groups of uploads that a batch may be claimed for
    Tabs,
    Home,         \* the tab that recovers
    MaxBuilds,    \* bound: transactions that are ever built
    MaxRejections,\* bound: prompts of a batch that the user rejects
    None

ASSUME WalrusAssumption ==
    /\ \A g \in Groups : g \subseteq Uploads /\ \E u, v \in g : u # v
    /\ Home \in Tabs /\ MaxBuilds \in Nat /\ MaxRejections \in Nat
    /\ None \notin Nat /\ None \notin Groups

VARIABLES
    jobs,         \* the records of uploads and of batches
    claim,        \* upload -> its batchKey, or None
    call,         \* tab -> the publisher's call it is running
    built,        \* the transactions that were built, in order
    sent,         \* those the network was given
    fate,         \* what became of each on the chain
    rejections    \* prompts rejected so far

storeVars == <<jobs, claim>>
chainVars == <<sent, fate>>
vars == <<jobs, claim, call, built, sent, fate, rejections>>

Single(u) == {u}
Keys == {Single(u) : u \in Uploads} \cup Groups
Digests == 1..MaxBuilds
Stages == {"register", "certify"}
States == {"none", "ready", "prepared", "signing", "signed", "finalized",
           "complete", "failed", "legacy"}

\* revision is the record's own; registration and stored are what the
\* upload evidence of UPLOADED and later holds.
Job == [state : States, stage : Stages, revision : Nat, tx : Digests \cup {None},
        broadcast : BOOLEAN, registration : Digests \cup {None}, stored : SUBSET Uploads]

NoJob == [state |-> "none", stage |-> "register", revision |-> 0, tx |-> None,
          broadcast |-> FALSE, registration |-> None, stored |-> {}]

\* What the transactions of a job are for
Transaction == [key : Keys, stage : Stages, registration : Digests \cup {None}]

Prepared == [NoJob EXCEPT !.state = "ready", !.revision = 1]
Encoded(job) == job.state = "ready" /\ job.stage = "register"
Bumped(job) == [job EXCEPT !.revision = @ + 1]

Steps == {"idle", "review", "wallet", "prompt", "ask", "sent", "store"}
Call == [at : Steps, key : Keys \cup {{}}, job : Job, tx : Digests \cup {None}]
Idle == [at |-> "idle", key |-> {}, job |-> NoJob, tx |-> None]

Init ==
    /\ jobs = [k \in Keys |-> NoJob]
    /\ claim = [u \in Uploads |-> None]
    /\ call = [t \in Tabs |-> Idle]
    /\ built = << >>
    /\ sent = {}
    /\ fate = [d \in Digests |-> "none"]
    /\ rejections = 0

-----------------------------------------------------------------------------
(* The store. *)

\* create, of prepare
Prepare(u) ==
    /\ jobs[Single(u)] = NoJob
    /\ jobs' = [jobs EXCEPT ![Single(u)] = Prepared]
    /\ UNCHANGED <<claim, call, built, chainVars, rejections>>

(* Mutant: a claim does not ask whether a member is signed for already. *)
ClaimAnyway(g) ==
    /\ jobs[g] = NoJob
    /\ \A u \in g : jobs[Single(u)] # NoJob /\ claim[u] = None
    /\ jobs' = [jobs EXCEPT ![g] = Prepared]
    /\ claim' = [u \in Uploads |-> IF u \in g THEN g ELSE claim[u]]
    /\ UNCHANGED <<call, built, chainVars, rejections>>

\* claimBlobBatch: members that have nothing signed are the batch's from now
\* on; otherwise all of them stay as they are, for good.
ClaimBatch(g) ==
    /\ jobs[g] = NoJob
    /\ \A u \in g : jobs[Single(u)] # NoJob /\ claim[u] = None
    /\ IF \A u \in g : Encoded(jobs[Single(u)])
       THEN /\ jobs' = [k \in Keys |-> IF k = g THEN Prepared
                                       ELSE IF \E u \in g : k = Single(u) THEN Bumped(jobs[k])
                                       ELSE jobs[k]]
            /\ claim' = [u \in Uploads |-> IF u \in g THEN g ELSE claim[u]]
       ELSE /\ jobs' = [jobs EXCEPT ![g].state = "legacy"]
            /\ UNCHANGED claim
    /\ UNCHANGED <<call, built, chainVars, rejections>>

(* Mutant: a write does not compare. *)
BlindPut(t, next) == jobs' = [jobs EXCEPT ![call[t].key] = Bumped(next)]

\* compareAndSwap and compareAndSwapBlobBatch: of all that is replaced
Swap(t, next) ==
    /\ jobs[call[t].key] = call[t].job
    /\ jobs' = [jobs EXCEPT ![call[t].key] = Bumped(next)]

-----------------------------------------------------------------------------
(* Calls. Each is a sequence of awaits that may end at any of them. *)

Return(t) == call' = [call EXCEPT ![t] = Idle]
Goto(t, at) == call' = [call EXCEPT ![t].at = at]
Begin(t, k, at) == /\ call[t] = Idle
                   /\ call' = [call EXCEPT ![t] = [Idle EXCEPT !.at = at, !.key = k,
                                                              !.job = jobs[k]]]
\* The call goes on with what it wrote.
Reread(t, at) ==
    call' = [call EXCEPT ![t].at = at, ![t].job = jobs'[call[t].key]]

InBatch(k) == k \in Groups
Standalone(k) == \E u \in Uploads : k = Single(u) /\ claim[u] = None

\* batchExclusive: another tab is signing or recovering this batch.
Exclusive == {"prompt", "ask", "sent", "store"}
Busy(k) == InBatch(k) /\ \E t \in Tabs : call[t].key = k /\ call[t].at \in Exclusive

\* buildRegister, buildCertify, and the builds of prepareBatchReview and of
\* prepareReview: each has a nonce and so a digest of its own. Without a
\* review, requestSignature goes straight to the wallet.
Build(t, k) ==
    /\ jobs[k].state = "ready"
    /\ InBatch(k) \/ Standalone(k)
    /\ Len(built) < MaxBuilds
    /\ built' = Append(built, [key |-> k, stage |-> jobs[k].stage,
                               registration |-> jobs[k].registration])
    /\ \E at \in {"review"} \cup (IF InBatch(k) THEN {} ELSE {"wallet"}) :
          /\ call[t] = Idle
          /\ call' = [call EXCEPT ![t] = [at |-> at, key |-> k, job |-> jobs[k],
                                          tx |-> Len(built) + 1]]
    /\ UNCHANGED <<storeVars, chainVars, rejections>>

\* signReviewed: the record is as it was reviewed.
SignReviewed(t) ==
    /\ call[t].at = "review" /\ Standalone(call[t].key)
    /\ jobs[call[t].key] = call[t].job
    /\ Goto(t, "wallet")
    /\ UNCHANGED <<storeVars, built, chainVars, rejections>>

\* requestSignature: nothing is written before the wallet has answered.
KeepSignature(t) ==
    /\ call[t].at = "wallet"
    /\ Swap(t, [call[t].job EXCEPT !.state = "signed", !.tx = call[t].tx, !.broadcast = FALSE])
    /\ Return(t)
    /\ UNCHANGED <<claim, built, chainVars, rejections>>

\* prepareBatchReview stores what is to be reviewed ...
KeepReview(t) ==
    /\ call[t].at = "review" /\ InBatch(call[t].key)
    /\ Swap(t, [call[t].job EXCEPT !.state = "prepared", !.tx = call[t].tx, !.broadcast = FALSE])
    /\ Return(t)
    /\ UNCHANGED <<claim, built, chainVars, rejections>>

\* ... and drops it again if it expired before it was signed.
DropReview(g) ==
    /\ InBatch(g) /\ jobs[g].state = "prepared"
    /\ fate[jobs[g].tx] = "lapsed"
    /\ jobs' = [jobs EXCEPT ![g] = Bumped([@ EXCEPT !.state = "ready", !.tx = None])]
    /\ UNCHANGED <<claim, call, built, chainVars, rejections>>

\* signBatchReviewed: that the wallet is asked is durable before it is.
SignBatch(t, g) ==
    /\ InBatch(g) /\ ~ Busy(g) /\ call[t] = Idle
    /\ jobs[g].state = "prepared" /\ fate[jobs[g].tx] # "lapsed"
    /\ jobs' = [jobs EXCEPT ![g] = Bumped([@ EXCEPT !.state = "signing"])]
    /\ call' = [call EXCEPT ![t] = [at |-> "prompt", key |-> g, job |-> jobs'[g], tx |-> None]]
    /\ UNCHANGED <<claim, built, chainVars, rejections>>

WalletRejects(t) ==
    /\ call[t].at = "prompt" /\ rejections < MaxRejections
    /\ Swap(t, [call[t].job EXCEPT !.state = "prepared"])
    /\ Return(t)
    /\ rejections' = rejections + 1
    /\ UNCHANGED <<claim, built, chainVars>>

KeepBatchSignature(t) ==
    /\ call[t].at = "prompt"
    /\ Swap(t, [call[t].job EXCEPT !.state = "signed"])
    /\ Return(t)
    /\ UNCHANGED <<claim, built, chainVars, rejections>>

\* A wallet that answers nothing may have signed, and sent it by itself: the
\* case settleBatch looks for the signature on the chain.
WalletSends(t) ==
    /\ call[t].at = "prompt"
    /\ sent' = sent \cup {call[t].job.tx}
    /\ Return(t)
    /\ UNCHANGED <<storeVars, built, fate, rejections>>

-----------------------------------------------------------------------------
(* resume and resumeBatch. *)

(* Mutant: a batch is only resumed when its signature is known. *)
ResumeSigned(t, k) ==
    /\ \/ Standalone(k) /\ jobs[k].state \in {"signed", "finalized"}
       \/ InBatch(k) /\ ~ Busy(k) /\ jobs[k].state \in {"signed", "finalized"}
    /\ Begin(t, k, IF jobs[k].state = "finalized" THEN "store" ELSE "ask")
    /\ UNCHANGED <<storeVars, built, chainVars, rejections>>

Resume(t, k) ==
    /\ \/ Standalone(k) /\ jobs[k].state \in {"signed", "finalized"}
       \/ InBatch(k) /\ ~ Busy(k) /\ jobs[k].state \in {"signing", "signed", "finalized"}
    /\ Begin(t, k, IF jobs[k].state = "finalized" THEN "store" ELSE "ask")
    /\ UNCHANGED <<storeVars, built, chainVars, rejections>>

\* What the chain says of a transaction is final and every write compares, so
\* that a query and the write of its answer are one step. A node may also not
\* have seen it yet: the exact bytes are then sent, again if need be, but
\* without their signature there is nothing to do.
Told(t, outcome) == call[t].at = "ask" /\ fate[call[t].job.tx] = outcome

SaveFailure(t) ==
    /\ Told(t, "failure")
    /\ Swap(t, [call[t].job EXCEPT !.state = "failed"])
    /\ Return(t)
    /\ UNCHANGED <<claim, built, chainVars, rejections>>

Broadcast(t) ==
    /\ call[t].at = "ask" /\ call[t].job.state = "signed"
    /\ sent' = sent \cup {call[t].job.tx}
    /\ IF call[t].job.broadcast THEN Return(t) ELSE Goto(t, "sent")
    /\ UNCHANGED <<storeVars, built, fate, rejections>>

SaveBroadcast(t) ==
    /\ call[t].at = "sent"
    /\ Swap(t, [call[t].job EXCEPT !.broadcast = TRUE])
    /\ Return(t)
    /\ UNCHANGED <<claim, built, chainVars, rejections>>

\* The signature of a batch is taken from the finalized transaction.
AdoptSignature(t) ==
    /\ Told(t, "success") /\ call[t].job.state = "signing"
    /\ Swap(t, [call[t].job EXCEPT !.state = "signed"])
    /\ Reread(t, "ask")
    /\ UNCHANGED <<claim, built, chainVars, rejections>>

SaveRegistered(t) ==
    /\ Told(t, "success")
    /\ call[t].job.state = "signed" /\ call[t].job.stage = "register"
    /\ Swap(t, [call[t].job EXCEPT !.state = "finalized", !.registration = call[t].job.tx])
    /\ Reread(t, "store")
    /\ UNCHANGED <<claim, built, chainVars, rejections>>

\* upload: the relay stores a blob and certifies that it did. A batch keeps
\* each certificate as it comes, and is UPLOADED with the last.
Store(t) ==
    /\ call[t].at = "store"
    /\ LET job == call[t].job
       IN \/ /\ job.stored = call[t].key \/ ~ InBatch(call[t].key)
             /\ Swap(t, [job EXCEPT !.state = "ready", !.stage = "certify", !.tx = None,
                                    !.broadcast = FALSE, !.stored = call[t].key])
             /\ Return(t)
          \/ /\ InBatch(call[t].key)
             /\ \E u \in call[t].key \ job.stored :
                   Swap(t, [job EXCEPT !.stored = @ \cup {u}])
             /\ Reread(t, "store")
    /\ UNCHANGED <<claim, built, chainVars, rejections>>

Succeeded(stage) == {d \in Digests : d <= Len(built) /\ built[d].stage = stage /\ fate[d] = "success"}

\* An object is bought by one transaction and certified by another.
CertifiedObject(u, registration) ==
    \E d \in Succeeded("certify") : u \in built[d].key /\ built[d].registration = registration

\* readback: of the object that was bought. A batch completes its members.
SaveComplete(t) ==
    LET k == call[t].key
        job == call[t].job
    IN /\ Told(t, "success")
       /\ job.state = "signed" /\ job.stage = "certify"
       /\ \A u \in k : CertifiedObject(u, job.registration)
       /\ jobs[k] = job
       /\ jobs' = [i \in Keys |->
                     IF i = k THEN Bumped([job EXCEPT !.state = "complete"])
                     ELSE IF InBatch(k) /\ \E u \in k : i = Single(u)
                     THEN Bumped([jobs[i] EXCEPT !.state = "complete", !.stage = "certify",
                                                 !.tx = job.tx, !.registration = job.registration,
                                                 !.stored = i])
                     ELSE jobs[i]]
       /\ Return(t)
       /\ UNCHANGED <<claim, built, chainVars, rejections>>

\* The call throws: a lost compareAndSwap, no answer, a closed tab.
Abandon(t) ==
    /\ call[t] # Idle
    /\ Return(t)
    /\ UNCHANGED <<storeVars, built, chainVars, rejections>>

-----------------------------------------------------------------------------
(* The chain. *)

Execute(d) ==
    /\ d \in sent /\ fate[d] = "none"
    /\ \/ fate' = [fate EXCEPT ![d] = "failure"]
       \/ /\ built[d].stage = "certify" =>
                \A u \in built[d].key : ~ CertifiedObject(u, built[d].registration)
          /\ fate' = [fate EXCEPT ![d] = "success"]
    /\ UNCHANGED <<storeVars, call, built, sent, rejections>>

Lapse(d) ==
    /\ d <= Len(built) /\ fate[d] = "none"
    /\ fate' = [fate EXCEPT ![d] = "lapsed"]
    /\ UNCHANGED <<storeVars, call, built, sent, rejections>>

Advance(t) ==
    \/ SignReviewed(t) \/ KeepSignature(t) \/ KeepReview(t)
    \/ WalletRejects(t) \/ KeepBatchSignature(t) \/ WalletSends(t)
    \/ SaveFailure(t) \/ Broadcast(t) \/ SaveBroadcast(t)
    \/ AdoptSignature(t) \/ SaveRegistered(t) \/ Store(t) \/ SaveComplete(t) \/ Abandon(t)

Next ==
    \/ \E u \in Uploads : Prepare(u)
    \/ \E g \in Groups : ClaimBatch(g) \/ DropReview(g) \/ \E t \in Tabs : SignBatch(t, g)
    \/ \E t \in Tabs, k \in Keys : Build(t, k) \/ Resume(t, k)
    \/ \E t \in Tabs : Advance(t)
    \/ \E d \in Digests : Execute(d) \/ Lapse(d)

Spec == Init /\ [][Next]_vars

(* In one tab the user comes back to every job.  In every tab a step may   *)
(* fail any number of times but not for ever, and no call hangs for ever.  *)
Recovery(t) == AdoptSignature(t) \/ SaveRegistered(t) \/ Store(t)

LiveSpec ==
    /\ Spec
    /\ \A k \in Keys : SF_vars(Resume(Home, k))
    /\ \A t \in Tabs : SF_vars(Recovery(t)) /\ WF_vars(Abandon(t))

-----------------------------------------------------------------------------
(* Every variable has its type. *)
TypeOK ==
    /\ jobs \in [Keys -> Job]
    /\ claim \in [Uploads -> Groups \cup {None}]
    /\ call \in [Tabs -> Call]
    /\ built \in Seq(Transaction) /\ Len(built) <= MaxBuilds
    /\ sent \subseteq Digests
    /\ fate \in [Digests -> {"none", "success", "failure", "lapsed"}]
    /\ rejections \in Nat

Bought(u) == {d \in Succeeded("register") : u \in built[d].key}

(* The uploads implement the abstract purchase: however tabs and batches
   interleave, no blob is paid for twice, none is certified that was
   not bought, and none is complete that is not certified. *)
Purchase == INSTANCE BlobPurchase WITH
    Blobs <- Uploads,
    Payments <- Digests,
    bought <- [u \in Uploads |-> Bought(u)],
    certified <- {u \in Uploads : \E d \in Succeeded("certify") : u \in built[d].key},
    complete <- {u \in Uploads : jobs[Single(u)].state = "complete"}

BoughtOnce == Purchase!PurchaseSpec

\* The job that signs for an upload
InCharge(u) == jobs[IF claim[u] = None THEN Single(u) ELSE claim[u]]

(* Storage that was paid for is never lost sight of: the job in charge of a
   blob names the transaction that bought it, signed or not, whatever failed
   or was retried since. *)
PaidIsKept ==
    \A u \in Uploads : \A d \in Bought(u) : d \in {InCharge(u).tx, InCharge(u).registration}

(* What was paid for is stored in the end, also when the wallet's answer was
   lost and calls were cut off. *)
PaidIsStored ==
    \A u \in Uploads : Bought(u) # {} ~> InCharge(u).stored # {} /\ InCharge(u).stage = "certify"
=============================================================================
