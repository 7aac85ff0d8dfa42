---------------------------- MODULE PlayerAction ----------------------------
(***************************************************************************)
(* The durable action log of the Player: acquiring access, committing a    *)
(* loadout, minting.  createMakerV8PlayerController runs an action as a    *)
(* sequence of awaits, in any number of tabs, over the IndexedDB adapter   *)
(* createMakerV8PlayerPersistenceV8, for one Maker Root and one signer.    *)
(*                                                                         *)
(* An action is one prepared transaction: its id is the hash of its plan   *)
(* and digest, so its bytes never change and signing it twice signs the    *)
(* same bytes.  The store holds its record and two indices, by scope and   *)
(* by Root, that say which action is active.                               *)
(*                                                                         *)
(* Time is abstract: a lease may have run out whenever a reclaim asks.     *)
(* The chain is what the bound fullnode has checkpointed, in epoch order.  *)
(***************************************************************************)
EXTENDS Naturals

CONSTANTS
    Actions,        \* prepared transactions of this Root and signer
    Scopes,         \* what a user can ask for: action, recipe and input
    ScopeOf,        \* action -> its scope
    Tabs,
    Rereads,        \* may a caller ask again about a finished action?
    MaxRevision,    \* bound: revisions of a record
    MaxEpoch,       \* bound: last epoch of the chain
    None

ASSUME PlayerAssumption ==
    /\ ScopeOf \in [Actions -> Scopes]
    /\ Rereads \in BOOLEAN
    /\ MaxRevision \in Nat /\ MaxEpoch \in Nat
    /\ None \notin Actions

VARIABLES
    records,        \* action -> its durable record
    scopeActive,    \* scope -> the action the index names, or None
    rootActive,     \* the action the Root's index names, or None
    flow,           \* tab -> the controller call it is running
    epoch,
    fate,           \* action -> "none", or how its execution was finalized
    sent,           \* actions whose signed bytes the network has
    window          \* action -> last epoch in which it may execute

storeVars == <<records, scopeActive, rootActive>>
chainVars == <<epoch, fate, sent, window>>
vars == <<storeVars, flow, chainVars>>

-----------------------------------------------------------------------------
(* Records.                                                                *)

Finished == {"FINALIZED_SUCCESS", "FINALIZED_FAILURE", "EXPIRED_NOT_FOUND",
             "CANCELLED_UNSIGNED"}

Recoverable == {"SIGNED", "BROADCAST_ACCEPTED", "OUTCOME_UNKNOWN",
                "FINALIZED_UNCERTIFIED", "FINALIZED_SUCCESS",
                "FINALIZED_FAILURE", "EXPIRED_NOT_FOUND"}

Status == Finished \cup Recoverable
              \cup {"ABSENT", "PREPARED", "SIGNING", "SIGNING_UNKNOWN"}

QueryStatus == {"NONE", "NOT_FOUND", "FINALIZED_SUCCESS", "FINALIZED_FAILURE"}

Record == [revision : Nat, status : Status, intent : BOOLEAN, signed : BOOLEAN,
           broadcast : BOOLEAN, query : QueryStatus, certified : BOOLEAN,
           error : BOOLEAN]

Absent == [revision |-> 0, status |-> "ABSENT", intent |-> FALSE,
           signed |-> FALSE, broadcast |-> FALSE, query |-> "NONE",
           certified |-> FALSE, error |-> FALSE]

Prepared == [Absent EXCEPT !.revision = 1, !.status = "PREPARED"]

Unsigned(r) ==
    ~r.signed /\ ~r.broadcast /\ r.query = "NONE" /\ ~r.certified

(* What the controller accepts when it reads a record back.                *)
Readable(r) ==
    \/ /\ r.status \in {"PREPARED", "CANCELLED_UNSIGNED"}
       /\ Unsigned(r) /\ ~r.intent
    \/ /\ r.status \in {"SIGNING", "SIGNING_UNKNOWN"}
       /\ Unsigned(r) /\ r.intent /\ (r.error <=> r.status = "SIGNING_UNKNOWN")
    \/ /\ ~r.intent /\ r.signed
       /\ \/ /\ r.status = "SIGNED" /\ ~r.broadcast /\ r.query = "NONE"
             /\ ~r.certified /\ ~r.error
          \/ /\ r.status = "BROADCAST_ACCEPTED" /\ r.broadcast
             /\ r.query \in {"NONE", "NOT_FOUND"} /\ ~r.certified /\ ~r.error
          \/ /\ r.status = "OUTCOME_UNKNOWN"
             /\ r.query \in {"NONE", "NOT_FOUND"} /\ ~r.certified
          \/ /\ r.status = "FINALIZED_UNCERTIFIED"
             /\ r.query = "FINALIZED_SUCCESS" /\ ~r.certified /\ r.error
          \/ /\ r.status = "FINALIZED_SUCCESS"
             /\ r.query = "FINALIZED_SUCCESS" /\ r.certified /\ ~r.error
          \/ /\ r.status = "FINALIZED_FAILURE"
             /\ r.query = "FINALIZED_FAILURE" /\ ~r.certified /\ r.error
          \/ /\ r.status = "EXPIRED_NOT_FOUND"
             /\ r.query = "NOT_FOUND" /\ ~r.certified /\ r.error

Unsettled(a) == records[a].status \notin Finished \cup {"ABSENT"}

-----------------------------------------------------------------------------
(* The IndexedDB adapter.  It never asks whether what it stores is         *)
(* Readable, and it rewrites both indices whoever they name.               *)

(* Mutant: the Root index is not consulted. *)
CreateByScope(a) ==
    /\ records[a] = Absent
    /\ scopeActive[ScopeOf[a]] = None
    /\ records' = [records EXCEPT ![a] = Prepared]
    /\ scopeActive' = [scopeActive EXCEPT ![ScopeOf[a]] = a]
    /\ rootActive' = a

Create(a) ==
    /\ records[a] = Absent
    /\ scopeActive[ScopeOf[a]] = None /\ rootActive = None
    /\ records' = [records EXCEPT ![a] = Prepared]
    /\ scopeActive' = [scopeActive EXCEPT ![ScopeOf[a]] = a]
    /\ rootActive' = a

Put(a, next) ==
    LET active == IF next.status \in Finished THEN None ELSE a IN
    /\ records' = [records EXCEPT ![a] = next]
    /\ scopeActive' = [scopeActive EXCEPT ![ScopeOf[a]] = active]
    /\ rootActive' = active

(* Mutant: the revision is not compared. *)
BlindPut(a, held, next) ==
    /\ records[a] # Absent /\ held.revision < MaxRevision
    /\ Put(a, next)

CompareAndSwap(a, held, next) ==
    /\ records[a] # Absent /\ held.revision < MaxRevision
    /\ records[a].revision = held.revision
    /\ next.status = "CANCELLED_UNSIGNED" =>
           /\ records[a].status = "PREPARED"
           /\ Unsigned(records[a]) /\ ~records[a].intent
    /\ Put(a, next)

-----------------------------------------------------------------------------
(* Controller calls.  flow[t] is where tab t stands in the one it runs,    *)
(* and the record it read or wrote before its last await.                  *)

Steps == {"idle", "refreshed", "wallet", "send", "accepted", "ask", "answered"}
Reply == QueryStatus \cup {"PAST_WINDOW"}

Flow == [at : Steps, action : Actions \cup {None}, held : Record,
         reply : Reply, recovering : BOOLEAN]

Idle == [at |-> "idle", action |-> None, held |-> Absent, reply |-> "NONE",
         recovering |-> FALSE]

Init ==
    /\ records = [a \in Actions |-> Absent]
    /\ scopeActive = [s \in Scopes |-> None]
    /\ rootActive = None
    /\ flow = [t \in Tabs |-> Idle]
    /\ epoch = 0
    /\ fate = [a \in Actions |-> "none"]
    /\ sent = {}
    /\ window = [a \in Actions |-> 0]

(* The checkpoint every call ends a step with: the tab continues with the  *)
(* record it wrote, or is done.                                            *)
Persist(t, next, at) ==
    LET f == flow[t]
        written == [next EXCEPT !.revision = f.held.revision + 1]
    IN
    /\ CompareAndSwap(f.action, f.held, written)
    /\ flow' = [flow EXCEPT ![t] =
           IF at = "idle" THEN Idle ELSE [f EXCEPT !.at = at, !.held = written]]
    /\ UNCHANGED chainVars

(* A new action, where no index names one.  Its build may have been made   *)
(* durable an epoch before.                                                *)
Prepare(a) ==
    /\ Create(a)
    /\ \E last \in {epoch, epoch + 1} : window' = [window EXCEPT ![a] = last]
    /\ UNCHANGED <<flow, epoch, fate, sent>>

(* A prepared action that never entered signing is given up.               *)
RetireUnsigned(a) ==
    LET r == records[a] IN
    /\ r.status = "PREPARED" /\ Readable(r)
    /\ a \in {rootActive, scopeActive[ScopeOf[a]]}
    /\ CompareAndSwap(a, r, [r EXCEPT !.revision = @ + 1, !.error = FALSE,
                                      !.status = "CANCELLED_UNSIGNED"])
    /\ UNCHANGED <<flow, chainVars>>

(* executePlayerAction: read, re-authorize and simulate the exact bytes.   *)
Refresh(t, a) ==
    LET r == records[a] IN
    /\ flow[t] = Idle
    /\ r.status = "PREPARED" /\ Readable(r)
    /\ epoch <= window[a] /\ fate[a] = "none"
    /\ flow' = [flow EXCEPT ![t] = [Idle EXCEPT !.at = "refreshed",
                                               !.action = a, !.held = r]]
    /\ UNCHANGED <<storeVars, chainVars>>

ReserveIntent(t) ==
    /\ flow[t].at = "refreshed"
    /\ Persist(t, [flow[t].held EXCEPT !.status = "SIGNING", !.intent = TRUE,
                                      !.error = FALSE], "wallet")

WalletRejects(t) ==
    /\ flow[t].at = "wallet"
    /\ Persist(t, [flow[t].held EXCEPT !.status = "PREPARED", !.intent = FALSE,
                                      !.error = TRUE], "idle")

(* The wallet failed without saying that it signed nothing.                *)
WalletDoubtful(t) ==
    /\ flow[t].at = "wallet"
    /\ Persist(t, [flow[t].held EXCEPT !.status = "SIGNING_UNKNOWN",
                                      !.error = TRUE], "idle")

KeepSignature(t) ==
    /\ flow[t].at = "wallet"
    /\ Persist(t, [flow[t].held EXCEPT !.status = "SIGNED", !.intent = FALSE,
                                      !.signed = TRUE, !.error = FALSE], "send")

(* The network gets the bytes; the answer may not come back.               *)
Broadcast(t) ==
    /\ flow[t].at = "send"
    /\ sent' = sent \cup {flow[t].action}
    /\ \/ flow' = [flow EXCEPT ![t].at = "accepted"]
       \/ flow' = [flow EXCEPT ![t] = Idle]
    /\ UNCHANGED <<storeVars, epoch, fate, window>>

AcceptBroadcast(t) ==
    LET f == flow[t]
        accepted == [f.held EXCEPT !.status = "BROADCAST_ACCEPTED",
                                   !.broadcast = TRUE, !.error = FALSE]
    IN
    /\ f.at = "accepted"
    /\ IF f.recovering
       THEN Persist(t, [accepted EXCEPT !.query = "NOT_FOUND"], "idle")
       ELSE Persist(t, accepted, "ask")

(* recoverPlayerAction reads the record and asks for its digest.           *)
StartRecover(t, a) ==
    LET r == records[a] IN
    /\ flow[t] = Idle
    /\ r.status \in Recoverable /\ Readable(r)
    /\ r.status \in Finished => Rereads
    /\ flow' = [flow EXCEPT ![t] = [Idle EXCEPT !.at = "ask", !.action = a,
                                        !.held = r, !.recovering = TRUE]]
    /\ UNCHANGED <<storeVars, chainVars>>

(* Mutant: the last epoch of the window counts as past it. *)
AnswerEarly(a) ==
    CASE fate[a] = "success" -> "FINALIZED_SUCCESS"
      [] fate[a] = "failure" -> "FINALIZED_FAILURE"
      [] fate[a] = "none" /\ epoch >= window[a] -> "PAST_WINDOW"
      [] fate[a] = "none" /\ epoch < window[a]  -> "NOT_FOUND"

(* An absence is dated by a watermark that was read before the digest was  *)
(* last looked for: past its window, it is for good.                       *)
Answer(a) ==
    CASE fate[a] = "success" -> "FINALIZED_SUCCESS"
      [] fate[a] = "failure" -> "FINALIZED_FAILURE"
      [] fate[a] = "none" /\ epoch > window[a]  -> "PAST_WINDOW"
      [] fate[a] = "none" /\ epoch <= window[a] -> "NOT_FOUND"

QueryExact(t) ==
    /\ flow[t].at = "ask"
    /\ flow' = [flow EXCEPT ![t].at = "answered",
                            ![t].reply = Answer(flow[t].action)]
    /\ UNCHANGED <<storeVars, chainVars>>

QueryFails(t) ==
    /\ flow[t].at = "ask" /\ flow[t].recovering
    /\ Persist(t, [flow[t].held EXCEPT !.status = "OUTCOME_UNKNOWN",
                                      !.error = TRUE], "idle")

SaveSuccess(t) ==
    /\ flow[t].at = "answered" /\ flow[t].reply = "FINALIZED_SUCCESS"
    /\ Persist(t, [flow[t].held EXCEPT !.status = "FINALIZED_SUCCESS",
                       !.query = "FINALIZED_SUCCESS", !.certified = TRUE,
                       !.error = FALSE], "idle")

ReadbackFails(t) ==
    /\ flow[t].at = "answered" /\ flow[t].reply = "FINALIZED_SUCCESS"
    /\ Persist(t, [flow[t].held EXCEPT !.status = "FINALIZED_UNCERTIFIED",
                       !.query = "FINALIZED_SUCCESS", !.certified = FALSE,
                       !.error = TRUE], "idle")

SaveFailure(t) ==
    /\ flow[t].at = "answered" /\ flow[t].reply = "FINALIZED_FAILURE"
    /\ Persist(t, [flow[t].held EXCEPT !.status = "FINALIZED_FAILURE",
                       !.query = "FINALIZED_FAILURE", !.certified = FALSE,
                       !.error = TRUE], "idle")

(* A record that is expired already is left as it is.                      *)
SaveExpired(t) ==
    /\ flow[t].at = "answered" /\ flow[t].reply = "PAST_WINDOW"
    /\ flow[t].recovering /\ flow[t].held.status # "EXPIRED_NOT_FOUND"
    /\ Persist(t, [flow[t].held EXCEPT !.status = "EXPIRED_NOT_FOUND",
                       !.query = "NOT_FOUND", !.certified = FALSE,
                       !.error = TRUE], "idle")

(* The call that signed only notes the absence; a recovery without replay  *)
(* says the outcome is unknown.                                            *)
SaveNotFound(t) ==
    LET f == flow[t] IN
    /\ f.at = "answered"
    /\ \/ f.reply = "NOT_FOUND"
       \/ f.reply = "PAST_WINDOW" /\ ~f.recovering
    /\ Persist(t, [f.held EXCEPT
                       !.status = IF f.recovering THEN "OUTCOME_UNKNOWN"
                                                  ELSE "BROADCAST_ACCEPTED",
                       !.query = "NOT_FOUND", !.error = FALSE], "idle")

(* The same bytes again, if they still simulate.                           *)
StartReplay(t) ==
    /\ flow[t].at = "answered" /\ flow[t].reply = "NOT_FOUND"
    /\ flow[t].recovering
    /\ epoch <= window[flow[t].action] /\ fate[flow[t].action] = "none"
    /\ flow' = [flow EXCEPT ![t].at = "send"]
    /\ UNCHANGED <<storeVars, chainVars>>

(* The user vouches, after the lease, that the wallet signed nothing.      *)
ReclaimIntent(a) ==
    LET r == records[a] IN
    /\ r.status \in {"SIGNING", "SIGNING_UNKNOWN"} /\ Readable(r)
    /\ CompareAndSwap(a, r, [r EXCEPT !.revision = @ + 1, !.intent = FALSE,
                                      !.status = "PREPARED", !.error = FALSE])
    /\ UNCHANGED <<flow, chainVars>>

(* The call throws, its compareAndSwap conflicts, or the tab is closed.    *)
Abandon(t) ==
    /\ flow[t] # Idle
    /\ flow' = [flow EXCEPT ![t] = Idle]
    /\ UNCHANGED <<storeVars, chainVars>>

-----------------------------------------------------------------------------
(* The chain.                                                              *)

Execute(a) ==
    /\ a \in sent /\ fate[a] = "none" /\ epoch <= window[a]
    /\ \E outcome \in {"success", "failure"} :
           fate' = [fate EXCEPT ![a] = outcome]
    /\ UNCHANGED <<storeVars, flow, epoch, sent, window>>

NextEpoch ==
    /\ epoch < MaxEpoch
    /\ epoch' = epoch + 1
    /\ UNCHANGED <<storeVars, flow, fate, sent, window>>

Next ==
    \/ \E a \in Actions : Prepare(a) \/ RetireUnsigned(a) \/ ReclaimIntent(a)
                              \/ Execute(a)
    \/ \E t \in Tabs, a \in Actions : Refresh(t, a) \/ StartRecover(t, a)
    \/ \E t \in Tabs :
           \/ ReserveIntent(t) \/ WalletRejects(t) \/ WalletDoubtful(t)
           \/ KeepSignature(t) \/ Broadcast(t) \/ AcceptBroadcast(t)
           \/ QueryExact(t) \/ QueryFails(t)
           \/ SaveSuccess(t) \/ ReadbackFails(t) \/ SaveFailure(t)
           \/ SaveExpired(t) \/ SaveNotFound(t) \/ StartReplay(t)
           \/ Abandon(t)
    \/ NextEpoch

Spec == Init /\ [][Next]_vars

-----------------------------------------------------------------------------
(* Properties.                                                             *)

(* Every variable has its type. *)
TypeOK ==
    /\ records \in [Actions -> Record]
    /\ scopeActive \in [Scopes -> Actions \cup {None}]
    /\ rootActive \in Actions \cup {None}
    /\ flow \in [Tabs -> Flow]
    /\ epoch \in Nat
    /\ fate \in [Actions -> {"none", "success", "failure"}]
    /\ sent \subseteq Actions
    /\ window \in [Actions -> Nat]

(* Bytes reach the network only under a signature that the log already     *)
(* holds, and what executed was sent: a crash or a second tab between the  *)
(* wallet and the broadcast cannot let a payment through that no record    *)
(* can recover.                                                            *)
SentIsDurable ==
    /\ \A a \in sent : records[a].signed
    /\ \A a \in Actions : fate[a] # "none" => a \in sent

(* A stored signature is never lost, whatever a slower tab writes later.   *)
SignatureKept ==
    [][\A a \in Actions : records[a].signed => records'[a].signed]_vars

(* What a record says of the outcome is true and stays true: a success or  *)
(* failure is the chain's, an expired action can never execute, and        *)
(* neither can one retired unsigned.                                       *)
VerdictsTrue ==
    \A a \in Actions :
        CASE records[a].status \in {"FINALIZED_SUCCESS", "FINALIZED_UNCERTIFIED"}
                 -> fate[a] = "success"
          [] records[a].status = "FINALIZED_FAILURE"  -> fate[a] = "failure"
          [] records[a].status = "EXPIRED_NOT_FOUND"  -> /\ fate[a] = "none"
                                                         /\ epoch > window[a]
          [] records[a].status = "CANCELLED_UNSIGNED" -> a \notin sent
          [] OTHER -> TRUE

(* One Root and signer have one unsettled action at a time, and both       *)
(* indices name it.                                                        *)
OneUnsettledPerRoot ==
    /\ \A a, b \in Actions : Unsettled(a) /\ Unsettled(b) => a = b
    /\ \A a \in Actions : Unsettled(a) =>
           rootActive = a /\ scopeActive[ScopeOf[a]] = a

(* A finished action stays finished: a query that fails, or a tab that     *)
(* started before it was, does not reopen it.                              *)
FinishedStaysFinished ==
    [][\A a \in Actions : records[a].status \in Finished =>
           records'[a].status \in Finished]_vars

-----------------------------------------------------------------------------
(* The ledger this log implements.                                         *)

EntryOf(r) ==
    CASE r.status = "ABSENT"                 -> "none"
      [] r.status = "CANCELLED_UNSIGNED"     -> "unsigned"
      [] r.status = "FINALIZED_SUCCESS"      -> "success"
      [] r.status = "FINALIZED_FAILURE"      -> "failure"
      [] r.status = "EXPIRED_NOT_FOUND"      -> "expired"
      [] OTHER -> IF r.signed THEN "signed" ELSE "open"

Ledger == INSTANCE ActionLedger WITH entry <- [a \in Actions |-> EntryOf(records[a])]

(* Whatever its tabs do to each other, the log is a ledger with one action *)
(* open at a time: a signature is never dropped, only what it holds signed *)
(* is executed, an action is closed once and under the outcome it had, and *)
(* the next one is opened after that.                                      *)
KeepsLedger == Ledger!LedgerSpec
=============================================================================
