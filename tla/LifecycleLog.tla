---------------------------- MODULE LifecycleLog ----------------------------
(***************************************************************************)
(* The lifecycle actions of a Maker Root (pause, resume, archive and the   *)
(* withdrawal of revenue), from the build of a transaction to the record   *)
(* of its outcome, in any number of tabs over one IndexedDB log.           *)
(*                                                                         *)
(* A scope is one action of one Root by one signer.  The log keeps an      *)
(* intent for each wallet prompt, a record for each signed transaction,    *)
(* and of each scope the head: the one id its next writes have to be of.   *)
(* An id is a hash of the bytes, so the same bytes, built again, have the  *)
(* same id: a build is the version of the AdminCap it was simulated on,    *)
(* and the epoch it expires after.                                         *)
(*                                                                         *)
(* A tab's call is a sequence of awaits; call[t] is where it stands, with  *)
(* what it read.  A write compares the revision or the session it read:    *)
(* current says that nobody has written to it since.                       *)
(***************************************************************************)
EXTENDS Integers

CONSTANTS
    Scopes,
    Tabs,
    Home,           \* the tab that comes back to what is in doubt
    MaxVersion,     \* bound: uses of the AdminCap
    MaxEpoch,       \* bound: epochs
    MaxDoubts,      \* bound: calls that fail or are answered without an outcome
    None

Builds == [scope : Scopes, at : 0 .. MaxVersion - 1, expiry : 1 .. MaxEpoch - 1]

ASSUME LifecycleAssumption ==
    /\ MaxVersion \in Nat /\ MaxEpoch \in Nat /\ MaxDoubts \in Nat
    /\ None \notin Builds /\ Home \in Tabs

VARIABLES
    records,        \* build -> status of its signed record
    intents,        \* builds with an intent: a wallet prompt without a signature
    active,         \* scope -> the build at its head
    call,           \* tab -> the controller call it is running
    sent,           \* builds that the network was given, signed
    fate,           \* build -> what became of it on the chain
    version,        \* version of the AdminCap
    epoch,
    doubts          \* failures and undecided answers so far

logVars == <<records, intents, active>>
chainVars == <<sent, fate, version, epoch>>
vars == <<logVars, call, chainVars, doubts>>

-----------------------------------------------------------------------------

Terminal == {"FINALIZED_FAILURE", "EXPIRED_NOT_FOUND"}
Unsettled == {"SIGNED_DURABLE", "OUTCOME_PENDING"}
Status == {"ABSENT", "FINALIZED_SUCCESS"} \cup Terminal \cup Unsettled

Steps == {"idle", "prepared", "prompt", "releasing", "loaded", "answered",
          "counted", "checked"}

(* LAPSED is NOT_FOUND at a watermark beyond the expiration. *)
Replies == {"NONE", "SUCCESS", "FAILURE", "PENDING", "NOT_FOUND", "LAPSED"}

Call == [at : Steps, build : Builds \cup {None}, current : BOOLEAN, reply : Replies]

Idle == [at |-> "idle", build |-> None, current |-> FALSE, reply |-> "NONE"]

Init ==
    /\ records = [b \in Builds |-> "ABSENT"]
    /\ intents = {}
    /\ active = [s \in Scopes |-> None]
    /\ call = [t \in Tabs |-> Idle]
    /\ sent = {}
    /\ fate = [b \in Builds |-> "none"]
    /\ version = 0
    /\ epoch = 0
    /\ doubts = 0

Return(t) == call' = [call EXCEPT ![t] = Idle]

Goto(t, at) == call' = [call EXCEPT ![t].at = at]

(* t goes on, and who else read of b what t is writing is overtaken. *)
Overtake(t, at, b) ==
    call' = [u \in Tabs |->
        IF u = t THEN IF at = "idle" THEN Idle ELSE [Idle EXCEPT !.at = at, !.build = b]
        ELSE IF call[u].build = b THEN [call[u] EXCEPT !.current = FALSE] ELSE call[u]]

Head(b) == active[b.scope] = b

-----------------------------------------------------------------------------
(* prepare and requestSignature.                                           *)

(* prepare: the bytes expire after the next epoch, and simulate.           *)
Prepare(t, s) ==
    /\ call[t] = Idle
    /\ version < MaxVersion /\ epoch + 1 < MaxEpoch
    /\ call' = [call EXCEPT ![t] = [Idle EXCEPT !.at = "prepared",
                   !.build = [scope |-> s, at |-> version, expiry |-> epoch + 1]]]
    /\ UNCHANGED <<logVars, chainVars, doubts>>

(* A head gives way to a new attempt when it has succeeded. *)
Vacant(s) ==
    active[s] # None => records[active[s]] = "FINALIZED_SUCCESS"

CanReserve(b) == records[b] = "ABSENT" /\ b \notin intents /\ Vacant(b.scope)

ReserveIntent(t) == LET b == call[t].build IN
    /\ call[t].at = "prepared" /\ CanReserve(b)
    /\ intents' = intents \cup {b}
    /\ active' = [active EXCEPT ![b.scope] = b]
    /\ Goto(t, "prompt")
    /\ UNCHANGED <<records, chainVars, doubts>>

(* Mutant: a signature is stored without looking for its intent. *)
PutUnasked(b) == records[b] = "ABSENT"

(* The intent has to be there, whichever session it is of.                 *)
CanPut(b) == b \in intents /\ Head(b) /\ records[b] = "ABSENT"

(* The wallet answers at any time, and the signature is written.           *)
PutSignedArtifact(t) == LET b == call[t].build IN
    /\ call[t].at = "prompt" /\ CanPut(b)
    /\ records' = [records EXCEPT ![b] = "SIGNED_DURABLE"]
    /\ intents' = intents \ {b}
    /\ Overtake(t, "idle", b)
    /\ UNCHANGED <<active, chainVars, doubts>>

-----------------------------------------------------------------------------
(* An intent without a signature is released by who read its session.      *)

(* The wallet says for certain that it did not sign.                       *)
HandleSignatureFailure(t) ==
    /\ call[t].at = "prompt" /\ call[t].build \in intents
    /\ call' = [call EXCEPT ![t].at = "releasing", ![t].current = TRUE]
    /\ UNCHANGED <<logVars, chainVars, doubts>>

(* reclaimActive, when the lease of the intent is over, up to the          *)
(* confirmation that there is no signed artifact, which is another party's *)
(* word.  A prompt may outlast its lease and prove it wrong.               *)
Reclaim(t, s) == LET b == active[s] IN
    /\ call[t] = Idle /\ b \in intents
    /\ call' = [call EXCEPT ![t] = [Idle EXCEPT !.at = "releasing",
                                       !.build = b, !.current = TRUE]]
    /\ UNCHANGED <<logVars, chainVars, doubts>>

CanRelease(t) == LET b == call[t].build IN
    call[t].current /\ b \in intents /\ records[b] = "ABSENT" /\ Head(b)

ReleaseIntent(t) == LET b == call[t].build IN
    /\ call[t].at = "releasing" /\ CanRelease(t)
    /\ intents' = intents \ {b}
    /\ active' = [active EXCEPT ![b.scope] = None]
    /\ Overtake(t, "idle", b)
    /\ UNCHANGED <<records, chainVars, doubts>>

-----------------------------------------------------------------------------
(* recoverExactTransaction.                                                *)

(* By ticket or id, or of the build at the head of its scope. *)
Recover(t, b) ==
    /\ call[t] = Idle /\ records[b] # "ABSENT"
    /\ call' = [call EXCEPT ![t] = [Idle EXCEPT !.at = "loaded", !.build = b,
                                       !.current = TRUE]]
    /\ UNCHANGED <<logVars, chainVars, doubts>>

(* Mutant: the epoch of the expiration counts as past. *)
ExpiredEarly(b) ==
    CASE fate[b] = "success" -> {"SUCCESS"}
      [] fate[b] = "failure" -> {"FAILURE"}
      [] OTHER -> IF epoch >= b.expiry THEN {"LAPSED"} ELSE {"NOT_FOUND"}

Answers(b) ==
    CASE fate[b] = "success" -> {"SUCCESS"}
      [] fate[b] = "failure" -> {"FAILURE"}
      [] OTHER -> IF epoch > b.expiry THEN {"LAPSED"} ELSE {"NOT_FOUND"}

QueryTransaction(t) == LET b == call[t].build IN
    /\ call[t].at = "loaded"
    /\ \/ /\ \E reply \in Answers(b) :
                 call' = [call EXCEPT ![t].at = "answered", ![t].reply = reply]
          /\ UNCHANGED doubts
       \/ /\ b \in sent /\ doubts < MaxDoubts
          /\ call' = [call EXCEPT ![t].at = "answered", ![t].reply = "PENDING"]
          /\ doubts' = doubts + 1
    /\ UNCHANGED <<logVars, chainVars>>

(* Mutant: a transaction that can no longer execute stays pending. *)
NeverExpired(reply) ==
    CASE reply = "SUCCESS" -> "FINALIZED_SUCCESS"
      [] reply = "FAILURE" -> "FINALIZED_FAILURE"
      [] OTHER -> "OUTCOME_PENDING"

(* What an answer makes of a record. *)
Outcome(reply) ==
    CASE reply = "SUCCESS" -> "FINALIZED_SUCCESS"
      [] reply = "FAILURE" -> "FINALIZED_FAILURE"
      [] reply = "LAPSED" -> "EXPIRED_NOT_FOUND"
      [] OTHER -> "OUTCOME_PENDING"

(* A verdict on record is not written again, nor over another.  Of a       *)
(* current copy the status is the record's.                                *)
CanAdvance(t) == LET c == call[t] IN
    c.current /\ records[c.build] \in Unsettled /\ Head(c.build)

(* compareAndSwap; only the NOT_FOUND of a live transaction is followed by *)
(* a broadcast.                                                            *)
Advance(t) == LET c == call[t]  status == Outcome(c.reply) IN
    /\ c.at = "answered" /\ CanAdvance(t)
    /\ records' = [records EXCEPT ![c.build] = status]
    /\ active' = IF status \in Terminal
                 THEN [active EXCEPT ![c.build.scope] = None] ELSE active
    /\ Overtake(t, IF c.reply = "NOT_FOUND" THEN "counted" ELSE "idle", c.build)
    /\ UNCHANGED <<intents, chainVars, doubts>>

(* freshLifecycleContext: the objects are as they were simulated. *)
CheckContext(t) ==
    /\ call[t].at = "counted" /\ call[t].build.at = version
    /\ Goto(t, "checked")
    /\ UNCHANGED <<logVars, chainVars, doubts>>

ExecuteTransaction(t) ==
    /\ call[t].at = "checked"
    /\ sent' = sent \cup {call[t].build}
    /\ Return(t)
    /\ UNCHANGED <<logVars, fate, version, epoch, doubts>>

(* A step that the log or the check of the context refuses ends the call.  *)
Refused(t) ==
    /\ CASE call[t].at = "prepared" -> ~CanReserve(call[t].build)
         [] call[t].at = "prompt" -> ~CanPut(call[t].build)
         [] call[t].at = "releasing" -> ~CanRelease(t)
         [] call[t].at = "answered" -> ~CanAdvance(t)
         [] call[t].at = "counted" -> call[t].build.at # version
         [] OTHER -> FALSE
    /\ Return(t)
    /\ UNCHANGED <<logVars, chainVars, doubts>>

(* A closed tab, a wallet without a verdict, a read that fails. *)
GiveUp(t) ==
    /\ call[t] # Idle /\ doubts < MaxDoubts
    /\ doubts' = doubts + 1
    /\ Return(t)
    /\ UNCHANGED <<logVars, chainVars>>

-----------------------------------------------------------------------------
(* Clocks and chain.                                                       *)

(* A transaction names the version of the AdminCap it was built on.        *)
Land(b, outcome) ==
    /\ b \in sent /\ fate[b] = "none"
    /\ b.at = version /\ epoch <= b.expiry /\ version < MaxVersion
    /\ fate' = [fate EXCEPT ![b] = outcome]
    /\ version' = version + 1
    /\ UNCHANGED <<logVars, call, sent, epoch, doubts>>

(* The AdminCap is used by another action. *)
UseElsewhere ==
    /\ version < MaxVersion
    /\ version' = version + 1
    /\ UNCHANGED <<logVars, call, sent, fate, epoch, doubts>>

NextEpoch ==
    /\ epoch < MaxEpoch
    /\ epoch' = epoch + 1
    /\ UNCHANGED <<logVars, call, sent, fate, version, doubts>>

-----------------------------------------------------------------------------

Step(t) ==
    \/ ReserveIntent(t) \/ PutSignedArtifact(t)
    \/ HandleSignatureFailure(t) \/ ReleaseIntent(t)
    \/ QueryTransaction(t) \/ Advance(t) \/ CheckContext(t)
    \/ ExecuteTransaction(t) \/ Refused(t)

Next ==
    \/ \E t \in Tabs, s \in Scopes : Prepare(t, s) \/ Reclaim(t, s)
    \/ \E t \in Tabs, b \in Builds : Recover(t, b)
    \/ \E t \in Tabs : Step(t) \/ GiveUp(t)
    \/ \E b \in Builds, outcome \in {"success", "failure"} : Land(b, outcome)
    \/ UseElsewhere
    \/ NextEpoch

Spec == Init /\ [][Next]_vars

(* Epochs pass, and in one tab calls run on, the wallet answers, and the   *)
(* user comes back to transactions that are in doubt.                      *)
RecoverDoubt == \E b \in Builds : records[b] \in Unsettled /\ Recover(Home, b)

Fairness == WF_vars(NextEpoch) /\ WF_vars(Step(Home)) /\ SF_vars(RecoverDoubt)

LiveSpec == Spec /\ Fairness

-----------------------------------------------------------------------------
(* Properties.                                                             *)

(* Every call, record and transaction keeps its type. *)
TypeOK ==
    /\ records \in [Builds -> Status]
    /\ intents \subseteq Builds
    /\ active \in [Scopes -> Builds \cup {None}]
    /\ call \in [Tabs -> Call]
    /\ sent \subseteq Builds
    /\ fate \in [Builds -> {"none", "success", "failure"}]
    /\ version \in 0 .. MaxVersion /\ epoch \in 0 .. MaxEpoch
    /\ doubts \in 0 .. MaxDoubts

(* The head of a scope names what is open in it: a prompt or a signature   *)
(* that is not settled is never behind another, never both at once, and a  *)
(* head never points at nothing, nor at an attempt that has failed (the    *)
(* controller cannot recover nor replace those).                           *)
HeadsNameWhatIsOpen ==
    /\ \A b \in Builds : b \in intents \/ records[b] \in Unsettled => Head(b)
    /\ \A b \in intents : records[b] = "ABSENT"
    /\ \A s \in Scopes : active[s] # None =>
           /\ active[s].scope = s
           /\ \/ active[s] \in intents
              \/ records[active[s]] \in Unsettled \cup {"FINALIZED_SUCCESS"}

InFlight(s) == IF active[s] # None /\ records[active[s]] \in Unsettled
               THEN active[s] ELSE None

BuildsOf(s) == {b \in Builds : b.scope = s}

Entry(b) == CASE records[b] = "FINALIZED_SUCCESS" -> "receipt"
              [] records[b] = "FINALIZED_FAILURE" -> "failure"
              [] records[b] = "EXPIRED_NOT_FOUND" -> "expired"
              [] OTHER -> "open"

Scope(s) == INSTANCE SingleFlight
    WITH Plan <- BuildsOf(s), IdentityOf <- [b \in BuildsOf(s) |-> b],
         Expiration <- [b \in BuildsOf(s) |-> b.expiry], NoPlan <- None,
         flight <- InFlight(s), fate <- [b \in BuildsOf(s) |-> fate[b]],
         ledger <- [b \in BuildsOf(s) |-> Entry(b)]

(* Of each scope at most one signed transaction is in flight, whatever     *)
(* prompts were open or released, and its record says what became of it.   *)
OneInFlightPerScope ==
    /\ \A s \in Scopes : Scope(s)!FlightInit
    /\ [][\A s \in Scopes : [Scope(s)!FlightNext]_(Scope(s)!flightVars)]_vars

(* A signature that is on record does not stay in doubt: it blocks its     *)
(* scope until it is settled.                                              *)
DoubtResolves == \A s \in Scopes : (InFlight(s) # None) ~> (InFlight(s) = None)
=============================================================================
