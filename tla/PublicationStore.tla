--------------------------- MODULE PublicationStore ---------------------------
(***************************************************************************)
(* The write-ahead log of a Maker's publication, and what its IndexedDB    *)
(* store admits.  A publication is a fixed sequence of transactions, its   *)
(* ordinals; an attempt is one run through them, for one signer and Maker  *)
(* (its scope).  The store keeps for each attempt its plan, with a cursor  *)
(* at the ordinal that is to be executed next, the checkpoints of the      *)
(* ordinals that were finalized, and of each ordinal the events that       *)
(* befell its transaction.  An id that was used once stays used.           *)
(*                                                                         *)
(* The actions of this module are those of any caller of the store's       *)
(* methods, also of those that no controller in the repository calls.      *)
(***************************************************************************)
EXTENDS Integers, Sequences, FiniteSets

CONSTANTS
    Attempts,       \* attempt ids of one scope
    Digests,        \* transactions that can be built
    LastOrdinal,    \* the ordinal of the final activation
    SoftLimit,      \* optionalRetrySoftLimitPerOrdinal
    HardLimit,      \* maxEventsPerOrdinal
    MaxEvents,      \* maxAttemptEvents
    MaxExcess,      \* maxExcessEvents
    MaxRevision,    \* bound: revisions of a plan
    None

ASSUME PublicationAssumption ==
    /\ LastOrdinal \in Nat /\ MaxRevision \in Nat
    /\ SoftLimit \in Nat /\ HardLimit \in Nat
    /\ MaxEvents \in Nat /\ MaxExcess \in Nat
    /\ None \notin Digests

VARIABLES
    plans,          \* attempt -> its plan
    events,         \* attempt -> ordinal -> the events of its transaction
    checkpoints     \* attempt -> the digests that were finalized, in order

logVars == <<plans, events, checkpoints>>

-----------------------------------------------------------------------------
(* Plans and events.                                                       *)

Ordinals == 0 .. LastOrdinal

PlanStatus == {"ABSENT", "ACTIVE", "COMPLETE", "ABANDONED_RECOVERABLE",
               "RELEASE_RETIRED", "DELETED_UNSIGNED"}

(* NONE is the cursor that a checkpoint leaves, until the next transaction *)
(* is prepared; BLOCKED says that it cannot be.                            *)
Outcomes == {"NONE", "BLOCKED", "READY", "SIGNED", "OUTCOME_PENDING", "OUTCOME_UNKNOWN",
             "FINALIZED_FAILURE"}

EventStatus == {"SIGNED", "BROADCAST_ACCEPTED", "OUTCOME_PENDING",
                "OUTCOME_UNKNOWN", "EXTERNAL_PENDING", "FINALIZED_SUCCESS",
                "FINALIZED_FAILURE", "WALLET_REJECTED"}

(* What may begin the history of one build: a signature, a refusal, or a   *)
(* digest whose bytes another device has.                                  *)
Beginnings == {"SIGNED", "WALLET_REJECTED", "EXTERNAL_PENDING"}

Event == [status : EventStatus, digest : Digests \cup {None}, accepted : BOOLEAN]

Plan == [status : PlanStatus, revision : Nat, ordinal : Ordinals,
         outcome : Outcomes, digest : Digests \cup {None},
         total : Nat, excess : Nat]

Unused == [status |-> "ABSENT", revision |-> 0, ordinal |-> 0,
           outcome |-> "NONE", digest |-> None, total |-> 0, excess |-> 0]

Created == [Unused EXCEPT !.status = "ACTIVE", !.revision = 1, !.outcome = "READY"]

InFlight == {"SIGNED", "OUTCOME_PENDING", "OUTCOME_UNKNOWN"}

Log(a, o) == events[a][o]
NoEvents(a) == \A o \in Ordinals : Log(a, o) = <<>>

(* The head of an ordinal's events, or a record that stands for none.      *)
Head_(log) == IF log = <<>> THEN [status |-> "NONE", digest |-> None, accepted |-> FALSE]
                            ELSE log[Len(log)]

-----------------------------------------------------------------------------
(* What an ordinal's history may still take.  Sequences count from 0.      *)

Remaining(status) ==
    CASE status \in {"SIGNED", "BROADCAST_ACCEPTED", "OUTCOME_UNKNOWN"} -> 2
      [] status \in {"OUTCOME_PENDING", "EXTERNAL_PENDING"} -> 1
      [] status = "WALLET_REJECTED" -> 3
      [] status \in {"FINALIZED_SUCCESS", "FINALIZED_FAILURE"} -> 0

Optional(prior, seq, status) ==
    /\ status \notin {"FINALIZED_SUCCESS", "FINALIZED_FAILURE"}
    /\ IF seq = 0 THEN status \notin {"SIGNED", "EXTERNAL_PENDING"}
       ELSE ~ /\ status = "OUTCOME_PENDING"
              /\ prior \in {"SIGNED", "BROADCAST_ACCEPTED", "OUTCOME_UNKNOWN"}

HasCapacity(prior, seq, status) ==
    /\ seq + Remaining(status) < HardLimit
    /\ Optional(prior, seq, status) => seq < SoftLimit

Larger(x, y) == IF x >= y THEN x ELSE y

(* Mutant: what is still to come is not reserved. *)
HasRoom(total, excess, seq, status) ==
    total <= MaxEvents /\ excess <= MaxExcess

HasReserve(total, excess, seq, status) ==
    /\ total + Remaining(status) <= MaxEvents
    /\ excess + Larger(0, seq + Remaining(status) - Larger(seq, 2)) <= MaxExcess

(* How one event follows another: only a fresh signature or refusal may    *)
(* name another digest, and an acceptance is recorded once.                *)
Follows(prior, event) ==
    CASE prior.status = "NONE" -> event.status \in Beginnings
      [] prior.status \in {"WALLET_REJECTED", "FINALIZED_FAILURE"}
             -> event.status \in Beginnings
      [] prior.status \in {"SIGNED", "BROADCAST_ACCEPTED", "OUTCOME_UNKNOWN"}
             -> /\ event.status = "OUTCOME_PENDING"
                /\ event.digest = prior.digest /\ event.accepted = prior.accepted
      [] prior.status = "OUTCOME_PENDING"
             -> /\ event.status \in {"BROADCAST_ACCEPTED", "OUTCOME_UNKNOWN",
                                     "FINALIZED_SUCCESS", "FINALIZED_FAILURE"}
                /\ event.digest = prior.digest
                /\ IF event.status = "BROADCAST_ACCEPTED"
                   THEN ~prior.accepted /\ event.accepted
                   ELSE event.accepted = prior.accepted
      [] prior.status = "EXTERNAL_PENDING"
             -> /\ event.status \in {"FINALIZED_SUCCESS", "FINALIZED_FAILURE"}
                /\ event.digest = prior.digest /\ event.accepted = prior.accepted
      [] prior.status = "FINALIZED_SUCCESS" -> FALSE

(* The cursor that an event leaves behind.                                 *)
Cursor(status) ==
    CASE status \in {"BROADCAST_ACCEPTED", "EXTERNAL_PENDING"} -> "OUTCOME_PENDING"
      [] status = "WALLET_REJECTED" -> "READY"
      [] status = "FINALIZED_SUCCESS" -> "NONE"
      [] OTHER -> status

(* The events a cursor may be followed by.                                 *)
CursorAllows(outcome, status) ==
    CASE outcome = "READY" -> status \in Beginnings
      [] outcome = "SIGNED" -> status = "OUTCOME_PENDING"
      [] outcome = "OUTCOME_PENDING" ->
             status \in {"OUTCOME_PENDING", "BROADCAST_ACCEPTED", "OUTCOME_UNKNOWN",
                         "FINALIZED_FAILURE", "FINALIZED_SUCCESS"}
      [] outcome = "OUTCOME_UNKNOWN" -> status \in {"OUTCOME_PENDING", "BROADCAST_ACCEPTED"}
      [] OTHER -> FALSE

-----------------------------------------------------------------------------
(* The store's methods.  Each is one IndexedDB transaction; a write to a   *)
(* plan names the revision its caller read.                                *)

LogInit ==
    /\ plans = [a \in Attempts |-> Unused]
    /\ events = [a \in Attempts |-> [o \in Ordinals |-> <<>>]]
    /\ checkpoints = [a \in Attempts |-> <<>>]

Open(a) == plans[a].status \notin {"ABSENT", "DELETED_UNSIGNED"}

ScopeFree == \A a \in Attempts : plans[a].status # "ACTIVE"

(* Mutant: a deleted id may be used again. *)
CreateAgain(a) ==
    /\ plans[a].status \in {"ABSENT", "DELETED_UNSIGNED"} /\ ScopeFree
    /\ plans' = [plans EXCEPT ![a] = Created]
    /\ UNCHANGED <<events, checkpoints>>

CreateAttempt(a) ==
    /\ plans[a].status = "ABSENT" /\ ScopeFree
    /\ plans' = [plans EXCEPT ![a] = Created]
    /\ UNCHANGED <<events, checkpoints>>

(* Mutant: the revision is not compared. *)
AnyRevision(a, revision) ==
    plans[a].status = "ACTIVE" /\ plans[a].revision < MaxRevision

Current(a, revision) ==
    /\ plans[a].status = "ACTIVE"
    /\ plans[a].revision = revision /\ revision < MaxRevision

(* compareAndSwap with an event, and with a checkpoint if it is a success. *)
AppendEvent(a, revision, status, digest) ==
    LET p == plans[a]
        log == Log(a, p.ordinal)
        seq == Len(log)
        prior == Head_(log)
        event == [status |-> status, digest |-> digest,
                  accepted |-> \/ status = "BROADCAST_ACCEPTED"
                               \/ status \notin Beginnings
                                    /\ prior.accepted]
        total == p.total + 1
        excess == p.excess + (IF seq >= 3 THEN 1 ELSE 0)
        success == status = "FINALIZED_SUCCESS"
        final == success /\ p.ordinal = LastOrdinal
    IN
    /\ Current(a, revision)
    /\ CursorAllows(p.outcome, status) /\ Follows(prior, event)
    /\ HasCapacity(prior.status, seq, status)
    /\ HasReserve(total, excess, seq, status)
    /\ plans' = [plans EXCEPT ![a] =
           [status |-> IF final THEN "COMPLETE" ELSE "ACTIVE",
            revision |-> p.revision + 1,
            ordinal |-> IF success /\ ~final THEN p.ordinal + 1 ELSE p.ordinal,
            outcome |-> Cursor(status),
            digest |-> IF success THEN None ELSE digest,
            total |-> total, excess |-> excess]]
    /\ events' = [events EXCEPT ![a][p.ordinal] = Append(@, event)]
    /\ checkpoints' = IF success
                      THEN [checkpoints EXCEPT ![a] = Append(@, digest)]
                      ELSE checkpoints

(* Mutant: the cursor keeps its digest. *)
MoveOutcome(a, revision, from, to) ==
    /\ Current(a, revision) /\ plans[a].outcome = from
    /\ plans' = [plans EXCEPT ![a].revision = @ + 1, ![a].outcome = to]
    /\ UNCHANGED <<events, checkpoints>>

(* compareAndSwap without an event moves the cursor of an active plan.     *)
MoveCursor(a, revision, from, to) ==
    /\ Current(a, revision) /\ plans[a].outcome = from
    /\ plans' = [plans EXCEPT ![a].revision = @ + 1, ![a].outcome = to,
                              ![a].digest = None]
    /\ UNCHANGED <<events, checkpoints>>

PutSuccessor(a, revision) == MoveCursor(a, revision, "NONE", "READY")

RebuildFailed(a, revision) ==
    MoveCursor(a, revision, "FINALIZED_FAILURE", "READY")

BlockSuccessor(a, revision) ==
    \E from, to \in {"NONE", "BLOCKED"} : MoveCursor(a, revision, from, to)

RepairUnsignedOwnedReference(a, revision) ==
    /\ checkpoints[a] # <<>> /\ Log(a, plans[a].ordinal) = <<>>
    /\ MoveCursor(a, revision, "READY", "READY")

Retire(a, revision, status) ==
    LET p == plans[a] IN
    /\ Current(a, revision)
    /\ p.outcome \in {"READY", "FINALIZED_FAILURE", "NONE", "BLOCKED"}
    /\ plans' = [plans EXCEPT ![a].revision = @ + 1, ![a].status = status,
           ![a].outcome = IF p.outcome = "NONE" THEN "BLOCKED" ELSE p.outcome]
    /\ UNCHANGED <<events, checkpoints>>

RestoreAttempt(a) ==
    /\ plans[a].status = "ABANDONED_RECOVERABLE" /\ ScopeFree
    /\ plans[a].revision < MaxRevision
    /\ plans' = [plans EXCEPT ![a].revision = @ + 1, ![a].status = "ACTIVE"]
    /\ UNCHANGED <<events, checkpoints>>

(* Mutant: what was signed is deleted with the rest. *)
DeleteFirst(a) ==
    /\ plans[a].status = "ACTIVE" /\ checkpoints[a] = <<>>
    /\ plans' = [plans EXCEPT ![a] = [Unused EXCEPT !.status = "DELETED_UNSIGNED"]]
    /\ UNCHANGED <<events, checkpoints>>

(* Only what was never signed nor refused is deleted; the id stays used.   *)
DeleteUnsigned(a) ==
    /\ plans[a].status = "ACTIVE" /\ plans[a].outcome = "READY"
    /\ checkpoints[a] = <<>> /\ NoEvents(a)
    /\ plans' = [plans EXCEPT ![a] = [Unused EXCEPT !.status = "DELETED_UNSIGNED"]]
    /\ UNCHANGED <<events, checkpoints>>

(* Any caller: it may write under any digest, and only the store's own     *)
(* checks stand in its way.                                                *)
StoreNext ==
    \E a \in Attempts :
        \/ CreateAttempt(a) \/ RestoreAttempt(a) \/ DeleteUnsigned(a)
        \/ PutSuccessor(a, plans[a].revision)
        \/ RebuildFailed(a, plans[a].revision)
        \/ BlockSuccessor(a, plans[a].revision)
        \/ RepairUnsignedOwnedReference(a, plans[a].revision)
        \/ \E status \in {"ABANDONED_RECOVERABLE", "RELEASE_RETIRED"} :
               Retire(a, plans[a].revision, status)
        \/ AppendEvent(a, plans[a].revision, "WALLET_REJECTED", None)
        \/ \E status \in EventStatus \ {"WALLET_REJECTED"}, d \in Digests :
               AppendEvent(a, plans[a].revision, status, d)

StoreSpec == LogInit /\ [][StoreNext]_logVars

-----------------------------------------------------------------------------
(* Properties of the store.                                                *)

(* Every record has its type. *)
StoreTypeOK ==
    /\ plans \in [Attempts -> Plan]
    /\ events \in [Attempts -> [Ordinals -> Seq(Event)]]
    /\ checkpoints \in [Attempts -> Seq(Digests)]

(* The audit that export, import and garbage collection run over a whole   *)
(* attempt: every event may follow the one before it, within the limits as *)
(* they stood then; the counters count the events; the cursor is what the  *)
(* ordinal's last event says; finalized ordinals end in the success that   *)
(* is checkpointed, and nothing lies past the cursor.  Once a write breaks *)
(* it the attempt can never be exported nor the store cleaned again.       *)

(* The events, as <<ordinal, number>>, those of them that come no later    *)
(* than one of them, and those beyond the three that every ordinal has.    *)
Places(a) == UNION {{o} \X DOMAIN Log(a, o) : o \in Ordinals}
UpTo(a, o, i) == {e \in Places(a) : e[1] < o \/ (e[1] = o /\ e[2] <= i)}
Excess(places) == {e \in places : e[2] > 3}

HistoryValid(a) ==
    \A o \in Ordinals : \A i \in DOMAIN Log(a, o) :
        LET event == Log(a, o)[i]
            prior == IF i = 1 THEN Head_(<<>>) ELSE Log(a, o)[i - 1]
        IN
        /\ Follows(prior, event)
        /\ HasCapacity(prior.status, i - 1, event.status)
        /\ HasReserve(Cardinality(UpTo(a, o, i)), Cardinality(Excess(UpTo(a, o, i))),
                      i - 1, event.status)

CountersAgree(a) ==
    /\ plans[a].total = Cardinality(Places(a))
    /\ plans[a].excess = Cardinality(Excess(Places(a)))

CursorAgrees(a) ==
    LET p == plans[a]
        head == Head_(Log(a, p.ordinal))
    IN
    /\ p.outcome \in InFlight \cup {"FINALIZED_FAILURE"} =>
           p.digest = head.digest /\ p.outcome = Cursor(head.status)
    /\ p.outcome \notin InFlight \cup {"FINALIZED_FAILURE"} =>
           p.digest = None /\ head.status \notin InFlight \cup {"BROADCAST_ACCEPTED", "EXTERNAL_PENDING"}

PrefixAgrees(a) ==
    LET p == plans[a]
        done == Len(checkpoints[a])
        last == IF p.outcome \in {"NONE", "BLOCKED"} THEN Larger(0, done - 1) ELSE p.ordinal
    IN
    /\ p.status = "COMPLETE" <=> done = LastOrdinal + 1
    /\ p.status # "COMPLETE" => done = p.ordinal
    /\ \A o \in Ordinals :
           IF o < done
           THEN /\ Head_(Log(a, o)).status = "FINALIZED_SUCCESS"
                /\ Head_(Log(a, o)).digest = checkpoints[a][o + 1]
           ELSE /\ Head_(Log(a, o)).status # "FINALIZED_SUCCESS"
                /\ o > last => Log(a, o) = <<>>

AuditPasses ==
    \A a \in Attempts : Open(a) =>
        HistoryValid(a) /\ CountersAgree(a) /\ CursorAgrees(a) /\ PrefixAgrees(a)

(* Transactions in flight can always be followed to their end: no retry,   *)
(* refusal or unknown answer before them uses up the room in the history   *)
(* that their outcome needs.                                               *)
Recordable(a, status) ==
    LET p == plans[a]
        log == Log(a, p.ordinal)
        seq == Len(log)
    IN
    /\ HasCapacity(Head_(log).status, seq, status)
    /\ HasReserve(p.total + 1, p.excess + (IF seq >= 3 THEN 1 ELSE 0), seq, status)

OutcomeRecordable ==
    \A a \in Attempts :
        LET head == Head_(Log(a, plans[a].ordinal)).status IN
        plans[a].outcome \in InFlight =>
            IF head \in {"OUTCOME_PENDING", "EXTERNAL_PENDING"}
            THEN /\ Recordable(a, "FINALIZED_SUCCESS")
                 /\ Recordable(a, "FINALIZED_FAILURE")
            ELSE Recordable(a, "OUTCOME_PENDING")

(* A signer and Maker have one active attempt at a time, also when an      *)
(* abandoned one is restored while another was begun.                      *)
OneActivePerScope ==
    \A a, b \in Attempts :
        plans[a].status = "ACTIVE" /\ plans[b].status = "ACTIVE" => a = b

(* Evidence is only ever added; an attempt that was deleted or completed   *)
(* stays so, and its id is not used again.                                 *)
EvidenceOnlyGrows ==
    [][\A a \in Attempts :
           /\ \A o \in Ordinals :
                  SubSeq(events'[a][o], 1, Len(events[a][o])) = events[a][o]
           /\ SubSeq(checkpoints'[a], 1, Len(checkpoints[a])) = checkpoints[a]
           /\ plans[a].status \in {"COMPLETE", "RELEASE_RETIRED", "DELETED_UNSIGNED"}
                  => plans'[a] = plans[a]]_logVars
=============================================================================
