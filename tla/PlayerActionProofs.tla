------------------------- MODULE PlayerActionProofs -------------------------
(***************************************************************************)
(* Theorems about PlayerAction, for any actions, scopes, tabs and bounds.  *)
(* IInv says what a tab may rely on across an await: while the revision it *)
(* read is still the record's, so is the record it read; what it knows of  *)
(* the outcome is true; and past the wallet the signature is in the log.   *)
(* Where no finished action is read again, Once says more: the Root's      *)
(* index names the one unsettled action, and the log implements the        *)
(* ActionLedger.                                                           *)
(***************************************************************************)
EXTENDS PlayerAction, TLAPS

Knows(t) ==
    LET f == flow[t] IN
    /\ f.action \in Actions
    /\ records[f.action] # Absent /\ f.held.status # "ABSENT"
    /\ f.held.revision <= records[f.action].revision
    /\ f.held.revision = records[f.action].revision => records[f.action] = f.held
    /\ f.at = "refreshed" => f.held.status = "PREPARED"
    /\ f.at = "wallet" => f.held.status = "SIGNING"
    /\ f.at \in {"send", "accepted", "ask", "answered"} =>
           f.held.signed /\ records[f.action].signed
    /\ f.at = "answered" => f.reply = Answer(f.action)
                            \/ f.reply = "NOT_FOUND"

FlowOK == \A t \in Tabs : flow[t].at # "idle" => Knows(t)

RetiredUnsigned ==
    \A a \in Actions :
        records[a].status \in {"ABSENT", "CANCELLED_UNSIGNED"} => ~records[a].signed

IInv == TypeOK /\ FlowOK /\ RetiredUnsigned /\ SentIsDurable /\ VerdictsTrue

Kept == \A a \in Actions : records[a].signed => records'[a].signed

HeldOpen ==
    \A t \in Tabs : flow[t].at # "idle" => flow[t].held.status \notin Finished

IndexTrue ==
    /\ \A a \in Actions : Unsettled(a) <=> rootActive = a
    /\ \A a \in Actions : Unsettled(a) => scopeActive[ScopeOf[a]] = a

Once == HeldOpen /\ IndexTrue

Stay == \A a \in Actions : records[a].status \in Finished =>
                               records'[a].status \in Finished

-----------------------------------------------------------------------------
(* Facts about records.                                                    *)

LEMMA AbsentTyped == Absent \in Record /\ Idle \in Flow
BY DEF Absent, Record, Idle, Flow, Status, QueryStatus, Steps, Reply

LEMMA AnswerTyped == ASSUME TypeOK, NEW a \in Actions PROVE Answer(a) \in Reply
BY DEF TypeOK, Answer, Reply, QueryStatus

(* What a checkpoint of tab t must satisfy to be one of the controller's.  *)
Proper(t, next, at) ==
    LET f == flow[t] IN
    /\ next \in Record /\ at \in {"idle", "wallet", "send", "ask"}
    /\ f.at # "idle"
    /\ f.held.signed => next.signed
    /\ next.status \notin {"ABSENT", "CANCELLED_UNSIGNED"}
    /\ at = "wallet" => next.status = "SIGNING"
    /\ at \in {"send", "ask"} => next.signed /\ next.status \notin Finished
    /\ next.status \in Finished => f.held.signed
    /\ next.status \in {"FINALIZED_SUCCESS", "FINALIZED_UNCERTIFIED"} =>
           fate[f.action] = "success"
    /\ next.status = "FINALIZED_FAILURE" => fate[f.action] = "failure"
    /\ next.status = "EXPIRED_NOT_FOUND" =>
           fate[f.action] = "none" /\ epoch > window[f.action]

Written(t, next) == [next EXCEPT !.revision = flow[t].held.revision + 1]

(* What it writes.                                                         *)
Effect(t, next, at) ==
    LET a == flow[t].action
        w == Written(t, next)
    IN
    /\ a \in Actions /\ w \in Record
    /\ records[a] = flow[t].held /\ records[a] # Absent
    /\ w.revision = records[a].revision + 1
    /\ w.status = next.status /\ w.signed = next.signed
    /\ records' = [records EXCEPT ![a] = w]
    /\ scopeActive' = [scopeActive EXCEPT ![ScopeOf[a]] =
                          IF w.status \in Finished THEN None ELSE a]
    /\ rootActive' = IF w.status \in Finished THEN None ELSE a
    /\ flow' = [flow EXCEPT ![t] = IF at = "idle" THEN Idle
                    ELSE [flow[t] EXCEPT !.at = at, !.held = w]]
    /\ epoch' = epoch /\ fate' = fate /\ sent' = sent /\ window' = window

LEMMA PersistEffect ==
    ASSUME IInv, NEW t \in Tabs, NEW next, NEW at,
           Persist(t, next, at), Proper(t, next, at)
    PROVE  Effect(t, next, at)
<1> DEFINE f == flow[t]
<1> DEFINE w == Written(t, next)
<1>1. f \in Flow /\ Knows(t) /\ f.held \in Record
  BY DEF IInv, TypeOK, FlowOK, Proper, Flow
<1>2. w \in Record /\ w.revision = f.held.revision + 1
      /\ w.status = next.status /\ w.signed = next.signed
  BY <1>1 DEF Proper, Written, Record
<1>3. CompareAndSwap(f.action, f.held, w) /\ UNCHANGED chainVars
      /\ flow' = [flow EXCEPT ![t] = IF at = "idle" THEN Idle
                      ELSE [f EXCEPT !.at = at, !.held = w]]
  BY DEF Persist, Written
<1>4. records[f.action] = f.held /\ records[f.action] # Absent
  BY <1>1, <1>3 DEF CompareAndSwap, Knows
<1> QED BY <1>1, <1>2, <1>3, <1>4 DEF CompareAndSwap, Put, Knows, Effect, chainVars

(* A proper checkpoint keeps the invariant, and every stored signature.    *)
LEMMA PersistSafe ==
    ASSUME IInv, NEW t \in Tabs, NEW next, NEW at,
           Persist(t, next, at), Proper(t, next, at)
    PROVE  IInv' /\ Kept
<1> DEFINE a == flow[t].action
<1> DEFINE w == Written(t, next)
<1>1. /\ a \in Actions /\ w \in Record
      /\ records[a] = flow[t].held /\ records[a] # Absent
      /\ w.revision = records[a].revision + 1
      /\ w.status = next.status /\ w.signed = next.signed
      /\ records' = [records EXCEPT ![a] = w]
      /\ scopeActive' = [scopeActive EXCEPT ![ScopeOf[a]] =
                            IF w.status \in Finished THEN None ELSE a]
      /\ rootActive' = IF w.status \in Finished THEN None ELSE a
      /\ flow' = [flow EXCEPT ![t] = IF at = "idle" THEN Idle
                      ELSE [flow[t] EXCEPT !.at = at, !.held = w]]
      /\ epoch' = epoch /\ fate' = fate /\ sent' = sent /\ window' = window
  BY PersistEffect DEF Effect
<1> HIDE DEF a, w
<1>2. \A b \in Actions : b # a => records'[b] = records[b]
  BY <1>1 DEF IInv, TypeOK
<1>3. records'[a] = w
  BY <1>1 DEF IInv, TypeOK
<1>4. records[a].signed => w.signed
  BY <1>1 DEF Proper
<1>5. Kept
  BY <1>2, <1>3, <1>4 DEF Kept
<1>6. TypeOK'
  <2>1. flow[t] \in Flow
    BY DEF IInv, TypeOK
  <2>2. [flow[t] EXCEPT !.at = at, !.held = w] \in Flow
    BY <2>1, <1>1 DEF Flow, Proper, Steps
  <2> QED BY <1>1, <2>2, AbsentTyped DEF IInv, TypeOK
<1>7. FlowOK'
  <2> SUFFICES ASSUME NEW u \in Tabs, flow'[u].at # "idle" PROVE Knows(u)'
    BY DEF FlowOK
  <2>1. CASE u = t
    <3>1. at # "idle" /\ flow'[u] = [flow[t] EXCEPT !.at = at, !.held = w]
      BY <1>1, <2>1 DEF Idle, IInv, TypeOK
    <3>2. flow[t] \in Flow
      BY DEF IInv, TypeOK
    <3>3. flow'[u].at = at /\ flow'[u].held = w /\ flow'[u].action = a
      BY <3>1, <3>2 DEF Flow, a
    <3>4. w # Absent
      BY <1>1 DEF Proper, Absent
    <3> QED BY <1>1, <1>3, <3>1, <3>3, <3>4 DEF Knows, Proper, Record
  <2>2. CASE u # t
    <3>1. flow'[u] = flow[u] /\ Knows(u)
      BY <1>1, <2>2 DEF IInv, TypeOK, FlowOK
    <3>2. CASE flow[u].action # a
      <4>1. Answer(flow[u].action)' = Answer(flow[u].action)
        BY <1>1, <3>1 DEF Answer
      <4> QED BY <3>1, <3>2, <1>2, <4>1 DEF Knows
    <3>3. CASE flow[u].action = a
      <4>1. w # Absent
        BY <1>1 DEF Proper, Absent
      <4>2. flow[u].held.revision < w.revision
        BY <1>1, <3>1, <3>3 DEF Knows, IInv, TypeOK, Flow, Record
      <4>3. Answer(flow[u].action)' = Answer(flow[u].action)
        BY <1>1, <3>1 DEF Answer
      <4>4. flow[u].held.revision \in Nat /\ w.revision \in Nat
        BY <1>1 DEF IInv, TypeOK, Flow, Record
      <4> QED BY <3>1, <3>3, <1>3, <1>4, <4>1, <4>2, <4>3, <4>4 DEF Knows
    <3> QED BY <3>2, <3>3
  <2> QED BY <2>1, <2>2
<1>8. RetiredUnsigned'
  BY <1>1, <1>2, <1>3 DEF IInv, RetiredUnsigned, Proper
<1>9. SentIsDurable'
  BY <1>1, <1>5 DEF IInv, SentIsDurable, Kept, TypeOK
<1>10. VerdictsTrue'
  <2> SUFFICES ASSUME NEW b \in Actions PROVE VerdictsTrue!(b)'
    BY DEF VerdictsTrue
  <2>1. CASE b = a
    BY <2>1, <1>1, <1>3 DEF Proper, a
  <2>2. CASE b # a
    BY <2>2, <1>1, <1>2 DEF IInv, VerdictsTrue
  <2> QED BY <2>1, <2>2
<1> QED BY <1>5, <1>6, <1>7, <1>8, <1>9, <1>10 DEF IInv

-----------------------------------------------------------------------------
(* Each checkpoint of a call is proper.                                    *)

Checkpoint(t) ==
    \/ ReserveIntent(t) \/ WalletRejects(t) \/ WalletDoubtful(t)
    \/ KeepSignature(t) \/ AcceptBroadcast(t) \/ QueryFails(t)
    \/ SaveSuccess(t) \/ ReadbackFails(t) \/ SaveFailure(t)
    \/ SaveExpired(t) \/ SaveNotFound(t)

LEMMA CheckpointProper ==
    ASSUME IInv, NEW t \in Tabs, Checkpoint(t)
    PROVE  \E next \in Record, at \in Steps :
               Persist(t, next, at) /\ Proper(t, next, at)
<1> DEFINE f == flow[t]
<1> DEFINE h == f.held
<1>1. f \in Flow /\ h \in Record
  BY DEF IInv, TypeOK, Flow
<1>2. f.at # "idle" /\ Knows(t)
  BY DEF IInv, FlowOK, Checkpoint, ReserveIntent, WalletRejects, WalletDoubtful,
         KeepSignature, AcceptBroadcast, QueryFails, SaveSuccess, ReadbackFails,
         SaveFailure, SaveExpired, SaveNotFound
<1>3. CASE ReserveIntent(t)
  <2> DEFINE n == [h EXCEPT !.status = "SIGNING", !.intent = TRUE, !.error = FALSE]
  <2>1. n \in Record /\ Proper(t, n, "wallet")
    BY <1>1, <1>2, <1>3 DEF ReserveIntent, Proper, Record, Status, Finished, Recoverable
  <2> QED BY <1>3, <2>1 DEF ReserveIntent, Steps
<1>4. CASE WalletRejects(t)
  <2> DEFINE n == [h EXCEPT !.status = "PREPARED", !.intent = FALSE, !.error = TRUE]
  <2>1. n \in Record /\ Proper(t, n, "idle")
    BY <1>1, <1>2, <1>4 DEF WalletRejects, Proper, Record, Status, Finished, Recoverable
  <2> QED BY <1>4, <2>1 DEF WalletRejects, Steps
<1>5. CASE WalletDoubtful(t)
  <2> DEFINE n == [h EXCEPT !.status = "SIGNING_UNKNOWN", !.error = TRUE]
  <2>1. n \in Record /\ Proper(t, n, "idle")
    BY <1>1, <1>2, <1>5 DEF WalletDoubtful, Proper, Record, Status, Finished, Recoverable
  <2> QED BY <1>5, <2>1 DEF WalletDoubtful, Steps
<1>6. CASE KeepSignature(t)
  <2> DEFINE n == [h EXCEPT !.status = "SIGNED", !.intent = FALSE,
                            !.signed = TRUE, !.error = FALSE]
  <2>1. n \in Record /\ Proper(t, n, "send")
    BY <1>1, <1>2, <1>6 DEF KeepSignature, Proper, Record, Status, Finished, Recoverable
  <2> QED BY <1>6, <2>1 DEF KeepSignature, Steps
<1>7. CASE AcceptBroadcast(t)
  <2> DEFINE m == [h EXCEPT !.status = "BROADCAST_ACCEPTED",
                            !.broadcast = TRUE, !.error = FALSE]
  <2> DEFINE n == [m EXCEPT !.query = "NOT_FOUND"]
  <2>1. m \in Record /\ m.status = "BROADCAST_ACCEPTED" /\ m.signed = h.signed
    BY <1>1 DEF Record, Status, Finished, Recoverable
  <2>2. n \in Record /\ n.status = m.status /\ n.signed = m.signed
    BY <2>1 DEF Record, QueryStatus
  <2>3. h.signed /\ f.at # "idle"
    BY <1>2, <1>7 DEF AcceptBroadcast, Knows
  <2>4. Proper(t, m, "ask") /\ Proper(t, n, "idle")
    BY <2>1, <2>2, <2>3 DEF Proper, Finished
  <2>5. Persist(t, n, "idle") \/ Persist(t, m, "ask")
    BY <1>7 DEF AcceptBroadcast
  <2> QED BY <2>1, <2>2, <2>4, <2>5 DEF Steps
<1>8. CASE QueryFails(t)
  <2> DEFINE n == [h EXCEPT !.status = "OUTCOME_UNKNOWN", !.error = TRUE]
  <2>1. n \in Record /\ Proper(t, n, "idle")
    BY <1>1, <1>2, <1>8 DEF QueryFails, Proper, Record, Status, Finished, Recoverable
  <2> QED BY <1>8, <2>1 DEF QueryFails, Steps
<1>9. CASE SaveSuccess(t)
  <2> DEFINE n == [h EXCEPT !.status = "FINALIZED_SUCCESS",
                       !.query = "FINALIZED_SUCCESS", !.certified = TRUE,
                       !.error = FALSE]
  <2>1. fate[f.action] = "success"
    BY <1>2, <1>9 DEF SaveSuccess, Knows, Answer, IInv, TypeOK
  <2>2. h.signed
    BY <1>2, <1>9 DEF SaveSuccess, Knows
  <2>3. n \in Record /\ Proper(t, n, "idle")
    BY <1>1, <1>2, <2>1, <2>2 DEF Proper, Record, Status, Finished, Recoverable, QueryStatus
  <2> QED BY <1>9, <2>3 DEF SaveSuccess, Steps
<1>10. CASE ReadbackFails(t)
  <2> DEFINE n == [h EXCEPT !.status = "FINALIZED_UNCERTIFIED",
                       !.query = "FINALIZED_SUCCESS", !.certified = FALSE,
                       !.error = TRUE]
  <2>1. fate[f.action] = "success"
    BY <1>2, <1>10 DEF ReadbackFails, Knows, Answer, IInv, TypeOK
  <2>2. n \in Record /\ Proper(t, n, "idle")
    BY <1>1, <1>2, <2>1 DEF Proper, Record, Status, Finished, Recoverable, QueryStatus
  <2> QED BY <1>10, <2>2 DEF ReadbackFails, Steps
<1>11. CASE SaveFailure(t)
  <2> DEFINE n == [h EXCEPT !.status = "FINALIZED_FAILURE",
                       !.query = "FINALIZED_FAILURE", !.certified = FALSE,
                       !.error = TRUE]
  <2>1. fate[f.action] = "failure"
    BY <1>2, <1>11 DEF SaveFailure, Knows, Answer, IInv, TypeOK
  <2>2. h.signed
    BY <1>2, <1>11 DEF SaveFailure, Knows
  <2>3. n \in Record /\ Proper(t, n, "idle")
    BY <1>1, <1>2, <2>1, <2>2 DEF Proper, Record, Status, Finished, Recoverable, QueryStatus
  <2> QED BY <1>11, <2>3 DEF SaveFailure, Steps
<1>12. CASE SaveExpired(t)
  <2> DEFINE n == [h EXCEPT !.status = "EXPIRED_NOT_FOUND",
                       !.query = "NOT_FOUND", !.certified = FALSE,
                       !.error = TRUE]
  <2>1. fate[f.action] = "none" /\ epoch > window[f.action]
    BY <1>2, <1>12 DEF SaveExpired, Knows, Answer, IInv, TypeOK
  <2>2. h.signed
    BY <1>2, <1>12 DEF SaveExpired, Knows
  <2>3. n \in Record /\ Proper(t, n, "idle")
    BY <1>1, <1>2, <2>1, <2>2 DEF Proper, Record, Status, Finished, Recoverable, QueryStatus
  <2> QED BY <1>12, <2>3 DEF SaveExpired, Steps
<1>13. CASE SaveNotFound(t)
  <2> DEFINE n == [h EXCEPT !.status = IF f.recovering THEN "OUTCOME_UNKNOWN"
                                                       ELSE "BROADCAST_ACCEPTED",
                       !.query = "NOT_FOUND", !.error = FALSE]
  <2>1. n \in Record /\ Proper(t, n, "idle")
    BY <1>1, <1>2, <1>13 DEF SaveNotFound, Proper, Record, Status, Finished,
                             Recoverable, QueryStatus
  <2> QED BY <1>13, <2>1 DEF SaveNotFound, Steps
<1> QED BY <1>3, <1>4, <1>5, <1>6, <1>7, <1>8, <1>9, <1>10, <1>11, <1>12, <1>13
        DEF Checkpoint

LEMMA CheckpointSafe ==
    ASSUME IInv, NEW t \in Tabs, Checkpoint(t)
    PROVE  IInv' /\ Kept
<1>1. PICK next \in Record, at \in Steps :
               Persist(t, next, at) /\ Proper(t, next, at)
  BY CheckpointProper
<1> QED BY <1>1, PersistSafe

-----------------------------------------------------------------------------
(* Steps outside the calls: a record is created, or swapped unsigned.      *)

LEMMA PrepareSafe ==
    ASSUME IInv, NEW a \in Actions, Prepare(a)
    PROVE  IInv' /\ Kept
<1>1. /\ records[a] = Absent /\ records' = [records EXCEPT ![a] = Prepared]
      /\ scopeActive' = [scopeActive EXCEPT ![ScopeOf[a]] = a] /\ rootActive' = a
      /\ flow' = flow /\ epoch' = epoch /\ fate' = fate /\ sent' = sent
  BY DEF Prepare, Create
<1>2. PICK last \in {epoch, epoch + 1} : window' = [window EXCEPT ![a] = last]
  BY DEF Prepare
<1>3. Prepared \in Record /\ Prepared # Absent /\ Prepared.status = "PREPARED"
      /\ ~Absent.signed /\ Absent.status = "ABSENT"
  BY DEF Prepared, Absent, Record, Status, QueryStatus
<1>4. TypeOK'
  <2>1. last \in Nat /\ window' \in [Actions -> Nat]
    BY <1>2 DEF IInv, TypeOK
  <2> QED BY <2>1, <1>1, <1>3 DEF IInv, TypeOK
<1>5. \A b \in Actions : b # a => records'[b] = records[b] /\ window'[b] = window[b]
  BY <1>1, <1>2 DEF IInv, TypeOK
<1>6. records'[a] = Prepared
  BY <1>1 DEF IInv, TypeOK
<1>7. FlowOK'
  <2> SUFFICES ASSUME NEW t \in Tabs, flow[t].at # "idle" PROVE Knows(t)'
    BY <1>1 DEF FlowOK
  <2>1. Knows(t) /\ flow[t].action # a
    BY <1>1 DEF IInv, FlowOK, Knows
  <2>2. Answer(flow[t].action)' = Answer(flow[t].action)
    BY <2>1, <1>1, <1>5 DEF Answer, Knows
  <2> QED BY <2>1, <2>2, <1>1, <1>5 DEF Knows
<1>8. Kept
  BY <1>1, <1>3, <1>5 DEF Kept
<1>9. RetiredUnsigned' /\ SentIsDurable'
  BY <1>1, <1>3, <1>5, <1>6, <1>8 DEF IInv, RetiredUnsigned, SentIsDurable, Kept, TypeOK
<1>10. VerdictsTrue'
  <2> SUFFICES ASSUME NEW b \in Actions PROVE VerdictsTrue!(b)'
    BY DEF VerdictsTrue
  <2> QED BY <1>1, <1>3, <1>5, <1>6 DEF IInv, VerdictsTrue
<1> QED BY <1>4, <1>7, <1>8, <1>9, <1>10 DEF IInv

SwapUnsigned(a, next) ==
    /\ records[a] # Absent
    /\ next \in Record /\ next.revision = records[a].revision + 1
    /\ next.signed = records[a].signed
    /\ next.status \in {"PREPARED", "CANCELLED_UNSIGNED"}
    /\ ~next.signed
    /\ records' = [records EXCEPT ![a] = next]
    /\ scopeActive' = [scopeActive EXCEPT ![ScopeOf[a]] =
                          IF next.status \in Finished THEN None ELSE a]
    /\ rootActive' = IF next.status \in Finished THEN None ELSE a
    /\ flow' = flow /\ epoch' = epoch /\ fate' = fate /\ sent' = sent
    /\ window' = window

LEMMA SwapSteps ==
    ASSUME IInv, NEW a \in Actions, RetireUnsigned(a) \/ ReclaimIntent(a)
    PROVE  /\ records[a].status \in {"PREPARED", "SIGNING", "SIGNING_UNKNOWN"}
           /\ \E next \in Record : SwapUnsigned(a, next)
<1> DEFINE r == records[a]
<1>1. r \in Record
  BY DEF IInv, TypeOK
<1>2. CASE RetireUnsigned(a)
  <2> DEFINE n == [r EXCEPT !.revision = @ + 1, !.error = FALSE,
                            !.status = "CANCELLED_UNSIGNED"]
  <2>1. n \in Record /\ n.revision = r.revision + 1
        /\ n.status = "CANCELLED_UNSIGNED" /\ n.signed = r.signed
    <3>1. r.revision + 1 \in Nat /\ "CANCELLED_UNSIGNED" \in Status
      BY <1>1 DEF Record, Status, Finished
    <3> QED BY <1>1, <3>1 DEF Record
  <2>2. ~r.signed /\ r.status = "PREPARED"
    BY <1>2 DEF RetireUnsigned, Readable, Unsigned
  <2>3. CompareAndSwap(a, r, n) /\ UNCHANGED <<flow, chainVars>>
    BY <1>2 DEF RetireUnsigned
  <2> QED BY <2>1, <2>2, <2>3 DEF CompareAndSwap, Put, SwapUnsigned, chainVars
<1>3. CASE ReclaimIntent(a)
  <2> DEFINE n == [r EXCEPT !.revision = @ + 1, !.intent = FALSE,
                            !.status = "PREPARED", !.error = FALSE]
  <2>1. n \in Record /\ n.revision = r.revision + 1
        /\ n.status = "PREPARED" /\ n.signed = r.signed
    <3>1. r.revision + 1 \in Nat /\ "PREPARED" \in Status
      BY <1>1 DEF Record, Status, Finished
    <3> QED BY <1>1, <3>1 DEF Record
  <2>2. ~r.signed /\ r.status \in {"SIGNING", "SIGNING_UNKNOWN"}
    BY <1>3 DEF ReclaimIntent, Readable, Unsigned
  <2>3. CompareAndSwap(a, r, n) /\ UNCHANGED <<flow, chainVars>>
    BY <1>3 DEF ReclaimIntent
  <2> QED BY <2>1, <2>2, <2>3 DEF CompareAndSwap, Put, SwapUnsigned, chainVars
<1> QED BY <1>2, <1>3

LEMMA SwapSafe ==
    ASSUME IInv, NEW a \in Actions, NEW next, SwapUnsigned(a, next)
    PROVE  IInv' /\ Kept
<1>1. \A b \in Actions : b # a => records'[b] = records[b]
  BY DEF IInv, TypeOK, SwapUnsigned
<1>2. records'[a] = next
  BY DEF IInv, TypeOK, SwapUnsigned
<1>3. TypeOK'
  BY DEF IInv, TypeOK, SwapUnsigned
<1>4. Kept
  BY <1>1, <1>2 DEF Kept, SwapUnsigned
<1>5. FlowOK'
  <2> SUFFICES ASSUME NEW t \in Tabs, flow[t].at # "idle" PROVE Knows(t)'
    BY DEF FlowOK, SwapUnsigned
  <2>1. Knows(t) /\ flow[t] \in Flow /\ records[a] \in Record
    BY DEF IInv, FlowOK, TypeOK
  <2>2. Answer(flow[t].action)' = Answer(flow[t].action)
    BY <2>1 DEF Answer, Knows, SwapUnsigned
  <2>3. CASE flow[t].action # a
    BY <2>1, <2>2, <2>3, <1>1 DEF Knows, SwapUnsigned
  <2>4. CASE flow[t].action = a
    <3>1. flow[t].held.revision < next.revision
      BY <2>1, <2>4 DEF Knows, SwapUnsigned, Flow, Record
    <3>2. next # Absent
      BY DEF Absent, SwapUnsigned
    <3>3. flow[t].held.revision \in Nat /\ next.revision \in Nat
      BY <2>1 DEF Flow, Record, SwapUnsigned
    <3> QED BY <2>1, <2>2, <2>4, <3>1, <3>2, <3>3, <1>2 DEF Knows, SwapUnsigned
  <2> QED BY <2>3, <2>4
<1>6. RetiredUnsigned' /\ SentIsDurable'
  BY <1>1, <1>2, <1>4 DEF IInv, RetiredUnsigned, SentIsDurable, SwapUnsigned, Kept, TypeOK
<1>7. VerdictsTrue'
  <2> SUFFICES ASSUME NEW b \in Actions PROVE VerdictsTrue!(b)'
    BY DEF VerdictsTrue
  <2>1. a \notin sent
    BY DEF IInv, SentIsDurable, SwapUnsigned
  <2>2. CASE b = a
    BY <2>1, <2>2, <1>2 DEF SwapUnsigned
  <2>3. CASE b # a
    BY <2>3, <1>1 DEF IInv, VerdictsTrue, SwapUnsigned
  <2> QED BY <2>2, <2>3
<1> QED BY <1>3, <1>4, <1>5, <1>6, <1>7 DEF IInv

-----------------------------------------------------------------------------
(* Steps that write nothing.                                               *)

LEMMA StartSafe ==
    ASSUME IInv, NEW t \in Tabs, NEW a \in Actions,
           Refresh(t, a) \/ StartRecover(t, a)
    PROVE  IInv' /\ Kept
<1>1. records[a] \in Record
  BY DEF IInv, TypeOK
<1> DEFINE f == [Idle EXCEPT !.at = "refreshed", !.action = a, !.held = records[a]]
<1> DEFINE g == [Idle EXCEPT !.at = "ask", !.action = a, !.held = records[a],
                             !.recovering = TRUE]
<1>2. /\ f \in Flow /\ g \in Flow
      /\ f.at = "refreshed" /\ f.action = a /\ f.held = records[a]
      /\ g.at = "ask" /\ g.action = a /\ g.held = records[a]
  BY <1>1 DEF Idle, Flow, Steps, Reply, QueryStatus
<1> HIDE DEF f, g
<1>3. UNCHANGED <<storeVars, chainVars>>
      /\ \/ flow' = [flow EXCEPT ![t] = f] /\ records[a].status = "PREPARED"
         \/ flow' = [flow EXCEPT ![t] = g] /\ records[a].status \in Recoverable
            /\ Readable(records[a])
  BY DEF Refresh, StartRecover, f, g
<1>4. TypeOK'
  BY <1>2, <1>3 DEF IInv, TypeOK, storeVars, chainVars
<1>5. records[a] # Absent /\ records[a].status # "ABSENT"
  BY <1>3 DEF Absent, Recoverable
<1>6. FlowOK'
  <2> SUFFICES ASSUME NEW u \in Tabs, flow'[u].at # "idle" PROVE Knows(u)'
    BY DEF FlowOK
  <2>1. CASE u # t
    <3>1. flow'[u] = flow[u] /\ Knows(u)
      BY <2>1, <1>3 DEF IInv, TypeOK, FlowOK
    <3> QED BY <3>1, <1>3 DEF Knows, Answer, storeVars, chainVars
  <2>2. CASE u = t /\ flow' = [flow EXCEPT ![t] = f]
             /\ records[a].status = "PREPARED"
    <3>1. flow'[u] = f /\ records' = records
      BY <2>2, <1>3 DEF IInv, TypeOK, storeVars
    <3> QED BY <3>1, <2>2, <1>1, <1>2, <1>5 DEF Knows, Record
  <2>3. CASE u = t /\ flow' = [flow EXCEPT ![t] = g]
             /\ records[a].status \in Recoverable /\ Readable(records[a])
    <3>1. flow'[u] = g /\ records' = records
      BY <2>3, <1>3 DEF IInv, TypeOK, storeVars
    <3>2. records[a].signed
      BY <2>3 DEF Readable, Recoverable
    <3> QED BY <3>1, <3>2, <1>1, <1>2, <1>5 DEF Knows, Record
  <2> QED BY <2>1, <2>2, <2>3, <1>3
<1> QED BY <1>3, <1>4, <1>6 DEF IInv, RetiredUnsigned, SentIsDurable, VerdictsTrue,
                                Kept, storeVars, chainVars

LEMMA MoveSafe ==
    ASSUME IInv, NEW t \in Tabs,
           QueryExact(t) \/ StartReplay(t) \/ Abandon(t) \/ Broadcast(t)
    PROVE  IInv' /\ Kept
<1> DEFINE f == flow[t]
<1>1. f \in Flow /\ (f.at # "idle" => Knows(t))
  BY DEF IInv, TypeOK, FlowOK
<1>2. /\ records' = records /\ scopeActive' = scopeActive /\ rootActive' = rootActive
      /\ epoch' = epoch /\ fate' = fate /\ window' = window
  BY DEF QueryExact, StartReplay, Abandon, Broadcast, storeVars, chainVars
<1>3. \/ sent' = sent
      \/ f.at = "send" /\ sent' = sent \cup {f.action}
  BY DEF QueryExact, StartReplay, Abandon, Broadcast, storeVars, chainVars
<1>4. \/ flow' = [flow EXCEPT ![t] = Idle]
      \/ /\ f.at \in {"ask", "answered", "send"}
         /\ flow' = [flow EXCEPT ![t] = [f EXCEPT !.at = "send"]]
      \/ /\ f.at \in {"ask", "answered", "send"}
         /\ flow' = [flow EXCEPT ![t] = [f EXCEPT !.at = "accepted"]]
      \/ /\ f.at = "ask"
         /\ flow' = [flow EXCEPT ![t] = [f EXCEPT !.at = "answered",
                                                  !.reply = Answer(f.action)]]
  BY DEF QueryExact, StartReplay, Abandon, Broadcast
<1>5. PICK g \in Flow : /\ flow' = [flow EXCEPT ![t] = g]
                        /\ \/ g = Idle
                           \/ /\ g.action = f.action /\ g.held = f.held
                              /\ f.at \in {"ask", "answered", "send"}
                              /\ g.at \in {"send", "accepted", "answered"}
                              /\ g.at = "answered" => g.reply = Answer(f.action)
  <2>1. CASE flow' = [flow EXCEPT ![t] = Idle]
    BY <2>1, AbsentTyped
  <2>2. CASE /\ f.at \in {"ask", "answered", "send"}
             /\ flow' = [flow EXCEPT ![t] = [f EXCEPT !.at = "send"]]
    <3> DEFINE g == [f EXCEPT !.at = "send"]
    <3>1. g \in Flow /\ g.at = "send" /\ g.action = f.action /\ g.held = f.held
      BY <1>1 DEF Flow, Steps
    <3> QED BY <2>2, <3>1
  <2>3. CASE /\ f.at \in {"ask", "answered", "send"}
             /\ flow' = [flow EXCEPT ![t] = [f EXCEPT !.at = "accepted"]]
    <3> DEFINE g == [f EXCEPT !.at = "accepted"]
    <3>1. g \in Flow /\ g.at = "accepted" /\ g.action = f.action /\ g.held = f.held
      BY <1>1 DEF Flow, Steps
    <3> QED BY <2>3, <3>1
  <2>4. CASE /\ f.at = "ask"
             /\ flow' = [flow EXCEPT ![t] = [f EXCEPT !.at = "answered",
                                                      !.reply = Answer(f.action)]]
    <3> DEFINE g == [f EXCEPT !.at = "answered", !.reply = Answer(f.action)]
    <3>1. Answer(f.action) \in Reply
      BY <1>1, <2>4, AnswerTyped DEF IInv, Knows
    <3>2. g \in Flow /\ g.at = "answered" /\ g.action = f.action /\ g.held = f.held
          /\ g.reply = Answer(f.action)
      BY <1>1, <3>1 DEF Flow, Steps
    <3> QED BY <2>4, <3>2
  <2> QED BY <1>4, <2>1, <2>2, <2>3, <2>4
<1>6. sent' \subseteq Actions /\ sent \subseteq sent'
      /\ \A a \in sent' : records[a].signed
  BY <1>1, <1>3 DEF IInv, TypeOK, SentIsDurable, Knows
<1>7. TypeOK'
  BY <1>2, <1>5, <1>6 DEF IInv, TypeOK
<1>8. FlowOK'
  <2> SUFFICES ASSUME NEW u \in Tabs, flow'[u].at # "idle" PROVE Knows(u)'
    BY DEF FlowOK
  <2>1. CASE u # t
    <3>1. flow'[u] = flow[u] /\ Knows(u)
      BY <2>1, <1>5 DEF IInv, TypeOK, FlowOK
    <3> QED BY <3>1, <1>2 DEF Knows, Answer
  <2>2. CASE u = t
    <3>1. flow'[u] = g
      BY <2>2, <1>5 DEF IInv, TypeOK
    <3>2. g # Idle
      BY <3>1 DEF Idle
    <3>3. Knows(t)
      BY <1>1, <1>5, <3>2
    <3>4. \A a \in Actions : Answer(a)' = Answer(a)
      BY <1>2 DEF Answer
    <3>5. /\ g.action = f.action /\ g.held = f.held
          /\ f.at \in {"ask", "answered", "send"}
          /\ g.at \in {"send", "accepted", "answered"}
          /\ g.at = "answered" => g.reply = Answer(f.action)
      BY <1>5, <3>2
    <3>6. /\ f.action \in Actions
          /\ records[f.action] # Absent /\ f.held.status # "ABSENT"
          /\ f.held.revision <= records[f.action].revision
          /\ f.held.revision = records[f.action].revision =>
                 records[f.action] = f.held
          /\ f.held.signed /\ records[f.action].signed
      BY <1>1, <3>5 DEF Knows
    <3>7. g.at = "answered" => g.reply = Answer(g.action)'
      BY <3>4, <3>5, <3>6
    <3> HIDE DEF f
    <3> QED BY <1>2, <3>1, <3>5, <3>6, <3>7 DEF Knows
  <2> QED BY <2>1, <2>2
<1>9. VerdictsTrue'
  <2> SUFFICES ASSUME NEW b \in Actions PROVE VerdictsTrue!(b)'
    BY DEF VerdictsTrue
  <2>1. records[b].status = "CANCELLED_UNSIGNED" => b \notin sent'
    BY <1>6 DEF IInv, RetiredUnsigned
  <2> QED BY <2>1, <1>2 DEF IInv, VerdictsTrue
<1> QED BY <1>2, <1>6, <1>7, <1>8, <1>9
        DEF IInv, RetiredUnsigned, SentIsDurable, Kept

LEMMA ChainSafe ==
    ASSUME IInv, (\E a \in Actions : Execute(a)) \/ NextEpoch
    PROVE  IInv' /\ Kept
<1>1. /\ records' = records /\ scopeActive' = scopeActive /\ rootActive' = rootActive
      /\ flow' = flow /\ sent' = sent /\ window' = window
  BY DEF Execute, NextEpoch, storeVars
<1>2. epoch' \in Nat /\ epoch' >= epoch
      /\ fate' \in [Actions -> {"none", "success", "failure"}]
  BY DEF IInv, TypeOK, Execute, NextEpoch
<1>3. \A b \in Actions :
          \/ fate'[b] = fate[b]
          \/ b \in sent /\ fate[b] = "none" /\ epoch <= window[b]
  BY DEF IInv, TypeOK, Execute, NextEpoch
<1>4. TypeOK'
  BY <1>1, <1>2 DEF IInv, TypeOK
<1>5. FlowOK'
  <2> SUFFICES ASSUME NEW t \in Tabs, flow[t].at # "idle" PROVE Knows(t)'
    BY <1>1 DEF FlowOK
  <2>1. Knows(t) /\ flow[t] \in Flow
    BY DEF IInv, FlowOK, TypeOK
  <2> DEFINE a == flow[t].action
  <2>2. a \in Actions /\ epoch \in Nat /\ window[a] \in Nat
        /\ fate[a] \in {"none", "success", "failure"}
    BY <2>1 DEF Knows, IInv, TypeOK
  <2>3. flow[t].reply = Answer(a) =>
            flow[t].reply = Answer(a)' \/ flow[t].reply = "NOT_FOUND"
    BY <2>2, <1>1, <1>2, <1>3 DEF Answer
  <2> QED BY <2>1, <2>3, <1>1 DEF Knows
<1>6. SentIsDurable'
  BY <1>1, <1>3 DEF IInv, SentIsDurable
<1>7. VerdictsTrue'
  <2> SUFFICES ASSUME NEW b \in Actions PROVE VerdictsTrue!(b)'
    BY DEF VerdictsTrue
  <2>1. epoch \in Nat /\ window[b] \in Nat
    BY DEF IInv, TypeOK
  <2> QED BY <2>1, <1>1, <1>2, <1>3 DEF IInv, VerdictsTrue
<1> QED BY <1>1, <1>4, <1>5, <1>6, <1>7 DEF IInv, RetiredUnsigned, Kept

-----------------------------------------------------------------------------
(* The invariant, and what follows from it.                                *)

LEMMA InitSafe == Init => IInv
<1> SUFFICES ASSUME Init PROVE IInv
  OBVIOUS
<1>1. TypeOK
  BY PlayerAssumption, AbsentTyped DEF Init, TypeOK
<1>2. ~Absent.signed /\ Absent.status = "ABSENT" /\ Idle.at = "idle"
  BY DEF Absent, Idle
<1> QED BY <1>1, <1>2 DEF Init, IInv, FlowOK, RetiredUnsigned, SentIsDurable, VerdictsTrue

LEMMA StepSafe == IInv /\ [Next]_vars => IInv' /\ Kept
<1> SUFFICES ASSUME IInv, [Next]_vars PROVE IInv' /\ Kept
  OBVIOUS
<1>1. ASSUME NEW a \in Actions, Prepare(a) PROVE IInv' /\ Kept
  BY <1>1, PrepareSafe
<1>2. ASSUME NEW a \in Actions, RetireUnsigned(a) \/ ReclaimIntent(a)
      PROVE  IInv' /\ Kept
  BY <1>2, SwapSteps, SwapSafe
<1>3. ASSUME (\E a \in Actions : Execute(a)) \/ NextEpoch PROVE IInv' /\ Kept
  BY <1>3, ChainSafe
<1>4. ASSUME NEW t \in Tabs, NEW a \in Actions, Refresh(t, a) \/ StartRecover(t, a)
      PROVE  IInv' /\ Kept
  BY <1>4, StartSafe
<1>5. ASSUME NEW t \in Tabs, Checkpoint(t) PROVE IInv' /\ Kept
  BY <1>5, CheckpointSafe
<1>6. ASSUME NEW t \in Tabs,
             QueryExact(t) \/ StartReplay(t) \/ Abandon(t) \/ Broadcast(t)
      PROVE  IInv' /\ Kept
  BY <1>6, MoveSafe
<1>7. CASE UNCHANGED vars
  BY <1>7 DEF vars, storeVars, chainVars, IInv, TypeOK, FlowOK, Knows, Answer,
              RetiredUnsigned, SentIsDurable, VerdictsTrue, Kept
<1> QED BY <1>1, <1>2, <1>3, <1>4, <1>5, <1>6, <1>7 DEF Next, Checkpoint

(* The inductive invariant holds of the log.                               *)
THEOREM Inductive == Spec => []IInv
BY InitSafe, StepSafe, PTL DEF Spec

(* The variables of the log keep their types.                              *)
THEOREM TypeCorrect == Spec => []TypeOK
BY Inductive, PTL DEF IInv

(* In any number of tabs, nothing reaches the network that the log could   *)
(* not recover: executePlayerAction stores the signature first.            *)
THEOREM DurableBeforeSent == Spec => []SentIsDurable
BY Inductive, PTL DEF IInv

(* What persistCas records of an outcome is so, and stays so.              *)
THEOREM VerdictsHold == Spec => []VerdictsTrue
BY Inductive, PTL DEF IInv

(* No compareAndSwap of any tab drops a signature.                         *)
THEOREM SignaturesStay == Spec => SignatureKept
<1>1. IInv /\ [Next]_vars => [\A a \in Actions : records[a].signed =>
                                  records'[a].signed]_vars
  BY StepSafe DEF Kept
<1> QED BY Inductive, <1>1, PTL DEF Spec, SignatureKept

-----------------------------------------------------------------------------
(* Where no finished action is read again.                                 *)

LEMMA AbsentStatus == Absent.status = "ABSENT" /\ Idle.at = "idle"
BY DEF Absent, Idle

(* A write to the one unsettled action keeps the index true.               *)
LEMMA PutOnce ==
    ASSUME IInv, IndexTrue, NEW a \in Actions, NEW next \in Record,
           Unsettled(a), next.status # "ABSENT",
           records' = [records EXCEPT ![a] = next],
           scopeActive' = [scopeActive EXCEPT ![ScopeOf[a]] =
                              IF next.status \in Finished THEN None ELSE a],
           rootActive' = IF next.status \in Finished THEN None ELSE a
    PROVE  IndexTrue' /\ Stay
<1>1. rootActive = a /\ \A b \in Actions : b # a => ~Unsettled(b)
  BY DEF IndexTrue
<1>2. records'[a] = next /\ \A b \in Actions : b # a => records'[b] = records[b]
  BY DEF IInv, TypeOK
<1>3. \A b \in Actions : b # a => ~Unsettled(b)'
  BY <1>1, <1>2 DEF Unsettled
<1>4. Unsettled(a)' <=> next.status \notin Finished
  BY <1>2 DEF Unsettled
<1>5. a # None /\ ScopeOf[a] \in Scopes
  BY PlayerAssumption
<1>6. next.status \notin Finished => scopeActive'[ScopeOf[a]] = a
  BY <1>5 DEF IInv, TypeOK
<1>7. \A b \in Actions : Unsettled(b)' <=> rootActive' = b
  BY <1>3, <1>4, <1>5, PlayerAssumption
<1>8. \A b \in Actions : Unsettled(b)' => scopeActive'[ScopeOf[b]] = b
  BY <1>3, <1>4, <1>6
<1>9. Stay
  BY <1>2 DEF Stay, Unsettled
<1> QED BY <1>7, <1>8, <1>9 DEF IndexTrue

LEMMA CheckpointOnce ==
    ASSUME IInv, Once, NEW t \in Tabs, Checkpoint(t)
    PROVE  Once' /\ Stay
<1> DEFINE f == flow[t]
<1>1. PICK next \in Record, at \in Steps :
               Persist(t, next, at) /\ Proper(t, next, at)
  BY CheckpointProper
<1> DEFINE w == Written(t, next)
<1>2. Effect(t, next, at)
  BY <1>1, PersistEffect
<1>3. /\ f.action \in Actions /\ w \in Record /\ records[f.action] = f.held
      /\ w.status = next.status
      /\ records' = [records EXCEPT ![f.action] = w]
      /\ scopeActive' = [scopeActive EXCEPT ![ScopeOf[f.action]] =
                            IF w.status \in Finished THEN None ELSE f.action]
      /\ rootActive' = IF w.status \in Finished THEN None ELSE f.action
      /\ flow' = [flow EXCEPT ![t] = IF at = "idle" THEN Idle
                      ELSE [f EXCEPT !.at = at, !.held = w]]
  BY <1>2 DEF Effect
<1>4. f.at # "idle" /\ f \in Flow /\ next.status # "ABSENT"
  BY <1>1 DEF Proper, IInv, TypeOK
<1>5. f.held.status \notin Finished /\ f.held.status # "ABSENT"
  BY <1>4 DEF Once, HeldOpen, IInv, FlowOK, Knows
<1>6. Unsettled(f.action)
  BY <1>3, <1>5 DEF Unsettled
<1>7. at # "idle" => w.status \notin Finished
  <2>1. CASE at = "wallet"
    BY <2>1, <1>1, <1>3 DEF Proper, Finished
  <2>2. CASE at \in {"send", "ask"}
    BY <2>2, <1>1, <1>3 DEF Proper
  <2> QED BY <2>1, <2>2, <1>1 DEF Proper
<1>8. HeldOpen'
  <2> SUFFICES ASSUME NEW u \in Tabs, flow'[u].at # "idle"
               PROVE  flow'[u].held.status \notin Finished
    BY DEF HeldOpen
  <2>1. CASE u # t
    BY <2>1, <1>3 DEF Once, HeldOpen, IInv, TypeOK
  <2>2. CASE u = t
    <3>1. at # "idle" /\ flow'[u] = [f EXCEPT !.at = at, !.held = w]
      BY <2>2, <1>3, AbsentStatus DEF IInv, TypeOK
    <3> QED BY <3>1, <1>4, <1>7 DEF Flow
  <2> QED BY <2>1, <2>2
<1>9. IndexTrue' /\ Stay
  BY <1>3, <1>4, <1>6, PutOnce DEF Once
<1> QED BY <1>8, <1>9 DEF Once

LEMMA SwapOnce ==
    ASSUME IInv, Once, NEW a \in Actions, RetireUnsigned(a) \/ ReclaimIntent(a)
    PROVE  Once' /\ Stay
<1>1. /\ records[a].status \in {"PREPARED", "SIGNING", "SIGNING_UNKNOWN"}
      /\ \E next \in Record : SwapUnsigned(a, next)
  BY SwapSteps
<1>2. PICK next \in Record : SwapUnsigned(a, next)
  BY <1>1
<1>3. Unsettled(a) /\ next.status # "ABSENT"
  BY <1>1, <1>2 DEF Unsettled, Finished, SwapUnsigned
<1>4. IndexTrue' /\ Stay
  BY <1>2, <1>3, PutOnce DEF Once, SwapUnsigned
<1>5. HeldOpen'
  BY <1>2 DEF Once, HeldOpen, SwapUnsigned
<1> QED BY <1>4, <1>5 DEF Once

LEMMA PrepareOnce ==
    ASSUME IInv, Once, NEW a \in Actions, Prepare(a)
    PROVE  Once' /\ Stay
<1>1. /\ records[a] = Absent /\ records' = [records EXCEPT ![a] = Prepared]
      /\ scopeActive' = [scopeActive EXCEPT ![ScopeOf[a]] = a]
      /\ rootActive = None /\ rootActive' = a /\ flow' = flow
  BY DEF Prepare, Create
<1>2. Prepared.status = "PREPARED" /\ Absent.status = "ABSENT"
  BY DEF Prepared, Absent
<1>3. records'[a] = Prepared /\ \A b \in Actions : b # a => records'[b] = records[b]
  BY <1>1 DEF IInv, TypeOK
<1>4. \A b \in Actions : ~Unsettled(b)
  BY <1>1, PlayerAssumption DEF Once, IndexTrue
<1>5. \A b \in Actions : Unsettled(b)' <=> b = a
  BY <1>2, <1>3, <1>4 DEF Unsettled, Finished
<1>6. scopeActive'[ScopeOf[a]] = a
  BY <1>1, PlayerAssumption DEF IInv, TypeOK
<1>7. IndexTrue'
  BY <1>1, <1>5, <1>6 DEF IndexTrue
<1>8. HeldOpen' /\ Stay
  BY <1>1, <1>2, <1>3 DEF Once, HeldOpen, Stay, Finished
<1> QED BY <1>7, <1>8 DEF Once

(* Steps that write nothing: only StartRecover could take up a finished    *)
(* action.                                                                 *)
LEMMA QuietOnce ==
    ASSUME Rereads = FALSE, IInv, Once, UNCHANGED storeVars,
           \/ flow' = flow
           \/ \E t \in Tabs, g \in Flow :
                  /\ flow' = [flow EXCEPT ![t] = g]
                  /\ g.at # "idle" => g.held.status \notin Finished
    PROVE  Once' /\ Stay
<1>1. IndexTrue' /\ Stay
  BY DEF Once, IndexTrue, Unsettled, Stay, storeVars
<1>2. HeldOpen'
  <2>1. CASE flow' = flow
    BY <2>1 DEF Once, HeldOpen
  <2>2. CASE \E t \in Tabs, g \in Flow :
                  /\ flow' = [flow EXCEPT ![t] = g]
                  /\ g.at # "idle" => g.held.status \notin Finished
    BY <2>2 DEF Once, HeldOpen, IInv, TypeOK
  <2> QED BY <2>1, <2>2
<1> QED BY <1>1, <1>2 DEF Once

LEMMA StartOnce ==
    ASSUME Rereads = FALSE, IInv, Once, NEW t \in Tabs, NEW a \in Actions,
           Refresh(t, a) \/ StartRecover(t, a)
    PROVE  Once' /\ Stay
<1>1. records[a] \in Record /\ records[a].status \notin Finished
  BY DEF IInv, TypeOK, Refresh, StartRecover, Finished
<1> DEFINE f == [Idle EXCEPT !.at = "refreshed", !.action = a, !.held = records[a]]
<1> DEFINE g == [Idle EXCEPT !.at = "ask", !.action = a, !.held = records[a],
                             !.recovering = TRUE]
<1>2. f \in Flow /\ g \in Flow /\ f.held = records[a] /\ g.held = records[a]
  BY <1>1 DEF Idle, Flow, Steps, Reply, QueryStatus
<1>3. flow' = [flow EXCEPT ![t] = f] \/ flow' = [flow EXCEPT ![t] = g]
  BY DEF Refresh, StartRecover
<1>4. UNCHANGED storeVars
  BY DEF Refresh, StartRecover
<1> HIDE DEF f, g
<1> QED BY <1>1, <1>2, <1>3, <1>4, QuietOnce

LEMMA MoveOnce ==
    ASSUME Rereads = FALSE, IInv, Once, NEW t \in Tabs,
           QueryExact(t) \/ StartReplay(t) \/ Abandon(t) \/ Broadcast(t)
    PROVE  Once' /\ Stay
<1>1. IInv'
  BY MoveSafe
<1>2. UNCHANGED storeVars
  BY DEF QueryExact, StartReplay, Abandon, Broadcast
<1>3. \E g : flow' = [flow EXCEPT ![t] = g]
           /\ (g = Idle \/ (flow[t].at # "idle" /\ g.held = flow[t].held))
  <2>1. flow[t] \in Flow
    BY DEF IInv, TypeOK
  <2>2. CASE QueryExact(t)
    <3> DEFINE g == [flow[t] EXCEPT !.at = "answered",
                                    !.reply = Answer(flow[t].action)]
    <3>1. flow' = [flow EXCEPT ![t] = g] /\ g.held = flow[t].held
          /\ flow[t].at # "idle"
      BY <2>1, <2>2 DEF QueryExact, Flow, IInv, TypeOK
    <3> QED BY <3>1
  <2>3. CASE flow' = [flow EXCEPT ![t] = Idle]
    BY <2>3
  <2>4. CASE /\ flow[t].at # "idle"
             /\ \E at \in {"send", "accepted"} : flow' = [flow EXCEPT ![t].at = at]
    <3>1. PICK at \in {"send", "accepted"} : flow' = [flow EXCEPT ![t].at = at]
      BY <2>4
    <3> DEFINE g == [flow[t] EXCEPT !.at = at]
    <3>2. flow' = [flow EXCEPT ![t] = g] /\ g.held = flow[t].held
      BY <2>1, <3>1 DEF Flow, IInv, TypeOK
    <3> QED BY <2>4, <3>2
  <2> QED BY <2>2, <2>3, <2>4 DEF StartReplay, Abandon, Broadcast
<1>4. PICK g : flow' = [flow EXCEPT ![t] = g]
           /\ (g = Idle \/ (flow[t].at # "idle" /\ g.held = flow[t].held))
  BY <1>3
<1>5. g \in Flow
  BY <1>1, <1>4 DEF IInv, TypeOK
<1>6. g.at # "idle" => g.held.status \notin Finished
  BY <1>4, AbsentStatus DEF Once, HeldOpen
<1> QED BY <1>2, <1>4, <1>5, <1>6, QuietOnce

LEMMA StepOnce == Rereads = FALSE /\ IInv /\ Once /\ [Next]_vars => Once' /\ Stay
<1> SUFFICES ASSUME Rereads = FALSE, IInv, Once, [Next]_vars PROVE Once' /\ Stay
  OBVIOUS
<1>1. ASSUME NEW a \in Actions, Prepare(a) PROVE Once' /\ Stay
  BY <1>1, PrepareOnce
<1>2. ASSUME NEW a \in Actions, RetireUnsigned(a) \/ ReclaimIntent(a)
      PROVE  Once' /\ Stay
  BY <1>2, SwapOnce
<1>3. ASSUME (\E a \in Actions : Execute(a)) \/ NextEpoch PROVE Once' /\ Stay
  BY <1>3, QuietOnce DEF Execute, NextEpoch
<1>4. ASSUME NEW t \in Tabs, NEW a \in Actions, Refresh(t, a) \/ StartRecover(t, a)
      PROVE  Once' /\ Stay
  BY <1>4, StartOnce
<1>5. ASSUME NEW t \in Tabs, Checkpoint(t) PROVE Once' /\ Stay
  BY <1>5, CheckpointOnce
<1>6. ASSUME NEW t \in Tabs,
             QueryExact(t) \/ StartReplay(t) \/ Abandon(t) \/ Broadcast(t)
      PROVE  Once' /\ Stay
  BY <1>6, MoveOnce
<1>7. CASE UNCHANGED vars
  BY <1>7, QuietOnce DEF vars
<1> QED BY <1>1, <1>2, <1>3, <1>4, <1>5, <1>6, <1>7 DEF Next, Checkpoint

LEMMA InitOnce == Init => Once
<1> SUFFICES ASSUME Init PROVE Once
  OBVIOUS
<1>1. \A a \in Actions : ~Unsettled(a) /\ rootActive # a
  BY AbsentStatus, PlayerAssumption DEF Init, Unsettled
<1> QED BY <1>1, AbsentStatus DEF Init, Once, HeldOpen, IndexTrue

(* As long as no caller asks again about a finished action, the Root's     *)
(* index keeps a second action from being prepared beside an unsettled     *)
(* one.                                                                    *)
THEOREM OneUnsettled ==
    ASSUME Rereads = FALSE
    PROVE  Spec => []OneUnsettledPerRoot
<1>1. IInv /\ Once /\ [Next]_vars => Once'
  BY StepOnce
<1>2. Once => OneUnsettledPerRoot
  BY DEF Once, IndexTrue, OneUnsettledPerRoot
<1> QED BY InitOnce, Inductive, <1>1, <1>2, PTL DEF Spec

(* Nor does anything then reopen an action that is finished.               *)
THEOREM FinishedForGood ==
    ASSUME Rereads = FALSE
    PROVE  Spec => FinishedStaysFinished
<1>1. IInv /\ Once /\ [Next]_vars => Once'
  BY StepOnce
<1>2. IInv /\ Once /\ [Next]_vars =>
          [\A a \in Actions : records[a].status \in Finished =>
               records'[a].status \in Finished]_vars
  BY StepOnce DEF Stay
<1> QED BY InitOnce, Inductive, <1>1, <1>2, PTL DEF Spec, FinishedStaysFinished

-----------------------------------------------------------------------------
(* The ledger.  An entry is what the mapping makes of a record; a step that *)
(* writes one record makes one entry of the ledger, or leaves it alone.    *)

LEMMA EntryCases ==
    ASSUME NEW r \in Record
    PROVE  /\ r.status = "ABSENT" <=> EntryOf(r) = "none"
           /\ r.status \notin Finished \cup {"ABSENT"} =>
                  EntryOf(r) = IF r.signed THEN "signed" ELSE "open"
           /\ r.status \in Finished => EntryOf(r) \notin {"open", "signed"}
           /\ r.status = "CANCELLED_UNSIGNED" => EntryOf(r) = "unsigned"
           /\ r.status = "FINALIZED_SUCCESS" => EntryOf(r) = "success"
           /\ r.status = "FINALIZED_FAILURE" => EntryOf(r) = "failure"
           /\ r.status = "EXPIRED_NOT_FOUND" => EntryOf(r) = "expired"
BY DEF EntryOf, Finished

LEMMA PendingIsUnsettled ==
    ASSUME TypeOK
    PROVE  \A a \in Actions : Ledger!Pending(a) <=> Unsettled(a)
<1> SUFFICES ASSUME NEW a \in Actions PROVE Ledger!Pending(a) <=> Unsettled(a)
  OBVIOUS
<1>1. records[a] \in Record
  BY DEF TypeOK
<1> QED BY <1>1, EntryCases DEF Ledger!Pending, Unsettled

(* One record is written.                                                  *)
LEMMA EntryWritten ==
    ASSUME TypeOK, NEW a \in Actions, NEW next,
           records' = [records EXCEPT ![a] = next]
    PROVE  [b \in Actions |-> EntryOf(records'[b])]
               = [[b \in Actions |-> EntryOf(records[b])] EXCEPT ![a] = EntryOf(next)]
BY DEF TypeOK

LEMMA EntryRewritten ==
    ASSUME TypeOK, NEW a \in Actions, NEW next,
           records' = [records EXCEPT ![a] = next], EntryOf(next) = EntryOf(records[a])
    PROVE  [b \in Actions |-> EntryOf(records'[b])] = [b \in Actions |-> EntryOf(records[b])]
BY DEF TypeOK

LedgerStep == Ledger!LedgerNext \/ UNCHANGED Ledger!ledgerVars

LEMMA PrepareOpens ==
    ASSUME IInv, Once, NEW a \in Actions, Prepare(a)
    PROVE  Ledger!Open(a)
<1>1. /\ records[a] = Absent /\ records' = [records EXCEPT ![a] = Prepared]
      /\ rootActive = None /\ epoch' = epoch /\ fate' = fate
      /\ \E last \in {epoch, epoch + 1} : window' = [window EXCEPT ![a] = last]
  BY DEF Prepare, Create
<1>2. \A b \in Actions : ~Ledger!Pending(b)
  <2>1. \A b \in Actions : ~Unsettled(b)
    BY <1>1, PlayerAssumption DEF Once, IndexTrue
  <2> QED BY <2>1, PendingIsUnsettled DEF IInv
<1>3. EntryOf(Absent) = "none" /\ EntryOf(Prepared) = "open"
  BY DEF EntryOf, Absent, Prepared
<1>4. [b \in Actions |-> EntryOf(records'[b])]
          = [[b \in Actions |-> EntryOf(records[b])] EXCEPT ![a] = "open"]
  <2>1. TypeOK
    BY DEF IInv
  <2>2. PICK next : next = Prepared
    OBVIOUS
  <2>3. records' = [records EXCEPT ![a] = next] /\ EntryOf(next) = "open"
    BY <1>1, <1>3, <2>2
  <2> QED BY <2>1, <2>3, EntryWritten
<1> QED BY <1>1, <1>2, <1>3, <1>4 DEF Ledger!Open

(* An action is given up, or its prompt reclaimed, before it is signed.    *)
LEMMA SwapLedger ==
    ASSUME IInv, NEW a \in Actions, RetireUnsigned(a) \/ ReclaimIntent(a)
    PROVE  Ledger!GiveUp(a) \/ UNCHANGED Ledger!ledgerVars
<1>1. /\ records[a].status \in {"PREPARED", "SIGNING", "SIGNING_UNKNOWN"}
      /\ \E next \in Record : SwapUnsigned(a, next)
  BY SwapSteps
<1>2. PICK next \in Record : SwapUnsigned(a, next)
  BY <1>1
<1>3. /\ ~records[a].signed /\ ~next.signed /\ records' = [records EXCEPT ![a] = next]
      /\ next.status \in {"PREPARED", "CANCELLED_UNSIGNED"}
      /\ epoch' = epoch /\ fate' = fate /\ window' = window
  BY <1>2 DEF SwapUnsigned
<1>4. records[a] \in Record /\ TypeOK
  BY DEF IInv, TypeOK
<1>5. EntryOf(records[a]) = "open"
  BY <1>1, <1>3, <1>4, EntryCases DEF Finished
<1>6. CASE next.status = "CANCELLED_UNSIGNED"
  <2>1. EntryOf(next) = "unsigned"
    BY <1>6, EntryCases
  <2>2. [b \in Actions |-> EntryOf(records'[b])]
            = [[b \in Actions |-> EntryOf(records[b])] EXCEPT ![a] = "unsigned"]
    BY <1>3, <1>4, <2>1, EntryWritten
  <2> QED BY <1>3, <1>5, <2>2 DEF Ledger!GiveUp
<1>7. CASE next.status = "PREPARED"
  <2>1. EntryOf(next) = "open"
    BY <1>3, <1>7, EntryCases DEF Finished
  <2> QED BY <1>3, <1>4, <1>5, <2>1, EntryRewritten DEF Ledger!ledgerVars
<1> QED BY <1>3, <1>6, <1>7

(* A checkpoint signs the action, closes it under its outcome, or notes    *)
(* something the ledger does not have.                                     *)
LEMMA CheckpointLedger ==
    ASSUME IInv, Once, NEW t \in Tabs, Checkpoint(t)
    PROVE  \/ \E a \in Actions : Ledger!Sign(a) \/ Ledger!Close(a)
           \/ UNCHANGED Ledger!ledgerVars
<1>1. PICK next \in Record, at \in Steps :
               Persist(t, next, at) /\ Proper(t, next, at)
  BY CheckpointProper
<1>2. PICK a, held, w : a = flow[t].action /\ held = flow[t].held /\ w = Written(t, next)
  OBVIOUS
<1>3. /\ a \in Actions /\ w \in Record /\ records[a] = held
      /\ w.status = next.status /\ w.signed = next.signed
      /\ records' = [records EXCEPT ![a] = w]
      /\ epoch' = epoch /\ fate' = fate /\ window' = window
  BY <1>1, <1>2, PersistEffect DEF Effect
<1>4. /\ held.signed => w.signed
      /\ w.status \notin {"ABSENT", "CANCELLED_UNSIGNED"}
      /\ w.status \in Finished => held.signed
      /\ w.status = "FINALIZED_SUCCESS" => fate[a] = "success"
      /\ w.status = "FINALIZED_FAILURE" => fate[a] = "failure"
      /\ w.status = "EXPIRED_NOT_FOUND" => fate[a] = "none" /\ epoch > window[a]
  BY <1>1, <1>2, <1>3 DEF Proper
<1>5. held \in Record /\ held.status \notin Finished \cup {"ABSENT"} /\ TypeOK
  <2>1. flow[t] \in Flow /\ flow[t].at # "idle"
    BY <1>1 DEF Proper, IInv, TypeOK
  <2> QED BY <2>1, <1>2 DEF Once, HeldOpen, IInv, FlowOK, Knows, Flow
<1>6. EntryOf(records[a]) = IF held.signed THEN "signed" ELSE "open"
  BY <1>3, <1>5, EntryCases
<1>7. CASE w.status \in Finished
  <2>1. EntryOf(records[a]) = "signed"
    BY <1>4, <1>6, <1>7
  <2>2. EntryOf(w) = Ledger!Outcome(a) /\ Ledger!Outcome(a) # "none"
    <3>1. w.status \in {"FINALIZED_SUCCESS", "FINALIZED_FAILURE", "EXPIRED_NOT_FOUND"}
      BY <1>4, <1>7 DEF Finished
    <3> QED BY <1>3, <1>4, <3>1, EntryCases DEF Ledger!Outcome
  <2>3. [b \in Actions |-> EntryOf(records'[b])]
            = [[b \in Actions |-> EntryOf(records[b])] EXCEPT ![a] = Ledger!Outcome(a)]
    BY <1>3, <1>5, <2>2, EntryWritten
  <2>4. Ledger!Close(a)
    BY <1>3, <2>1, <2>2, <2>3 DEF Ledger!Close
  <2> QED BY <1>3, <2>4
<1>8. CASE w.status \notin Finished /\ ~held.signed /\ w.signed
  <2>1. EntryOf(records[a]) = "open" /\ EntryOf(w) = "signed"
    BY <1>3, <1>4, <1>6, <1>8, EntryCases
  <2>2. [b \in Actions |-> EntryOf(records'[b])]
            = [[b \in Actions |-> EntryOf(records[b])] EXCEPT ![a] = "signed"]
    BY <1>3, <1>5, <2>1, EntryWritten
  <2>3. Ledger!Sign(a)
    BY <1>3, <2>1, <2>2 DEF Ledger!Sign
  <2> QED BY <1>3, <2>3
<1>9. CASE w.status \notin Finished /\ (held.signed <=> w.signed)
  <2>1. EntryOf(w) = EntryOf(records[a])
    BY <1>3, <1>4, <1>6, <1>9, EntryCases
  <2> QED BY <1>3, <1>5, <2>1, EntryRewritten DEF Ledger!ledgerVars
<1> QED BY <1>4, <1>7, <1>8, <1>9

(* What executes was sent, so it is signed; and its record does not say    *)
(* that it is over, because that would be true.                            *)
LEMMA ExecuteLands ==
    ASSUME IInv, NEW a \in Actions, Execute(a)
    PROVE  Ledger!Land(a)
<1>1. /\ a \in sent /\ fate[a] = "none" /\ epoch <= window[a]
      /\ \E outcome \in {"success", "failure"} : fate' = [fate EXCEPT ![a] = outcome]
      /\ records' = records /\ epoch' = epoch /\ window' = window
  BY DEF Execute, storeVars
<1>2. /\ records[a] \in Record /\ records[a].signed
      /\ epoch \in Nat /\ window[a] \in Nat
  BY <1>1 DEF IInv, TypeOK, SentIsDurable
<1>3. records[a].status \notin Finished \cup {"ABSENT"}
  <2>1. records[a].status # "ABSENT"
    BY <1>2 DEF IInv, RetiredUnsigned
  <2> QED BY <1>1, <1>2, <2>1 DEF IInv, VerdictsTrue, Finished
<1>4. EntryOf(records[a]) = "signed"
  BY <1>2, <1>3, EntryCases
<1> QED BY <1>1, <1>4 DEF Ledger!Land

LEMMA StepLedger ==
    IInv /\ Once /\ [Next]_vars => [Ledger!LedgerNext]_(Ledger!ledgerVars)
<1> SUFFICES ASSUME IInv, Once, [Next]_vars PROVE LedgerStep
  BY DEF LedgerStep
<1>1. ASSUME NEW a \in Actions, Prepare(a) PROVE LedgerStep
  BY <1>1, PrepareOpens DEF LedgerStep, Ledger!LedgerNext
<1>2. ASSUME NEW a \in Actions, RetireUnsigned(a) \/ ReclaimIntent(a)
      PROVE  LedgerStep
  BY <1>2, SwapLedger DEF LedgerStep, Ledger!LedgerNext
<1>3. ASSUME NEW a \in Actions, Execute(a) PROVE LedgerStep
  BY <1>3, ExecuteLands DEF LedgerStep, Ledger!LedgerNext
<1>4. ASSUME NextEpoch PROVE LedgerStep
  BY <1>4 DEF LedgerStep, Ledger!LedgerNext, Ledger!Tick, NextEpoch, storeVars
<1>5. ASSUME NEW t \in Tabs, Checkpoint(t) PROVE LedgerStep
  BY <1>5, CheckpointLedger DEF LedgerStep, Ledger!LedgerNext
<1>6. ASSUME UNCHANGED <<records, fate, window, epoch>> PROVE LedgerStep
  BY <1>6 DEF LedgerStep, Ledger!ledgerVars
<1>7. ASSUME NEW t \in Tabs, NEW a \in Actions, Refresh(t, a) \/ StartRecover(t, a)
      PROVE  LedgerStep
  BY <1>6, <1>7 DEF Refresh, StartRecover, storeVars, chainVars
<1>8. ASSUME NEW t \in Tabs,
             QueryExact(t) \/ StartReplay(t) \/ Abandon(t) \/ Broadcast(t)
      PROVE  LedgerStep
  BY <1>6, <1>8 DEF QueryExact, StartReplay, Abandon, Broadcast, storeVars, chainVars
<1>9. CASE UNCHANGED vars
  BY <1>6, <1>9 DEF vars, storeVars, chainVars
<1> QED BY <1>1, <1>2, <1>3, <1>4, <1>5, <1>7, <1>8, <1>9 DEF Next, Checkpoint

(* As long as no caller asks again about a finished action, the log of any *)
(* number of tabs is a ledger with one action open at a time: what is      *)
(* signed stays so until it is closed under its outcome, nothing else is   *)
(* executed, and nothing that is closed comes up again.                    *)
THEOREM LogIsLedger ==
    ASSUME Rereads = FALSE
    PROVE  Spec => KeepsLedger
<1>1. Init => Ledger!LedgerInit
  <2>1. EntryOf(Absent) = "none"
    BY DEF EntryOf, Absent
  <2> QED BY <2>1 DEF Init, Ledger!LedgerInit
<1>2. IInv /\ Once /\ [Next]_vars => Once'
  BY StepOnce
<1>3. IInv /\ Once /\ [Next]_vars => [Ledger!LedgerNext]_(Ledger!ledgerVars)
  BY StepLedger
<1> QED BY InitOnce, Inductive, <1>1, <1>2, <1>3, PTL
        DEF Spec, KeepsLedger, Ledger!LedgerSpec
=============================================================================
