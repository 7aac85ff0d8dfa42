------------------------ MODULE MakerPublicationProofs ------------------------
(***************************************************************************)
(* Theorems about MakerPublication, for any tabs, attempts, builds and     *)
(* limits.  The controller is one of the callers the store's theorems are  *)
(* about, so its audit and its reserves are theirs.  What is added here is *)
(* where a digest may be: before a wallet it is in no log; once in a log   *)
(* it is at the cursor, in flight or failed, until it is checkpointed; and *)
(* a tab whose revision is still the plan's has the plan.                  *)
(*                                                                         *)
(* The store comes first, for any caller: the audit passes, what is in     *)
(* flight can be followed to its end, one attempt of a scope is active,    *)
(* and evidence is only added.  The audit is inductive once it is said of  *)
(* all attempts, also of those that are not there; the room for an outcome *)
(* follows from what was reserved when the last event was admitted.        *)
(***************************************************************************)
EXTENDS MakerPublication, TLAPS, SequenceTheorems, FiniteSetTheorems

(* What the admission of the last event has reserved.                      *)
ReserveKept(a) ==
    LET p == plans[a]
        log == Log(a, p.ordinal)
        head == Head_(log)
        last == Len(log) - 1
    IN
    p.outcome \in InFlight =>
        /\ log # <<>>
        /\ last + Remaining(head.status) < HardLimit
        /\ p.total + Remaining(head.status) <= MaxEvents
        /\ p.excess + Larger(0, last + Remaining(head.status) - Larger(last, 2))
               <= MaxExcess

Closed(a) ==
    /\ plans[a].status = "COMPLETE" => plans[a].outcome = "NONE"
    /\ plans[a].outcome \in InFlight \cup {"FINALIZED_FAILURE"} => plans[a].digest # None

(* The history and its counters, over finitely many events.               *)
Counted(a) == HistoryValid(a) /\ CountersAgree(a) /\ IsFiniteSet(Places(a))

StoreInv ==
    /\ StoreTypeOK
    /\ \A a \in Attempts : Counted(a)
    /\ \A a \in Attempts : CursorAgrees(a)
    /\ \A a \in Attempts : PrefixAgrees(a)
    /\ \A a \in Attempts : ReserveKept(a)
    /\ \A a \in Attempts : Closed(a)

-----------------------------------------------------------------------------
(* The head of a log that an event was appended to.                        *)
LEMMA HeadOfAppend ==
    ASSUME NEW S, NEW log \in Seq(S), NEW e \in S
    PROVE  /\ Append(log, e) \in Seq(S) /\ Len(Append(log, e)) = Len(log) + 1
           /\ Append(log, e) # <<>>
           /\ Head_(Append(log, e)) = e
           /\ SubSeq(Append(log, e), 1, Len(log)) = log
<1>1. /\ Append(log, e) # <<>> /\ Append(log, e) \in Seq(S)
      /\ Len(Append(log, e)) = Len(log) + 1
      /\ \A i \in 1 .. Len(log) : Append(log, e)[i] = log[i]
      /\ Append(log, e)[Len(log) + 1] = e
  BY AppendProperties
<1>2. SubSeq(Append(log, e), 1, Len(log)) = log
  <2> DEFINE w == SubSeq(Append(log, e), 1, Len(log))
  <2>1. Len(log) \in Nat /\ 1 \in 1 .. Len(log) + 1 /\ Len(log) \in 0 .. Len(log) + 1
    BY LenProperties
  <2>2. /\ w \in Seq(S) /\ Len(w) = Len(log)
        /\ \A i \in 1 .. Len(log) : w[i] = Append(log, e)[i]
    <3>1. \A i \in 1 .. Len(log) : Append(log, e)[i] \in S
      BY <1>1, ElementOfSeq
    <3> QED BY <1>1, <2>1, <3>1, SubSeqProperties
  <2> QED BY <1>1, <2>2, SeqEqual
<1> QED BY <1>1, <1>2 DEF Head_

LEMMA DigestsOfAppend ==
    ASSUME NEW S, NEW log \in Seq(S), NEW e \in S, NEW d
    PROVE  (\E i \in DOMAIN Append(log, e) : Append(log, e)[i].digest = d)
               <=> d = e.digest \/ \E i \in DOMAIN log : log[i].digest = d
<1>1. /\ Len(Append(log, e)) = Len(log) + 1
      /\ \A i \in 1 .. Len(log) : Append(log, e)[i] = log[i]
      /\ Append(log, e)[Len(log) + 1] = e /\ Append(log, e) \in Seq(S)
  BY AppendProperties
<1>2. /\ DOMAIN log = 1 .. Len(log) /\ Len(log) \in Nat
      /\ DOMAIN Append(log, e) = 1 .. Len(log) + 1
  BY <1>1, LenProperties
<1>3. \A i : i \in 1 .. Len(log) + 1 <=> i \in 1 .. Len(log) \/ i = Len(log) + 1
  BY <1>2
<1> QED BY <1>1, <1>2, <1>3

LEMMA HeadTyped ==
    ASSUME NEW log \in Seq(Event)
    PROVE  /\ Head_(log).status \in EventStatus \cup {"NONE"}
           /\ Head_(log).digest \in Digests \cup {None}
           /\ Head_(log).accepted \in BOOLEAN
           /\ Head_(log).status = "NONE" <=> log = <<>>
           /\ Len(log) \in Nat /\ (Len(log) = 0 <=> log = <<>>)
<1>1. Len(log) \in Nat /\ (Len(log) = 0 <=> log = <<>>)
  BY LenProperties, EmptySeq
<1>2. log # <<>> => log[Len(log)] \in Event
  BY <1>1, ElementOfSeq
<1> QED BY <1>1, <1>2 DEF Head_, Event, EventStatus

LEMMA LogTyped ==
    ASSUME StoreTypeOK, NEW a \in Attempts, NEW o \in Ordinals
    PROVE  Log(a, o) \in Seq(Event) /\ plans[a] \in Plan /\ checkpoints[a] \in Seq(Digests)
BY DEF StoreTypeOK, Log

LEMMA UnusedTyped == Unused \in Plan /\ Created \in Plan
                     /\ [Unused EXCEPT !.status = "DELETED_UNSIGNED"] \in Plan
<1>1. 0 \in Ordinals
  BY PublicationAssumption DEF Ordinals
<1>2. Unused \in Plan
  BY <1>1 DEF Unused, Plan, PlanStatus, Outcomes
<1>3. \A p \in Plan : [p EXCEPT !.status = "DELETED_UNSIGNED"] \in Plan
  BY DEF Plan, PlanStatus
<1>4. \A p \in Plan : [p EXCEPT !.status = "ACTIVE", !.revision = 1, !.outcome = "READY"] \in Plan
  BY DEF Plan, PlanStatus, Outcomes
<1> QED BY <1>2, <1>3, <1>4 DEF Created

LEMMA SubSeqWhole ==
    ASSUME NEW S, NEW s \in Seq(S) PROVE SubSeq(s, 1, Len(s)) = s
BY SubSeqFull

-----------------------------------------------------------------------------
(* The digests a caller may write an event under.                          *)
Named(status, digest) ==
    /\ status \in EventStatus
    /\ IF status = "WALLET_REJECTED" THEN digest = None ELSE digest \in Digests

(* What an appended event leaves behind.                                   *)
Appended(a, status, digest) ==
    LET p == plans[a]
        q == plans'[a]
        o == p.ordinal
        log == Log(a, o)
        success == status = "FINALIZED_SUCCESS"
        final == success /\ o = LastOrdinal
    IN
    /\ p.status = "ACTIVE" /\ o \in Ordinals /\ log \in Seq(Event)
    /\ q \in Plan
    /\ q.status = (IF final THEN "COMPLETE" ELSE "ACTIVE")
    /\ q.ordinal = (IF success /\ ~final THEN o + 1 ELSE o)
    /\ q.outcome = Cursor(status)
    /\ q.digest = (IF success THEN None ELSE digest)
    /\ q.total = p.total + 1
    /\ q.excess = p.excess + (IF Len(log) >= 3 THEN 1 ELSE 0)
    /\ q.revision = p.revision + 1
    /\ \A b \in Attempts : b # a => plans'[b] = plans[b] /\ events'[b] = events[b]
                                    /\ checkpoints'[b] = checkpoints[b]
    /\ \A r \in Ordinals : r # o => events'[a][r] = events[a][r]
    /\ events'[a][o] \in Seq(Event) /\ Len(events'[a][o]) = Len(log) + 1
    /\ events'[a][o] # <<>>
    /\ Head_(events'[a][o]).status = status /\ Head_(events'[a][o]).digest = digest
    /\ SubSeq(events'[a][o], 1, Len(log)) = log
    /\ IF success THEN checkpoints'[a] = Append(checkpoints[a], digest)
                  ELSE checkpoints'[a] = checkpoints[a]

LEMMA AppendEffect ==
    ASSUME StoreTypeOK, NEW a \in Attempts, NEW revision, NEW status, NEW digest,
           Named(status, digest), AppendEvent(a, revision, status, digest)
    PROVE  Appended(a, status, digest) /\ StoreTypeOK'
<1> DEFINE p == plans[a]
<1> DEFINE o == p.ordinal
<1> DEFINE log == Log(a, o)
<1> DEFINE e == [status |-> status, digest |-> digest,
                 accepted |-> \/ status = "BROADCAST_ACCEPTED"
                              \/ status \notin Beginnings /\ Head_(log).accepted]
<1>1. p \in Plan /\ o \in Ordinals /\ log \in Seq(Event) /\ checkpoints[a] \in Seq(Digests)
  BY LogTyped DEF StoreTypeOK, Plan
<1>2. e \in Event
  BY <1>1, HeadTyped DEF Named, Event
<1>3. /\ p.status = "ACTIVE"
      /\ plans' = [plans EXCEPT ![a] =
           [status |-> IF status = "FINALIZED_SUCCESS" /\ o = LastOrdinal
                       THEN "COMPLETE" ELSE "ACTIVE",
            revision |-> p.revision + 1,
            ordinal |-> IF status = "FINALIZED_SUCCESS"
                           /\ ~(status = "FINALIZED_SUCCESS" /\ o = LastOrdinal)
                        THEN o + 1 ELSE o,
            outcome |-> Cursor(status),
            digest |-> IF status = "FINALIZED_SUCCESS" THEN None ELSE digest,
            total |-> p.total + 1,
            excess |-> p.excess + (IF Len(log) >= 3 THEN 1 ELSE 0)]]
      /\ events' = [events EXCEPT ![a][o] = Append(@, e)]
      /\ checkpoints' = IF status = "FINALIZED_SUCCESS"
                        THEN [checkpoints EXCEPT ![a] = Append(@, digest)]
                        ELSE checkpoints
  BY DEF AppendEvent, Current
<1> HIDE DEF e
<1>4. /\ Append(log, e) \in Seq(Event) /\ Len(Append(log, e)) = Len(log) + 1
      /\ Append(log, e) # <<>> /\ Head_(Append(log, e)) = e
      /\ SubSeq(Append(log, e), 1, Len(log)) = log
  BY <1>1, <1>2, HeadOfAppend
<1>5. /\ events'[a][o] = Append(log, e)
      /\ \A r \in Ordinals : r # o => events'[a][r] = events[a][r]
      /\ \A b \in Attempts : b # a => events'[b] = events[b]
      /\ events' \in [Attempts -> [Ordinals -> Seq(Event)]]
  BY <1>1, <1>3, <1>4 DEF StoreTypeOK, Log
<1>6. e.status = status /\ e.digest = digest
  BY DEF e
<1>7. /\ Cursor(status) \in Outcomes
      /\ status = "FINALIZED_SUCCESS" /\ o # LastOrdinal => o + 1 \in Ordinals
      /\ Len(log) \in Nat
  <2>1. Cursor(status) \in Outcomes
    BY DEF Named, EventStatus, Cursor, Outcomes
  <2>2. Len(log) \in Nat BY <1>1, HeadTyped
  <2> QED BY <1>1, <2>1, <2>2, PublicationAssumption DEF Ordinals
<1>8. plans' \in [Attempts -> Plan] /\ plans'[a] \in Plan
  <2> DEFINE q == [status |-> IF status = "FINALIZED_SUCCESS" /\ o = LastOrdinal
                       THEN "COMPLETE" ELSE "ACTIVE",
            revision |-> p.revision + 1,
            ordinal |-> IF status = "FINALIZED_SUCCESS"
                           /\ ~(status = "FINALIZED_SUCCESS" /\ o = LastOrdinal)
                        THEN o + 1 ELSE o,
            outcome |-> Cursor(status),
            digest |-> IF status = "FINALIZED_SUCCESS" THEN None ELSE digest,
            total |-> p.total + 1,
            excess |-> p.excess + (IF Len(log) >= 3 THEN 1 ELSE 0)]
  <2>1. p.revision + 1 \in Nat /\ p.total + 1 \in Nat
        /\ p.excess + (IF Len(log) >= 3 THEN 1 ELSE 0) \in Nat
    BY <1>1, <1>7 DEF Plan
  <2>2. digest \in Digests \cup {None}
    BY DEF Named
  <2>3. (IF status = "FINALIZED_SUCCESS" /\ ~(status = "FINALIZED_SUCCESS" /\ o = LastOrdinal)
         THEN o + 1 ELSE o) \in Ordinals
    BY <1>1, <1>7
  <2>4. q \in Plan
    BY <1>7, <2>1, <2>2, <2>3 DEF Plan, PlanStatus
  <2> HIDE DEF q
  <2>5. plans' = [plans EXCEPT ![a] = q]
    BY <1>3 DEF q
  <2> QED BY <2>4, <2>5 DEF StoreTypeOK
<1>9. checkpoints' \in [Attempts -> Seq(Digests)]
  BY <1>1, <1>3, AppendProperties DEF StoreTypeOK, Named
<1>10. StoreTypeOK'
  BY <1>5, <1>8, <1>9 DEF StoreTypeOK
<1>11. \A b \in Attempts : b # a => plans'[b] = plans[b] /\ checkpoints'[b] = checkpoints[b]
  BY <1>3 DEF StoreTypeOK
<1>12. IF status = "FINALIZED_SUCCESS" THEN checkpoints'[a] = Append(checkpoints[a], digest)
                  ELSE checkpoints'[a] = checkpoints[a]
  BY <1>3 DEF StoreTypeOK
<1>13. plans'[a] = [status |-> IF status = "FINALIZED_SUCCESS" /\ o = LastOrdinal
                       THEN "COMPLETE" ELSE "ACTIVE",
            revision |-> p.revision + 1,
            ordinal |-> IF status = "FINALIZED_SUCCESS"
                           /\ ~(status = "FINALIZED_SUCCESS" /\ o = LastOrdinal)
                        THEN o + 1 ELSE o,
            outcome |-> Cursor(status),
            digest |-> IF status = "FINALIZED_SUCCESS" THEN None ELSE digest,
            total |-> p.total + 1,
            excess |-> p.excess + (IF Len(log) >= 3 THEN 1 ELSE 0)]
  BY <1>3 DEF StoreTypeOK
<1> QED BY <1>1, <1>3, <1>4, <1>5, <1>6, <1>8, <1>10, <1>11, <1>12, <1>13 DEF Appended

(* What the audit says of an attempt is about its records alone.           *)
Same(b) == plans'[b] = plans[b] /\ events'[b] = events[b] /\ checkpoints'[b] = checkpoints[b]

Sound(b) == Counted(b) /\ CursorAgrees(b) /\ PrefixAgrees(b) /\ ReserveKept(b) /\ Closed(b)

(* The history is about the events, the counters about their number.       *)
LEMMA SameHistory ==
    ASSUME NEW b \in Attempts, events'[b] = events[b], Counted(b),
           plans'[b].total = plans[b].total, plans'[b].excess = plans[b].excess
    PROVE  Counted(b)'
<1>1. \A o : Log(b, o)' = Log(b, o)
  BY DEF Log
<1>2. Places(b)' = Places(b)
  BY <1>1 DEF Places
<1>3. \A o, i : UpTo(b, o, i)' = UpTo(b, o, i)
  BY <1>2 DEF UpTo
<1>4. HistoryValid(b)'
  <2> SUFFICES ASSUME NEW o \in Ordinals, NEW i \in DOMAIN Log(b, o)'
               PROVE  LET event == Log(b, o)'[i]
                          prior == IF i = 1 THEN Head_(<<>>) ELSE Log(b, o)'[i - 1]
                      IN
                      /\ Follows(prior, event)
                      /\ HasCapacity(prior.status, i - 1, event.status)
                      /\ HasReserve(Cardinality(UpTo(b, o, i)'), Cardinality(Excess(UpTo(b, o, i)')),
                                    i - 1, event.status)
    BY DEF HistoryValid, Excess
  <2> QED BY <1>1, <1>3 DEF Counted, HistoryValid
<1>5. CountersAgree(b)'
  <2>1. CountersAgree(b)
    BY DEF Counted
  <2> QED BY <1>2, <2>1 DEF CountersAgree, Excess
<1> QED BY <1>2, <1>4, <1>5 DEF Counted

LEMMA SameStaysSound ==
    ASSUME NEW b \in Attempts, Sound(b), Same(b) PROVE Sound(b)'
<1>1. Counted(b)'
  BY SameHistory DEF Sound, Same
<1> QED BY <1>1 DEF Sound, Same, CursorAgrees, PrefixAgrees, ReserveKept, Closed, Log

(* The new event is the last of all: no earlier one sees it, and what it   *)
(* was admitted against are the counters of the events before it.          *)
LEMMA AppendCounted ==
    ASSUME StoreInv, NEW a \in Attempts, NEW revision, NEW status, NEW digest,
           Named(status, digest), AppendEvent(a, revision, status, digest)
    PROVE  Counted(a)'
<1>0. /\ Appended(a, status, digest) /\ StoreTypeOK /\ StoreTypeOK'
      /\ plans[a] \in Plan /\ plans[a].ordinal \in Ordinals
      /\ Log(a, plans[a].ordinal) \in Seq(Event) /\ Len(Log(a, plans[a].ordinal)) \in Nat
  <2>1. Appended(a, status, digest) /\ StoreTypeOK /\ StoreTypeOK'
    BY AppendEffect DEF StoreInv
  <2>2. plans[a].ordinal \in Ordinals /\ Log(a, plans[a].ordinal) \in Seq(Event) /\ plans[a] \in Plan
    BY <2>1, LogTyped DEF Appended
  <2> QED BY <2>1, <2>2, HeadTyped
<1>1. PICK p \in Plan, o \in Ordinals, log \in Seq(Event), n \in Nat :
          p = plans[a] /\ o = p.ordinal /\ log = Log(a, o) /\ n = Len(log)
  BY <1>0
<1> DEFINE q == plans'[a]
<1> DEFINE place == <<o, n + 1>>
<1> DEFINE e == [status |-> status, digest |-> digest,
                 accepted |-> \/ status = "BROADCAST_ACCEPTED"
                              \/ status \notin Beginnings /\ Head_(log).accepted]
<1>2. /\ Follows(Head_(log), e) /\ HasCapacity(Head_(log).status, n, status)
      /\ HasReserve(p.total + 1, p.excess + (IF n >= 3 THEN 1 ELSE 0), n, status)
      /\ events' = [events EXCEPT ![a][o] = Append(@, e)]
      /\ CursorAllows(p.outcome, status) /\ p.status = "ACTIVE"
  BY <1>1 DEF AppendEvent, Current
<1>3. e.status = status
  OBVIOUS
<1>4. e \in Event
  BY <1>1, HeadTyped DEF Named, Event
<1> HIDE DEF e
<1>5. /\ Log(a, o)' = Append(log, e)
      /\ \A r \in Ordinals : r # o => Log(a, r)' = Log(a, r)
  BY <1>0, <1>1, <1>2 DEF StoreTypeOK, Log
<1>6. /\ DOMAIN log = 1 .. n /\ DOMAIN Append(log, e) = 1 .. n + 1
      /\ \A i \in 1 .. n : Append(log, e)[i] = log[i]
      /\ Append(log, e)[n + 1] = e
  BY <1>1, <1>4, AppendProperties, LenProperties
<1>7. /\ \A r \in Ordinals : r \in Nat /\ DOMAIN Log(a, r) \subseteq Nat
      /\ \A r \in Ordinals : r > o => Log(a, r) = <<>> /\ DOMAIN Log(a, r) = {}
  <2>1. \A r \in Ordinals : Log(a, r) \in Seq(Event)
    BY <1>0, LogTyped
  <2>2. \A r \in Ordinals : r \in Nat /\ DOMAIN Log(a, r) = 1 .. Len(Log(a, r)) /\ Len(Log(a, r)) \in Nat
    BY <2>1, LenProperties DEF Ordinals
  <2>3. \A r \in Ordinals : r > o => Log(a, r) = <<>>
    <3>1. p.outcome \notin {"NONE", "BLOCKED"} /\ Len(checkpoints[a]) = o
      BY <1>1, <1>2 DEF CursorAllows, StoreInv, PrefixAgrees
    <3> QED BY <1>1, <2>2, <3>1 DEF StoreInv, PrefixAgrees
  <2>4. DOMAIN <<>> = {}
    OBVIOUS
  <2> QED BY <2>2, <2>3, <2>4
<1>8. Counted(a)
  BY DEF StoreInv
<1> DEFINE places == Places(a)
<1>9. \A x : x \in places <=> \E r \in Ordinals : \E i \in DOMAIN Log(a, r) : x = <<r, i>>
  BY DEF Places
<1>10. Places(a)' = places \cup {place} /\ place \notin places
  <2>1. \A x : x \in Places(a)' <=> \E r \in Ordinals : \E i \in DOMAIN Log(a, r)' : x = <<r, i>>
    BY DEF Places
  <2>2. \A r \in Ordinals : r # o => DOMAIN Log(a, r)' = DOMAIN Log(a, r)
    BY <1>5
  <2>3. \A i : i \in DOMAIN Log(a, o)' <=> i \in DOMAIN Log(a, o) \/ i = n + 1
    BY <1>1, <1>5, <1>6
  <2>4. \A x : x \in Places(a)' <=> x \in places \/ x = place
    BY <1>1, <1>9, <2>1, <2>2, <2>3
  <2>5. n + 1 \notin DOMAIN Log(a, o)
    BY <1>1, <1>6
  <2>6. place \notin places
    BY <1>9, <2>5
  <2> QED BY <2>4, <2>6
<1>11. \A x \in places : x[1] \in Nat /\ x[2] \in Nat /\ x[1] <= o /\ (x[1] = o => x[2] <= n)
  <2> SUFFICES ASSUME NEW r \in Ordinals, NEW i \in DOMAIN Log(a, r)
               PROVE  r \in Nat /\ i \in Nat /\ r <= o /\ (r = o => i <= n)
    BY <1>9
  <2>1. r \in Nat /\ i \in Nat /\ o \in Nat
    BY <1>1, <1>7
  <2>2. r <= o
    BY <1>7, <2>1
  <2>3. r = o => i <= n
    BY <1>1, <1>6
  <2> QED BY <2>1, <2>2, <2>3
<1>12. o \in Nat /\ place[1] = o /\ place[2] = n + 1
  BY <1>1, <1>7
<1>13. \A r \in Ordinals : \A i \in DOMAIN Log(a, r) : UpTo(a, r, i)' = UpTo(a, r, i)
  <2> SUFFICES ASSUME NEW r \in Ordinals, NEW i \in DOMAIN Log(a, r)
               PROVE  UpTo(a, r, i)' = UpTo(a, r, i)
    OBVIOUS
  <2>1. r \in Nat /\ i \in Nat /\ r <= o /\ (r = o => i <= n)
    <3>1. <<r, i>> \in places
      BY <1>9
    <3> QED BY <1>11, <3>1
  <2>2. ~(place[1] < r \/ (place[1] = r /\ place[2] <= i))
    BY <1>1, <1>12, <2>1
  <2> HIDE DEF place, places
  <2>3. UpTo(a, r, i)' = {x \in Places(a)' : x[1] < r \/ (x[1] = r /\ x[2] <= i)}
    BY DEF UpTo
  <2>4. UpTo(a, r, i) = {x \in Places(a) : x[1] < r \/ (x[1] = r /\ x[2] <= i)}
    BY DEF UpTo
  <2>5. Places(a)' = Places(a) \cup {place}
    BY <1>10 DEF places
  <2> QED BY <2>2, <2>3, <2>4, <2>5
<1>14. UpTo(a, o, n + 1)' = Places(a)'
  <2> HIDE DEF place, places
  <2>1. \A x \in Places(a)' : x[1] < o \/ (x[1] = o /\ x[2] <= n + 1)
    BY <1>1, <1>10, <1>11, <1>12
  <2>2. UpTo(a, o, n + 1)' = {x \in Places(a)' : x[1] < o \/ (x[1] = o /\ x[2] <= n + 1)}
    BY DEF UpTo
  <2> QED BY <2>1, <2>2
<1>15. /\ IsFiniteSet(Places(a)') /\ Cardinality(Places(a)') = p.total + 1
       /\ Cardinality(Excess(Places(a)')) = p.excess + (IF n >= 3 THEN 1 ELSE 0)
  <2>1. /\ IsFiniteSet(places) /\ Cardinality(places) = p.total
        /\ Cardinality(Excess(places)) = p.excess
    BY <1>1, <1>8 DEF Counted, CountersAgree
  <2>2. IsFiniteSet(Excess(places)) /\ place \notin Excess(places)
    BY <1>10, <2>1, FS_Subset DEF Excess
  <2> HIDE DEF places
  <2>3. Excess(places \cup {place}) = IF n >= 3 THEN Excess(places) \cup {place} ELSE Excess(places)
    <3>1. place[2] > 3 <=> n >= 3
      BY <1>1, <1>12
    <3> HIDE DEF place
    <3> QED BY <3>1 DEF Excess
  <2>4. p.excess \in Nat /\ p.total \in Nat
    BY <1>1 DEF Plan
  <2>5. IsFiniteSet(places \cup {place}) /\ Cardinality(places \cup {place}) = p.total + 1
    BY <1>10, <2>1, FS_AddElement
  <2>6. Cardinality(Excess(places) \cup {place}) = p.excess + 1
    BY <2>1, <2>2, FS_AddElement
  <2> QED BY <1>10, <2>1, <2>3, <2>4, <2>5, <2>6
<1>16. HistoryValid(a)'
  <2>1. ASSUME NEW r \in Ordinals, NEW i \in DOMAIN Log(a, r)'
        PROVE  LET event == Log(a, r)'[i]
                   prior == IF i = 1 THEN Head_(<<>>) ELSE Log(a, r)'[i - 1]
               IN
               /\ Follows(prior, event)
               /\ HasCapacity(prior.status, i - 1, event.status)
               /\ HasReserve(Cardinality(UpTo(a, r, i)'), Cardinality(Excess(UpTo(a, r, i)')),
                             i - 1, event.status)
    <3>1. CASE i \in DOMAIN Log(a, r)
      <4>1. i \in Nat /\ i >= 1 /\ Log(a, r)'[i] = Log(a, r)[i]
            /\ (i # 1 => Log(a, r)'[i - 1] = Log(a, r)[i - 1])
        <5>1. CASE r = o
          BY <1>1, <1>5, <1>6, <3>1, <5>1
        <5>2. CASE r # o
          <6>1. Log(a, r) \in Seq(Event)
            BY <1>0, LogTyped
          <6> QED BY <1>5, <3>1, <5>2, <6>1, LenProperties
        <5> QED BY <5>1, <5>2
      <4>2. UpTo(a, r, i)' = UpTo(a, r, i)
        BY <1>13, <3>1
      <4> QED BY <1>8, <3>1, <4>1, <4>2 DEF Counted, HistoryValid
    <3>2. CASE i \notin DOMAIN Log(a, r)
      <4>1. r = o /\ i = n + 1
        <5>1. r = o
          BY <1>5, <3>2
        <5> QED BY <1>1, <1>5, <1>6, <3>2, <5>1
      <4>2. Log(a, r)'[i] = e /\ i - 1 = n
        BY <1>1, <1>5, <1>6, <4>1
      <4>3. (IF i = 1 THEN Head_(<<>>) ELSE Log(a, r)'[i - 1]) = Head_(log)
        <5>1. CASE n = 0
          <6>1. log = <<>>
            BY <1>1, <5>1, HeadTyped
          <6> QED BY <4>1, <5>1, <6>1
        <5>2. CASE n # 0
          <6>1. log # <<>> /\ Head_(log) = log[n]
            BY <1>1, <5>2, HeadTyped DEF Head_
          <6>2. n \in 1 .. n /\ i # 1
            BY <1>1, <4>1, <5>2
          <6> QED BY <1>5, <1>6, <4>1, <4>2, <6>1, <6>2
        <5> QED BY <5>1, <5>2
      <4>4. UpTo(a, r, i)' = Places(a)'
        BY <1>14, <4>1
      <4> QED BY <1>2, <1>3, <1>15, <4>2, <4>3, <4>4
    <3> QED BY <3>1, <3>2
  <2> QED BY <2>1 DEF HistoryValid, Excess
<1>17. CountersAgree(a)'
  <2>1. q.total = p.total + 1 /\ q.excess = p.excess + (IF n >= 3 THEN 1 ELSE 0)
    BY <1>0, <1>1 DEF Appended
  <2> QED BY <1>15, <2>1 DEF CountersAgree, Excess
<1> QED BY <1>15, <1>16, <1>17 DEF Counted

LEMMA AppendSound ==
    ASSUME StoreInv, NEW a \in Attempts, NEW revision, NEW status, NEW digest,
           Named(status, digest), AppendEvent(a, revision, status, digest)
    PROVE  Sound(a)'
<1> DEFINE p == plans[a]
<1> DEFINE q == plans'[a]
<1> DEFINE o == p.ordinal
<1> DEFINE log == Log(a, o)
<1> DEFINE success == status = "FINALIZED_SUCCESS"
<1>1. Appended(a, status, digest) /\ StoreTypeOK /\ StoreTypeOK'
  BY AppendEffect DEF StoreInv
<1>2. /\ p \in Plan /\ o \in Ordinals /\ log \in Seq(Event) /\ p.status = "ACTIVE"
      /\ CursorAllows(p.outcome, status) /\ Follows(Head_(log), [status |-> status,
             digest |-> digest, accepted |-> \/ status = "BROADCAST_ACCEPTED"
                                             \/ status \notin Beginnings /\ Head_(log).accepted])
      /\ HasCapacity(Head_(log).status, Len(log), status)
      /\ HasReserve(p.total + 1, p.excess + (IF Len(log) >= 3 THEN 1 ELSE 0), Len(log), status)
  BY <1>1, LogTyped DEF AppendEvent, Current, Appended
<1>3. Len(checkpoints[a]) = o /\ checkpoints[a] \in Seq(Digests) /\ o \in Nat
      /\ o <= LastOrdinal /\ LastOrdinal \in Nat
      /\ \A r \in Ordinals : r > o => events[a][r] = <<>>
  <2>1. o \in Nat /\ o <= LastOrdinal /\ LastOrdinal \in Nat
    BY <1>2, PublicationAssumption DEF Ordinals
  <2>2. Len(checkpoints[a]) = o
    BY <1>2 DEF StoreInv, PrefixAgrees
  <2>3. \A r \in Ordinals : r > o => events[a][r] = <<>>
    <3>1. p.outcome \notin {"NONE", "BLOCKED"}
      BY <1>2 DEF CursorAllows
    <3> QED BY <2>1, <2>2, <3>1 DEF StoreInv, PrefixAgrees, Log, Ordinals
  <2>4. checkpoints[a] \in Seq(Digests)
    BY <1>1 DEF StoreTypeOK
  <2> QED BY <2>1, <2>2, <2>3, <2>4
<1>4. CursorAgrees(a)'
  <2>1. CASE ~success
    <3>1. q.ordinal = o /\ Head_(events'[a][o]).status = status
          /\ Head_(events'[a][o]).digest = digest /\ q.outcome = Cursor(status)
          /\ q.digest = digest /\ Named(status, digest)
      BY <1>1, <2>1 DEF Appended
    <3> QED BY <3>1, <2>1 DEF CursorAgrees, Log, Cursor, Named, EventStatus, InFlight
  <2>2. CASE success /\ o = LastOrdinal
    <3>1. q.ordinal = o /\ Head_(events'[a][o]).status = "FINALIZED_SUCCESS"
          /\ q.outcome = "NONE" /\ q.digest = None
      BY <1>1, <2>2 DEF Appended, Cursor
    <3> QED BY <3>1 DEF CursorAgrees, Log, InFlight
  <2>3. CASE success /\ o # LastOrdinal
    <3>1. q.ordinal = o + 1 /\ q.outcome = "NONE" /\ q.digest = None
      BY <1>1, <2>3 DEF Appended, Cursor
    <3>2. o + 1 \in Ordinals /\ o + 1 > o
      BY <1>3, <2>3 DEF Ordinals
    <3>3. events'[a][o + 1] = <<>>
      <4>1. \A r \in Ordinals : r # o => events'[a][r] = events[a][r]
        BY <1>1 DEF Appended
      <4>2. o + 1 # o /\ events[a][o + 1] = <<>>
        BY <1>3, <3>2
      <4> QED BY <3>2, <4>1, <4>2
    <3>4. Head_(events'[a][q.ordinal]).status = "NONE"
      BY <3>1, <3>3 DEF Head_
    <3> QED BY <3>1, <3>4 DEF CursorAgrees, Log, InFlight
  <2> QED BY <2>1, <2>2, <2>3
<1>5. PrefixAgrees(a)'
  <2> DEFINE done == Len(checkpoints'[a])
  <2>0. /\ \A r \in Ordinals : r < o =>
              /\ Head_(events[a][r]).status = "FINALIZED_SUCCESS"
              /\ Head_(events[a][r]).digest = checkpoints[a][r + 1]
        /\ \A r \in Ordinals : r >= o => Head_(events[a][r]).status # "FINALIZED_SUCCESS"
    BY <1>3 DEF StoreInv, PrefixAgrees, Log, Ordinals
  <2>1. CASE ~success
    <3>1. /\ q.ordinal = o /\ q.status = "ACTIVE" /\ checkpoints'[a] = checkpoints[a]
          /\ Head_(events'[a][o]).status # "FINALIZED_SUCCESS"
          /\ \A r \in Ordinals : r # o => events'[a][r] = events[a][r]
          /\ q.outcome \notin {"NONE", "BLOCKED"}
      BY <1>1, <2>1 DEF Appended, Cursor, Named, EventStatus
    <3>2. \A r \in Ordinals : r \in Nat
      BY DEF Ordinals
    <3> QED BY <1>3, <2>0, <3>1, <3>2 DEF PrefixAgrees, Log
  <2>2. CASE success
    <3>1. /\ q.ordinal = (IF o # LastOrdinal THEN o + 1 ELSE o)
          /\ q.status = (IF o = LastOrdinal THEN "COMPLETE" ELSE "ACTIVE")
          /\ checkpoints'[a] = Append(checkpoints[a], digest)
          /\ Head_(events'[a][o]).status = "FINALIZED_SUCCESS"
          /\ Head_(events'[a][o]).digest = digest
          /\ \A r \in Ordinals : r # o => events'[a][r] = events[a][r]
          /\ digest \in Digests /\ q.outcome = "NONE"
      BY <1>1, <2>2 DEF Appended, Named, Cursor
    <3>2. /\ done = o + 1 /\ checkpoints'[a][o + 1] = digest
          /\ \A r \in Ordinals : r < o => checkpoints'[a][r + 1] = checkpoints[a][r + 1]
      <4>1. /\ Len(Append(checkpoints[a], digest)) = o + 1
            /\ Append(checkpoints[a], digest)[o + 1] = digest
            /\ \A i \in 1 .. o : Append(checkpoints[a], digest)[i] = checkpoints[a][i]
        BY <1>3, <3>1, AppendProperties
      <4>2. \A r \in Ordinals : r < o => r + 1 \in 1 .. o
        BY <1>3 DEF Ordinals
      <4> QED BY <3>1, <4>1, <4>2
    <3>3. \A r \in Ordinals : r \in Nat
      BY DEF Ordinals
    <3>4. q.status = "COMPLETE" <=> done = LastOrdinal + 1
      BY <1>3, <3>1, <3>2
    <3>5. q.status # "COMPLETE" => done = q.ordinal
      BY <3>1, <3>2
    <3>6. \A r \in Ordinals : r < done =>
              /\ Head_(events'[a][r]).status = "FINALIZED_SUCCESS"
              /\ Head_(events'[a][r]).digest = checkpoints'[a][r + 1]
      BY <1>3, <2>0, <3>1, <3>2, <3>3
    <3>7. \A r \in Ordinals : ~(r < done) =>
              /\ Head_(events'[a][r]).status # "FINALIZED_SUCCESS"
              /\ r > o => events'[a][r] = <<>>
      BY <1>3, <2>0, <3>1, <3>2, <3>3
    <3>8. Larger(0, done - 1) = o
      BY <1>3, <3>2 DEF Larger
    <3> QED BY <3>1, <3>4, <3>5, <3>6, <3>7, <3>8 DEF PrefixAgrees, Log
  <2> QED BY <2>1, <2>2
<1>6. ReserveKept(a)'
  <2> SUFFICES ASSUME q.outcome \in InFlight PROVE ReserveKept(a)'
    BY DEF ReserveKept
  <2>1. ~success /\ q.ordinal = o /\ q.total = p.total + 1
        /\ q.excess = p.excess + (IF Len(log) >= 3 THEN 1 ELSE 0)
        /\ Len(events'[a][o]) = Len(log) + 1 /\ events'[a][o] # <<>>
        /\ Head_(events'[a][o]).status = status
    BY <1>1 DEF Appended, Cursor, InFlight
  <2>2. Len(log) \in Nat
    BY <1>2, HeadTyped
  <2>3. Len(events'[a][o]) - 1 = Len(log)
    BY <2>1, <2>2
  <2> QED BY <1>2, <2>1, <2>3 DEF ReserveKept, Log, HasCapacity, HasReserve
<1>7. Closed(a)'
  <2>1. q.status = "COMPLETE" => q.outcome = "NONE"
    BY <1>1 DEF Appended, Cursor
  <2>2. q.outcome \in InFlight \cup {"FINALIZED_FAILURE"} => q.digest # None
    BY <1>1, PublicationAssumption DEF Appended, Cursor, InFlight, Named
  <2> QED BY <2>1, <2>2 DEF Closed
<1>8. Counted(a)'
  BY AppendCounted
<1> QED BY <1>4, <1>5, <1>6, <1>7, <1>8 DEF Sound

(* An append keeps the invariant.                                          *)
LEMMA AppendSafe ==
    ASSUME StoreInv, NEW a \in Attempts, NEW revision, NEW status, NEW digest,
           Named(status, digest), AppendEvent(a, revision, status, digest)
    PROVE  StoreInv'
<1>1. StoreTypeOK' /\ \A b \in Attempts : b # a => Same(b)
  BY AppendEffect DEF StoreInv, Appended, Same
<1>2. \A b \in Attempts : b # a => Sound(b)'
  BY <1>1, SameStaysSound DEF StoreInv, Sound
<1>3. Sound(a)'
  BY AppendSound
<1>4. \A b \in Attempts : Sound(b)'
  BY <1>2, <1>3
<1> QED BY <1>1, <1>4 DEF StoreInv, Sound

(* A write to one plan that leaves its evidence as it is.                  *)
LEMMA PlanOnlySafe ==
    ASSUME StoreInv, NEW a \in Attempts, NEW q \in Plan,
           plans' = [plans EXCEPT ![a] = q], UNCHANGED <<events, checkpoints>>,
           q.ordinal = plans[a].ordinal,
           q.status = "COMPLETE" <=> plans[a].status = "COMPLETE",
           q.total = plans[a].total, q.excess = plans[a].excess,
           \/ q.digest = plans[a].digest /\ q.outcome = plans[a].outcome
           \/ /\ q.digest = None /\ q.outcome \in {"NONE", "BLOCKED", "READY"}
              /\ plans[a].outcome \notin InFlight /\ plans[a].status # "COMPLETE"
              /\ q.outcome # "READY" => plans[a].outcome \in {"NONE", "BLOCKED"}
    PROVE  StoreInv'
<1>1. StoreTypeOK /\ plans[a] \in Plan
  BY LogTyped DEF StoreInv, StoreTypeOK
<1>2. plans'[a] = q /\ \A b \in Attempts : b # a => Same(b)
  BY <1>1 DEF StoreTypeOK, Same
<1>3. \A b \in Attempts : b # a => Sound(b)'
  BY <1>2, SameStaysSound DEF StoreInv, Sound
<1>4. StoreTypeOK'
  BY <1>1 DEF StoreTypeOK
<1>5. Sound(a)
  BY DEF StoreInv, Sound
<1>6. PrefixAgrees(a)'
  <2> DEFINE p == plans[a]
  <2> DEFINE done == Len(checkpoints[a])
  <2> DEFINE last(r) == IF r.outcome \in {"NONE", "BLOCKED"} THEN Larger(0, done - 1) ELSE r.ordinal
  <2>1. done \in Nat /\ p.ordinal \in Nat /\ (p.status # "COMPLETE" => done = p.ordinal)
    <3>1. done \in Nat
      BY <1>1, LenProperties DEF StoreTypeOK
    <3> QED BY <1>1, <1>5, <3>1 DEF Sound, PrefixAgrees, Plan, Ordinals
  <2>2. last(p) \in Nat /\ last(q) \in Nat /\ last(q) >= last(p)
    BY <2>1 DEF Larger
  <2>3. \A o \in Ordinals : o \in Nat /\ (o > last(q) => o > last(p))
    BY <2>2 DEF Ordinals
  <2>4. PrefixAgrees(a)
    BY <1>5 DEF Sound
  <2> QED BY <1>2, <2>3, <2>4 DEF PrefixAgrees, Log
<1>7. CursorAgrees(a)' /\ ReserveKept(a)' /\ Closed(a)'
  <2>1. CASE q.digest = plans[a].digest /\ q.outcome = plans[a].outcome
    BY <1>2, <1>5, <2>1 DEF Sound, CursorAgrees, ReserveKept, Closed, Log
  <2>2. CASE /\ q.digest = None /\ q.outcome \in {"NONE", "BLOCKED", "READY"}
             /\ plans[a].outcome \notin InFlight /\ plans[a].status # "COMPLETE"
    <3>1. ReserveKept(a)' /\ Closed(a)'
      BY <1>2, <2>2 DEF ReserveKept, Closed, InFlight
    <3> DEFINE head == Head_(events[a][plans[a].ordinal])
    <3>2. head.status \in EventStatus \cup {"NONE"}
      BY <1>1, HeadTyped DEF Plan, StoreTypeOK
    <3>3. head.status \notin InFlight \cup {"BROADCAST_ACCEPTED", "EXTERNAL_PENDING"}
      BY <1>5, <2>2, <3>2 DEF Sound, CursorAgrees, Log, InFlight, Cursor, EventStatus
    <3>4. CursorAgrees(a)'
      BY <1>2, <2>2, <3>3 DEF CursorAgrees, Log, InFlight
    <3> QED BY <3>1, <3>4
  <2> QED BY <2>1, <2>2
<1>8. Counted(a)'
  BY <1>2, <1>5, SameHistory DEF Sound
<1>9. \A b \in Attempts : Sound(b)'
  BY <1>3, <1>6, <1>7, <1>8 DEF Sound
<1> QED BY <1>4, <1>9 DEF StoreInv, Sound

(* Where nothing was written nothing is counted.                           *)
LEMMA NothingCounted ==
    ASSUME NEW a \in Attempts, NoEvents(a), plans[a].total = 0, plans[a].excess = 0
    PROVE  Counted(a)
<1>1. \A o \in Ordinals : Log(a, o) = <<>> /\ DOMAIN Log(a, o) = {}
  BY DEF NoEvents
<1>2. HistoryValid(a)
  BY <1>1 DEF HistoryValid
<1>3. Places(a) = {} /\ Excess(Places(a)) = {}
  BY <1>1 DEF Places, Excess
<1> QED BY <1>2, <1>3, FS_EmptySet DEF Counted, CountersAgree

(* An attempt that is begun, or deleted before anything was written of it. *)
LEMMA FreshSound ==
    ASSUME StoreInv, NEW a \in Attempts, NEW q \in {Created, [Unused EXCEPT !.status = "DELETED_UNSIGNED"]},
           plans' = [plans EXCEPT ![a] = q], UNCHANGED <<events, checkpoints>>,
           checkpoints[a] = <<>>, NoEvents(a)
    PROVE  StoreInv'
<1>1. StoreTypeOK /\ q \in Plan
  BY UnusedTyped DEF StoreInv
<1>2. plans'[a] = q /\ \A b \in Attempts : b # a => Same(b)
  BY <1>1 DEF StoreTypeOK, Same
<1>3. \A b \in Attempts : b # a => Sound(b)'
  BY <1>2, SameStaysSound DEF StoreInv, Sound
<1>4. StoreTypeOK'
  BY <1>1 DEF StoreTypeOK
<1>5. /\ q.ordinal = 0 /\ q.digest = None /\ q.outcome \in {"READY", "NONE"}
      /\ q.total = 0 /\ q.excess = 0
      /\ q.status \in {"ACTIVE", "DELETED_UNSIGNED"} /\ 0 \in Ordinals
      /\ Len(checkpoints[a]) = 0
      /\ \A o \in Ordinals : Head_(events[a][o]).status = "NONE" /\ events[a][o] = <<>>
  <2>1. 0 \in Ordinals
    BY PublicationAssumption DEF Ordinals
  <2>2. \A o \in Ordinals : events[a][o] = <<>>
    BY DEF NoEvents, Log
  <2>3. Len(checkpoints[a]) = 0
    BY LenProperties, EmptySeq
  <2> QED BY <2>1, <2>2, <2>3 DEF Created, Unused, Head_
<1>6. Sound(a)'
  <2>1. CursorAgrees(a)' /\ ReserveKept(a)' /\ Closed(a)'
    BY <1>2, <1>5 DEF CursorAgrees, ReserveKept, Closed, Log, InFlight
  <2>2. PrefixAgrees(a)'
    <3>1. \A o \in Ordinals : o \in Nat /\ ~(o < 0)
      BY DEF Ordinals
    <3>2. 0 # LastOrdinal + 1
      BY PublicationAssumption
    <3> QED BY <1>2, <1>5, <3>1, <3>2 DEF PrefixAgrees, Log
  <2>3. Counted(a)'
    <3>1. Counted(a)
      BY DEF StoreInv
    <3>2. Places(a) = {} /\ Excess(Places(a)) = {}
      BY DEF Places, Excess, NoEvents
    <3>3. plans[a].total = 0 /\ plans[a].excess = 0
      BY <3>1, <3>2, FS_EmptySet DEF Counted, CountersAgree
    <3> QED BY <1>2, <1>5, <3>1, <3>3, SameHistory
  <2> QED BY <2>1, <2>2, <2>3 DEF Sound
<1>7. \A b \in Attempts : Sound(b)'
  BY <1>3, <1>6
<1> QED BY <1>4, <1>7 DEF StoreInv, Sound

(* What was never created has no evidence: the invariant says it of an     *)
(* attempt whose cursor is at the beginning.                               *)
Blank(a) == checkpoints[a] = <<>> /\ NoEvents(a)

Blanks == \A a \in Attempts : plans[a].status \in {"ABSENT", "DELETED_UNSIGNED"} => Blank(a)

Rewrite(a, q) == plans' = [plans EXCEPT ![a] = q] /\ UNCHANGED <<events, checkpoints>>

(* An edit of a plan is again a record of its fields.                      *)
LEMMA PlanFields ==
    ASSUME NEW p \in Plan
    PROVE  /\ p.status \in PlanStatus /\ p.revision \in Nat /\ p.ordinal \in Ordinals
           /\ p.outcome \in Outcomes /\ p.digest \in Digests \cup {None}
           /\ p.total \in Nat /\ p.excess \in Nat /\ p.revision + 1 \in Nat
           /\ p = [status |-> p.status, revision |-> p.revision, ordinal |-> p.ordinal,
                   outcome |-> p.outcome, digest |-> p.digest, total |-> p.total,
                   excess |-> p.excess]
BY DEF Plan

(* Every action of the store, in one of four forms.                        *)
LEMMA StoreForms ==
    ASSUME StoreInv, StoreNext
    PROVE  \E a \in Attempts :
               \/ \E status, digest : /\ Named(status, digest)
                                      /\ AppendEvent(a, plans[a].revision, status, digest)
               \/ /\ Rewrite(a, Created) /\ ScopeFree /\ plans[a].status = "ABSENT"
               \/ /\ Rewrite(a, [Unused EXCEPT !.status = "DELETED_UNSIGNED"])
                  /\ Blank(a) /\ plans[a].status = "ACTIVE"
               \/ \E q \in Plan :
                      /\ Rewrite(a, q) /\ q.ordinal = plans[a].ordinal
                      /\ plans[a].status \notin {"COMPLETE", "ABSENT", "DELETED_UNSIGNED", "RELEASE_RETIRED"}
                      /\ q.status \notin {"COMPLETE", "ABSENT", "DELETED_UNSIGNED"}
                      /\ plans[a].status = "ACTIVE" \/ ScopeFree
                      /\ q.revision = plans[a].revision + 1
                      /\ q.total = plans[a].total /\ q.excess = plans[a].excess
                      /\ \/ q.digest = plans[a].digest /\ q.outcome = plans[a].outcome
                         \/ /\ q.digest = None /\ q.outcome \in {"NONE", "BLOCKED", "READY"}
                            /\ plans[a].outcome \notin InFlight
                            /\ q.outcome # "READY" => plans[a].outcome \in {"NONE", "BLOCKED"}
<1>0. StoreTypeOK /\ \A b \in Attempts : plans[b] \in Plan
  BY DEF StoreInv, StoreTypeOK
<1> PICK a \in Attempts :
        \/ CreateAttempt(a) \/ RestoreAttempt(a) \/ DeleteUnsigned(a)
        \/ PutSuccessor(a, plans[a].revision)
        \/ RebuildFailed(a, plans[a].revision)
        \/ BlockSuccessor(a, plans[a].revision)
        \/ RepairUnsignedOwnedReference(a, plans[a].revision)
        \/ \E status \in {"ABANDONED_RECOVERABLE", "RELEASE_RETIRED"} :
               Retire(a, plans[a].revision, status)
        \/ AppendEvent(a, plans[a].revision, "WALLET_REJECTED", None)
        \/ \E status \in EventStatus \ {"WALLET_REJECTED"}, d \in Digests :
               AppendEvent(a, plans[a].revision, status, d)
  BY DEF StoreNext
<1>1. CASE CreateAttempt(a)
  BY <1>1 DEF CreateAttempt, Rewrite
<1>2. CASE DeleteUnsigned(a)
  BY <1>2 DEF DeleteUnsigned, Rewrite, Blank
<1>3. CASE RestoreAttempt(a)
  <2> DEFINE q == [plans[a] EXCEPT !.revision = @ + 1, !.status = "ACTIVE"]
  <2>1. q \in Plan /\ q.status = "ACTIVE" /\ q.ordinal = plans[a].ordinal
        /\ q.revision = plans[a].revision + 1
        /\ q.digest = plans[a].digest /\ q.outcome = plans[a].outcome
        /\ q.total = plans[a].total /\ q.excess = plans[a].excess
    <3>0. q = [plans[a] EXCEPT !.revision = @ + 1, !.status = "ACTIVE"]
      OBVIOUS
    <3> HIDE DEF q
    <3>1. "ACTIVE" \in PlanStatus /\ "NONE" \in Outcomes
      BY DEF PlanStatus, Outcomes
    <3>2. plans[a] \in Plan
      BY <1>0
    <3>3. q \in Plan /\ q.revision = plans[a].revision + 1 /\ q.ordinal = plans[a].ordinal
          /\ q.total = plans[a].total /\ q.excess = plans[a].excess
      <4> DEFINE p == plans[a]
      <4>1. /\ p.status \in PlanStatus /\ p.revision \in Nat /\ p.ordinal \in Ordinals
            /\ p.outcome \in Outcomes /\ p.digest \in Digests \cup {None}
            /\ p.total \in Nat /\ p.excess \in Nat /\ p.revision + 1 \in Nat
            /\ p = [status |-> p.status, revision |-> p.revision, ordinal |-> p.ordinal,
                    outcome |-> p.outcome, digest |-> p.digest, total |-> p.total,
                    excess |-> p.excess]
        BY <3>2, PlanFields
      <4>2. q = [status |-> "ACTIVE", revision |-> p.revision + 1, ordinal |-> p.ordinal,
                 outcome |-> p.outcome, digest |-> p.digest, total |-> p.total, excess |-> p.excess]
        BY <3>0, <4>1
      <4> QED BY <3>1, <3>2, <4>1, <4>2 DEF Plan
    <3>4. q.status = "ACTIVE" /\ q.digest = plans[a].digest /\ q.outcome = plans[a].outcome
      BY <3>0, <3>2 DEF Plan
    <3> QED BY <3>3, <3>4
  <2>2. Rewrite(a, q) /\ plans[a].status = "ABANDONED_RECOVERABLE" /\ ScopeFree
    BY <1>0, <1>3 DEF RestoreAttempt, Rewrite, StoreTypeOK
  <2> QED BY <2>1, <2>2
<1>4. ASSUME NEW from \in {"NONE", "BLOCKED", "READY", "FINALIZED_FAILURE"},
             NEW to \in {"NONE", "BLOCKED", "READY"},
             MoveCursor(a, plans[a].revision, from, to),
             to # "READY" => from \in {"NONE", "BLOCKED"}
      PROVE  \E q \in Plan :
                      /\ Rewrite(a, q) /\ q.ordinal = plans[a].ordinal
                      /\ plans[a].status = "ACTIVE" /\ q.status = "ACTIVE"
                      /\ q.revision = plans[a].revision + 1
                      /\ q.total = plans[a].total /\ q.excess = plans[a].excess
                      /\ q.digest = None /\ q.outcome \in {"NONE", "BLOCKED", "READY"}
                      /\ plans[a].outcome \notin InFlight
                      /\ q.outcome # "READY" => plans[a].outcome \in {"NONE", "BLOCKED"}
  <2> DEFINE q == [plans[a] EXCEPT !.revision = @ + 1, !.outcome = to, !.digest = None]
  <2>1. q \in Plan /\ q.status = plans[a].status /\ q.ordinal = plans[a].ordinal
        /\ q.revision = plans[a].revision + 1 /\ q.digest = None /\ q.outcome = to
        /\ q.total = plans[a].total /\ q.excess = plans[a].excess
    <3>0. q = [plans[a] EXCEPT !.revision = @ + 1, !.outcome = to, !.digest = None]
      OBVIOUS
    <3> HIDE DEF q
    <3>1. to \in Outcomes /\ "ACTIVE" \in PlanStatus
      BY DEF PlanStatus, Outcomes
    <3>2. plans[a] \in Plan
      BY <1>0
    <3>3. q \in Plan /\ q.revision = plans[a].revision + 1 /\ q.ordinal = plans[a].ordinal
          /\ q.total = plans[a].total /\ q.excess = plans[a].excess
      <4> DEFINE p == plans[a]
      <4>1. /\ p.status \in PlanStatus /\ p.revision \in Nat /\ p.ordinal \in Ordinals
            /\ p.outcome \in Outcomes /\ p.digest \in Digests \cup {None}
            /\ p.total \in Nat /\ p.excess \in Nat /\ p.revision + 1 \in Nat
            /\ p = [status |-> p.status, revision |-> p.revision, ordinal |-> p.ordinal,
                    outcome |-> p.outcome, digest |-> p.digest, total |-> p.total,
                    excess |-> p.excess]
        BY <3>2, PlanFields
      <4>2. q = [status |-> p.status, revision |-> p.revision + 1, ordinal |-> p.ordinal,
                 outcome |-> to, digest |-> None, total |-> p.total, excess |-> p.excess]
        BY <3>0, <4>1
      <4> QED BY <3>1, <3>2, <4>1, <4>2 DEF Plan
    <3>4. q.status = plans[a].status /\ q.digest = None /\ q.outcome = to
      BY <3>0, <3>2 DEF Plan
    <3> QED BY <3>3, <3>4
  <2>2. Rewrite(a, q)
    BY <1>0, <1>4 DEF MoveCursor, Rewrite, StoreTypeOK
  <2>3. plans[a].status = "ACTIVE" /\ plans[a].outcome = from
    BY <1>4 DEF MoveCursor, Current
  <2> QED BY <1>4, <2>1, <2>2, <2>3 DEF InFlight
<1>5. CASE PutSuccessor(a, plans[a].revision)
  BY <1>4, <1>5 DEF PutSuccessor
<1>6. CASE RebuildFailed(a, plans[a].revision)
  BY <1>4, <1>6 DEF RebuildFailed
<1>7. CASE BlockSuccessor(a, plans[a].revision)
  BY <1>4, <1>7 DEF BlockSuccessor
<1>8. CASE RepairUnsignedOwnedReference(a, plans[a].revision)
  BY <1>4, <1>8 DEF RepairUnsignedOwnedReference
<1>9. ASSUME NEW status \in {"ABANDONED_RECOVERABLE", "RELEASE_RETIRED"},
             Retire(a, plans[a].revision, status)
      PROVE  \E q \in Plan :
                      /\ Rewrite(a, q) /\ q.ordinal = plans[a].ordinal
                      /\ plans[a].status = "ACTIVE" /\ q.status = status
                      /\ q.revision = plans[a].revision + 1
                      /\ q.total = plans[a].total /\ q.excess = plans[a].excess
                      /\ \/ q.digest = plans[a].digest /\ q.outcome = plans[a].outcome
                         \/ /\ q.digest = None /\ q.outcome = "BLOCKED"
                            /\ plans[a].outcome = "NONE"
  <2> DEFINE q == [plans[a] EXCEPT !.revision = @ + 1, !.status = status,
           !.outcome = IF plans[a].outcome = "NONE" THEN "BLOCKED" ELSE plans[a].outcome]
  <2>1. q \in Plan /\ q.status = status /\ q.ordinal = plans[a].ordinal
        /\ q.revision = plans[a].revision + 1 /\ q.digest = plans[a].digest
        /\ q.total = plans[a].total /\ q.excess = plans[a].excess
        /\ q.outcome = IF plans[a].outcome = "NONE" THEN "BLOCKED" ELSE plans[a].outcome
    <3> DEFINE to == IF plans[a].outcome = "NONE" THEN "BLOCKED" ELSE plans[a].outcome
    <3>1. q = [plans[a] EXCEPT !.revision = @ + 1, !.status = status, !.outcome = to]
      OBVIOUS
    <3> HIDE DEF q
    <3>2. plans[a] \in Plan
      BY <1>0
    <3>3. to \in Outcomes /\ status \in PlanStatus
      BY <3>2 DEF PlanStatus, Outcomes, Plan
    <3>4. q.status = status /\ q.digest = plans[a].digest /\ q.outcome = to
      BY <3>1, <3>2 DEF Plan
    <3> HIDE DEF to
    <3>5. q \in Plan /\ q.revision = plans[a].revision + 1 /\ q.ordinal = plans[a].ordinal
          /\ q.total = plans[a].total /\ q.excess = plans[a].excess
      <4> DEFINE p == plans[a]
      <4>1. /\ p.status \in PlanStatus /\ p.revision \in Nat /\ p.ordinal \in Ordinals
            /\ p.outcome \in Outcomes /\ p.digest \in Digests \cup {None}
            /\ p.total \in Nat /\ p.excess \in Nat /\ p.revision + 1 \in Nat
            /\ p = [status |-> p.status, revision |-> p.revision, ordinal |-> p.ordinal,
                    outcome |-> p.outcome, digest |-> p.digest, total |-> p.total,
                    excess |-> p.excess]
        BY <3>2, PlanFields
      <4>2. q = [status |-> status, revision |-> p.revision + 1, ordinal |-> p.ordinal,
                 outcome |-> to, digest |-> p.digest, total |-> p.total, excess |-> p.excess]
        BY <3>1, <4>1
      <4> QED BY <3>2, <3>3, <4>1, <4>2 DEF Plan
    <3> QED BY <3>5, <3>4 DEF to
  <2>2. Rewrite(a, q)
    BY <1>0, <1>9 DEF Retire, Rewrite, StoreTypeOK
  <2>3. plans[a].status = "ACTIVE"
    BY <1>9 DEF Retire, Current
  <2>4. plans[a].outcome = "NONE" => plans[a].digest = None
    BY DEF StoreInv, CursorAgrees, InFlight
  <2> QED BY <2>1, <2>2, <2>3, <2>4 DEF InFlight
<1>10. CASE \E status \in {"ABANDONED_RECOVERABLE", "RELEASE_RETIRED"} :
               Retire(a, plans[a].revision, status)
  <2>1. PICK status \in {"ABANDONED_RECOVERABLE", "RELEASE_RETIRED"} :
               Retire(a, plans[a].revision, status)
    BY <1>10
  <2>2. \E q \in Plan :
                      /\ Rewrite(a, q) /\ q.ordinal = plans[a].ordinal
                      /\ plans[a].status = "ACTIVE" /\ q.status = status
                      /\ q.revision = plans[a].revision + 1
                      /\ q.total = plans[a].total /\ q.excess = plans[a].excess
                      /\ \/ q.digest = plans[a].digest /\ q.outcome = plans[a].outcome
                         \/ /\ q.digest = None /\ q.outcome = "BLOCKED"
                            /\ plans[a].outcome = "NONE"
    BY <2>1, <1>9
  <2> QED BY <2>2 DEF InFlight
<1>11. CASE \/ AppendEvent(a, plans[a].revision, "WALLET_REJECTED", None)
            \/ \E status \in EventStatus \ {"WALLET_REJECTED"}, d \in Digests :
                   AppendEvent(a, plans[a].revision, status, d)
  BY <1>11 DEF Named, EventStatus
<1> QED BY <1>1, <1>2, <1>3, <1>5, <1>6, <1>7, <1>8, <1>10, <1>11

(* The invariant is inductive.                                             *)
LEMMA StoreInductive ==
    ASSUME StoreInv, Blanks, [StoreNext]_logVars
    PROVE  StoreInv' /\ Blanks'
<1>1. CASE UNCHANGED logVars
  <2>1. StoreTypeOK' /\ Blanks'
    BY <1>1 DEF logVars, StoreInv, StoreTypeOK, Blanks, Blank, NoEvents, Log
  <2>2. \A b \in Attempts : Sound(b)'
    BY <1>1, SameStaysSound DEF logVars, StoreInv, Sound, Same
  <2> QED BY <2>1, <2>2 DEF StoreInv, Sound
<1>2. CASE StoreNext
  <2> USE <1>2
  <2>0. StoreTypeOK
    BY DEF StoreInv
  <2>1. PICK a \in Attempts :
               \/ \E status, digest : /\ Named(status, digest)
                                      /\ AppendEvent(a, plans[a].revision, status, digest)
               \/ /\ Rewrite(a, Created) /\ ScopeFree /\ plans[a].status = "ABSENT"
               \/ /\ Rewrite(a, [Unused EXCEPT !.status = "DELETED_UNSIGNED"])
                  /\ Blank(a) /\ plans[a].status = "ACTIVE"
               \/ \E q \in Plan :
                      /\ Rewrite(a, q) /\ q.ordinal = plans[a].ordinal
                      /\ plans[a].status \notin {"COMPLETE", "ABSENT", "DELETED_UNSIGNED", "RELEASE_RETIRED"}
                      /\ q.status \notin {"COMPLETE", "ABSENT", "DELETED_UNSIGNED"}
                      /\ q.total = plans[a].total /\ q.excess = plans[a].excess
                      /\ \/ q.digest = plans[a].digest /\ q.outcome = plans[a].outcome
                         \/ /\ q.digest = None /\ q.outcome \in {"NONE", "BLOCKED", "READY"}
                            /\ plans[a].outcome \notin InFlight
                            /\ q.outcome # "READY" => plans[a].outcome \in {"NONE", "BLOCKED"}
    BY StoreForms
  <2>2. ASSUME NEW q, Rewrite(a, q),
               q.status \in {"ABSENT", "DELETED_UNSIGNED"} => Blank(a)
        PROVE  Blanks'
    <3>1. plans'[a] = q /\ (\A b \in Attempts : b # a => plans'[b] = plans[b])
          /\ events' = events /\ checkpoints' = checkpoints
      BY <2>0, <2>2 DEF Rewrite, StoreTypeOK
    <3> QED BY <3>1, <2>2 DEF Blanks, Blank, NoEvents, Log
  <2>3. CASE \E status, digest : /\ Named(status, digest)
                                /\ AppendEvent(a, plans[a].revision, status, digest)
    <3>1. PICK status, digest : /\ Named(status, digest)
                                /\ AppendEvent(a, plans[a].revision, status, digest)
      BY <2>3
    <3>2. StoreInv' /\ Appended(a, status, digest)
      BY <2>0, <3>1, AppendSafe, AppendEffect
    <3>3. Blanks'
      BY <3>2 DEF Appended, Blanks, Blank, NoEvents, Log
    <3> QED BY <3>2, <3>3
  <2>4. CASE Rewrite(a, Created) /\ plans[a].status = "ABSENT"
    <3>1. Blank(a) /\ Created.status = "ACTIVE"
      BY <2>4 DEF Blanks, Created, Unused
    <3>2. Blanks'
      BY <2>4, <3>1, <2>2
    <3>3. StoreInv'
      BY <2>4, <3>1, FreshSound DEF Rewrite, Blank
    <3> QED BY <3>2, <3>3
  <2>5. CASE Rewrite(a, [Unused EXCEPT !.status = "DELETED_UNSIGNED"]) /\ Blank(a)
    <3>1. Blanks'
      BY <2>5, <2>2
    <3>2. StoreInv'
      BY <2>5, FreshSound DEF Rewrite, Blank
    <3> QED BY <3>1, <3>2
  <2>6. CASE \E q \in Plan :
                      /\ Rewrite(a, q) /\ q.ordinal = plans[a].ordinal
                      /\ plans[a].status \notin {"COMPLETE", "ABSENT", "DELETED_UNSIGNED", "RELEASE_RETIRED"}
                      /\ q.status \notin {"COMPLETE", "ABSENT", "DELETED_UNSIGNED"}
                      /\ q.total = plans[a].total /\ q.excess = plans[a].excess
                      /\ \/ q.digest = plans[a].digest /\ q.outcome = plans[a].outcome
                         \/ /\ q.digest = None /\ q.outcome \in {"NONE", "BLOCKED", "READY"}
                            /\ plans[a].outcome \notin InFlight
                            /\ q.outcome # "READY" => plans[a].outcome \in {"NONE", "BLOCKED"}
    <3>1. PICK q \in Plan :
                      /\ Rewrite(a, q) /\ q.ordinal = plans[a].ordinal
                      /\ plans[a].status \notin {"COMPLETE", "ABSENT", "DELETED_UNSIGNED", "RELEASE_RETIRED"}
                      /\ q.status \notin {"COMPLETE", "ABSENT", "DELETED_UNSIGNED"}
                      /\ q.total = plans[a].total /\ q.excess = plans[a].excess
                      /\ \/ q.digest = plans[a].digest /\ q.outcome = plans[a].outcome
                         \/ /\ q.digest = None /\ q.outcome \in {"NONE", "BLOCKED", "READY"}
                            /\ plans[a].outcome \notin InFlight
                            /\ q.outcome # "READY" => plans[a].outcome \in {"NONE", "BLOCKED"}
      BY <2>6
    <3>2. Blanks'
      BY <3>1, <2>2
    <3>3. StoreInv'
      BY <3>1, PlanOnlySafe DEF Rewrite
    <3> QED BY <3>2, <3>3
  <2> QED BY <2>1, <2>3, <2>4, <2>5, <2>6
<1> QED BY <1>1, <1>2

LEMMA StoreInitially == LogInit => StoreInv /\ Blanks /\ OneActivePerScope
<1> SUFFICES ASSUME LogInit PROVE StoreInv /\ Blanks /\ OneActivePerScope
  OBVIOUS
<1>1. StoreTypeOK
  <2>1. <<>> \in Seq(Event) /\ <<>> \in Seq(Digests)
    BY EmptySeq
  <2> QED BY <2>1, UnusedTyped DEF LogInit, StoreTypeOK
<1>2. 0 \in Ordinals /\ (\A o \in Ordinals : o \in Nat /\ ~(o < 0)) /\ 0 # LastOrdinal + 1
  BY PublicationAssumption DEF Ordinals
<1>3. \A a \in Attempts :
          /\ plans[a] = Unused /\ checkpoints[a] = <<>> /\ Len(checkpoints[a]) = 0
          /\ \A o \in Ordinals : Log(a, o) = <<>> /\ Head_(Log(a, o)).status = "NONE"
  BY DEF LogInit, Log, Head_
<1>4. \A a \in Attempts : CursorAgrees(a) /\ ReserveKept(a) /\ Closed(a)
  BY <1>2, <1>3 DEF CursorAgrees, ReserveKept, Closed, InFlight, Unused
<1>5. \A a \in Attempts : PrefixAgrees(a)
  BY <1>2, <1>3 DEF PrefixAgrees, Unused
<1>6. Blanks /\ OneActivePerScope
  BY <1>3 DEF Blanks, Blank, NoEvents, OneActivePerScope, Unused
<1>7. \A a \in Attempts : Counted(a)
  BY <1>3, NothingCounted DEF NoEvents, Unused
<1> QED BY <1>1, <1>4, <1>5, <1>6, <1>7 DEF StoreInv

(* Two active attempts of a scope never meet.                              *)
LEMMA OneActiveInductive ==
    ASSUME StoreInv, OneActivePerScope, [StoreNext]_logVars
    PROVE  OneActivePerScope'
<1>1. CASE UNCHANGED logVars
  BY <1>1 DEF logVars, OneActivePerScope
<1>2. CASE StoreNext
  <2>0. StoreTypeOK
    BY DEF StoreInv
  <2>1. PICK a \in Attempts :
             \/ \E status, digest : /\ Named(status, digest)
                                    /\ AppendEvent(a, plans[a].revision, status, digest)
             \/ \E q : /\ Rewrite(a, q)
                       /\ q.status = "ACTIVE" => plans[a].status = "ACTIVE" \/ ScopeFree
    BY <1>2, StoreForms
  <2>2. \A b \in Attempts : b # a => plans'[b] = plans[b]
    BY <2>0, <2>1, AppendEffect DEF Appended, Rewrite, StoreTypeOK
  <2>3. plans'[a].status = "ACTIVE" => plans[a].status = "ACTIVE" \/ ScopeFree
    BY <2>0, <2>1, AppendEffect DEF Appended, Rewrite, StoreTypeOK
  <2> QED BY <2>2, <2>3 DEF OneActivePerScope, ScopeFree
<1> QED BY <1>1, <1>2

(* No step takes evidence back.                                            *)
LEMMA EvidenceStep ==
    ASSUME StoreInv, [StoreNext]_logVars, NEW a \in Attempts
    PROVE  /\ \A o \in Ordinals :
                  SubSeq(events'[a][o], 1, Len(events[a][o])) = events[a][o]
           /\ SubSeq(checkpoints'[a], 1, Len(checkpoints[a])) = checkpoints[a]
           /\ plans[a].status \in {"COMPLETE", "RELEASE_RETIRED", "DELETED_UNSIGNED"}
                  => plans'[a] = plans[a]
<1>0. StoreTypeOK
  BY DEF StoreInv
<1>1. /\ checkpoints[a] \in Seq(Digests)
      /\ \A o \in Ordinals : events[a][o] \in Seq(Event)
  BY <1>0 DEF StoreTypeOK
<1>2. /\ SubSeq(checkpoints[a], 1, Len(checkpoints[a])) = checkpoints[a]
      /\ \A o \in Ordinals : SubSeq(events[a][o], 1, Len(events[a][o])) = events[a][o]
  BY <1>1, SubSeqWhole
<1>3. CASE UNCHANGED logVars
  BY <1>2, <1>3 DEF logVars
<1>4. CASE StoreNext
  <2>1. PICK b \in Attempts :
             \/ \E status, digest : /\ Named(status, digest)
                                    /\ AppendEvent(b, plans[b].revision, status, digest)
             \/ \E q : /\ Rewrite(b, q)
                       /\ plans[b].status \notin {"COMPLETE", "RELEASE_RETIRED", "DELETED_UNSIGNED"}
    BY <1>4, StoreForms
  <2>2. CASE \E q : /\ Rewrite(b, q)
                    /\ plans[b].status \notin {"COMPLETE", "RELEASE_RETIRED", "DELETED_UNSIGNED"}
    BY <1>0, <1>2, <2>2 DEF Rewrite, StoreTypeOK
  <2>3. CASE \E status, digest : /\ Named(status, digest)
                                 /\ AppendEvent(b, plans[b].revision, status, digest)
    <3>1. PICK status, digest : Named(status, digest) /\ AppendEvent(b, plans[b].revision, status, digest)
      BY <2>3
    <3>2. Appended(b, status, digest)
      BY <1>0, <3>1, AppendEffect
    <3>3. CASE b # a
      BY <1>2, <3>2, <3>3 DEF Appended
    <3>4. CASE b = a
      <4>1. \A o \in Ordinals : SubSeq(events'[a][o], 1, Len(events[a][o])) = events[a][o]
        <5>1. SubSeq(events'[a][plans[a].ordinal], 1, Len(events[a][plans[a].ordinal]))
                  = events[a][plans[a].ordinal]
          BY <3>2, <3>4 DEF Appended, Log
        <5>2. \A o \in Ordinals : o # plans[a].ordinal => events'[a][o] = events[a][o]
          BY <3>2, <3>4 DEF Appended
        <5> QED BY <1>2, <5>1, <5>2
      <4>2. plans[a].status = "ACTIVE"
        BY <3>2, <3>4 DEF Appended
      <4>3. SubSeq(checkpoints'[a], 1, Len(checkpoints[a])) = checkpoints[a]
        <5>1. CASE checkpoints'[a] = checkpoints[a]
          BY <1>2, <5>1
        <5>2. CASE status = "FINALIZED_SUCCESS"
          <6>1. checkpoints'[a] = Append(checkpoints[a], digest) /\ digest \in Digests
            BY <3>1, <3>2, <3>4, <5>2 DEF Appended, Named
          <6> QED BY <1>1, <6>1, HeadOfAppend
        <5> QED BY <3>2, <3>4, <5>1, <5>2 DEF Appended
      <4> QED BY <4>1, <4>2, <4>3
    <3> QED BY <3>3, <3>4
  <2> QED BY <2>1, <2>2, <2>3
<1> QED BY <1>3, <1>4

(* The reserve of one event covers the next one and its own reserve.       *)
LEMMA ReserveStep ==
    ASSUME NEW n \in Nat, n # 0, NEW x \in Nat, NEW most \in Nat, NEW left \in {1, 2},
           x + Larger(0, n - 1 + left - Larger(n - 1, 2)) <= most
    PROVE  x + (IF n >= 3 THEN 1 ELSE 0) + Larger(0, n + (left - 1) - Larger(n, 2)) <= most
<1>1. CASE n >= 3
  BY <1>1 DEF Larger
<1>2. CASE n = 2
  BY <1>2 DEF Larger
<1>3. CASE n = 1
  BY <1>3 DEF Larger
<1> QED BY <1>1, <1>2, <1>3

(* What was reserved is enough for the next event towards the outcome.     *)
LEMMA ReserveEnough ==
    ASSUME StoreInv, NEW a \in Attempts, plans[a].outcome \in InFlight
    PROVE  LET head == Head_(Log(a, plans[a].ordinal)).status IN
           IF head \in {"OUTCOME_PENDING", "EXTERNAL_PENDING"}
            THEN /\ Recordable(a, "FINALIZED_SUCCESS")
                 /\ Recordable(a, "FINALIZED_FAILURE")
            ELSE Recordable(a, "OUTCOME_PENDING")
<1> DEFINE p == plans[a]
<1> DEFINE log == Log(a, p.ordinal)
<1> DEFINE head == Head_(log)
<1>1. p \in Plan /\ log \in Seq(Event)
  BY LogTyped DEF StoreInv, StoreTypeOK, Plan
<1>2. Len(log) \in Nat /\ log # <<>> /\ Len(log) # 0
  BY <1>1, HeadTyped DEF StoreInv, ReserveKept
<1>3. p.total \in Nat /\ p.excess \in Nat /\ HardLimit \in Nat /\ MaxEvents \in Nat /\ MaxExcess \in Nat
  BY <1>1, PublicationAssumption DEF Plan
<1>4. p.outcome = Cursor(head.status) /\ head.status \in EventStatus \cup {"NONE"}
  BY <1>1, HeadTyped DEF StoreInv, CursorAgrees
<1>5. head.status \in {"SIGNED", "BROADCAST_ACCEPTED", "OUTCOME_UNKNOWN",
                        "OUTCOME_PENDING", "EXTERNAL_PENDING"}
  BY <1>4 DEF Cursor, EventStatus, InFlight
<1>6. /\ Len(log) - 1 + Remaining(head.status) < HardLimit
      /\ p.total + Remaining(head.status) <= MaxEvents
      /\ p.excess + Larger(0, Len(log) - 1 + Remaining(head.status) - Larger(Len(log) - 1, 2))
             <= MaxExcess
  BY DEF StoreInv, ReserveKept
<1>7. CASE head.status \in {"OUTCOME_PENDING", "EXTERNAL_PENDING"}
  <2>1. Remaining(head.status) = 1
    BY <1>7 DEF Remaining
  <2>2. Remaining("FINALIZED_SUCCESS") = 0 /\ Remaining("FINALIZED_FAILURE") = 0
    BY DEF Remaining
  <2>3. Len(log) < HardLimit /\ p.total + 1 <= MaxEvents
        /\ p.excess + (IF Len(log) >= 3 THEN 1 ELSE 0) + Larger(0, Len(log) + 0 - Larger(Len(log), 2)) <= MaxExcess
    <3>1. p.excess + (IF Len(log) >= 3 THEN 1 ELSE 0)
              + Larger(0, Len(log) + (1 - 1) - Larger(Len(log), 2)) <= MaxExcess
      BY <1>2, <1>3, <1>6, <2>1, ReserveStep
    <3> HIDE DEF p, log, head
    <3> QED BY <1>2, <1>3, <1>6, <2>1, <3>1
  <2>4. HasCapacity(head.status, Len(log), "FINALIZED_SUCCESS")
        /\ HasCapacity(head.status, Len(log), "FINALIZED_FAILURE")
    BY <1>2, <2>2, <2>3 DEF HasCapacity, Optional
  <2>5. \A s \in {"FINALIZED_SUCCESS", "FINALIZED_FAILURE"} :
            HasReserve(p.total + 1, p.excess + (IF Len(log) >= 3 THEN 1 ELSE 0), Len(log), s)
    <3> HIDE DEF p, log, head
    <3> QED BY <1>2, <1>3, <2>2, <2>3 DEF HasReserve
  <2> QED BY <1>7, <2>4, <2>5 DEF Recordable
<1>8. CASE head.status \in {"SIGNED", "BROADCAST_ACCEPTED", "OUTCOME_UNKNOWN"}
  <2>1. Remaining(head.status) = 2
    BY <1>8 DEF Remaining
  <2>2. Remaining("OUTCOME_PENDING") = 1
    BY DEF Remaining
  <2>3. Len(log) + 1 < HardLimit /\ p.total + 2 <= MaxEvents
        /\ p.excess + (IF Len(log) >= 3 THEN 1 ELSE 0) + Larger(0, Len(log) + 1 - Larger(Len(log), 2)) <= MaxExcess
    <3>1. p.excess + (IF Len(log) >= 3 THEN 1 ELSE 0)
              + Larger(0, Len(log) + (2 - 1) - Larger(Len(log), 2)) <= MaxExcess
      BY <1>2, <1>3, <1>6, <2>1, ReserveStep
    <3> HIDE DEF p, log, head
    <3> QED BY <1>2, <1>3, <1>6, <2>1, <3>1
  <2>4. HasCapacity(head.status, Len(log), "OUTCOME_PENDING")
    BY <1>2, <1>8, <2>2, <2>3 DEF HasCapacity, Optional
  <2>5. HasReserve(p.total + 1, p.excess + (IF Len(log) >= 3 THEN 1 ELSE 0), Len(log), "OUTCOME_PENDING")
    BY <1>2, <1>3, <2>2, <2>3 DEF HasReserve
  <2> QED BY <1>8, <2>4, <2>5 DEF Recordable
<1> QED BY <1>5, <1>7, <1>8

-----------------------------------------------------------------------------
(* The invariant of the store, whoever calls it: evidence, cursors,        *)
(* counters and reserves agree after every admitted call.                  *)
THEOREM Inductive == StoreSpec => [](StoreInv /\ Blanks /\ OneActivePerScope)
<1>1. LogInit => StoreInv /\ Blanks /\ OneActivePerScope
  BY StoreInitially
<1>2. StoreInv /\ Blanks /\ OneActivePerScope /\ [StoreNext]_logVars
          => (StoreInv /\ Blanks /\ OneActivePerScope)'
  BY StoreInductive, OneActiveInductive
<1> QED BY <1>1, <1>2, PTL DEF StoreSpec

(* What the store holds keeps its type.                                    *)
THEOREM StoreTyped == StoreSpec => []StoreTypeOK
<1>1. StoreInv => StoreTypeOK
  BY DEF StoreInv
<1> QED BY <1>1, Inductive, PTL

(* The audit of a whole attempt, which export, import and the garbage      *)
(* collection run, never fails on what the store itself wrote: each event  *)
(* may follow the one before it within the limits as they stood then, the  *)
(* counters count the events, and nothing lies past the cursor.            *)
THEOREM AuditAlwaysPasses == StoreSpec => []AuditPasses
<1>1. StoreInv => AuditPasses
  BY DEF StoreInv, Counted, AuditPasses
<1> QED BY <1>1, Inductive, PTL

(* A transaction in flight can be followed to its end within the limits of *)
(* the history, whatever was recorded before it.                           *)
THEOREM OutcomesFit == StoreSpec => []OutcomeRecordable
<1>1. StoreInv => OutcomeRecordable
  BY ReserveEnough DEF OutcomeRecordable
<1> QED BY <1>1, Inductive, PTL

(* A scope has one active attempt, also after a restore.                   *)
THEOREM OneActive == StoreSpec => []OneActivePerScope
BY Inductive, PTL

(* Evidence is only added; an id that was deleted or completed stays so.   *)
THEOREM EvidenceGrows == StoreSpec => EvidenceOnlyGrows
<1>1. StoreInv /\ [StoreNext]_logVars =>
        [\A a \in Attempts :
           /\ \A o \in Ordinals :
                  SubSeq(events'[a][o], 1, Len(events[a][o])) = events[a][o]
           /\ SubSeq(checkpoints'[a], 1, Len(checkpoints[a])) = checkpoints[a]
           /\ plans[a].status \in {"COMPLETE", "RELEASE_RETIRED", "DELETED_UNSIGNED"}
                  => plans'[a] = plans[a]]_logVars
  BY EvidenceStep
<1> QED BY <1>1, Inductive, PTL DEF StoreSpec, EvidenceOnlyGrows

-----------------------------------------------------------------------------
(* The controller. *)

Logged(a, o, d) == \E i \in DOMAIN Log(a, o) : Log(a, o)[i].digest = d

Landed == InFlight \cup {"FINALIZED_FAILURE"}

Placed(a, o, d) ==
    \/ o < Len(checkpoints[a]) /\ checkpoints[a][o + 1] = d
    \/ plans[a].ordinal = o /\ plans[a].digest = d /\ plans[a].outcome \in Landed

LogsPlaced ==
    \A a \in Attempts, o \in Ordinals, d \in Digests :
        Logged(a, o, d) => built[d] = [attempt |-> a, ordinal |-> o] /\ Placed(a, o, d)

ChainTrue ==
    /\ \A d \in Digests : fate[d] \in {"success", "failure"} => d \in sent
    /\ \A d \in sent : /\ built[d].attempt \in Attempts
                       /\ Logged(built[d].attempt, built[d].ordinal, d)
    /\ \A a \in Attempts : \A i \in DOMAIN checkpoints[a] :
           fate[checkpoints[a][i]] = "success"
    /\ \A a \in Attempts : plans[a].outcome = "FINALIZED_FAILURE" =>
           fate[plans[a].digest] = "failure"

Prompting == {"review", "wallet"}
Following == {"opened", "ask", "answered", "replay", "accepted"}

(* What tab t may rely on across an await.                                 *)
Knows(t) ==
    LET c == call[t]
        a == c.attempt
    IN
    /\ a \in Attempts /\ plans[a].status # "ABSENT"
    /\ c.plan.ordinal \in Ordinals
    /\ plans[a].status # "DELETED_UNSIGNED" =>
           /\ c.plan.revision <= plans[a].revision
           /\ c.plan.revision = plans[a].revision => c.plan = plans[a]
    /\ c.at \in Prompting =>
           /\ c.plan.outcome = "READY"
           /\ c.digest \in Digests /\ c.digest \notin sent
           /\ built[c.digest] = [attempt |-> a, ordinal |-> c.plan.ordinal]
           /\ \A b \in Attempts, o \in Ordinals : ~Logged(b, o, c.digest)
    /\ c.at \in Following =>
           c.plan.digest \in Digests /\ Logged(a, c.plan.ordinal, c.plan.digest)
    /\ c.at = "answered" =>
           /\ c.reply = "FINALIZED_SUCCESS" => fate[c.plan.digest] = "success"
           /\ c.reply = "FINALIZED_FAILURE" => fate[c.plan.digest] = "failure"

CallsKnow == \A t \in Tabs : call[t].at # "idle" => Knows(t)

BuildsApart ==
    \A t, u \in Tabs :
        /\ t # u /\ call[t].at \in Prompting /\ call[u].at \in Prompting
        => call[t].digest # call[u].digest

AbsentUnused == \A a \in Attempts : plans[a].status \in {"ABSENT", "DELETED_UNSIGNED"} =>
                    plans[a].digest = None

IInv ==
    /\ TypeOK /\ StoreInv /\ Blanks /\ LogsPlaced /\ ChainTrue
    /\ CallsKnow /\ BuildsApart /\ AbsentUnused

-----------------------------------------------------------------------------
(* Facts about one state.                                                  *)

LEMMA CallTyped ==
    ASSUME TypeOK, NEW t \in Tabs
    PROVE  /\ call[t] \in Call /\ call[t].plan \in Plan
           /\ call[t].digest \in Digests \cup {None}
           /\ call[t].at \in Steps /\ call[t].reply \in Replies
BY DEF TypeOK, Call

LEMMA IdleTyped == Idle \in Call
BY UnusedTyped DEF Idle, Call, Steps, Replies

(* A digest at the cursor, or checkpointed, is in the log.                 *)
LEMMA CursorLogged ==
    ASSUME StoreInv, NEW a \in Attempts
    PROVE  /\ plans[a].outcome \in Landed =>
                  /\ plans[a].digest \in Digests
                  /\ Logged(a, plans[a].ordinal, plans[a].digest)
           /\ plans[a].outcome \notin Landed => plans[a].digest = None
           /\ plans[a].outcome \in Landed => Len(checkpoints[a]) = plans[a].ordinal
<1>1. StoreTypeOK /\ plans[a] \in Plan /\ plans[a].ordinal \in Ordinals
  BY DEF StoreInv, StoreTypeOK, Plan
<1> DEFINE log == Log(a, plans[a].ordinal)
<1>2. log \in Seq(Event) /\ Len(log) \in Nat
  BY <1>1, LogTyped, HeadTyped
<1>3. plans[a].outcome \notin Landed => plans[a].digest = None
  BY DEF StoreInv, CursorAgrees, Landed
<1>4. ASSUME plans[a].outcome \in Landed
      PROVE  Logged(a, plans[a].ordinal, plans[a].digest)
             /\ Len(checkpoints[a]) = plans[a].ordinal
  <2>1. plans[a].digest = Head_(log).digest /\ plans[a].outcome = Cursor(Head_(log).status)
    BY <1>4 DEF StoreInv, CursorAgrees, Landed
  <2>2. log # <<>>
    BY <1>4, <2>1 DEF Head_, Cursor, Landed, InFlight
  <2>3. Len(log) \in DOMAIN log /\ Head_(log) = log[Len(log)]
    BY <1>2, <2>2, HeadTyped DEF Head_
  <2>4. plans[a].status # "COMPLETE"
    BY <1>4 DEF StoreInv, Closed, Landed, InFlight
  <2> QED BY <2>1, <2>3, <2>4 DEF Logged, StoreInv, PrefixAgrees
<1>5. ASSUME plans[a].outcome \in Landed
      PROVE  plans[a].digest \in Digests
  BY <1>1, <1>5 DEF Plan, StoreInv, Closed, Landed
<1> QED BY <1>3, <1>4, <1>5

-----------------------------------------------------------------------------
(* What an append of the store does to the cursor and the digests.         *)

LEMMA AppendAt ==
    ASSUME StoreInv, NEW a \in Attempts, NEW revision, NEW status, NEW digest,
           Named(status, digest), AppendEvent(a, revision, status, digest)
    PROVE  /\ plans[a].revision = revision /\ plans[a].status = "ACTIVE"
           /\ status \in Beginnings => plans[a].outcome = "READY" /\ plans[a].digest = None
           /\ status \notin Beginnings => plans[a].outcome \in InFlight /\ digest = plans[a].digest
<1> DEFINE p == plans[a]
<1> DEFINE prior == Head_(Log(a, p.ordinal))
<1> DEFINE e == [status |-> status, digest |-> digest,
                 accepted |-> \/ status = "BROADCAST_ACCEPTED"
                              \/ status \notin Beginnings /\ prior.accepted]
<1>1. p.revision = revision /\ p.status = "ACTIVE" /\ CursorAllows(p.outcome, status)
      /\ Follows(prior, e)
  BY DEF AppendEvent, Current
<1>2. p \in Plan /\ Log(a, p.ordinal) \in Seq(Event)
  BY LogTyped DEF StoreInv, StoreTypeOK, Plan
<1>3. prior.status \in EventStatus \cup {"NONE"}
  BY <1>2, HeadTyped
<1>4. CASE status \in Beginnings
  <2>1. p.outcome = "READY"
    BY <1>1, <1>4 DEF CursorAllows, Beginnings
  <2>2. p.digest = None
    BY <2>1, CursorLogged DEF Landed, InFlight
  <2> QED BY <1>1, <1>4, <2>1, <2>2
<1>5. CASE status \notin Beginnings
  <2>1. p.outcome \in InFlight
    BY <1>1, <1>5 DEF CursorAllows, Beginnings, InFlight
  <2>2. p.digest = prior.digest /\ p.outcome = Cursor(prior.status)
    BY <2>1 DEF StoreInv, CursorAgrees
  <2>3. prior.status \in {"SIGNED", "BROADCAST_ACCEPTED", "OUTCOME_UNKNOWN",
                          "OUTCOME_PENDING", "EXTERNAL_PENDING"}
    BY <1>3, <2>1, <2>2 DEF Cursor, EventStatus, InFlight
  <2>4. e.digest = prior.digest
    BY <1>1, <2>3 DEF Follows
  <2> QED BY <1>1, <1>5, <2>1, <2>2, <2>4
<1> QED BY <1>4, <1>5

LEMMA AppendLogged ==
    ASSUME StoreTypeOK, NEW a \in Attempts, NEW revision, NEW status, NEW digest,
           Named(status, digest), AppendEvent(a, revision, status, digest),
           NEW b \in Attempts, NEW o \in Ordinals, NEW d
    PROVE  Logged(b, o, d)' <=>
               (Logged(b, o, d) \/ (b = a /\ o = plans[a].ordinal /\ d = digest))
<1> DEFINE p == plans[a]
<1> DEFINE log == Log(a, p.ordinal)
<1> DEFINE e == [status |-> status, digest |-> digest,
                 accepted |-> \/ status = "BROADCAST_ACCEPTED"
                              \/ status \notin Beginnings /\ Head_(log).accepted]
<1>1. p.ordinal \in Ordinals /\ log \in Seq(Event)
  BY LogTyped DEF StoreTypeOK, Plan
<1>2. e \in Event
  BY <1>1, HeadTyped DEF Named, Event
<1>3. events' = [events EXCEPT ![a][p.ordinal] = Append(@, e)]
  BY DEF AppendEvent
<1> HIDE DEF e
<1>4. CASE b = a /\ o = p.ordinal
  <2>1. events'[b][o] = Append(log, e)
    BY <1>1, <1>3, <1>4 DEF StoreTypeOK, Log
  <2>2. e.digest = digest
    BY DEF e
  <2>3. (\E i \in DOMAIN Append(log, e) : Append(log, e)[i].digest = d)
            <=> (d = e.digest \/ \E i \in DOMAIN log : log[i].digest = d)
    BY <1>1, <1>2, DigestsOfAppend
  <2> QED BY <1>4, <2>1, <2>2, <2>3 DEF Logged, Log
<1>5. CASE ~(b = a /\ o = p.ordinal)
  <2>1. events'[b][o] = events[b][o]
    BY <1>1, <1>3, <1>5 DEF StoreTypeOK
  <2> QED BY <1>5, <2>1 DEF Logged, Log
<1> QED BY <1>4, <1>5

(* The digest of an append that the controller makes.                      *)
Proper(t, status, digest) ==
    LET c == call[t] IN
    /\ c.at # "idle" /\ Named(status, digest) /\ status # "EXTERNAL_PENDING"
    /\ status = "SIGNED" => c.at = "wallet" /\ digest = c.digest
    /\ status = "FINALIZED_SUCCESS" => fate[digest] = "success"
    /\ status = "FINALIZED_FAILURE" => fate[digest] = "failure"

LEMMA AppendPlaced ==
    ASSUME IInv, NEW t \in Tabs, NEW status, NEW digest, Proper(t, status, digest),
           AppendEvent(call[t].attempt, Rev(t), status, digest),
           UNCHANGED <<built, chainVars>>
    PROVE  LogsPlaced' /\ ChainTrue' /\ AbsentUnused'
<1> DEFINE a == call[t].attempt
<1> DEFINE p == plans[a]
<1>1. Knows(t) /\ a \in Attempts /\ Named(status, digest) /\ StoreInv /\ StoreTypeOK
  BY DEF IInv, CallsKnow, Proper, Knows, StoreInv
<1>2. /\ p.revision = Rev(t) /\ p.status = "ACTIVE"
      /\ status \in Beginnings => p.outcome = "READY" /\ p.digest = None
      /\ status \notin Beginnings => p.outcome \in InFlight /\ digest = p.digest
  BY <1>1, AppendAt
<1>3. call[t].plan = p
  BY <1>1, <1>2 DEF Knows, Rev
<1>4. Appended(a, status, digest)
  BY <1>1, AppendEffect
<1>5. /\ p.outcome \in Landed => Len(checkpoints[a]) = p.ordinal /\ p.digest \in Digests
                                 /\ Logged(a, p.ordinal, p.digest)
      /\ p.ordinal \in Ordinals /\ p.ordinal \in Nat /\ checkpoints[a] \in Seq(Digests)
  BY <1>1, CursorLogged DEF StoreTypeOK, Plan, Ordinals
<1>6. /\ \A b \in Attempts : b # a => plans'[b] = plans[b] /\ checkpoints'[b] = checkpoints[b]
      /\ plans'[a].ordinal = (IF status = "FINALIZED_SUCCESS" /\ p.ordinal # LastOrdinal
                              THEN p.ordinal + 1 ELSE p.ordinal)
      /\ plans'[a].outcome = Cursor(status)
      /\ plans'[a].digest = (IF status = "FINALIZED_SUCCESS" THEN None ELSE digest)
      /\ checkpoints'[a] = IF status = "FINALIZED_SUCCESS"
                           THEN Append(checkpoints[a], digest) ELSE checkpoints[a]
      /\ plans'[a].status \in {"ACTIVE", "COMPLETE"}
  BY <1>4 DEF Appended
<1>7. status = "FINALIZED_SUCCESS" =>
        /\ digest \in Digests /\ digest = p.digest /\ p.outcome \in Landed
        /\ Len(checkpoints'[a]) = p.ordinal + 1 /\ checkpoints'[a][p.ordinal + 1] = digest
        /\ \A i \in 1 .. p.ordinal : checkpoints'[a][i] = checkpoints[a][i]
        /\ DOMAIN checkpoints'[a] = 1 .. p.ordinal + 1
        /\ DOMAIN checkpoints[a] = 1 .. p.ordinal
  <2> SUFFICES ASSUME status = "FINALIZED_SUCCESS"
               PROVE  /\ digest \in Digests /\ digest = p.digest /\ p.outcome \in Landed
                      /\ Len(checkpoints'[a]) = p.ordinal + 1 /\ checkpoints'[a][p.ordinal + 1] = digest
                      /\ \A i \in 1 .. p.ordinal : checkpoints'[a][i] = checkpoints[a][i]
                      /\ DOMAIN checkpoints'[a] = 1 .. p.ordinal + 1
                      /\ DOMAIN checkpoints[a] = 1 .. p.ordinal
    OBVIOUS
  <2>1. digest \in Digests /\ digest = p.digest /\ p.outcome \in Landed
    BY <1>1, <1>2 DEF Named, Beginnings, Landed
  <2>2. checkpoints'[a] = Append(checkpoints[a], digest) /\ Len(checkpoints[a]) = p.ordinal
    BY <1>5, <1>6, <2>1
  <2>3. /\ Append(checkpoints[a], digest) \in Seq(Digests)
        /\ Len(Append(checkpoints[a], digest)) = Len(checkpoints[a]) + 1
        /\ \A i \in 1 .. Len(checkpoints[a]) : Append(checkpoints[a], digest)[i] = checkpoints[a][i]
        /\ Append(checkpoints[a], digest)[Len(checkpoints[a]) + 1] = digest
    BY <1>5, <2>1, AppendProperties
  <2>4. \A s \in Seq(Digests) : DOMAIN s = 1 .. Len(s)
    BY LenProperties
  <2> QED BY <1>5, <2>1, <2>2, <2>3, <2>4
<1>8. ASSUME NEW b \in Attempts, NEW o \in Ordinals, NEW d \in Digests, Logged(b, o, d)'
      PROVE  built'[d] = [attempt |-> b, ordinal |-> o] /\ Placed(b, o, d)'
  <2>1. Logged(b, o, d) \/ (b = a /\ o = p.ordinal /\ d = digest)
    BY <1>1, <1>8, AppendLogged
  <2>2. CASE b # a
    <3>1. built[d] = [attempt |-> b, ordinal |-> o] /\ Placed(b, o, d)
      BY <2>1, <2>2 DEF IInv, LogsPlaced
    <3> QED BY <1>6, <2>2, <3>1 DEF Placed
  <2>3. CASE b = a /\ o = p.ordinal /\ d = digest
    <3>1. status # "WALLET_REJECTED" /\ status # "EXTERNAL_PENDING"
      BY <1>1, <2>3, PublicationAssumption DEF Named, Proper
    <3>2. built[d] = [attempt |-> a, ordinal |-> p.ordinal]
      <4>1. CASE status = "SIGNED"
        BY <1>1, <1>3, <2>3, <4>1 DEF Proper, Knows, Prompting
      <4>2. CASE status # "SIGNED"
        <5>1. p.outcome \in Landed /\ digest = p.digest
          BY <1>2, <3>1, <4>2 DEF Beginnings, Landed
        <5> QED BY <1>1, <1>5, <2>3, <5>1 DEF IInv, LogsPlaced
      <4> QED BY <4>1, <4>2
    <3>3. CASE status = "FINALIZED_SUCCESS"
      <4>1. o < Len(checkpoints'[a]) /\ checkpoints'[a][o + 1] = d
        BY <1>5, <1>7, <2>3, <3>3 DEF Ordinals
      <4> QED BY <2>3, <3>2, <4>1 DEF Placed
    <3>4. CASE status # "FINALIZED_SUCCESS"
      <4>1. plans'[a].ordinal = o /\ plans'[a].digest = d /\ plans'[a].outcome \in Landed
        BY <1>1, <1>6, <2>3, <3>1, <3>4 DEF Cursor, Landed, InFlight, Named, EventStatus
      <4> QED BY <2>3, <3>2, <4>1 DEF Placed
    <3> QED BY <3>3, <3>4
  <2>4. CASE b = a /\ Logged(b, o, d) /\ ~(o = p.ordinal /\ d = digest)
    <3>1. built[d] = [attempt |-> b, ordinal |-> o] /\ Placed(a, o, d)
      BY <2>4 DEF IInv, LogsPlaced
    <3>2. CASE o < Len(checkpoints[a]) /\ checkpoints[a][o + 1] = d
      <4>1. CASE status = "FINALIZED_SUCCESS"
        <5>1. o \in Nat /\ o < p.ordinal /\ p.ordinal \in Nat /\ o + 1 \in 1 .. p.ordinal
          BY <1>5, <1>7, <3>2, <4>1 DEF Ordinals
        <5> DEFINE n == p.ordinal
        <5>2. /\ n \in Nat /\ o \in Nat /\ o < n /\ Len(checkpoints'[a]) = n + 1
              /\ \A i \in 1 .. n : checkpoints'[a][i] = checkpoints[a][i]
              /\ o + 1 \in 1 .. n
          BY <1>7, <4>1, <5>1
        <5> HIDE DEF n, a
        <5>3. checkpoints'[a][o + 1] = checkpoints[a][o + 1]
          BY <5>2
        <5>4. o < n + 1
          BY <5>2
        <5>5. o < Len(checkpoints'[a]) /\ checkpoints'[a][o + 1] = d
          BY <3>2, <5>2, <5>3, <5>4
        <5> QED BY <2>4, <3>1, <5>5 DEF Placed
      <4>2. CASE status # "FINALIZED_SUCCESS"
        BY <1>6, <2>4, <3>1, <3>2, <4>2 DEF Placed
      <4> QED BY <4>1, <4>2
    <3>3. CASE p.ordinal = o /\ p.digest = d /\ p.outcome \in Landed
      <4>1. status \notin Beginnings
        BY <1>2, <3>3 DEF Landed, InFlight
      <4>2. digest = d
        BY <1>2, <3>3, <4>1
      <4> QED BY <2>4, <3>3, <4>2
    <3> QED BY <3>1, <3>2, <3>3 DEF Placed
  <2> QED BY <2>1, <2>2, <2>3, <2>4
<1>9. LogsPlaced'
  BY <1>8 DEF LogsPlaced
<1>10. ChainTrue'
  <2>1. \A d \in Digests : fate'[d] \in {"success", "failure"} => d \in sent'
    BY DEF IInv, ChainTrue, chainVars
  <2>2. ASSUME NEW d \in sent'
        PROVE  built'[d].attempt \in Attempts /\ Logged(built[d].attempt, built[d].ordinal, d)'
    <3>1. built[d].attempt \in Attempts /\ Logged(built[d].attempt, built[d].ordinal, d)
          /\ built[d].ordinal \in Ordinals
      BY <2>2 DEF IInv, ChainTrue, chainVars, TypeOK
    <3> QED BY <1>1, <3>1, AppendLogged
  <2>3. ASSUME NEW b \in Attempts, NEW i \in DOMAIN checkpoints'[b]
        PROVE  fate'[checkpoints'[b][i]] = "success"
    <3>1. CASE b # a \/ status # "FINALIZED_SUCCESS"
      BY <1>6, <2>3, <3>1 DEF IInv, ChainTrue, chainVars
    <3>2. CASE b = a /\ status = "FINALIZED_SUCCESS"
      <4>1. i \in 1 .. p.ordinal \/ i = p.ordinal + 1
        BY <1>5, <1>7, <2>3, <3>2 DEF Ordinals
      <4>2. CASE i = p.ordinal + 1
        BY <1>7, <3>2, <4>2 DEF Proper, chainVars
      <4>3. CASE i \in 1 .. p.ordinal
        <5>1. i \in DOMAIN checkpoints[a] /\ checkpoints'[a][i] = checkpoints[a][i]
          BY <1>7, <3>2, <4>3
        <5>2. fate[checkpoints[a][i]] = "success"
          BY <1>1, <5>1 DEF IInv, ChainTrue
        <5> QED BY <3>2, <5>1, <5>2 DEF chainVars
      <4> QED BY <4>1, <4>2, <4>3
    <3> QED BY <3>1, <3>2
  <2>4. ASSUME NEW b \in Attempts, plans'[b].outcome = "FINALIZED_FAILURE"
        PROVE  fate'[plans'[b].digest] = "failure"
    <3>1. CASE b # a
      BY <1>6, <2>4, <3>1 DEF IInv, ChainTrue, chainVars
    <3>2. CASE b = a
      <4>1. status = "FINALIZED_FAILURE"
        BY <1>1, <1>6, <2>4, <3>2 DEF Cursor, Named, EventStatus
      <4> QED BY <1>6, <3>2, <4>1 DEF Proper, chainVars
    <3> QED BY <3>1, <3>2
  <2> QED BY <2>1, <2>2, <2>3, <2>4 DEF ChainTrue
<1>11. AbsentUnused'
  BY <1>6 DEF IInv, AbsentUnused
<1> QED BY <1>9, <1>10, <1>11

-----------------------------------------------------------------------------
(* A tab that waits keeps what it knows: its plan is the one it read or an *)
(* older one, and what was logged stays logged.                            *)

MovesOn(a) ==
    plans[a].status # "ABSENT" =>
        /\ plans'[a].status # "ABSENT"
        /\ plans'[a].status # "DELETED_UNSIGNED" =>
               /\ plans[a].status # "DELETED_UNSIGNED"
               /\ plans'[a] = plans[a] \/ plans'[a].revision = plans[a].revision + 1

LogsGrow ==
    \A b \in Attempts, o \in Ordinals, d \in Digests : Logged(b, o, d) => Logged(b, o, d)'

FateKept == \A d \in Digests : fate[d] \in {"success", "failure"} => fate'[d] = fate[d]

LEMMA KnowsKept ==
    ASSUME TypeOK, NEW t \in Tabs, Knows(t), call'[t] = call[t],
           \A a \in Attempts : MovesOn(a), LogsGrow, FateKept,
           call[t].at \in Prompting =>
               /\ call[t].digest \notin sent'
               /\ built'[call[t].digest] = built[call[t].digest]
               /\ \A b \in Attempts, o \in Ordinals :
                      ~Logged(b, o, call[t].digest) => ~Logged(b, o, call[t].digest)'
    PROVE  Knows(t)'
<1> DEFINE c == call[t]
<1> DEFINE a == c.attempt
<1>1. c \in Call /\ c.plan \in Plan /\ a \in Attempts /\ StoreTypeOK
  BY CallTyped DEF Knows, TypeOK
<1>2. plans[a] \in Plan /\ plans[a].revision \in Nat /\ c.plan.revision \in Nat
  BY <1>1 DEF StoreTypeOK, Plan
<1>3. MovesOn(a) /\ plans'[a].status # "ABSENT"
  BY <1>1 DEF Knows, MovesOn
<1>4. ASSUME plans'[a].status # "DELETED_UNSIGNED"
      PROVE  /\ c.plan.revision <= plans'[a].revision
             /\ c.plan.revision = plans'[a].revision => c.plan = plans'[a]
  <2>1. /\ plans[a].status # "DELETED_UNSIGNED"
        /\ plans'[a] = plans[a] \/ plans'[a].revision = plans[a].revision + 1
    BY <1>1, <1>3, <1>4 DEF MovesOn, Knows
  <2>2. /\ c.plan.revision <= plans[a].revision
        /\ c.plan.revision = plans[a].revision => c.plan = plans[a]
    BY <2>1 DEF Knows
  <2>3. CASE plans'[a] = plans[a]
    BY <2>2, <2>3
  <2>4. CASE plans'[a].revision = plans[a].revision + 1
    <3> DEFINE m == plans[a].revision
    <3> DEFINE n == c.plan.revision
    <3>1. m \in Nat /\ n \in Nat /\ n <= m /\ plans'[a].revision = m + 1
      BY <1>2, <2>2, <2>4
    <3> HIDE DEF m, n
    <3>2. n <= m + 1 /\ n # m + 1
      BY <3>1
    <3> QED BY <3>1, <3>2 DEF n
  <2> QED BY <2>1, <2>3, <2>4
<1>5. /\ a \in Attempts /\ c.plan.ordinal \in Ordinals
      /\ c.at \in Prompting =>
             /\ c.plan.outcome = "READY"
             /\ c.digest \in Digests /\ c.digest \notin sent'
             /\ built'[c.digest] = [attempt |-> a, ordinal |-> c.plan.ordinal]
             /\ \A b \in Attempts, o \in Ordinals : ~Logged(b, o, c.digest)'
  BY DEF Knows
<1>6. c.at \in Following =>
          c.plan.digest \in Digests /\ Logged(a, c.plan.ordinal, c.plan.digest)'
  BY <1>1 DEF Knows, LogsGrow
<1>7. c.at = "answered" =>
          /\ c.reply = "FINALIZED_SUCCESS" => fate'[c.plan.digest] = "success"
          /\ c.reply = "FINALIZED_FAILURE" => fate'[c.plan.digest] = "failure"
  BY DEF Knows, FateKept, Following
<1> QED BY <1>3, <1>4, <1>5, <1>6, <1>7 DEF Knows

(* A call that writes an event and returns, or goes on with what it wrote. *)
GoesOn(t, n, status) ==
    \/ n = Idle
    \/ /\ n \in Call /\ n.at \in {"opened", "ask"}
       /\ n.attempt = call[t].attempt /\ n.plan = plans'[n.attempt]
       /\ status \in {"OUTCOME_PENDING", "BROADCAST_ACCEPTED"}

LEMMA AppendStep ==
    ASSUME IInv, NEW t \in Tabs, NEW status, NEW digest, Proper(t, status, digest),
           AppendEvent(call[t].attempt, Rev(t), status, digest),
           UNCHANGED <<built, chainVars>>, doubts' \in Nat,
           NEW n, call' = [call EXCEPT ![t] = n], GoesOn(t, n, status)
    PROVE  IInv' /\ StoreNext
<1> DEFINE a == call[t].attempt
<1> DEFINE p == plans[a]
<1>1. /\ Knows(t) /\ a \in Attempts /\ Named(status, digest) /\ StoreInv /\ StoreTypeOK
      /\ TypeOK /\ Blanks
  BY DEF IInv, CallsKnow, Proper, Knows, StoreInv
<1>2. /\ p.revision = Rev(t) /\ p.status = "ACTIVE"
      /\ status \in Beginnings => p.outcome = "READY" /\ p.digest = None
      /\ status \notin Beginnings => p.outcome \in InFlight /\ digest = p.digest
  BY <1>1, AppendAt
<1>3. StoreNext
  <2>1. CASE status = "WALLET_REJECTED"
    BY <1>1, <1>2, <2>1 DEF StoreNext, Named
  <2>2. CASE status # "WALLET_REJECTED"
    <3>1. status \in EventStatus \ {"WALLET_REJECTED"} /\ digest \in Digests
      BY <1>1, <2>2 DEF Named
    <3> QED BY <1>1, <1>2, <3>1 DEF StoreNext
  <2> QED BY <2>1, <2>2
<1>4. StoreInv' /\ Blanks' /\ StoreTypeOK'
  BY <1>1, <1>3, StoreInductive DEF StoreInv
<1>5. LogsPlaced' /\ ChainTrue' /\ AbsentUnused'
  BY AppendPlaced
<1>6. Appended(a, status, digest)
  BY <1>1, AppendEffect
<1>7. TypeOK'
  <2>1. n \in Call
    BY IdleTyped DEF GoesOn
  <2>2. call' \in [Tabs -> Call]
    BY <1>1, <2>1 DEF TypeOK
  <2> QED BY <1>1, <1>4, <2>2 DEF TypeOK, chainVars
<1>8. /\ plans'[a].status \in {"ACTIVE", "COMPLETE"} /\ plans'[a].revision = p.revision + 1
      /\ plans'[a].ordinal = (IF status = "FINALIZED_SUCCESS" /\ p.ordinal # LastOrdinal
                              THEN p.ordinal + 1 ELSE p.ordinal)
      /\ plans'[a].digest = (IF status = "FINALIZED_SUCCESS" THEN None ELSE digest)
      /\ \A b \in Attempts : b # a => plans'[b] = plans[b]
  BY <1>6 DEF Appended
<1>9. (\A b \in Attempts : MovesOn(b)) /\ FateKept
  BY <1>2, <1>8 DEF MovesOn, FateKept, chainVars
<1>10. LogsGrow
  BY <1>1, AppendLogged DEF LogsGrow
<1>11. /\ call'[t] = n
       /\ \A u \in Tabs : u # t => call'[u] = call[u]
  BY <1>1 DEF TypeOK
<1>12. ASSUME NEW u \in Tabs, call'[u].at # "idle"
       PROVE  Knows(u)'
  <2>1. CASE u # t
    <3>1. call'[u] = call[u] /\ Knows(u)
      BY <1>11, <1>12, <2>1 DEF IInv, CallsKnow
    <3>2. ASSUME call[u].at \in Prompting
          PROVE  /\ call[u].digest \notin sent'
                 /\ built'[call[u].digest] = built[call[u].digest]
                 /\ \A b \in Attempts, o \in Ordinals :
                        ~Logged(b, o, call[u].digest) => ~Logged(b, o, call[u].digest)'
      <4>1. call[u].digest \in Digests /\ call[u].digest \notin sent
            /\ \A b \in Attempts, o \in Ordinals : ~Logged(b, o, call[u].digest)
        BY <3>1, <3>2 DEF Knows
      <4>2. call[u].digest # digest
        <5>1. CASE status = "WALLET_REJECTED"
          BY <1>1, <4>1, <5>1, PublicationAssumption DEF Named
        <5>2. CASE status = "SIGNED"
          BY <2>1, <3>2, <5>2 DEF IInv, BuildsApart, Proper, Prompting
        <5>3. CASE status \notin Beginnings
          <6>1. p.outcome \in Landed /\ digest = p.digest /\ p.ordinal \in Ordinals
            BY <1>1, <1>2, <5>3 DEF Landed, StoreTypeOK, Plan
          <6>2. Logged(a, p.ordinal, digest)
            BY <1>1, <6>1, CursorLogged
          <6> QED BY <1>1, <4>1, <6>1, <6>2
        <5> QED BY <5>1, <5>2, <5>3 DEF Beginnings, Proper
      <4>3. \A b \in Attempts, o \in Ordinals :
                Logged(b, o, call[u].digest)' => Logged(b, o, call[u].digest)
        BY <1>1, <1>11, <2>1, <4>2, AppendLogged
      <4> QED BY <4>1, <4>3 DEF chainVars
    <3> QED BY <1>1, <1>9, <1>10, <3>1, <3>2, KnowsKept
  <2>2. CASE u = t
    <3>1. /\ n \in Call /\ n.at \in {"opened", "ask"}
          /\ n.attempt = a /\ n.plan = plans'[a]
          /\ status \in {"OUTCOME_PENDING", "BROADCAST_ACCEPTED"}
      BY <1>11, <1>12, <2>2 DEF GoesOn, Idle
    <3>2. /\ p.outcome \in Landed /\ digest = p.digest
          /\ plans'[a].ordinal = p.ordinal /\ plans'[a].digest = p.digest
          /\ p.ordinal \in Ordinals
      BY <1>1, <1>2, <1>8, <3>1 DEF Beginnings, Landed, StoreTypeOK, Plan
    <3>3. /\ p.digest \in Digests
          /\ \A b \in Attempts, o \in Ordinals, d \in Digests :
                 b = a /\ o = p.ordinal /\ d = p.digest => Logged(b, o, d)'
      <4>1. p.digest \in Digests /\ Logged(a, p.ordinal, p.digest)
        BY <1>1, <3>2, CursorLogged
      <4>2. \A b \in Attempts, o \in Ordinals, d \in Digests :
                b = a /\ o = p.ordinal /\ d = p.digest => Logged(b, o, d)
        BY <4>1
      <4> QED BY <1>10, <4>1, <4>2 DEF LogsGrow
    <3>4. plans'[a] \in Plan /\ plans'[a].revision \in Nat
      BY <1>1, <1>4 DEF StoreTypeOK, Plan
    <3>5. n.at \notin Prompting /\ n.at # "answered"
      BY <3>1 DEF Prompting
    <3>6. plans'[a].status # "ABSENT" /\ plans'[a].revision <= plans'[a].revision
      BY <1>8, <3>4
    <3> DEFINE k == call'[t]
    <3>7. /\ k.attempt = a /\ k.plan = plans'[a] /\ k.at \notin Prompting
          /\ k.at # "answered"
      BY <1>11, <3>1, <3>5
    <3>8. a \in Attempts /\ k.plan.ordinal = p.ordinal /\ k.plan.digest = p.digest
      BY <1>1, <3>2, <3>7
    <3> HIDE DEF k
    <3> QED BY <2>2, <3>2, <3>3, <3>6, <3>7, <3>8 DEF Knows, k
  <2> QED BY <2>1, <2>2
<1>13. CallsKnow'
  BY <1>12 DEF CallsKnow
<1>14. BuildsApart'
  <2>1. \A u \in Tabs : call'[u].at \in Prompting => call'[u] = call[u]
    BY <1>11 DEF GoesOn, Idle, Prompting
  <2> QED BY <2>1 DEF IInv, BuildsApart
<1> QED BY <1>3, <1>4, <1>5, <1>7, <1>13, <1>14 DEF IInv

-----------------------------------------------------------------------------
(* A write without an event: nothing was in flight, and nothing is.        *)
LEMMA RewriteStep ==
    ASSUME IInv, NEW a \in Attempts, NEW q \in Plan, Rewrite(a, q), StoreNext,
           plans[a].outcome \notin Landed, q.outcome \notin Landed, q.digest = None,
           MovesOn(a), UNCHANGED <<built, chainVars, doubts>>,
           \/ UNCHANGED call
           \/ \E t \in Tabs : call' = [call EXCEPT ![t] = Idle]
    PROVE  IInv'
<1>1. TypeOK /\ StoreInv /\ Blanks /\ StoreTypeOK
  BY DEF IInv, StoreInv
<1>2. StoreInv' /\ Blanks' /\ StoreTypeOK'
  BY <1>1, StoreInductive DEF StoreInv
<1>3. /\ plans'[a] = q /\ \A b \in Attempts : b # a => plans'[b] = plans[b]
      /\ events' = events /\ checkpoints' = checkpoints
  BY <1>1 DEF StoreTypeOK, Rewrite
<1>4. \A b \in Attempts, o \in Ordinals : \A d : Logged(b, o, d)' <=> Logged(b, o, d)
  BY <1>3 DEF Logged, Log
<1>5. \A u \in Tabs : call'[u] = call[u] \/ call'[u] = Idle
  BY <1>1 DEF TypeOK
<1>6. TypeOK'
  <2>1. call' \in [Tabs -> Call]
    BY <1>1, IdleTyped DEF TypeOK
  <2> QED BY <1>1, <1>2, <2>1 DEF TypeOK, chainVars
<1>7. LogsPlaced'
  BY <1>3, <1>4 DEF IInv, LogsPlaced, Placed, chainVars
<1>8. ChainTrue'
  <2>1. \A d \in sent' : built'[d].attempt \in Attempts /\ built'[d].ordinal \in Ordinals
                         /\ Logged(built[d].attempt, built[d].ordinal, d)
    BY <1>1 DEF IInv, ChainTrue, chainVars, TypeOK
  <2>2. \A b \in Attempts : plans'[b].outcome = "FINALIZED_FAILURE" =>
            fate'[plans'[b].digest] = "failure"
    BY <1>3 DEF IInv, ChainTrue, chainVars, Landed
  <2> QED BY <1>3, <1>4, <2>1, <2>2 DEF IInv, ChainTrue, chainVars
<1>9. AbsentUnused'
  BY <1>3 DEF IInv, AbsentUnused
<1>10. /\ \A b \in Attempts : MovesOn(b)
       /\ FateKept
  BY <1>3 DEF MovesOn, FateKept, chainVars
<1>11. LogsGrow
  BY <1>4 DEF LogsGrow
<1>12. ASSUME NEW u \in Tabs, call'[u].at # "idle"
       PROVE  Knows(u)'
  <2>1. call'[u] = call[u] /\ Knows(u)
    BY <1>5, <1>12 DEF IInv, CallsKnow, Idle
  <2>2. call[u].at \in Prompting =>
            /\ call[u].digest \notin sent'
            /\ built'[call[u].digest] = built[call[u].digest]
            /\ \A b \in Attempts, o \in Ordinals :
                   ~Logged(b, o, call[u].digest) => ~Logged(b, o, call[u].digest)'
    BY <1>4, <2>1 DEF Knows, chainVars
  <2> QED BY <1>1, <1>10, <1>11, <2>1, <2>2, KnowsKept
<1>13. BuildsApart'
  <2>1. \A u \in Tabs : call'[u].at \in Prompting => call'[u] = call[u]
    BY <1>5 DEF Idle, Prompting
  <2> QED BY <2>1 DEF IInv, BuildsApart
<1> QED BY <1>2, <1>6, <1>7, <1>8, <1>9, <1>12, <1>13 DEF IInv, CallsKnow

(* A step of a call that writes nothing.                                   *)
LEMMA QuietStep ==
    ASSUME IInv, UNCHANGED <<logVars, fate>>, TypeOK', NEW t \in Tabs, NEW n,
           call' = [call EXCEPT ![t] = n], n.at # "idle" => Knows(t)',
           \A d \in Digests : built[d] # Unbuilt => built'[d] = built[d],
           sent \subseteq sent',
           \A d \in sent' : d \in sent \/ \E a \in Attempts, o \in Ordinals : Logged(a, o, d),
           n.at \in Prompting => \A u \in Tabs :
               u # t /\ call[u].at \in Prompting => call[u].digest # n.digest
    PROVE  IInv'
<1>1. TypeOK /\ StoreInv /\ Blanks
  BY DEF IInv
<1>2. StoreInv' /\ Blanks'
  BY <1>1, StoreInductive DEF logVars
<1>3. /\ plans' = plans /\ checkpoints' = checkpoints
      /\ \A b \in Attempts, o \in Ordinals : \A d : Logged(b, o, d)' <=> Logged(b, o, d)
  BY DEF logVars, Logged, Log
<1>4. \A d \in Digests : built[d].attempt \in Attempts => built'[d] = built[d]
  BY MakerPublicationAssumption DEF Unbuilt
<1>5. LogsPlaced'
  <2>1. ASSUME NEW a \in Attempts, NEW o \in Ordinals, NEW d \in Digests, Logged(a, o, d)
        PROVE  built'[d] = [attempt |-> a, ordinal |-> o] /\ Placed(a, o, d)
    BY <1>4, <2>1 DEF IInv, LogsPlaced
  <2> QED BY <1>3, <2>1 DEF LogsPlaced, Placed
<1>6. ChainTrue'
  <2>1. ASSUME NEW d \in sent'
        PROVE  built'[d].attempt \in Attempts /\ Logged(built[d].attempt, built[d].ordinal, d)'
    <3>1. d \in Digests
      BY <2>1 DEF TypeOK
    <3>2. PICK a \in Attempts, o \in Ordinals :
              Logged(a, o, d) /\ built'[d] = [attempt |-> a, ordinal |-> o]
      <4>1. CASE d \in sent
        BY <1>1, <1>4, <3>1, <4>1 DEF IInv, ChainTrue, LogsPlaced, TypeOK
      <4>2. CASE d \notin sent
        BY <1>4, <2>1, <3>1, <4>2 DEF IInv, LogsPlaced
      <4> QED BY <4>1, <4>2
    <3> QED BY <1>3, <3>2
  <2> QED BY <1>3, <2>1 DEF IInv, ChainTrue
<1>7. /\ call'[t] = n
      /\ \A u \in Tabs : u # t => call'[u] = call[u]
  BY <1>1 DEF TypeOK
<1>8. ASSUME NEW u \in Tabs, call'[u].at # "idle", u # t
      PROVE  Knows(u)'
  <2>1. call'[u] = call[u] /\ Knows(u)
    BY <1>7, <1>8 DEF IInv, CallsKnow
  <2>2. call[u].at \in Prompting =>
            /\ call[u].digest \notin sent'
            /\ built'[call[u].digest] = built[call[u].digest]
            /\ \A b \in Attempts, o \in Ordinals :
                   ~Logged(b, o, call[u].digest) => ~Logged(b, o, call[u].digest)'
    BY <1>3, <1>4, <2>1 DEF Knows
  <2>3. (\A a \in Attempts : MovesOn(a)) /\ LogsGrow /\ FateKept
    BY <1>3 DEF MovesOn, LogsGrow, FateKept
  <2> QED BY <1>1, <2>1, <2>2, <2>3, KnowsKept
<1>9. CallsKnow'
  BY <1>7, <1>8 DEF CallsKnow
<1>10. BuildsApart'
  BY <1>7 DEF IInv, BuildsApart
<1>11. AbsentUnused'
  BY <1>3 DEF IInv, AbsentUnused
<1> QED BY <1>2, <1>5, <1>6, <1>9, <1>10, <1>11 DEF IInv

(* The chain settles a digest that it had not settled.                     *)
LEMMA ChainStep ==
    ASSUME IInv, NEW d \in Digests, fate[d] = "none",
           NEW outcome \in {"success", "failure", "lapsed"},
           outcome # "lapsed" => d \in sent,
           fate' = [fate EXCEPT ![d] = outcome],
           UNCHANGED <<logVars, call, built, sent, doubts>>
    PROVE  IInv'
<1>1. TypeOK /\ StoreInv /\ Blanks /\ StoreTypeOK
  BY DEF IInv, StoreInv
<1>2. StoreInv' /\ Blanks' /\ StoreTypeOK'
  BY <1>1, StoreInductive DEF logVars, StoreInv
<1>3. TypeOK'
  BY <1>1, <1>2 DEF TypeOK
<1>4. FateKept /\ \A e \in Digests : e # d => fate'[e] = fate[e]
  BY <1>1 DEF FateKept, TypeOK
<1>5. /\ plans' = plans /\ checkpoints' = checkpoints
      /\ \A b \in Attempts, o \in Ordinals : \A e : Logged(b, o, e)' <=> Logged(b, o, e)
  BY DEF logVars, Logged, Log
<1>6. LogsPlaced' /\ BuildsApart' /\ AbsentUnused'
  BY <1>5 DEF IInv, LogsPlaced, Placed, BuildsApart, AbsentUnused
<1>7. ChainTrue'
  <2>1. \A e \in Digests : fate'[e] \in {"success", "failure"} => e \in sent
    BY <1>1, <1>4 DEF IInv, ChainTrue, TypeOK
  <2>2. \A a \in Attempts : \A i \in DOMAIN checkpoints[a] :
            fate'[checkpoints[a][i]] = "success"
    <3>1. \A a \in Attempts : \A i \in DOMAIN checkpoints[a] : checkpoints[a][i] \in Digests
      BY <1>1, ElementOfSeq, LenProperties DEF StoreTypeOK
    <3> QED BY <1>4, <3>1 DEF IInv, ChainTrue, FateKept
  <2>3. \A a \in Attempts : plans[a].outcome = "FINALIZED_FAILURE" =>
            fate'[plans[a].digest] = "failure"
    BY <1>1, <1>4, CursorLogged DEF IInv, ChainTrue, FateKept, Landed
  <2>4. \A e \in sent' : built'[e].attempt \in Attempts
                         /\ Logged(built[e].attempt, built[e].ordinal, e)
                         /\ built[e].ordinal \in Ordinals
    BY <1>1 DEF IInv, ChainTrue, TypeOK
  <2> QED BY <1>5, <2>1, <2>2, <2>3, <2>4 DEF ChainTrue
<1>8. ASSUME NEW u \in Tabs, call'[u].at # "idle"
      PROVE  Knows(u)'
  <2>1. call'[u] = call[u] /\ Knows(u)
    BY <1>8 DEF IInv, CallsKnow
  <2>2. (\A a \in Attempts : MovesOn(a)) /\ LogsGrow
    BY <1>5 DEF MovesOn, LogsGrow
  <2>3. call[u].at \in Prompting =>
            /\ call[u].digest \notin sent'
            /\ built'[call[u].digest] = built[call[u].digest]
            /\ \A b \in Attempts, o \in Ordinals :
                   ~Logged(b, o, call[u].digest) => ~Logged(b, o, call[u].digest)'
    BY <1>5, <2>1 DEF Knows
  <2> QED BY <1>1, <1>4, <2>1, <2>2, <2>3, KnowsKept
<1> QED BY <1>2, <1>3, <1>6, <1>7, <1>8 DEF IInv, CallsKnow

-----------------------------------------------------------------------------
(* One action after another.                                               *)

LEMMA InitGood == Init => IInv /\ OneActivePerScope
<1> SUFFICES ASSUME Init PROVE IInv /\ OneActivePerScope
  OBVIOUS
<1>1. StoreInv /\ Blanks /\ OneActivePerScope /\ StoreTypeOK
  BY StoreInitially DEF Init, StoreInv
<1>2. \A a \in Attempts, o \in Ordinals : \A d : ~Logged(a, o, d)
  BY DEF Init, LogInit, Logged, Log
<1>3. \A a \in Attempts : plans[a].digest = None /\ plans[a].outcome = "NONE"
                           /\ checkpoints[a] = <<>>
  BY DEF Init, LogInit, Unused
<1>4. TypeOK
  <2>1. Unbuilt \in [attempt : Attempts \cup {None}, ordinal : Ordinals]
    BY PublicationAssumption DEF Unbuilt, Ordinals
  <2> QED BY <1>1, <2>1, IdleTyped DEF Init, TypeOK
<1>5. ChainTrue
  BY <1>3 DEF Init, ChainTrue
<1>6. LogsPlaced /\ AbsentUnused
  BY <1>2, <1>3 DEF LogsPlaced, AbsentUnused
<1>7. CallsKnow /\ BuildsApart
  BY DEF Init, CallsKnow, BuildsApart, Idle, Prompting
<1> QED BY <1>1, <1>4, <1>5, <1>6, <1>7 DEF IInv

(* The plan of a call that got as far as a digest.                         *)
LEMMA FollowingKnows ==
    ASSUME IInv, NEW t \in Tabs, call[t].at \in Following
    PROVE  /\ call[t].attempt \in Attempts /\ call[t].plan.digest \in Digests
           /\ call[t].plan.ordinal \in Ordinals
           /\ Logged(call[t].attempt, call[t].plan.ordinal, call[t].plan.digest)
BY DEF IInv, CallsKnow, Knows, Following

LEMMA PlanSteps ==
    ASSUME IInv, NEW a \in Attempts,
           Prepare(a) \/ DiscardUnsigned(a) \/ RepairReference(a)
    PROVE  IInv' /\ StoreNext
<1>1. TypeOK /\ StoreInv /\ StoreTypeOK /\ plans[a] \in Plan
  BY DEF IInv, StoreInv, StoreTypeOK
<1>2. CASE Prepare(a)
  <2>1. StoreNext /\ Rewrite(a, Created) /\ plans[a].status = "ABSENT"
    BY <1>2 DEF Prepare, CreateAttempt, StoreNext, Rewrite
  <2>2. plans[a].outcome \notin Landed
    <3>1. plans[a].digest = None
      BY <2>1 DEF IInv, AbsentUnused
    <3> QED BY <1>1, <3>1 DEF StoreInv, Closed, Landed
  <2>3. Created \in Plan /\ Created.outcome \notin Landed /\ Created.digest = None
    BY UnusedTyped DEF Created, Unused, Landed, InFlight
  <2>4. MovesOn(a) /\ UNCHANGED <<built, chainVars, doubts>> /\ UNCHANGED call
    BY <1>2, <2>1 DEF MovesOn, Prepare
  <2> QED BY <2>1, <2>2, <2>3, <2>4, RewriteStep
<1>3. CASE DiscardUnsigned(a)
  <2> DEFINE q == [Unused EXCEPT !.status = "DELETED_UNSIGNED"]
  <2>1. StoreNext /\ Rewrite(a, q) /\ plans[a].outcome = "READY"
    BY <1>3 DEF DiscardUnsigned, DeleteUnsigned, StoreNext, Rewrite
  <2>2. q \in Plan /\ q.outcome \notin Landed /\ q.digest = None /\ q.status = "DELETED_UNSIGNED"
    BY UnusedTyped DEF Unused, Landed, InFlight
  <2>3. plans'[a] = q
    BY <1>1, <2>1 DEF Rewrite, StoreTypeOK
  <2>4. MovesOn(a) /\ UNCHANGED <<built, chainVars, doubts>> /\ UNCHANGED call
    BY <1>3, <2>2, <2>3 DEF MovesOn, DiscardUnsigned
  <2>5. plans[a].outcome \notin Landed
    BY <2>1 DEF Landed, InFlight
  <2> HIDE DEF q
  <2> QED BY <2>1, <2>2, <2>4, <2>5, RewriteStep
<1>4. CASE RepairReference(a)
  <2> DEFINE q == [plans[a] EXCEPT !.revision = @ + 1, !.outcome = "READY", !.digest = None]
  <2>1. StoreNext /\ plans[a].outcome = "READY" /\ plans[a].status = "ACTIVE"
        /\ plans' = [plans EXCEPT ![a].revision = @ + 1, ![a].outcome = "READY",
                                  ![a].digest = None]
        /\ UNCHANGED <<events, checkpoints>>
    BY <1>4 DEF RepairReference, RepairUnsignedOwnedReference, MoveCursor, Current, StoreNext
  <2>2. Rewrite(a, q)
    BY <2>1 DEF Rewrite
  <2>3. /\ q \in Plan /\ q.outcome \notin Landed /\ q.digest = None
        /\ q.revision = plans[a].revision + 1 /\ q.status = "ACTIVE"
    BY <1>1, <2>1, PlanFields DEF Plan, Outcomes, Landed, InFlight
  <2> HIDE DEF q
  <2>4. plans'[a] = q
    BY <1>1, <2>2 DEF Rewrite, StoreTypeOK
  <2>5. MovesOn(a) /\ UNCHANGED <<built, chainVars, doubts>> /\ UNCHANGED call
    BY <1>4, <2>1, <2>3, <2>4 DEF MovesOn, RepairReference
  <2>6. plans[a].outcome \notin Landed
    BY <2>1 DEF Landed, InFlight
  <2> QED BY <2>1, <2>2, <2>3, <2>5, <2>6, RewriteStep
<1> QED BY <1>2, <1>3, <1>4

LEMMA SuccessorStep ==
    ASSUME IInv, NEW t \in Tabs, PrepareSuccessor(t)
    PROVE  IInv' /\ StoreNext
<1> DEFINE a == call[t].attempt
<1>1. TypeOK /\ StoreInv /\ StoreTypeOK /\ a \in Attempts
  BY DEF IInv, StoreInv, PrepareSuccessor, CallsKnow, Knows
<1>2. plans[a] \in Plan
  BY <1>1 DEF StoreTypeOK
<1> DEFINE q == [plans[a] EXCEPT !.revision = @ + 1, !.outcome = "READY", !.digest = None]
<1>3. /\ plans[a].revision = Rev(t) /\ plans[a].outcome = "NONE" /\ plans[a].status = "ACTIVE"
      /\ plans' = [plans EXCEPT ![a].revision = @ + 1, ![a].outcome = "READY", ![a].digest = None]
      /\ UNCHANGED <<events, checkpoints>> /\ call' = [call EXCEPT ![t] = Idle]
      /\ UNCHANGED <<built, chainVars, doubts>>
  BY DEF PrepareSuccessor, PutSuccessor, MoveCursor, Current, Return
<1>4. StoreNext
  BY <1>1, <1>3 DEF PrepareSuccessor, StoreNext
<1>5. Rewrite(a, q)
  BY <1>3 DEF Rewrite
<1>6. /\ q \in Plan /\ q.outcome \notin Landed /\ q.digest = None
      /\ q.revision = plans[a].revision + 1 /\ q.status = "ACTIVE"
  BY <1>2, <1>3, PlanFields DEF Plan, Outcomes, Landed, InFlight
<1> HIDE DEF q
<1>7. plans'[a] = q
  BY <1>1, <1>5 DEF Rewrite, StoreTypeOK
<1>8. MovesOn(a)
  BY <1>3, <1>6, <1>7 DEF MovesOn
<1>9. plans[a].outcome \notin Landed
  BY <1>3 DEF Landed, InFlight
<1> HIDE DEF a
<1>10. IInv'
  BY <1>1, <1>3, <1>4, <1>5, <1>6, <1>8, <1>9, RewriteStep
<1> QED BY <1>4, <1>10

LEMMA WriteSteps ==
    ASSUME IInv, NEW t \in Tabs,
           \/ WalletRejects(t) \/ KeepSignature(t) \/ AppendUnknown(t)
           \/ AppendFailure(t) \/ FinalizeSuccess(t) \/ AppendAccepted(t)
    PROVE  IInv' /\ StoreNext
<1> DEFINE c == call[t]
<1>1. TypeOK /\ c \in Call /\ c.plan \in Plan
  BY CallTyped DEF IInv
<1>2. CASE WalletRejects(t)
  <2>1. /\ c.at = "wallet" /\ AppendEvent(c.attempt, Rev(t), "WALLET_REJECTED", None)
        /\ call' = [call EXCEPT ![t] = Idle] /\ UNCHANGED <<built, chainVars, doubts>>
    BY <1>2 DEF WalletRejects, Return
  <2>2. Proper(t, "WALLET_REJECTED", None) /\ GoesOn(t, Idle, "WALLET_REJECTED")
    BY <2>1 DEF Proper, Named, EventStatus, GoesOn
  <2> QED BY <1>1, <2>1, <2>2, AppendStep DEF TypeOK
<1>3. CASE KeepSignature(t)
  <2>1. /\ c.at = "wallet" /\ AppendEvent(c.attempt, Rev(t), "SIGNED", c.digest)
        /\ call' = [call EXCEPT ![t] = Idle] /\ UNCHANGED <<built, chainVars, doubts>>
    BY <1>3 DEF KeepSignature, Return
  <2>2. c.digest \in Digests
    BY <2>1 DEF IInv, CallsKnow, Knows, Prompting
  <2>3. Proper(t, "SIGNED", c.digest) /\ GoesOn(t, Idle, "SIGNED")
    BY <2>1, <2>2 DEF Proper, Named, EventStatus, GoesOn
  <2> QED BY <1>1, <2>1, <2>3, AppendStep DEF TypeOK
<1>4. CASE AppendUnknown(t)
  <2>1. /\ c.at = "ask" /\ AppendEvent(c.attempt, Rev(t), "OUTCOME_UNKNOWN", c.plan.digest)
        /\ call' = [call EXCEPT ![t] = Idle] /\ UNCHANGED <<built, chainVars>>
        /\ doubts' = doubts + 1
    BY <1>4 DEF AppendUnknown, Return, Doubt
  <2>2. c.plan.digest \in Digests
    BY <2>1, FollowingKnows DEF Following
  <2>3. Proper(t, "OUTCOME_UNKNOWN", c.plan.digest) /\ GoesOn(t, Idle, "OUTCOME_UNKNOWN")
    BY <2>1, <2>2 DEF Proper, Named, EventStatus, GoesOn
  <2>4. doubts' \in Nat
    BY <1>1, <2>1 DEF TypeOK
  <2> QED BY <2>1, <2>3, <2>4, AppendStep
<1>5. CASE AppendFailure(t)
  <2>1. /\ c.at = "answered" /\ AppendEvent(c.attempt, Rev(t), "FINALIZED_FAILURE", c.plan.digest)
        /\ call' = [call EXCEPT ![t] = Idle] /\ UNCHANGED <<built, chainVars, doubts>>
        /\ c.reply = "FINALIZED_FAILURE"
    BY <1>5 DEF AppendFailure, Return
  <2>2. c.plan.digest \in Digests /\ fate[c.plan.digest] = "failure"
    BY <2>1 DEF IInv, CallsKnow, Knows, Following
  <2>3. Proper(t, "FINALIZED_FAILURE", c.plan.digest) /\ GoesOn(t, Idle, "FINALIZED_FAILURE")
    BY <2>1, <2>2 DEF Proper, Named, EventStatus, GoesOn
  <2> QED BY <1>1, <2>1, <2>3, AppendStep DEF TypeOK
<1>6. CASE FinalizeSuccess(t)
  <2>1. /\ c.at = "answered" /\ AppendEvent(c.attempt, Rev(t), "FINALIZED_SUCCESS", c.plan.digest)
        /\ call' = [call EXCEPT ![t] = Idle] /\ UNCHANGED <<built, chainVars, doubts>>
        /\ c.reply = "FINALIZED_SUCCESS"
    BY <1>6 DEF FinalizeSuccess, Return
  <2>2. c.plan.digest \in Digests /\ fate[c.plan.digest] = "success"
    BY <2>1 DEF IInv, CallsKnow, Knows, Following
  <2>3. Proper(t, "FINALIZED_SUCCESS", c.plan.digest) /\ GoesOn(t, Idle, "FINALIZED_SUCCESS")
    BY <2>1, <2>2 DEF Proper, Named, EventStatus, GoesOn
  <2> QED BY <1>1, <2>1, <2>3, AppendStep DEF TypeOK
<1>7. CASE AppendAccepted(t)
  <2> DEFINE n == [c EXCEPT !.at = "opened", !.replaying = FALSE,
                            !.plan = plans'[c.attempt], !.reply = "NONE"]
  <2>1. /\ c.at = "accepted" /\ AppendEvent(c.attempt, Rev(t), "BROADCAST_ACCEPTED", c.plan.digest)
        /\ UNCHANGED <<built, chainVars, doubts>>
        /\ call' = [call EXCEPT ![t].at = "opened", ![t].replaying = FALSE,
                            ![t].plan = plans'[call[t].attempt], ![t].reply = "NONE"]
    BY <1>7 DEF AppendAccepted
  <2>2. c.plan.digest \in Digests /\ c.attempt \in Attempts
    BY <2>1, FollowingKnows DEF Following
  <2>3. Named("BROADCAST_ACCEPTED", c.plan.digest) /\ Proper(t, "BROADCAST_ACCEPTED", c.plan.digest)
    BY <2>1, <2>2 DEF Proper, Named, EventStatus
  <2>4. plans'[c.attempt] \in Plan
    BY <2>1, <2>2, <2>3, AppendEffect DEF IInv, StoreInv, StoreTypeOK
  <2>5. n \in Call /\ n.at = "opened" /\ n.attempt = c.attempt /\ n.plan = plans'[c.attempt]
    BY <1>1, <2>4 DEF Call, Steps, Replies
  <2>6. call' = [call EXCEPT ![t] = n]
    BY <2>1
  <2> HIDE DEF n
  <2>7. GoesOn(t, n, "BROADCAST_ACCEPTED")
    BY <2>5 DEF GoesOn
  <2> QED BY <1>1, <2>1, <2>3, <2>6, <2>7, AppendStep DEF TypeOK
<1> QED BY <1>2, <1>3, <1>4, <1>5, <1>6, <1>7

LEMMA PendingStep ==
    ASSUME IInv, NEW t \in Tabs, AppendPending(t)
    PROVE  IInv' /\ [StoreNext]_logVars
<1> DEFINE c == call[t]
<1>1. /\ TypeOK /\ c \in Call /\ c.plan \in Plan /\ c.at = "opened"
      /\ UNCHANGED <<built, chainVars, doubts>>
  BY CallTyped DEF IInv, AppendPending
<1>2. c.plan.digest \in Digests /\ c.attempt \in Attempts
  BY <1>1, FollowingKnows DEF Following
<1>3. CASE Goto(t, "ask") /\ UNCHANGED logVars
  <2> DEFINE n == [c EXCEPT !.at = "ask"]
  <2>1. call' = [call EXCEPT ![t] = n]
    BY <1>3 DEF Goto
  <2>2. n \in Call /\ n.at = "ask" /\ n.attempt = c.attempt /\ n.plan = c.plan
    BY <1>1 DEF Call, Steps
  <2> HIDE DEF n
  <2>3. TypeOK' /\ call'[t] = n
    BY <1>1, <1>3, <2>1, <2>2 DEF TypeOK, StoreTypeOK, logVars, chainVars
  <2>4. Knows(t)
    BY <1>1 DEF IInv, CallsKnow
  <2>5. Knows(t)'
    BY <1>1, <1>2, <1>3, <2>2, <2>3, <2>4
       DEF Knows, Logged, Log, logVars, Prompting, Following
  <2>6. IInv'
    BY <1>1, <1>3, <2>1, <2>2, <2>3, <2>5, QuietStep DEF chainVars, Prompting
  <2> QED BY <1>3, <2>6
<1>4. CASE /\ AppendEvent(c.attempt, Rev(t), "OUTCOME_PENDING", c.plan.digest)
           /\ Reread(t, "ask")
  <2> DEFINE n == [c EXCEPT !.at = "ask", !.plan = plans'[c.attempt]]
  <2>1. Proper(t, "OUTCOME_PENDING", c.plan.digest) /\ Named("OUTCOME_PENDING", c.plan.digest)
    BY <1>1, <1>2 DEF Proper, Named, EventStatus
  <2>2. plans'[c.attempt] \in Plan
    BY <1>2, <1>4, <2>1, AppendEffect DEF IInv, StoreInv, StoreTypeOK
  <2>3. n \in Call /\ n.at = "ask" /\ n.attempt = c.attempt /\ n.plan = plans'[c.attempt]
    BY <1>1, <2>2 DEF Call, Steps
  <2>4. call' = [call EXCEPT ![t] = n]
    BY <1>4 DEF Reread
  <2> HIDE DEF n
  <2>5. GoesOn(t, n, "OUTCOME_PENDING") /\ doubts' \in Nat
    BY <1>1, <2>3 DEF GoesOn, TypeOK
  <2> QED BY <1>1, <1>4, <2>1, <2>4, <2>5, AppendStep
<1> QED BY <1>3, <1>4 DEF AppendPending

(* A call that asks, or begins, or ends, and writes nothing.               *)
LEMMA ReadSteps ==
    ASSUME IInv, NEW t \in Tabs,
           \/ QueryTransaction(t) \/ StartReplay(t) \/ Broadcast(t)
           \/ SignReviewed(t) \/ Abandon(t)
    PROVE  IInv' /\ UNCHANGED logVars
<1> DEFINE c == call[t]
<1>1. /\ TypeOK /\ c \in Call /\ c.plan \in Plan /\ c # Idle
      /\ UNCHANGED <<logVars, built, fate, doubts>>
  BY CallTyped DEF IInv, QueryTransaction, StartReplay, Broadcast, SignReviewed, Abandon, Idle,
                   chainVars
<1>2. CASE Abandon(t)
  <2>1. call' = [call EXCEPT ![t] = Idle] /\ UNCHANGED sent
    BY <1>2 DEF Abandon, Return, chainVars
  <2>2. TypeOK' /\ Idle.at = "idle"
    BY <1>1, <2>1, IdleTyped DEF TypeOK, StoreTypeOK, logVars, Idle
  <2>3. IInv'
    BY <1>1, <2>1, <2>2, QuietStep DEF Prompting
  <2> QED BY <1>1, <2>3
<1>3. CASE SignReviewed(t)
  <2> DEFINE n == [c EXCEPT !.at = "wallet"]
  <2>1. call' = [call EXCEPT ![t] = n] /\ c.at = "review" /\ UNCHANGED sent
    BY <1>3 DEF SignReviewed, Goto, chainVars
  <2>2. /\ n \in Call /\ n.at = "wallet" /\ n.attempt = c.attempt /\ n.plan = c.plan
        /\ n.digest = c.digest
    BY <1>1 DEF Call, Steps
  <2> HIDE DEF n
  <2>3. TypeOK' /\ call'[t] = n
    BY <1>1, <2>1, <2>2 DEF TypeOK, StoreTypeOK, logVars
  <2>4. Knows(t)
    BY <2>1 DEF IInv, CallsKnow
  <2>5. Knows(t)'
    BY <1>1, <2>1, <2>2, <2>3, <2>4 DEF Knows, Logged, Log, logVars, Prompting, Following
  <2>6. \A u \in Tabs : u # t /\ call[u].at \in Prompting => call[u].digest # n.digest
    BY <2>1, <2>2 DEF IInv, BuildsApart, Prompting
  <2>7. IInv'
    BY <1>1, <2>1, <2>2, <2>3, <2>5, <2>6, QuietStep
  <2> QED BY <1>1, <2>7
<1>4. CASE QueryTransaction(t)
  <2>1. UNCHANGED sent /\ c.at = "ask"
    BY <1>4 DEF QueryTransaction, chainVars
  <2>2. PICK reply \in Answers(c.plan.digest) :
            call' = [call EXCEPT ![t].at = "answered", ![t].reply = reply]
    BY <1>4 DEF QueryTransaction
  <2>3. c.plan.digest \in Digests
    BY <2>1, FollowingKnows DEF Following
  <2>4. /\ reply \in Replies
        /\ reply = "FINALIZED_SUCCESS" => fate[c.plan.digest] = "success"
        /\ reply = "FINALIZED_FAILURE" => fate[c.plan.digest] = "failure"
    BY <1>1, <2>2, <2>3 DEF Answers, Replies, TypeOK
  <2> DEFINE n == [c EXCEPT !.at = "answered", !.reply = reply]
  <2>5. call' = [call EXCEPT ![t] = n]
    BY <2>2
  <2>6. /\ n \in Call /\ n.at = "answered" /\ n.attempt = c.attempt /\ n.plan = c.plan
        /\ n.reply = reply
    BY <1>1, <2>4 DEF Call, Steps
  <2> HIDE DEF n
  <2>7. TypeOK' /\ call'[t] = n
    BY <1>1, <2>1, <2>5, <2>6 DEF TypeOK, StoreTypeOK, logVars
  <2>8. Knows(t)
    BY <2>1 DEF IInv, CallsKnow
  <2>9. Knows(t)'
    BY <1>1, <2>1, <2>4, <2>6, <2>7, <2>8 DEF Knows, Logged, Log, logVars, Prompting, Following
  <2>10. IInv'
    BY <1>1, <2>1, <2>5, <2>6, <2>7, <2>9, QuietStep DEF Prompting
  <2> QED BY <1>1, <2>10
<1>5. CASE StartReplay(t)
  <2> DEFINE n == [c EXCEPT !.at = "replay"]
  <2>1. call' = [call EXCEPT ![t] = n] /\ c.at = "answered" /\ UNCHANGED sent
    BY <1>5 DEF StartReplay, Goto, chainVars
  <2>2. n \in Call /\ n.at = "replay" /\ n.attempt = c.attempt /\ n.plan = c.plan
    BY <1>1 DEF Call, Steps
  <2> HIDE DEF n
  <2>3. TypeOK' /\ call'[t] = n
    BY <1>1, <2>1, <2>2 DEF TypeOK, StoreTypeOK, logVars
  <2>4. Knows(t)
    BY <2>1 DEF IInv, CallsKnow
  <2>5. Knows(t)'
    BY <1>1, <2>1, <2>2, <2>3, <2>4 DEF Knows, Logged, Log, logVars, Prompting, Following
  <2>6. IInv'
    BY <1>1, <2>1, <2>2, <2>3, <2>5, QuietStep DEF Prompting
  <2> QED BY <1>1, <2>6
<1>6. CASE Broadcast(t)
  <2> DEFINE n == [c EXCEPT !.at = "accepted"]
  <2>1. /\ call' = [call EXCEPT ![t] = n] /\ c.at = "replay"
        /\ sent' = sent \cup {c.plan.digest}
    BY <1>6 DEF Broadcast, Goto
  <2>2. n \in Call /\ n.at = "accepted" /\ n.attempt = c.attempt /\ n.plan = c.plan
    BY <1>1 DEF Call, Steps
  <2> HIDE DEF n
  <2>3. /\ c.attempt \in Attempts /\ c.plan.ordinal \in Ordinals /\ c.plan.digest \in Digests
        /\ Logged(c.attempt, c.plan.ordinal, c.plan.digest)
    BY <2>1, FollowingKnows DEF Following
  <2>4. TypeOK' /\ call'[t] = n
    BY <1>1, <2>1, <2>2, <2>3 DEF TypeOK, StoreTypeOK, logVars
  <2>5. Knows(t)
    BY <2>1 DEF IInv, CallsKnow
  <2>6. Knows(t)'
    BY <1>1, <2>1, <2>2, <2>4, <2>5 DEF Knows, Logged, Log, logVars, Prompting, Following
  <2>7. /\ sent \subseteq sent'
        /\ \A d \in sent' : d \in sent \/ \E a \in Attempts, o \in Ordinals : Logged(a, o, d)
    BY <2>1, <2>3
  <2>8. IInv'
    BY <1>1, <2>1, <2>2, <2>4, <2>6, <2>7, QuietStep DEF Prompting
  <2> QED BY <1>1, <2>8
<1> QED BY <1>2, <1>3, <1>4, <1>5, <1>6

LEMMA BeginStep ==
    ASSUME IInv, NEW t \in Tabs, NEW a \in Attempts, NEW at \in {"opened", "successor"},
           NEW replaying \in BOOLEAN, Begin(t, a, at, replaying),
           at = "opened" => plans[a].outcome \in InFlight, plans[a].status = "ACTIVE",
           UNCHANGED <<logVars, built, chainVars, doubts>>
    PROVE  IInv'
<1> DEFINE n == [Idle EXCEPT !.at = at, !.attempt = a, !.plan = plans[a],
                             !.replaying = replaying]
<1>1. /\ TypeOK /\ StoreInv /\ plans[a] \in Plan /\ plans[a].ordinal \in Ordinals
      /\ plans[a].revision \in Nat
  BY DEF IInv, StoreInv, StoreTypeOK, Plan
<1>2. call' = [call EXCEPT ![t] = n]
  BY DEF Begin
<1>3. n \in Call /\ n.at = at /\ n.attempt = a /\ n.plan = plans[a]
  BY <1>1, IdleTyped DEF Call, Steps
<1> HIDE DEF n
<1>4. TypeOK' /\ call'[t] = n
  BY <1>1, <1>2, <1>3 DEF TypeOK, StoreTypeOK, logVars, chainVars
<1>5. plans[a].revision <= plans[a].revision
  BY <1>1
<1>6. at = "opened" => plans[a].digest \in Digests /\ Logged(a, plans[a].ordinal, plans[a].digest)
  BY <1>1, CursorLogged DEF Landed
<1> DEFINE k == call'[t]
<1>7. /\ k.at = at /\ k.attempt = a /\ k.plan = plans[a]
  BY <1>3, <1>4
<1> HIDE DEF k
<1>8. Knows(t)'
  BY <1>1, <1>5, <1>6, <1>7 DEF Knows, Logged, Log, logVars, Prompting, Following, k
<1> QED BY <1>2, <1>3, <1>4, <1>8, QuietStep DEF chainVars, Prompting

LEMMA RequestStep ==
    ASSUME IInv, NEW t \in Tabs, NEW a \in Attempts, NEW d \in Digests,
           RequestSignature(t, a, d)
    PROVE  IInv'
<1>1. /\ TypeOK /\ StoreInv /\ plans[a] \in Plan /\ plans[a].ordinal \in Ordinals
      /\ plans[a].revision \in Nat /\ plans[a].revision <= plans[a].revision
  BY DEF IInv, StoreInv, StoreTypeOK, Plan
<1>2. PICK at \in Prompting :
          call' = [call EXCEPT ![t] = [Idle EXCEPT !.at = at, !.attempt = a,
                                           !.plan = plans[a], !.digest = d]]
  BY DEF RequestSignature, Prompting
<1>3. /\ plans[a].status = "ACTIVE" /\ plans[a].outcome = "READY" /\ built[d] = Unbuilt
      /\ built' = [built EXCEPT ![d] = [attempt |-> a, ordinal |-> plans[a].ordinal]]
      /\ UNCHANGED <<logVars, chainVars, doubts>>
  BY DEF RequestSignature, Ready
<1> DEFINE n == [Idle EXCEPT !.at = at, !.attempt = a, !.plan = plans[a], !.digest = d]
<1>4. call' = [call EXCEPT ![t] = n]
  BY <1>2
<1>5. n \in Call /\ n.at = at /\ n.attempt = a /\ n.plan = plans[a] /\ n.digest = d
  BY <1>1, IdleTyped DEF Call, Steps, Prompting
<1> HIDE DEF n
<1>6. TypeOK' /\ call'[t] = n
  BY <1>1, <1>3, <1>4, <1>5 DEF TypeOK, StoreTypeOK, logVars, chainVars
<1>7. /\ d \notin sent /\ \A b \in Attempts, o \in Ordinals : ~Logged(b, o, d)
      /\ \A e \in Digests : built[e] # Unbuilt => built'[e] = built[e]
      /\ built'[d] = [attempt |-> a, ordinal |-> plans[a].ordinal]
  BY <1>1, <1>3, MakerPublicationAssumption DEF IInv, ChainTrue, LogsPlaced, Unbuilt, TypeOK
<1> DEFINE k == call'[t]
<1>8. k.at = at /\ k.attempt = a /\ k.plan = plans[a] /\ k.digest = d
  BY <1>5, <1>6
<1> HIDE DEF k
<1>9. Knows(t)'
  BY <1>1, <1>3, <1>7, <1>8
     DEF Knows, Logged, Log, logVars, chainVars, Prompting, Following, k
<1>10. ASSUME NEW u \in Tabs, call[u].at \in Prompting PROVE call[u].digest # d
  <2>1. built[call[u].digest].attempt \in Attempts
    <3>1. Knows(u) /\ call[u].at \in Prompting
      BY <1>10 DEF IInv, CallsKnow, Prompting
    <3>2. /\ call[u].attempt \in Attempts
          /\ built[call[u].digest] = [attempt |-> call[u].attempt,
                                       ordinal |-> call[u].plan.ordinal]
      BY <3>1 DEF Knows
    <3> QED BY <3>2
  <2> QED BY <1>3, <2>1, MakerPublicationAssumption DEF Unbuilt
<1> QED BY <1>3, <1>4, <1>5, <1>6, <1>7, <1>9, <1>10, QuietStep DEF chainVars

LEMMA NextKeeps == ASSUME IInv, Next PROVE IInv' /\ [StoreNext]_logVars
<1>1. ASSUME NEW a \in Attempts, Prepare(a) \/ DiscardUnsigned(a) \/ RepairReference(a)
      PROVE  IInv' /\ [StoreNext]_logVars
  BY <1>1, PlanSteps
<1>2. ASSUME NEW t \in Tabs, NEW a \in Attempts, StartSuccessor(t, a)
      PROVE  IInv' /\ [StoreNext]_logVars
  BY <1>2, BeginStep DEF StartSuccessor
<1>3. ASSUME NEW t \in Tabs, NEW a \in Attempts, NEW d \in Digests, RequestSignature(t, a, d)
      PROVE  IInv' /\ [StoreNext]_logVars
  BY <1>3, RequestStep DEF RequestSignature
<1>4. ASSUME NEW t \in Tabs, NEW a \in Attempts, NEW replaying \in BOOLEAN,
             StartRecover(t, a, replaying)
      PROVE  IInv' /\ [StoreNext]_logVars
  BY <1>4, BeginStep DEF StartRecover
<1>5. ASSUME NEW t \in Tabs, Advance(t) \/ Abandon(t)
      PROVE  IInv' /\ [StoreNext]_logVars
  BY <1>5, SuccessorStep, WriteSteps, PendingStep, ReadSteps DEF Advance
<1>6. ASSUME NEW d \in Digests, Execute(d) PROVE IInv' /\ [StoreNext]_logVars
  BY <1>6, ChainStep DEF Execute
<1>7. ASSUME NEW d \in Digests, Lapse(d) PROVE IInv' /\ [StoreNext]_logVars
  BY <1>7, ChainStep DEF Lapse
<1> QED BY <1>1, <1>2, <1>3, <1>4, <1>5, <1>6, <1>7 DEF Next

LEMMA StutterKeeps == ASSUME IInv, UNCHANGED vars PROVE IInv' /\ [StoreNext]_logVars
<1>1. StoreInv' /\ Blanks'
  BY StoreInductive DEF IInv, vars
<1>2. TypeOK'
  BY DEF vars, logVars, chainVars, IInv, TypeOK, StoreTypeOK
<1>3. LogsPlaced' /\ ChainTrue' /\ BuildsApart' /\ AbsentUnused'
  BY DEF vars, logVars, chainVars, IInv, LogsPlaced, ChainTrue, BuildsApart, AbsentUnused,
         Placed, Logged, Log
<1>4. CallsKnow'
  BY DEF vars, logVars, chainVars, IInv, CallsKnow, Knows, Logged, Log
<1> QED BY <1>1, <1>2, <1>3, <1>4 DEF IInv, vars

-----------------------------------------------------------------------------
(* What the steps are in the sequence of transactions.                     *)

(* The digests at the cursors change at one attempt.                       *)
LEMMA FlightChanges ==
    ASSUME NEW a \in Attempts, NEW x,
           plans'[a].digest = x, \A b \in Attempts : b # a => plans'[b] = plans[b]
    PROVE  [b \in Attempts |-> plans'[b].digest]
               = [[b \in Attempts |-> plans[b].digest] EXCEPT ![a] = x]
OBVIOUS

LEMMA FlightStays ==
    ASSUME \A b \in Attempts : plans'[b].digest = plans[b].digest
    PROVE  [b \in Attempts |-> plans'[b].digest] = [b \in Attempts |-> plans[b].digest]
OBVIOUS

LEMMA AppendMoves ==
    ASSUME IInv, NEW t \in Tabs, NEW status, NEW digest, Proper(t, status, digest),
           AppendEvent(call[t].attempt, Rev(t), status, digest),
           UNCHANGED <<built, chainVars>>
    PROVE  [Sequence!SeqNext]_(Sequence!seqVars)
<1> DEFINE a == call[t].attempt
<1> DEFINE p == plans[a]
<1>1. /\ Knows(t) /\ a \in Attempts /\ Named(status, digest) /\ StoreInv /\ StoreTypeOK
      /\ UNCHANGED <<sent, fate>>
  BY DEF IInv, CallsKnow, Proper, Knows, StoreInv, chainVars
<1>2. /\ p.revision = Rev(t) /\ p.status = "ACTIVE"
      /\ status \in Beginnings => p.outcome = "READY" /\ p.digest = None
      /\ status \notin Beginnings => p.outcome \in InFlight /\ digest = p.digest
  BY <1>1, AppendAt
<1>3. /\ \A b \in Attempts : b # a => plans'[b] = plans[b] /\ checkpoints'[b] = checkpoints[b]
      /\ plans'[a].digest = (IF status = "FINALIZED_SUCCESS" THEN None ELSE digest)
  BY <1>1, AppendEffect DEF Appended
<1>4. checkpoints' = IF status = "FINALIZED_SUCCESS"
                     THEN [checkpoints EXCEPT ![a] = Append(@, digest)] ELSE checkpoints
  BY DEF AppendEvent
<1>5. CASE status = "FINALIZED_SUCCESS"
  <2>1. /\ p.digest = digest /\ digest \in Digests /\ digest # None
        /\ fate[digest] = "success"
    BY <1>1, <1>2, <1>5, PublicationAssumption DEF Named, Proper, Beginnings
  <2>2. [b \in Attempts |-> plans'[b].digest]
            = [[b \in Attempts |-> plans[b].digest] EXCEPT ![a] = None]
    BY <1>1, <1>3, <1>5, FlightChanges
  <2>3. PICK b \in Attempts : b = a
    BY <1>1
  <2>4. /\ checkpoints' = [checkpoints EXCEPT ![b] = Append(@, plans[b].digest)]
        /\ [c \in Attempts |-> plans'[c].digest]
               = [[c \in Attempts |-> plans[c].digest] EXCEPT ![b] = None]
        /\ plans[b].digest # None /\ fate[plans[b].digest] = "success"
    BY <1>4, <1>5, <2>1, <2>2, <2>3
  <2>5. Sequence!Finish(b)
    <3> HIDE DEF a
    <3> QED BY <1>1, <2>4 DEF Sequence!Finish
  <2> QED BY <2>5 DEF Sequence!SeqNext
<1>6. CASE status = "SIGNED"
  <2>1. /\ p.digest = None /\ digest = call[t].digest /\ digest \in Digests
        /\ digest \notin sent /\ \A b \in Attempts, o \in Ordinals : ~Logged(b, o, digest)
    BY <1>1, <1>2, <1>6 DEF Proper, Knows, Prompting, Beginnings
  <2>2. \A b \in Attempts : plans[b].digest # digest
    <3> SUFFICES ASSUME NEW b \in Attempts PROVE plans[b].digest # digest
      OBVIOUS
    <3>1. plans[b].ordinal \in Ordinals
      BY <1>1 DEF StoreTypeOK, Plan
    <3>2. CASE plans[b].outcome \in Landed
      BY <1>1, <2>1, <3>1, <3>2, CursorLogged
    <3>3. CASE plans[b].outcome \notin Landed
      BY <1>1, <2>1, <3>3, CursorLogged, PublicationAssumption
    <3> QED BY <3>2, <3>3
  <2>3. Len(checkpoints[a]) < LastOrdinal + 1
    <3>1. Len(checkpoints[a]) = p.ordinal
      BY <1>1, <1>2 DEF StoreInv, PrefixAgrees
    <3>2. p.ordinal \in Nat /\ p.ordinal <= LastOrdinal
      BY <1>1, PublicationAssumption DEF StoreTypeOK, Plan, Ordinals
    <3> DEFINE n == p.ordinal
    <3>3. n \in Nat /\ n <= LastOrdinal /\ LastOrdinal \in Nat /\ Len(checkpoints[a]) = n
      BY <3>1, <3>2, PublicationAssumption
    <3> HIDE DEF n
    <3> QED BY <3>3
  <2>4. [b \in Attempts |-> plans'[b].digest]
            = [[b \in Attempts |-> plans[b].digest] EXCEPT ![a] = digest]
    BY <1>1, <1>3, <1>6, FlightChanges
  <2>5. Sequence!TakeUp(a, digest)
    BY <1>1, <1>4, <1>6, <2>1, <2>2, <2>3, <2>4 DEF Sequence!TakeUp
  <2> QED BY <1>1, <2>1, <2>5 DEF Sequence!SeqNext
<1>7. CASE status \notin {"FINALIZED_SUCCESS", "SIGNED"}
  <2>1. plans'[a].digest = p.digest
    BY <1>1, <1>2, <1>3, <1>7 DEF Beginnings, Named, Proper
  <2>2. [b \in Attempts |-> plans'[b].digest] = [b \in Attempts |-> plans[b].digest]
    BY <1>3, <2>1, FlightStays
  <2> QED BY <1>1, <1>4, <1>7, <2>2 DEF Sequence!seqVars
<1> QED BY <1>5, <1>6, <1>7

(* A write of a plan that has no digest before or after it.                *)
LEMMA RewriteMoves ==
    ASSUME StoreTypeOK, NEW a \in Attempts, NEW q, Rewrite(a, q), q.digest = None,
           plans[a].digest = None, UNCHANGED chainVars
    PROVE  UNCHANGED Sequence!seqVars
<1>1. \A b \in Attempts : plans'[b].digest = plans[b].digest
  BY DEF StoreTypeOK, Rewrite
<1> QED BY <1>1, FlightStays DEF Sequence!seqVars, Rewrite, chainVars

LEMMA QuietMoves ==
    ASSUME UNCHANGED <<logVars, chainVars>> PROVE UNCHANGED Sequence!seqVars
BY DEF logVars, chainVars, Sequence!seqVars

LEMMA NextMoves == ASSUME IInv, Next PROVE [Sequence!SeqNext]_(Sequence!seqVars)
<1>1. StoreInv /\ StoreTypeOK /\ TypeOK
  BY DEF IInv, StoreInv
<1>2. ASSUME NEW a \in Attempts, Prepare(a) \/ DiscardUnsigned(a) \/ RepairReference(a)
      PROVE  UNCHANGED Sequence!seqVars
  <2>1. CASE Prepare(a)
    <3>1. Rewrite(a, Created) /\ plans[a].status = "ABSENT" /\ UNCHANGED chainVars
      BY <2>1 DEF Prepare, CreateAttempt, Rewrite
    <3>2. plans[a].digest = None /\ Created.digest = None
      BY <3>1 DEF IInv, AbsentUnused, Created, Unused
    <3> QED BY <1>1, <3>1, <3>2, RewriteMoves
  <2>2. CASE DiscardUnsigned(a)
    <3> DEFINE q == [Unused EXCEPT !.status = "DELETED_UNSIGNED"]
    <3>1. Rewrite(a, q) /\ plans[a].outcome = "READY" /\ UNCHANGED chainVars
      BY <2>2 DEF DiscardUnsigned, DeleteUnsigned, Rewrite
    <3>2. plans[a].digest = None /\ q.digest = None
      BY <1>1, <3>1, CursorLogged DEF Unused, Landed, InFlight
    <3> HIDE DEF q
    <3> QED BY <1>1, <3>1, <3>2, RewriteMoves
  <2>3. CASE RepairReference(a)
    <3> DEFINE q == [plans[a] EXCEPT !.revision = @ + 1, !.outcome = "READY", !.digest = None]
    <3>1. Rewrite(a, q) /\ plans[a].outcome = "READY" /\ UNCHANGED chainVars
      BY <2>3 DEF RepairReference, RepairUnsignedOwnedReference, MoveCursor, Rewrite
    <3>2. plans[a].digest = None
      BY <1>1, <3>1, CursorLogged DEF Landed, InFlight
    <3>3. q.digest = None
      BY <1>1 DEF StoreTypeOK, Plan
    <3> HIDE DEF q
    <3> QED BY <1>1, <3>1, <3>2, <3>3, RewriteMoves
  <2> QED BY <1>2, <2>1, <2>2, <2>3
<1>3. ASSUME NEW t \in Tabs, NEW a \in Attempts,
             \/ StartSuccessor(t, a)
             \/ \E d \in Digests : RequestSignature(t, a, d)
             \/ \E replaying \in BOOLEAN : StartRecover(t, a, replaying)
      PROVE  UNCHANGED Sequence!seqVars
  BY <1>3, QuietMoves DEF StartSuccessor, RequestSignature, StartRecover
<1>4. ASSUME NEW t \in Tabs, PrepareSuccessor(t)
      PROVE  UNCHANGED Sequence!seqVars
  <2> DEFINE a == call[t].attempt
  <2> DEFINE q == [plans[a] EXCEPT !.revision = @ + 1, !.outcome = "READY", !.digest = None]
  <2>1. a \in Attempts
    BY <1>4 DEF IInv, CallsKnow, Knows, PrepareSuccessor
  <2>2. Rewrite(a, q) /\ plans[a].outcome = "NONE" /\ UNCHANGED chainVars
    BY <1>4 DEF PrepareSuccessor, PutSuccessor, MoveCursor, Rewrite
  <2>3. plans[a].digest = None
    BY <1>1, <2>1, <2>2, CursorLogged DEF Landed, InFlight
  <2>4. q.digest = None
    BY <1>1, <2>1 DEF StoreTypeOK, Plan
  <2> HIDE DEF q, a
  <2> QED BY <1>1, <2>1, <2>2, <2>3, <2>4, RewriteMoves
<1>5. ASSUME NEW t \in Tabs,
             \/ WalletRejects(t) \/ KeepSignature(t) \/ AppendUnknown(t)
             \/ AppendFailure(t) \/ FinalizeSuccess(t) \/ AppendAccepted(t)
             \/ AppendPending(t)
      PROVE  [Sequence!SeqNext]_(Sequence!seqVars)
  <2> DEFINE c == call[t]
  <2>1. CASE WalletRejects(t)
    <3>1. Proper(t, "WALLET_REJECTED", None)
      BY <2>1 DEF WalletRejects, Proper, Named, EventStatus
    <3> QED BY <2>1, <3>1, AppendMoves DEF WalletRejects
  <2>2. CASE KeepSignature(t)
    <3>1. c.digest \in Digests /\ c.at = "wallet"
      BY <2>2 DEF KeepSignature, IInv, CallsKnow, Knows, Prompting
    <3>2. Proper(t, "SIGNED", c.digest)
      BY <3>1 DEF Proper, Named, EventStatus
    <3> QED BY <2>2, <3>2, AppendMoves DEF KeepSignature
  <2>3. ASSUME c.at \in Following
        PROVE  c.plan.digest \in Digests
    BY <2>3, FollowingKnows
  <2>4. CASE AppendUnknown(t)
    <3>1. Proper(t, "OUTCOME_UNKNOWN", c.plan.digest)
      BY <2>3, <2>4 DEF AppendUnknown, Proper, Named, EventStatus, Following
    <3> QED BY <2>4, <3>1, AppendMoves DEF AppendUnknown
  <2>5. CASE AppendFailure(t)
    <3>1. fate[c.plan.digest] = "failure"
      BY <2>5 DEF AppendFailure, IInv, CallsKnow, Knows
    <3>2. Proper(t, "FINALIZED_FAILURE", c.plan.digest)
      BY <2>3, <2>5, <3>1 DEF AppendFailure, Proper, Named, EventStatus, Following
    <3> QED BY <2>5, <3>2, AppendMoves DEF AppendFailure
  <2>6. CASE FinalizeSuccess(t)
    <3>1. fate[c.plan.digest] = "success"
      BY <2>6 DEF FinalizeSuccess, IInv, CallsKnow, Knows
    <3>2. Proper(t, "FINALIZED_SUCCESS", c.plan.digest)
      BY <2>3, <2>6, <3>1 DEF FinalizeSuccess, Proper, Named, EventStatus, Following
    <3> QED BY <2>6, <3>2, AppendMoves DEF FinalizeSuccess
  <2>7. CASE AppendAccepted(t)
    <3>1. Proper(t, "BROADCAST_ACCEPTED", c.plan.digest)
      BY <2>3, <2>7 DEF AppendAccepted, Proper, Named, EventStatus, Following
    <3> QED BY <2>7, <3>1, AppendMoves DEF AppendAccepted
  <2>8. CASE AppendPending(t)
    <3>1. Proper(t, "OUTCOME_PENDING", c.plan.digest)
      BY <2>3, <2>8 DEF AppendPending, Proper, Named, EventStatus, Following
    <3>2. CASE UNCHANGED logVars
      BY <2>8, <3>2, QuietMoves DEF AppendPending
    <3>3. CASE AppendEvent(c.attempt, Rev(t), "OUTCOME_PENDING", c.plan.digest)
      BY <2>8, <3>1, <3>3, AppendMoves DEF AppendPending
    <3> QED BY <2>8, <3>2, <3>3 DEF AppendPending
  <2> QED BY <1>5, <2>1, <2>2, <2>4, <2>5, <2>6, <2>7, <2>8
<1>6. ASSUME NEW t \in Tabs,
             QueryTransaction(t) \/ StartReplay(t) \/ SignReviewed(t) \/ Abandon(t)
      PROVE  UNCHANGED Sequence!seqVars
  BY <1>6, QuietMoves DEF QueryTransaction, StartReplay, SignReviewed, Abandon
<1>7. ASSUME NEW t \in Tabs, Broadcast(t)
      PROVE  [Sequence!SeqNext]_(Sequence!seqVars)
  <2> DEFINE d == call[t].plan.digest
  <2>1. /\ call[t].at = "replay" /\ sent' = sent \cup {d}
        /\ UNCHANGED <<logVars, fate>>
    BY <1>7 DEF Broadcast
  <2>2. /\ d \in Digests /\ call[t].plan.ordinal \in Ordinals /\ call[t].attempt \in Attempts
        /\ Logged(call[t].attempt, call[t].plan.ordinal, d)
    BY <2>1, FollowingKnows DEF Following
  <2>3. CASE d \in sent
    BY <2>1, <2>3 DEF logVars, Sequence!seqVars
  <2>4. CASE d \notin sent
    <3>1. Placed(call[t].attempt, call[t].plan.ordinal, d)
      BY <2>2 DEF IInv, LogsPlaced
    <3>2. \E a \in Attempts : plans[a].digest = d
      <4>1. CASE plans[call[t].attempt].digest = d
        BY <2>2, <4>1
      <4>2. CASE \E i \in DOMAIN checkpoints[call[t].attempt] :
                     checkpoints[call[t].attempt][i] = d
        BY <2>2, <2>4, <4>2 DEF IInv, ChainTrue
      <4>3. ASSUME call[t].plan.ordinal < Len(checkpoints[call[t].attempt])
            PROVE  call[t].plan.ordinal + 1 \in DOMAIN checkpoints[call[t].attempt]
        <5> DEFINE n == call[t].plan.ordinal
        <5> DEFINE m == Len(checkpoints[call[t].attempt])
        <5>1. n \in Nat /\ m \in Nat /\ n < m /\ DOMAIN checkpoints[call[t].attempt] = 1 .. m
          BY <1>1, <2>2, <4>3, LenProperties DEF Ordinals, StoreTypeOK
        <5> HIDE DEF n, m
        <5>2. n + 1 \in 1 .. m
          BY <5>1
        <5> QED BY <5>1, <5>2 DEF n
      <4> QED BY <3>1, <4>1, <4>2, <4>3 DEF Placed
    <3>3. Sequence!Give(d)
      BY <2>1, <3>2 DEF Sequence!Give, logVars
    <3> HIDE DEF d
    <3> QED BY <2>2, <3>3 DEF Sequence!SeqNext
  <2> QED BY <2>3, <2>4
<1>8. ASSUME NEW d \in Digests, Execute(d) \/ Lapse(d)
      PROVE  [Sequence!SeqNext]_(Sequence!seqVars)
  <2>1. PICK o \in {"success", "failure", "lapsed"} :
            /\ fate[d] = "none" /\ fate' = [fate EXCEPT ![d] = o]
            /\ o \in {"success", "failure"} => d \in sent
            /\ UNCHANGED <<logVars, sent>>
    BY <1>8 DEF Execute, Lapse
  <2>2. Sequence!Settle(d, o)
    BY <2>1 DEF Sequence!Settle, logVars
  <2> QED BY <2>2 DEF Sequence!SeqNext
<1> QED BY <1>2, <1>3, <1>4, <1>5, <1>6, <1>7, <1>8 DEF Next, Advance

-----------------------------------------------------------------------------
(* What the log and the chain say of each other, in one state.             *)

(* A checkpoint is a logged digest of its own ordinal.                     *)
LEMMA CheckpointLogged ==
    ASSUME IInv, NEW a \in Attempts, NEW i \in DOMAIN checkpoints[a]
    PROVE  /\ i \in Nat /\ i - 1 \in Ordinals /\ checkpoints[a][i] \in Digests
           /\ Logged(a, i - 1, checkpoints[a][i])
<1>1. StoreInv /\ StoreTypeOK /\ checkpoints[a] \in Seq(Digests) /\ plans[a] \in Plan
      /\ plans[a].ordinal \in Ordinals
  BY DEF IInv, StoreInv, StoreTypeOK, Plan
<1> DEFINE m == Len(checkpoints[a])
<1>2. m \in Nat /\ DOMAIN checkpoints[a] = 1 .. m /\ checkpoints[a][i] \in Digests
  BY <1>1, LenProperties, ElementOfSeq
<1>3. m <= LastOrdinal + 1
  BY <1>1, PublicationAssumption DEF StoreInv, PrefixAgrees, Ordinals
<1> HIDE DEF m
<1>4. i \in Nat /\ i - 1 \in Ordinals /\ i - 1 < m /\ (i - 1) + 1 = i
  BY <1>2, <1>3, PublicationAssumption DEF Ordinals
<1> DEFINE log == Log(a, i - 1)
<1>5. Head_(log).status = "FINALIZED_SUCCESS" /\ Head_(log).digest = checkpoints[a][i]
  BY <1>1, <1>4 DEF StoreInv, PrefixAgrees, m
<1>6. log \in Seq(Event)
  BY <1>1, <1>4, LogTyped
<1>7. log # <<>> /\ Len(log) \in DOMAIN log /\ Head_(log) = log[Len(log)]
  <2>1. log # <<>>
    BY <1>5, <1>6, HeadTyped
  <2>2. Len(log) \in Nat /\ Len(log) # 0 /\ DOMAIN log = 1 .. Len(log)
    BY <1>6, <2>1, HeadTyped, LenProperties
  <2> QED BY <2>1, <2>2 DEF Head_
<1> QED BY <1>2, <1>4, <1>5, <1>7 DEF Logged

(* A logged digest is at one ordinal, checkpointed or at the cursor.       *)
LEMMA SentGood == IInv => SentIsDurable
<1> SUFFICES ASSUME IInv, NEW d \in sent
             PROVE  LET a == built[d].attempt IN
                    /\ a \in Attempts
                    /\ \E i \in DOMAIN Log(a, built[d].ordinal) :
                           Log(a, built[d].ordinal)[i].digest = d
                    /\ built[d].ordinal <= Len(checkpoints[a])
  BY DEF SentIsDurable
<1> DEFINE a == built[d].attempt
<1> DEFINE o == built[d].ordinal
<1>1. /\ d \in Digests /\ a \in Attempts /\ o \in Ordinals /\ Logged(a, o, d)
      /\ StoreInv /\ StoreTypeOK
  BY DEF IInv, ChainTrue, TypeOK, StoreInv
<1>2. Placed(a, o, d)
  BY <1>1 DEF IInv, LogsPlaced
<1>3. o \in Nat /\ Len(checkpoints[a]) \in Nat
  BY <1>1, LenProperties DEF Ordinals, StoreTypeOK
<1>4. CASE o < Len(checkpoints[a])
  BY <1>1, <1>3, <1>4 DEF Logged
<1>5. CASE plans[a].ordinal = o /\ plans[a].outcome \in Landed
  BY <1>1, <1>3, <1>5, CursorLogged DEF Logged
<1> QED BY <1>2, <1>4, <1>5 DEF Placed

LEMMA SuccessGood == IInv => OneSuccessPerOrdinal
<1> SUFFICES ASSUME IInv, NEW d \in Digests, NEW e \in Digests, fate[d] = "success",
                    fate[e] = "success", built[d] = built[e]
             PROVE  d = e
  BY DEF OneSuccessPerOrdinal
<1> DEFINE a == built[d].attempt
<1> DEFINE o == built[d].ordinal
<1>1. /\ a \in Attempts /\ o \in Ordinals /\ Logged(a, o, d) /\ Logged(a, o, e)
      /\ StoreInv /\ StoreTypeOK
  BY DEF IInv, ChainTrue, TypeOK, StoreInv
<1>2. Placed(a, o, d) /\ Placed(a, o, e)
  BY <1>1 DEF IInv, LogsPlaced
<1>3. o \in Nat /\ Len(checkpoints[a]) \in Nat
  BY <1>1, LenProperties DEF Ordinals, StoreTypeOK
<1>4. plans[a].ordinal = o /\ plans[a].outcome \in Landed => ~(o < Len(checkpoints[a]))
  BY <1>1, <1>3, CursorLogged
<1> QED BY <1>2, <1>4 DEF Placed

LEMMA LogGood == IInv => LogAgreesWithChain
<1> SUFFICES ASSUME IInv PROVE LogAgreesWithChain
  OBVIOUS
<1>1. ASSUME NEW a \in Attempts, NEW i \in DOMAIN checkpoints[a]
      PROVE  /\ fate[checkpoints[a][i]] = "success"
             /\ built[checkpoints[a][i]] = [attempt |-> a, ordinal |-> i - 1]
  BY CheckpointLogged DEF IInv, ChainTrue, LogsPlaced
<1>2. \A a \in Attempts : plans[a].outcome = "FINALIZED_FAILURE" =>
          fate[plans[a].digest] = "failure"
  BY DEF IInv, ChainTrue
<1>3. ASSUME NEW d \in Digests, fate[d] = "success"
      PROVE  LET a == built[d].attempt IN
             \/ \E i \in DOMAIN checkpoints[a] : checkpoints[a][i] = d
             \/ plans[a].digest = d /\ plans[a].outcome \in InFlight
  <2> DEFINE a == built[d].attempt
  <2> DEFINE o == built[d].ordinal
  <2>1. a \in Attempts /\ o \in Ordinals /\ Logged(a, o, d) /\ StoreTypeOK
    BY <1>3 DEF IInv, ChainTrue, TypeOK, StoreInv
  <2>2. Placed(a, o, d)
    BY <2>1 DEF IInv, LogsPlaced
  <2>3. CASE o < Len(checkpoints[a]) /\ checkpoints[a][o + 1] = d
    <3>1. o \in Nat /\ Len(checkpoints[a]) \in Nat
          /\ DOMAIN checkpoints[a] = 1 .. Len(checkpoints[a])
      BY <2>1, LenProperties DEF Ordinals, StoreTypeOK
    <3> DEFINE m == Len(checkpoints[a])
    <3>2. o \in Nat /\ m \in Nat /\ o < m /\ DOMAIN checkpoints[a] = 1 .. m
      BY <2>3, <3>1
    <3> HIDE DEF m, o
    <3>3. o + 1 \in 1 .. m
      BY <3>2
    <3> QED BY <2>3, <3>2, <3>3 DEF o
  <2>4. CASE plans[a].digest = d /\ plans[a].outcome \in Landed
    <3>1. plans[a].outcome # "FINALIZED_FAILURE"
      BY <1>2, <1>3, <2>1, <2>4
    <3> QED BY <2>4, <3>1 DEF Landed
  <2> QED BY <2>2, <2>3, <2>4 DEF Placed
<1> QED BY <1>1, <1>2, <1>3 DEF LogAgreesWithChain

-----------------------------------------------------------------------------
(* Where a digest may be, and what a waiting tab may rely on, is kept by   *)
(* every step of the controller, of the wallets and of the chain.          *)
THEOREM ControllerInvariant == Spec => [](IInv /\ OneActivePerScope)
<1>1. IInv /\ OneActivePerScope /\ [Next]_vars => (IInv /\ OneActivePerScope)'
  BY NextKeeps, StutterKeeps, OneActiveInductive DEF IInv
<1> QED BY InitGood, <1>1, PTL DEF Spec

(* Every variable keeps its type. *)
THEOREM TypeCorrect == Spec => []TypeOK
<1>1. IInv => TypeOK
  BY DEF IInv
<1> QED BY <1>1, ControllerInvariant, PTL

(* The controller is one of the callers that the store's theorems are      *)
(* about: each of its steps is a method of the store, or leaves it alone.  *)
THEOREM ControllerUsesStore == Spec => StoreSpec
<1>1. Init => LogInit
  BY DEF Init
<1>2. IInv /\ [Next]_vars => [StoreNext]_logVars
  BY NextKeeps, StutterKeeps
<1> QED BY <1>1, <1>2, ControllerInvariant, PTL DEF Spec, StoreSpec

(* Bytes are on the network only after their signature is in the log.      *)
THEOREM SentDurable == Spec => []SentIsDurable
BY SentGood, ControllerInvariant, PTL

(* A step of an attempt succeeds at most once, in however many tabs it was *)
(* built.                                                                  *)
THEOREM OneSuccess == Spec => []OneSuccessPerOrdinal
BY SuccessGood, ControllerInvariant, PTL

(* Checkpoints are successes, recorded failures are failures, and a        *)
(* success that is not recorded is still asked for.                        *)
THEOREM LogTrue == Spec => []LogAgreesWithChain
BY LogGood, ControllerInvariant, PTL

LEMMA NextSequence == IInv /\ [Next]_vars => [Sequence!SeqNext]_(Sequence!seqVars)
<1>1. UNCHANGED vars => UNCHANGED Sequence!seqVars
  BY QuietMoves DEF vars
<1> QED BY <1>1, NextMoves

(* The controller implements the sequence of transactions: one in flight,  *)
(* only that one given to the network, the next after it has succeeded.    *)
THEOREM PublishesInSequence == Spec => OneTransactionInFlight
<1>1. Init => Sequence!SeqInit
  BY DEF Init, LogInit, Unused, Sequence!SeqInit
<1> QED BY <1>1, NextSequence, ControllerInvariant, PTL
       DEF Spec, OneTransactionInFlight, Sequence!SeqSpec

(* Signed bytes leave the cursor only for the checkpoint of their success. *)
THEOREM SignedStays == Spec => SignedStaysInFlight
<1>1. IInv /\ [Next]_vars =>
        [\A a \in Attempts :
           plans[a].digest # None /\ plans'[a].digest # plans[a].digest =>
               /\ plans'[a].digest = None
               /\ fate[plans[a].digest] = "success"
               /\ checkpoints'[a] = Append(checkpoints[a], plans[a].digest)]_vars
  <2> SUFFICES ASSUME IInv, [Next]_vars, NEW a \in Attempts, plans[a].digest # None,
                      plans'[a].digest # plans[a].digest
               PROVE  /\ plans'[a].digest = None
                      /\ fate[plans[a].digest] = "success"
                      /\ checkpoints'[a] = Append(checkpoints[a], plans[a].digest)
    OBVIOUS
  <2> DEFINE before == [b \in Attempts |-> plans[b].digest]
  <2> DEFINE after == [b \in Attempts |-> plans'[b].digest]
  <2>1. [Sequence!SeqNext]_(Sequence!seqVars) /\ checkpoints \in [Attempts -> Seq(Digests)]
    BY NextSequence DEF IInv, TypeOK, StoreTypeOK
  <2>2. before[a] = plans[a].digest /\ after[a] = plans'[a].digest
    OBVIOUS
  <2>3. CASE UNCHANGED Sequence!seqVars
    BY <2>2, <2>3 DEF Sequence!seqVars
  <2>4. ASSUME NEW b \in Attempts, Sequence!Finish(b)
        PROVE  /\ plans'[a].digest = None
               /\ fate[plans[a].digest] = "success"
               /\ checkpoints'[a] = Append(checkpoints[a], plans[a].digest)
    <3>1. /\ after = [before EXCEPT ![b] = None] /\ fate[before[b]] = "success"
          /\ checkpoints' = [checkpoints EXCEPT ![b] = Append(@, before[b])]
      BY <2>4 DEF Sequence!Finish
    <3> HIDE DEF before, after
    <3>2. DOMAIN before = Attempts
      BY DEF before
    <3>3. a = b
      BY <2>2, <3>1, <3>2
    <3> QED BY <2>1, <2>2, <3>1, <3>2, <3>3
  <2>5. ASSUME NEW b \in Attempts, NEW d \in Digests, Sequence!TakeUp(b, d)
        PROVE  FALSE
    <3>1. after = [before EXCEPT ![b] = d] /\ before[b] = None
      BY <2>5 DEF Sequence!TakeUp
    <3> HIDE DEF before, after
    <3>2. DOMAIN before = Attempts
      BY DEF before
    <3> QED BY <2>2, <3>1, <3>2
  <2>6. ASSUME NEW d \in Digests,
               Sequence!Give(d) \/ \E o \in {"success", "failure", "lapsed"} : Sequence!Settle(d, o)
        PROVE  FALSE
    <3>1. after = before
      BY <2>6 DEF Sequence!Give, Sequence!Settle
    <3> HIDE DEF before, after
    <3> QED BY <2>2, <3>1
  <2> QED BY <2>1, <2>3, <2>4, <2>5, <2>6 DEF Sequence!SeqNext
<1> QED BY <1>1, ControllerInvariant, PTL DEF Spec, SignedStaysInFlight
=============================================================================
