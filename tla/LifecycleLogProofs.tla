-------------------------- MODULE LifecycleLogProofs --------------------------
(***************************************************************************)
(* Of every scope one transaction is in flight: the heads of the log name  *)
(* what is open, and the log implements SingleFlight, for any tabs,        *)
(* scopes, versions and epochs.                                            *)
(***************************************************************************)
EXTENDS LifecycleLog, TLAPS

(* What a call knows of the transaction it is about. *)
Reading == {"loaded", "answered", "counted", "checked"}

CallsOK == \A t \in Tabs :
    /\ call[t].at # "idle" => call[t].build \in Builds
    /\ call[t].at \in Reading => records[call[t].build] # "ABSENT"

AnswersTrue == \A t \in Tabs :
    /\ call[t].reply = "SUCCESS" => fate[call[t].build] = "success"
    /\ call[t].reply = "FAILURE" => fate[call[t].build] = "failure"
    /\ call[t].reply = "LAPSED" => /\ fate[call[t].build] = "none"
                                   /\ epoch > call[t].build.expiry
    /\ call[t].reply # "NONE" => call[t].at = "answered"

RecordsTrue == \A b \in Builds :
    /\ records[b] = "FINALIZED_SUCCESS" => fate[b] = "success"
    /\ records[b] = "FINALIZED_FAILURE" => fate[b] = "failure"
    /\ records[b] = "EXPIRED_NOT_FOUND" => fate[b] = "none" /\ epoch > b.expiry
    /\ b \in sent => records[b] # "ABSENT"

(* The inductive invariant. *)
IInv == /\ TypeOK /\ HeadsNameWhatIsOpen
        /\ CallsOK /\ AnswersTrue /\ RecordsTrue

USE LifecycleAssumption

-----------------------------------------------------------------------------

LEMMA CallTyped ==
    ASSUME TypeOK, NEW t \in Tabs
    PROVE  /\ call[t] \in Call
           /\ call[t].at \in Steps
           /\ call[t].build \in Builds \cup {None}
           /\ call[t].current \in BOOLEAN
           /\ call[t].reply \in Replies
    BY DEF TypeOK, Call

LEMMA InitInv == Init => IInv
  <1> SUFFICES ASSUME Init PROVE IInv
      OBVIOUS
  <1>1. Idle \in Call
      BY DEF Idle, Call, Steps, Replies
  <1>2. TypeOK
      BY <1>1 DEF Init, TypeOK, Status, Terminal, Unsettled
  <1>3. HeadsNameWhatIsOpen
      BY DEF Init, HeadsNameWhatIsOpen, Unsettled
  <1>4. CallsOK /\ AnswersTrue /\ RecordsTrue
      BY DEF Init, CallsOK, AnswersTrue, RecordsTrue, Idle, Reading
  <1> QED
      BY <1>2, <1>3, <1>4 DEF IInv

-----------------------------------------------------------------------------
(* Steps by how they change the calls.                                     *)

(* A call that returns, or begins, keeps every fact about calls.           *)
LEMMA CallTypeKept ==
    ASSUME TypeOK, NEW t \in Tabs, NEW c \in Call,
           call' = [call EXCEPT ![t] = c]
    PROVE  /\ call' \in [Tabs -> Call]
           /\ call'[t] = c
           /\ \A u \in Tabs : u # t => call'[u] = call[u]
    BY DEF TypeOK

LEMMA OvertakeKept ==
    ASSUME TypeOK, NEW t \in Tabs, NEW b \in Builds,
           NEW at \in {"idle", "counted"}, Overtake(t, at, b)
    PROVE  /\ call' \in [Tabs -> Call]
           /\ call'[t].at = at /\ call'[t].reply = "NONE"
           /\ at # "idle" => call'[t].build = b
           /\ \A u \in Tabs : u # t => /\ call'[u].at = call[u].at
                                       /\ call'[u].build = call[u].build
                                       /\ call'[u].reply = call[u].reply
  <1> DEFINE i == Idle
             j == [Idle EXCEPT !.at = at, !.build = b]
             k == [u \in Tabs |-> [call[u] EXCEPT !.current = FALSE]]
  <1>1. /\ i \in Call /\ i.at = "idle" /\ i.reply = "NONE"
        /\ j \in Call /\ j.at = at /\ j.reply = "NONE" /\ j.build = b
      BY DEF Idle, Call, Steps, Replies
  <1>2. ASSUME NEW u \in Tabs
        PROVE  /\ k[u] \in Call /\ k[u].at = call[u].at
               /\ k[u].build = call[u].build /\ k[u].reply = call[u].reply
      BY CallTyped DEF Call
  <1>3. call' = [u \in Tabs |->
            IF u = t THEN IF at = "idle" THEN i ELSE j
            ELSE IF call[u].build = b THEN k[u] ELSE call[u]]
      BY DEF Overtake
  <1>4. \A u \in Tabs : call[u] \in Call
      BY CallTyped
  <1> HIDE DEF i, j, k
  <1> QED
      BY <1>1, <1>2, <1>3, <1>4

(* A step that changes no log, only a call, and perhaps sends.             *)
LEMMA CallMoves ==
    ASSUME IInv, NEW t \in Tabs, NEW c \in Call,
           call' = [call EXCEPT ![t] = c],
           UNCHANGED <<logVars, fate, version, epoch>>,
           doubts' \in 0 .. MaxDoubts,
           \A b \in sent' : b \in Builds /\ records[b] # "ABSENT",
           c.at # "idle" => c.build \in Builds,
           c.at \in Reading => records[c.build] # "ABSENT",
           c.reply # "NONE" => c.at = "answered",
           c.reply = "SUCCESS" => fate[c.build] = "success",
           c.reply = "FAILURE" => fate[c.build] = "failure",
           c.reply = "LAPSED" => fate[c.build] = "none" /\ epoch > c.build.expiry
    PROVE  IInv'
  <1> TypeOK /\ HeadsNameWhatIsOpen /\ CallsOK /\ AnswersTrue /\ RecordsTrue
      BY DEF IInv
  <1>1. /\ call' \in [Tabs -> Call]
        /\ call'[t] = c
        /\ \A u \in Tabs : u # t => call'[u] = call[u]
      BY CallTypeKept
  <1>2. TypeOK'
      BY <1>1 DEF TypeOK, logVars
  <1>3. HeadsNameWhatIsOpen'
      BY DEF HeadsNameWhatIsOpen, logVars, Head
  <1>4. CallsOK'
      BY <1>1 DEF CallsOK, logVars
  <1>5. AnswersTrue'
      BY <1>1 DEF AnswersTrue
  <1>6. RecordsTrue'
      BY DEF RecordsTrue, logVars
  <1> QED
      BY <1>2, <1>3, <1>4, <1>5, <1>6 DEF IInv

LEMMA ReturnMoves ==
    ASSUME IInv, NEW t \in Tabs, Return(t),
           UNCHANGED <<logVars, fate, version, epoch>>,
           doubts' \in 0 .. MaxDoubts,
           \A b \in sent' : b \in Builds /\ records[b] # "ABSENT"
    PROVE  IInv'
  <1> DEFINE i == Idle
  <1>1. i \in Call /\ i.at = "idle" /\ i.reply = "NONE"
      BY DEF Idle, Call, Steps, Replies
  <1>2. call' = [call EXCEPT ![t] = i]
      BY DEF Return
  <1> HIDE DEF i
  <1> QED
      BY <1>1, <1>2, CallMoves DEF Reading

LEMMA SentRecorded ==
    ASSUME IInv
    PROVE  \A b \in sent : b \in Builds /\ records[b] # "ABSENT"
    BY DEF IInv, TypeOK, RecordsTrue

-----------------------------------------------------------------------------
(* One lemma per action that leaves the log alone.                         *)

LEMMA PrepareInv ==
    ASSUME IInv, NEW t \in Tabs, NEW s \in Scopes, Prepare(t, s)
    PROVE  IInv'
  <1> DEFINE b == [scope |-> s, at |-> version, expiry |-> epoch + 1]
             c == [Idle EXCEPT !.at = "prepared", !.build = b]
  <1>1. b \in Builds
      BY DEF IInv, TypeOK, Prepare, Builds
  <1>2. /\ c \in Call /\ c.at = "prepared" /\ c.build \in Builds
        /\ c.reply = "NONE"
      BY <1>1 DEF Idle, Call, Steps, Replies
  <1>3. call' = [call EXCEPT ![t] = c]
      BY DEF Prepare
  <1>4. /\ UNCHANGED <<logVars, fate, version, epoch>> /\ sent' = sent
        /\ doubts' \in 0 .. MaxDoubts
      BY DEF Prepare, chainVars, IInv, TypeOK
  <1> HIDE DEF b, c
  <1> QED
      BY <1>2, <1>3, <1>4, SentRecorded, CallMoves DEF Reading

LEMMA ReclaimInv ==
    ASSUME IInv, NEW t \in Tabs, NEW s \in Scopes, Reclaim(t, s)
    PROVE  IInv'
  <1> DEFINE b == active[s]
             c == [Idle EXCEPT !.at = "releasing", !.build = b, !.current = TRUE]
  <1>1. b \in Builds
      BY DEF IInv, TypeOK, Reclaim
  <1>2. /\ c \in Call /\ c.at = "releasing" /\ c.build \in Builds
        /\ c.reply = "NONE"
      BY <1>1 DEF Idle, Call, Steps, Replies
  <1>3. call' = [call EXCEPT ![t] = c]
      BY DEF Reclaim
  <1>4. /\ UNCHANGED <<logVars, fate, version, epoch>> /\ sent' = sent
        /\ doubts' \in 0 .. MaxDoubts
      BY DEF Reclaim, chainVars, IInv, TypeOK
  <1> HIDE DEF b, c
  <1> QED
      BY <1>2, <1>3, <1>4, SentRecorded, CallMoves DEF Reading

LEMMA HandleSignatureFailureInv ==
    ASSUME IInv, NEW t \in Tabs, HandleSignatureFailure(t)
    PROVE  IInv'
  <1> DEFINE c == [call[t] EXCEPT !.at = "releasing", !.current = TRUE]
  <1>1. call[t] \in Call /\ call[t].build \in Builds /\ call[t].reply = "NONE"
      BY CallTyped DEF IInv, CallsOK, AnswersTrue, HandleSignatureFailure
  <1>2. /\ c \in Call /\ c.at = "releasing" /\ c.build \in Builds
        /\ c.reply = "NONE"
      BY <1>1 DEF Call, Steps
  <1>3. call' = [call EXCEPT ![t] = c]
      BY DEF HandleSignatureFailure
  <1>4. /\ UNCHANGED <<logVars, fate, version, epoch>> /\ sent' = sent
        /\ doubts' \in 0 .. MaxDoubts
      BY DEF HandleSignatureFailure, chainVars, IInv, TypeOK
  <1> HIDE DEF c
  <1> QED
      BY <1>2, <1>3, <1>4, SentRecorded, CallMoves DEF Reading

LEMMA RecoverInv ==
    ASSUME IInv, NEW t \in Tabs, NEW b \in Builds, Recover(t, b)
    PROVE  IInv'
  <1> DEFINE c == [Idle EXCEPT !.at = "loaded", !.build = b, !.current = TRUE]
  <1>1. /\ c \in Call /\ c.at = "loaded" /\ c.build = b
        /\ c.reply = "NONE"
      BY DEF Idle, Call, Steps, Replies
  <1>2. call' = [call EXCEPT ![t] = c] /\ records[b] # "ABSENT"
      BY DEF Recover
  <1>3. /\ UNCHANGED <<logVars, fate, version, epoch>> /\ sent' = sent
        /\ doubts' \in 0 .. MaxDoubts
      BY DEF Recover, chainVars, IInv, TypeOK
  <1> HIDE DEF c
  <1> QED
      BY <1>1, <1>2, <1>3, SentRecorded, CallMoves DEF Reading

LEMMA QueryInv ==
    ASSUME IInv, NEW t \in Tabs, QueryTransaction(t)
    PROVE  IInv'
  <1> DEFINE b == call[t].build
  <1>1. call[t] \in Call /\ b \in Builds /\ records[b] # "ABSENT"
      BY CallTyped DEF IInv, CallsOK, QueryTransaction, Reading
  <1>2. PICK reply \in Replies :
            /\ call' = [call EXCEPT ![t].at = "answered", ![t].reply = reply]
            /\ reply \in Answers(b) \/ reply = "PENDING"
            /\ doubts' \in {doubts, doubts + 1}
            /\ doubts' \in 0 .. MaxDoubts
      BY DEF QueryTransaction, Answers, Replies, IInv, TypeOK
  <1>3. /\ reply = "SUCCESS" => fate[b] = "success"
        /\ reply = "FAILURE" => fate[b] = "failure"
        /\ reply = "LAPSED" => fate[b] = "none" /\ epoch > b.expiry
      BY <1>1, <1>2 DEF Answers, IInv, TypeOK
  <1> DEFINE c == [call[t] EXCEPT !.at = "answered", !.reply = reply]
  <1>4. /\ c \in Call /\ c.at = "answered" /\ c.build = b
        /\ c.reply = reply
      BY <1>1 DEF Call, Steps
  <1>5. call' = [call EXCEPT ![t] = c]
      BY <1>2
  <1>6. /\ UNCHANGED <<logVars, fate, version, epoch>> /\ sent' = sent
      BY DEF QueryTransaction, chainVars
  <1> HIDE DEF c, b
  <1> QED
      BY <1>1, <1>2, <1>3, <1>4, <1>5, <1>6, SentRecorded, CallMoves DEF Reading

LEMMA CheckContextInv ==
    ASSUME IInv, NEW t \in Tabs, CheckContext(t)
    PROVE  IInv'
  <1> DEFINE c == [call[t] EXCEPT !.at = "checked"]
  <1>1. /\ call[t] \in Call /\ call[t].build \in Builds
        /\ records[call[t].build] # "ABSENT" /\ call[t].reply = "NONE"
      BY CallTyped DEF IInv, CallsOK, AnswersTrue, CheckContext, Reading
  <1>2. /\ c \in Call /\ c.at = "checked" /\ c.build = call[t].build
        /\ c.reply = "NONE"
      BY <1>1 DEF Call, Steps
  <1>3. call' = [call EXCEPT ![t] = c]
      BY DEF CheckContext, Goto
  <1>4. /\ UNCHANGED <<logVars, fate, version, epoch>> /\ sent' = sent
        /\ doubts' \in 0 .. MaxDoubts
      BY DEF CheckContext, chainVars, IInv, TypeOK
  <1> HIDE DEF c
  <1> QED
      BY <1>1, <1>2, <1>3, <1>4, SentRecorded, CallMoves DEF Reading

LEMMA ExecuteInv ==
    ASSUME IInv, NEW t \in Tabs, ExecuteTransaction(t)
    PROVE  IInv'
  <1>1. call[t].build \in Builds /\ records[call[t].build] # "ABSENT"
      BY DEF IInv, CallsOK, ExecuteTransaction, Reading
  <1>2. /\ UNCHANGED <<logVars, fate, version, epoch>>
        /\ doubts' \in 0 .. MaxDoubts
        /\ sent' = sent \cup {call[t].build}
      BY DEF ExecuteTransaction, IInv, TypeOK
  <1>3. \A b \in sent' : b \in Builds /\ records[b] # "ABSENT"
      BY <1>1, <1>2, SentRecorded
  <1> QED
      BY <1>2, <1>3, ReturnMoves DEF ExecuteTransaction

LEMMA EndInv ==
    ASSUME IInv, NEW t \in Tabs, Refused(t) \/ GiveUp(t)
    PROVE  IInv'
  <1>1. /\ UNCHANGED <<logVars, fate, version, epoch>> /\ sent' = sent
        /\ doubts' \in 0 .. MaxDoubts /\ Return(t)
      BY DEF Refused, GiveUp, chainVars, IInv, TypeOK
  <1> QED
      BY <1>1, SentRecorded, ReturnMoves

-----------------------------------------------------------------------------
(* One lemma per action that writes to the log, or is the chain's.         *)

LEMMA ReserveInv ==
    ASSUME IInv, NEW t \in Tabs, ReserveIntent(t)
    PROVE  IInv'
  <1> DEFINE b == call[t].build
             c == [call[t] EXCEPT !.at = "prompt"]
  <1> TypeOK /\ HeadsNameWhatIsOpen /\ CallsOK /\ AnswersTrue /\ RecordsTrue
      BY DEF IInv
  <1>1. call[t] \in Call /\ b \in Builds /\ call[t].reply = "NONE"
      BY CallTyped DEF CallsOK, AnswersTrue, ReserveIntent
  <1>2. c \in Call /\ c.at = "prompt" /\ c.build = b /\ c.reply = "NONE"
      BY <1>1 DEF Call, Steps
  <1>3. call' = [call EXCEPT ![t] = c]
      BY DEF ReserveIntent, Goto
  <1>4. /\ records[b] = "ABSENT" /\ b \notin intents
        /\ active[b.scope] # None => records[active[b.scope]] = "FINALIZED_SUCCESS"
        /\ intents' = intents \cup {b}
        /\ active' = [active EXCEPT ![b.scope] = b]
        /\ UNCHANGED <<records, sent, fate, version, epoch, doubts>>
      BY DEF ReserveIntent, CanReserve, Vacant, chainVars
  <1>5. b.scope \in Scopes
      BY <1>1 DEF Builds
  <1> HIDE DEF b, c
  <1>6. /\ call' \in [Tabs -> Call] /\ call'[t] = c
        /\ \A u \in Tabs : u # t => call'[u] = call[u]
      BY <1>2, <1>3, CallTypeKept
  <1>7. TypeOK'
      BY <1>1, <1>4, <1>5, <1>6 DEF TypeOK
  <1>8. HeadsNameWhatIsOpen'
    <2>1. \A d \in Builds : d \in intents \/ records[d] \in Unsettled
              => d.scope # b.scope
        BY <1>4 DEF HeadsNameWhatIsOpen, Head, Unsettled, TypeOK
    <2>2. \A d \in Builds : d \in intents' \/ records'[d] \in Unsettled
              => active'[d.scope] = d
        BY <1>4, <1>5, <2>1 DEF HeadsNameWhatIsOpen, Head, TypeOK, Builds, Unsettled
    <2>3. \A d \in intents' : records'[d] = "ABSENT"
        BY <1>4 DEF HeadsNameWhatIsOpen
    <2>4. \A s \in Scopes : active'[s] # None =>
              /\ active'[s].scope = s
              /\ \/ active'[s] \in intents'
                 \/ records'[active'[s]] \in Unsettled \cup {"FINALIZED_SUCCESS"}
        BY <1>4, <1>5 DEF HeadsNameWhatIsOpen, TypeOK
    <2> QED
        BY <2>2, <2>3, <2>4 DEF HeadsNameWhatIsOpen, Head
  <1>9. CallsOK' /\ AnswersTrue' /\ RecordsTrue'
      BY <1>1, <1>2, <1>4, <1>6 DEF CallsOK, AnswersTrue, RecordsTrue, Reading
  <1> QED
      BY <1>7, <1>8, <1>9 DEF IInv

LEMMA PutInv ==
    ASSUME IInv, NEW t \in Tabs, PutSignedArtifact(t)
    PROVE  IInv'
  <1> DEFINE b == call[t].build
  <1> TypeOK /\ HeadsNameWhatIsOpen /\ CallsOK /\ AnswersTrue /\ RecordsTrue
      BY DEF IInv
  <1>1. b \in Builds
      BY DEF CallsOK, PutSignedArtifact
  <1>2. /\ b \in intents /\ Head(b) /\ records[b] = "ABSENT"
        /\ records' = [records EXCEPT ![b] = "SIGNED_DURABLE"]
        /\ intents' = intents \ {b}
        /\ Overtake(t, "idle", b)
        /\ UNCHANGED <<active, sent, fate, version, epoch, doubts>>
      BY DEF PutSignedArtifact, CanPut, chainVars
  <1> HIDE DEF b
  <1>3. /\ call' \in [Tabs -> Call]
        /\ call'[t].at = "idle" /\ call'[t].reply = "NONE"
        /\ \A u \in Tabs : u # t => /\ call'[u].at = call[u].at
                                    /\ call'[u].build = call[u].build
                                    /\ call'[u].reply = call[u].reply
      BY <1>1, <1>2, OvertakeKept
  <1>4. TypeOK'
      BY <1>1, <1>2, <1>3 DEF TypeOK, Status, Unsettled
  <1>5. HeadsNameWhatIsOpen'
    <2>1. \A d \in Builds : d \in intents' \/ records'[d] \in Unsettled
              => active'[d.scope] = d
        BY <1>1, <1>2 DEF HeadsNameWhatIsOpen, Head, TypeOK
    <2>2. \A d \in intents' : records'[d] = "ABSENT"
        BY <1>1, <1>2 DEF HeadsNameWhatIsOpen, TypeOK
    <2>3. \A s \in Scopes : active'[s] # None =>
              /\ active'[s].scope = s
              /\ \/ active'[s] \in intents'
                 \/ records'[active'[s]] \in Unsettled \cup {"FINALIZED_SUCCESS"}
        BY <1>1, <1>2 DEF HeadsNameWhatIsOpen, TypeOK, Unsettled
    <2> QED
        BY <2>1, <2>2, <2>3 DEF HeadsNameWhatIsOpen, Head
  <1>6. CallsOK'
      BY <1>1, <1>2, <1>3 DEF CallsOK, TypeOK, Reading
  <1>7. AnswersTrue' /\ RecordsTrue'
      BY <1>1, <1>2, <1>3 DEF AnswersTrue, RecordsTrue, TypeOK
  <1> QED
      BY <1>4, <1>5, <1>6, <1>7 DEF IInv

LEMMA ReleaseInv ==
    ASSUME IInv, NEW t \in Tabs, ReleaseIntent(t)
    PROVE  IInv'
  <1> DEFINE b == call[t].build
  <1> TypeOK /\ HeadsNameWhatIsOpen /\ CallsOK /\ AnswersTrue /\ RecordsTrue
      BY DEF IInv
  <1>1. b \in Builds
      BY DEF CallsOK, ReleaseIntent
  <1>2. /\ b \in intents /\ Head(b) /\ records[b] = "ABSENT"
        /\ intents' = intents \ {b}
        /\ active' = [active EXCEPT ![b.scope] = None]
        /\ Overtake(t, "idle", b)
        /\ UNCHANGED <<records, sent, fate, version, epoch, doubts>>
      BY DEF ReleaseIntent, CanRelease, chainVars
  <1>3. b.scope \in Scopes
      BY <1>1 DEF Builds
  <1> HIDE DEF b
  <1>4. /\ call' \in [Tabs -> Call]
        /\ call'[t].at = "idle" /\ call'[t].reply = "NONE"
        /\ \A u \in Tabs : u # t => /\ call'[u].at = call[u].at
                                    /\ call'[u].build = call[u].build
                                    /\ call'[u].reply = call[u].reply
      BY <1>1, <1>2, OvertakeKept
  <1>5. TypeOK'
      BY <1>1, <1>2, <1>3, <1>4 DEF TypeOK
  <1>6. HeadsNameWhatIsOpen'
    <2>1. \A d \in Builds : d \in intents' \/ records'[d] \in Unsettled
              => active'[d.scope] = d
      <3> SUFFICES ASSUME NEW d \in Builds, d \in intents' \/ records'[d] \in Unsettled
                   PROVE  active'[d.scope] = d
          OBVIOUS
      <3>1. d # b /\ active[d.scope] = d
          BY <1>2 DEF HeadsNameWhatIsOpen, Head, Unsettled
      <3>2. d.scope # b.scope
          BY <1>2, <3>1 DEF Head
      <3> QED
          BY <1>2, <1>3, <3>1, <3>2 DEF TypeOK
    <2>2. \A d \in intents' : records'[d] = "ABSENT"
        BY <1>2 DEF HeadsNameWhatIsOpen
    <2>3. \A s \in Scopes : active'[s] # None =>
              /\ active'[s].scope = s
              /\ \/ active'[s] \in intents'
                 \/ records'[active'[s]] \in Unsettled \cup {"FINALIZED_SUCCESS"}
        BY <1>1, <1>2, <1>3 DEF HeadsNameWhatIsOpen, TypeOK, Unsettled, Head
    <2> QED
        BY <2>1, <2>2, <2>3 DEF HeadsNameWhatIsOpen, Head
  <1>7. CallsOK'
      BY <1>2, <1>4 DEF CallsOK, Reading
  <1>8. AnswersTrue' /\ RecordsTrue'
      BY <1>2, <1>4 DEF AnswersTrue, RecordsTrue
  <1> QED
      BY <1>5, <1>6, <1>7, <1>8 DEF IInv

(* What a write makes of a record, and what it may be.                     *)
LEMMA AdvanceFacts ==
    ASSUME IInv, NEW t \in Tabs, Advance(t)
    PROVE  LET b == call[t].build
               status == Outcome(call[t].reply)
           IN  /\ b \in Builds /\ b.scope \in Scopes
               /\ records[b] \in Unsettled /\ Head(b)
               /\ records' = [records EXCEPT ![b] = status]
               /\ active' = IF status \in Terminal
                            THEN [active EXCEPT ![b.scope] = None] ELSE active
               /\ UNCHANGED <<intents, sent, fate, version, epoch, doubts>>
               /\ \/ status = "OUTCOME_PENDING"
                  \/ status = "FINALIZED_SUCCESS" /\ fate[b] = "success"
                  \/ status = "FINALIZED_FAILURE" /\ fate[b] = "failure"
                  \/ status = "EXPIRED_NOT_FOUND" /\ fate[b] = "none" /\ epoch > b.expiry
  <1>1. call[t].build \in Builds /\ call[t].build.scope \in Scopes
      BY DEF IInv, CallsOK, Advance, Builds
  <1>2. /\ call[t].reply = "SUCCESS" => fate[call[t].build] = "success"
        /\ call[t].reply = "FAILURE" => fate[call[t].build] = "failure"
        /\ call[t].reply = "LAPSED" => /\ fate[call[t].build] = "none"
                                       /\ epoch > call[t].build.expiry
      BY DEF IInv, AnswersTrue
  <1> QED
      BY <1>1, <1>2 DEF Advance, CanAdvance, Outcome, chainVars

LEMMA AdvanceInv ==
    ASSUME IInv, NEW t \in Tabs, Advance(t)
    PROVE  IInv'
  <1> DEFINE b == call[t].build
             status == Outcome(call[t].reply)
             at == IF call[t].reply = "NOT_FOUND" THEN "counted" ELSE "idle"
  <1> TypeOK /\ HeadsNameWhatIsOpen /\ CallsOK /\ AnswersTrue /\ RecordsTrue
      BY DEF IInv
  <1>1. /\ b \in Builds /\ b.scope \in Scopes
        /\ records[b] \in Unsettled /\ Head(b)
        /\ records' = [records EXCEPT ![b] = status]
        /\ active' = IF status \in Terminal
                     THEN [active EXCEPT ![b.scope] = None] ELSE active
        /\ UNCHANGED <<intents, sent, fate, version, epoch, doubts>>
      BY AdvanceFacts
  <1>2. \/ status = "OUTCOME_PENDING"
        \/ status = "FINALIZED_SUCCESS" /\ fate[b] = "success"
        \/ status = "FINALIZED_FAILURE" /\ fate[b] = "failure"
        \/ status = "EXPIRED_NOT_FOUND" /\ fate[b] = "none" /\ epoch > b.expiry
      BY AdvanceFacts
  <1>3. at \in {"idle", "counted"} /\ Overtake(t, at, b)
      BY DEF Advance
  <1> HIDE DEF b, status, at
  <1>4. /\ call' \in [Tabs -> Call]
        /\ call'[t].at = at /\ call'[t].reply = "NONE"
        /\ at # "idle" => call'[t].build = b
        /\ \A u \in Tabs : u # t => /\ call'[u].at = call[u].at
                                    /\ call'[u].build = call[u].build
                                    /\ call'[u].reply = call[u].reply
      BY <1>1, <1>3, OvertakeKept
  <1>5. TypeOK'
      BY <1>1, <1>2, <1>4 DEF TypeOK, Status, Terminal, Unsettled
  <1>6. HeadsNameWhatIsOpen'
    <2>1. b \notin intents
        BY <1>1 DEF HeadsNameWhatIsOpen, Unsettled
    <2>2. \A d \in Builds : d \in intents' \/ records'[d] \in Unsettled
              => active'[d.scope] = d
      <3> SUFFICES ASSUME NEW d \in Builds, d \in intents' \/ records'[d] \in Unsettled
                   PROVE  active'[d.scope] = d
          OBVIOUS
      <3>1. CASE d = b
          BY <1>1, <2>1, <3>1 DEF Terminal, Unsettled, Head, TypeOK
      <3>2. CASE d # b
        <4>1. active[d.scope] = d
            BY <1>1, <3>2 DEF HeadsNameWhatIsOpen, Head, TypeOK
        <4>2. d.scope # b.scope
            BY <1>1, <3>2, <4>1 DEF Head
        <4> QED
            BY <1>1, <4>1, <4>2 DEF TypeOK
      <3> QED
          BY <3>1, <3>2
    <2>3. \A d \in intents' : records'[d] = "ABSENT"
        BY <1>1, <2>1 DEF HeadsNameWhatIsOpen, TypeOK
    <2>4. \A s \in Scopes : active'[s] # None =>
              /\ active'[s].scope = s
              /\ \/ active'[s] \in intents'
                 \/ records'[active'[s]] \in Unsettled \cup {"FINALIZED_SUCCESS"}
        BY <1>1, <1>2 DEF HeadsNameWhatIsOpen, TypeOK, Unsettled, Terminal, Head
    <2> QED
        BY <2>2, <2>3, <2>4 DEF HeadsNameWhatIsOpen, Head
  <1>7. \A d \in Builds : records[d] # "ABSENT" => records'[d] # "ABSENT"
      BY <1>1, <1>2 DEF TypeOK
  <1>8. CallsOK'
      BY <1>1, <1>3, <1>4, <1>7, <1>2 DEF CallsOK, Reading, TypeOK
  <1>9. AnswersTrue'
      BY <1>1, <1>4 DEF AnswersTrue
  <1>10. RecordsTrue'
      BY <1>1, <1>2 DEF RecordsTrue, TypeOK
  <1> QED
      BY <1>5, <1>6, <1>8, <1>9, <1>10 DEF IInv

LEMMA ChainInv ==
    ASSUME IInv,
           \/ \E b \in Builds, outcome \in {"success", "failure"} : Land(b, outcome)
           \/ UseElsewhere
           \/ NextEpoch
    PROVE  IInv'
  <1> TypeOK /\ HeadsNameWhatIsOpen /\ CallsOK /\ AnswersTrue /\ RecordsTrue
      BY DEF IInv
  <1>1. UNCHANGED <<logVars, call, sent, doubts>> /\ epoch' \in {epoch, epoch + 1}
      BY DEF Land, UseElsewhere, NextEpoch
  <1>2. /\ fate' \in [Builds -> {"none", "success", "failure"}]
        /\ \A d \in Builds : fate'[d] # fate[d] => fate[d] = "none" /\ epoch <= d.expiry
      BY DEF Land, UseElsewhere, NextEpoch, TypeOK
  <1>3. TypeOK'
      BY <1>1, <1>2 DEF TypeOK, Land, UseElsewhere, NextEpoch, logVars
  <1>4. HeadsNameWhatIsOpen'
      BY <1>1 DEF HeadsNameWhatIsOpen, logVars, Head
  <1>5. CallsOK'
      BY <1>1 DEF CallsOK, logVars
  <1>6. \A d \in Builds : d.expiry \in Int
      BY DEF Builds
  <1>7. AnswersTrue'
    <2> SUFFICES ASSUME NEW u \in Tabs
                 PROVE  /\ call[u].reply = "SUCCESS" => fate'[call[u].build] = "success"
                        /\ call[u].reply = "FAILURE" => fate'[call[u].build] = "failure"
                        /\ call[u].reply = "LAPSED" => /\ fate'[call[u].build] = "none"
                                                       /\ epoch' > call[u].build.expiry
                        /\ call[u].reply # "NONE" => call[u].at = "answered"
        BY <1>1 DEF AnswersTrue
    <2>1. CASE call[u].reply = "NONE"
        BY <2>1
    <2>2. CASE call[u].reply # "NONE"
      <3>1. call[u].build \in Builds
          BY <2>2 DEF AnswersTrue, CallsOK
      <3> QED
          BY <1>1, <1>2, <1>6, <3>1 DEF AnswersTrue, TypeOK
    <2> QED
        BY <2>1, <2>2
  <1>8. RecordsTrue'
      BY <1>1, <1>2, <1>6 DEF RecordsTrue, TypeOK, logVars
  <1> QED
      BY <1>3, <1>4, <1>5, <1>7, <1>8 DEF IInv

-----------------------------------------------------------------------------
(* The invariant.                                                          *)

LEMMA NextInv == IInv /\ [Next]_vars => IInv'
  <1> SUFFICES ASSUME IInv, [Next]_vars PROVE IInv'
      OBVIOUS
  <1>1. CASE \E t \in Tabs, s \in Scopes : Prepare(t, s) \/ Reclaim(t, s)
      BY <1>1, PrepareInv, ReclaimInv
  <1>2. CASE \E t \in Tabs, b \in Builds : Recover(t, b)
      BY <1>2, RecoverInv
  <1>3. ASSUME NEW t \in Tabs, Step(t) \/ GiveUp(t)
        PROVE  IInv'
      BY <1>3, ReserveInv, PutInv, HandleSignatureFailureInv, ReleaseInv,
         QueryInv, AdvanceInv, CheckContextInv, ExecuteInv, EndInv DEF Step
  <1>4. CASE \/ \E b \in Builds, outcome \in {"success", "failure"} : Land(b, outcome)
             \/ UseElsewhere
             \/ NextEpoch
      BY <1>4, ChainInv
  <1>5. CASE UNCHANGED vars
      BY <1>5 DEF vars, logVars, chainVars, IInv, TypeOK, HeadsNameWhatIsOpen,
                  Head, CallsOK, AnswersTrue, RecordsTrue
  <1> QED
      BY <1>1, <1>2, <1>3, <1>4, <1>5 DEF Next

(* The inductive invariant of the log, the calls and the chain.            *)
THEOREM Inductive == Spec => []IInv
  <1> QED
      BY InitInv, NextInv, PTL DEF Spec

(* Every call, record and transaction keeps its type.                      *)
THEOREM TypeCorrect == Spec => []TypeOK
  <1>1. IInv => TypeOK
      BY DEF IInv
  <1> QED
      BY <1>1, Inductive, PTL

(* The head of a scope names what is open in it, for any number of tabs,   *)
(* prompts, releases and epochs (reserve, put, release and compareAndSwap  *)
(* of createMakerV8LifecyclePersistenceV8).                                *)
THEOREM HeadsExact == Spec => []HeadsNameWhatIsOpen
  <1>1. IInv => HeadsNameWhatIsOpen
      BY DEF IInv
  <1> QED
      BY <1>1, Inductive, PTL

-----------------------------------------------------------------------------
(* The refinement: scope by scope, a step of the log is one of SingleFlight. *)

LEMMA FlightInitially ==
    ASSUME Init, NEW s \in Scopes
    PROVE  Scope(s)!FlightInit
  <1>1. InFlight(s) = None /\ epoch = 0
      BY DEF Init, InFlight
  <1>2. \A b \in BuildsOf(s) : fate[b] = "none" /\ Entry(b) = "open"
      BY DEF Init, Entry, BuildsOf
  <1> QED
      BY <1>1, <1>2 DEF Scope!FlightInit

(* Steps that neither settle nor sign nor land: nothing to be seen.        *)
LEMMA Unseen ==
    ASSUME NEW s \in Scopes, UNCHANGED <<records, fate, epoch>>,
           InFlight(s)' = InFlight(s)
    PROVE  UNCHANGED Scope(s)!flightVars
    BY DEF Scope!flightVars, Entry

LEMMA ReserveUnseen ==
    ASSUME IInv, NEW t \in Tabs, ReserveIntent(t), NEW s \in Scopes
    PROVE  UNCHANGED Scope(s)!flightVars
  <1> DEFINE b == call[t].build
  <1>1. b \in Builds /\ b.scope \in Scopes
      BY DEF IInv, CallsOK, ReserveIntent, Builds
  <1>2. /\ records[b] = "ABSENT"
        /\ active[b.scope] # None => records[active[b.scope]] = "FINALIZED_SUCCESS"
        /\ active' = [active EXCEPT ![b.scope] = b]
        /\ UNCHANGED <<records, fate, epoch>>
      BY DEF ReserveIntent, CanReserve, Vacant, chainVars
  <1>3. InFlight(s)' = InFlight(s)
      BY <1>1, <1>2 DEF InFlight, Unsettled, IInv, TypeOK
  <1> QED
      BY <1>2, <1>3, Unseen

LEMMA ReleaseUnseen ==
    ASSUME IInv, NEW t \in Tabs, ReleaseIntent(t), NEW s \in Scopes
    PROVE  UNCHANGED Scope(s)!flightVars
  <1> DEFINE b == call[t].build
  <1>1. b \in Builds /\ b.scope \in Scopes
      BY DEF IInv, CallsOK, ReleaseIntent, Builds
  <1>2. /\ records[b] = "ABSENT" /\ active[b.scope] = b
        /\ active' = [active EXCEPT ![b.scope] = None]
        /\ UNCHANGED <<records, fate, epoch>>
      BY DEF ReleaseIntent, CanRelease, chainVars, Head
  <1>3. InFlight(s)' = InFlight(s)
      BY <1>1, <1>2 DEF InFlight, Unsettled, IInv, TypeOK
  <1> QED
      BY <1>2, <1>3, Unseen

LEMMA PutLaunches ==
    ASSUME IInv, NEW t \in Tabs, PutSignedArtifact(t), NEW s \in Scopes
    PROVE  [Scope(s)!FlightNext]_(Scope(s)!flightVars)
  <1> DEFINE b == call[t].build
  <1>1. b \in Builds /\ b.scope \in Scopes
      BY DEF IInv, CallsOK, PutSignedArtifact, Builds
  <1>2. /\ records[b] = "ABSENT" /\ active[b.scope] = b
        /\ records' = [records EXCEPT ![b] = "SIGNED_DURABLE"]
        /\ UNCHANGED <<active, fate, epoch>>
      BY DEF PutSignedArtifact, CanPut, chainVars, Head
  <1>3. \A d \in Builds : Entry(d)' = Entry(d)
      BY <1>1, <1>2 DEF Entry, IInv, TypeOK
  <1> HIDE DEF b
  <1>4. CASE b.scope = s
    <2>1. b \in BuildsOf(s)
        BY <1>1, <1>4 DEF BuildsOf
    <2>2. InFlight(s) = None /\ InFlight(s)' = b
        BY <1>1, <1>2, <1>4 DEF InFlight, Unsettled, IInv, TypeOK
    <2>3. Entry(b) = "open"
        BY <1>2 DEF Entry
    <2>4. Scope(s)!Launch(b)
        BY <1>2, <1>3, <2>1, <2>2, <2>3 DEF Scope!Launch, BuildsOf
    <2> QED
        BY <2>1, <2>4 DEF Scope!FlightNext
  <1>5. CASE b.scope # s
    <2>1. active[s] # b
        BY <1>1, <1>2, <1>5 DEF IInv, HeadsNameWhatIsOpen
    <2>2. InFlight(s)' = InFlight(s)
        BY <1>1, <1>2, <2>1 DEF InFlight, IInv, TypeOK
    <2> QED
        BY <1>2, <1>3, <2>2 DEF Scope!flightVars, BuildsOf
  <1> QED
      BY <1>4, <1>5

LEMMA AdvanceRetires ==
    ASSUME IInv, NEW t \in Tabs, Advance(t), NEW s \in Scopes
    PROVE  [Scope(s)!FlightNext]_(Scope(s)!flightVars)
  <1> DEFINE b == call[t].build
             status == Outcome(call[t].reply)
             entry == CASE status = "FINALIZED_SUCCESS" -> "receipt"
                        [] status = "FINALIZED_FAILURE" -> "failure"
                        [] status = "EXPIRED_NOT_FOUND" -> "expired"
                        [] OTHER -> "open"
  <1>1. /\ b \in Builds /\ b.scope \in Scopes
        /\ records[b] \in Unsettled /\ active[b.scope] = b
        /\ records' = [records EXCEPT ![b] = status]
        /\ active' = IF status \in Terminal
                     THEN [active EXCEPT ![b.scope] = None] ELSE active
        /\ UNCHANGED <<fate, epoch>>
      BY AdvanceFacts DEF Head
  <1>2. \/ status = "OUTCOME_PENDING"
        \/ status = "FINALIZED_SUCCESS" /\ fate[b] = "success"
        \/ status = "FINALIZED_FAILURE" /\ fate[b] = "failure"
        \/ status = "EXPIRED_NOT_FOUND" /\ fate[b] = "none" /\ epoch > b.expiry
      BY AdvanceFacts
  <1> HIDE DEF b, status
  <1>3. \A d \in Builds : Entry(d)' = IF d = b THEN entry ELSE Entry(d)
      BY <1>1 DEF Entry, IInv, TypeOK
  <1>4. Entry(b) = "open"
      BY <1>1 DEF Entry, Unsettled
  <1>5. CASE b.scope # s
    <2>1. active[s] # b
        BY <1>1, <1>5 DEF IInv, HeadsNameWhatIsOpen
    <2>2. InFlight(s)' = InFlight(s)
        BY <1>1, <1>5, <2>1 DEF InFlight, IInv, TypeOK
    <2>3. \A d \in BuildsOf(s) : Entry(d)' = Entry(d)
        BY <1>3, <1>5 DEF BuildsOf
    <2> QED
        BY <1>1, <2>2, <2>3 DEF Scope!flightVars, BuildsOf
  <1>6. CASE b.scope = s /\ status = "OUTCOME_PENDING"
    <2>1. InFlight(s)' = InFlight(s)
        BY <1>1, <1>6 DEF InFlight, IInv, TypeOK, Unsettled, Terminal
    <2>2. \A d \in BuildsOf(s) : Entry(d)' = Entry(d)
        BY <1>3, <1>4, <1>6 DEF BuildsOf
    <2> QED
        BY <1>1, <2>1, <2>2 DEF Scope!flightVars, BuildsOf
  <1>7. CASE b.scope = s /\ status # "OUTCOME_PENDING"
    <2>1. b \in BuildsOf(s)
        BY <1>1, <1>7 DEF BuildsOf
    <2>2. InFlight(s) = b /\ InFlight(s)' = None
        BY <1>1, <1>2, <1>7 DEF InFlight, IInv, TypeOK, Unsettled, Terminal
    <2>3. /\ entry \in {"receipt", "failure", "expired"}
          /\ \/ entry = "receipt" /\ fate[b] = "success"
             \/ entry = "failure" /\ fate[b] = "failure"
             \/ entry = "expired" /\ fate[b] = "none" /\ epoch > b.expiry
        BY <1>2, <1>7
    <2> HIDE DEF entry
    <2>4. [d \in BuildsOf(s) |-> Entry(d)]'
              = [[d \in BuildsOf(s) |-> Entry(d)] EXCEPT ![b] = entry]
        BY <1>3, <2>1 DEF BuildsOf
    <2>5. Scope(s)!Retire(b, entry)
        BY <1>1, <2>1, <2>2, <2>3, <2>4 DEF Scope!Retire
    <2> QED
        BY <2>1, <2>3, <2>5 DEF Scope!FlightNext
  <1> QED
      BY <1>5, <1>6, <1>7

LEMMA LandLands ==
    ASSUME IInv, NEW b \in Builds, NEW outcome \in {"success", "failure"},
           Land(b, outcome), NEW s \in Scopes
    PROVE  [Scope(s)!FlightNext]_(Scope(s)!flightVars)
  <1>1. /\ b \in sent /\ fate[b] = "none" /\ epoch <= b.expiry
        /\ fate' = [fate EXCEPT ![b] = outcome]
        /\ UNCHANGED <<records, active, epoch>>
      BY DEF Land, logVars
  <1>2. records[b] \in Unsettled /\ active[b.scope] = b
    <2>1. b.expiry \in Int /\ epoch \in Int
        BY DEF Builds, IInv, TypeOK
    <2>2. records[b] \in Status
        BY DEF IInv, TypeOK
    <2>3. records[b] \in Unsettled
        BY <1>1, <2>1, <2>2 DEF IInv, RecordsTrue, Status, Terminal
    <2> QED
        BY <2>3 DEF IInv, HeadsNameWhatIsOpen, Head
  <1>3. InFlight(s)' = InFlight(s) /\ \A d \in Builds : Entry(d)' = Entry(d)
      BY <1>1 DEF InFlight, Entry
  <1>4. CASE b.scope = s
    <2>1. b \in BuildsOf(s) /\ InFlight(s) = b
        BY <1>2, <1>4 DEF BuildsOf, InFlight
    <2>2. [d \in BuildsOf(s) |-> fate[d]]'
              = [[d \in BuildsOf(s) |-> fate[d]] EXCEPT ![b] = outcome]
        BY <1>1, <2>1 DEF IInv, TypeOK, BuildsOf
    <2>3. Scope(s)!Land(b, outcome)
        BY <1>1, <1>3, <2>1, <2>2 DEF Scope!Land, BuildsOf
    <2> QED
        BY <2>1, <2>3 DEF Scope!FlightNext
  <1>5. CASE b.scope # s
    <2>1. \A d \in BuildsOf(s) : fate'[d] = fate[d]
        BY <1>1, <1>5 DEF BuildsOf, IInv, TypeOK
    <2> QED
        BY <1>1, <1>3, <2>1 DEF Scope!flightVars, BuildsOf
  <1> QED
      BY <1>4, <1>5

LEMMA FlightStep ==
    ASSUME IInv, [Next]_vars, NEW s \in Scopes
    PROVE  [Scope(s)!FlightNext]_(Scope(s)!flightVars)
  <1>1. ASSUME UNCHANGED <<records, active, fate, epoch>>
        PROVE  UNCHANGED Scope(s)!flightVars
      BY <1>1, Unseen DEF InFlight
  <1>2. CASE \E t \in Tabs, r \in Scopes : Prepare(t, r) \/ Reclaim(t, r)
      BY <1>1, <1>2 DEF Prepare, Reclaim, logVars, chainVars
  <1>3. CASE \E t \in Tabs, b \in Builds : Recover(t, b)
      BY <1>1, <1>3 DEF Recover, logVars, chainVars
  <1>4. ASSUME NEW t \in Tabs, Step(t) \/ GiveUp(t)
        PROVE  [Scope(s)!FlightNext]_(Scope(s)!flightVars)
    <2>1. CASE \/ HandleSignatureFailure(t) \/ QueryTransaction(t) \/ CheckContext(t)
               \/ ExecuteTransaction(t) \/ Refused(t) \/ GiveUp(t)
        BY <1>1, <2>1 DEF HandleSignatureFailure, QueryTransaction, CheckContext,
                          ExecuteTransaction, Refused, GiveUp, logVars, chainVars
    <2>2. CASE ReserveIntent(t) \/ ReleaseIntent(t)
        BY <2>2, ReserveUnseen, ReleaseUnseen
    <2>3. CASE PutSignedArtifact(t)
        BY <2>3, PutLaunches
    <2>4. CASE Advance(t)
        BY <2>4, AdvanceRetires
    <2> QED
        BY <1>4, <2>1, <2>2, <2>3, <2>4 DEF Step
  <1>5. CASE \E b \in Builds, outcome \in {"success", "failure"} : Land(b, outcome)
      BY <1>5, LandLands
  <1>6. CASE UseElsewhere \/ UNCHANGED vars
      BY <1>1, <1>6 DEF UseElsewhere, logVars, chainVars, vars
  <1>7. CASE NextEpoch
    <2>1. Scope(s)!Tick
        BY <1>7 DEF NextEpoch, logVars, Scope!Tick, InFlight, Entry
    <2> QED
        BY <2>1 DEF Scope!FlightNext
  <1> QED
      BY <1>2, <1>3, <1>4, <1>5, <1>6, <1>7 DEF Next

(* Of each scope at most one signed transaction is in flight, and its      *)
(* record says what became of it: the log implements SingleFlight, scope   *)
(* by scope (recoverExactTransaction over the stores' transactions).       *)
THEOREM Refinement == Spec => OneInFlightPerScope
  <1>1. Init => \A s \in Scopes : Scope(s)!FlightInit
      BY FlightInitially
  <1>2. IInv /\ [Next]_vars =>
            [\A s \in Scopes : [Scope(s)!FlightNext]_(Scope(s)!flightVars)]_vars
      BY FlightStep
  <1> QED
      BY <1>1, <1>2, Inductive, PTL DEF Spec, OneInFlightPerScope
=============================================================================
