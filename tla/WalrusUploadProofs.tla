-------------------------- MODULE WalrusUploadProofs --------------------------
(***************************************************************************)
(* Theorems about Walrus uploads, for any uploads, groups and tabs: what   *)
(* was paid for stays on record, and storage is paid for once.             *)
(*                                                                         *)
(* The argument: a job keeps every transaction it was ever signed for      *)
(* (Tracked), and the network is given none but those (SentTracked), so    *)
(* that two purchases of one blob would be two of one job, which has room  *)
(* for one.  A call may rely on the job it read only as far as nobody has  *)
(* written it since, which its revision tells (Knows).                     *)
(***************************************************************************)
EXTENDS WalrusUpload, TLAPS

(* What the status of a job says of its transactions. *)
Shaped(job) ==
    /\ job.state \in {"none", "ready", "legacy"} => job.tx = None
    /\ job.state \in {"prepared", "signing", "signed", "finalized", "complete", "failed"}
          => job.tx # None
    /\ job.state \in {"none", "legacy"} => job.stage = "register"
    /\ job.stage = "certify" => job.registration # None
    /\ job.registration # None => job.stage = "certify" \/ job.state = "finalized"
    /\ job.state = "finalized" => job.stage = "register" /\ job.registration = job.tx

(* A job that signs for itself: a batch, or an upload that none has claimed. *)
Own(k) == k \in Groups \/ Standalone(k)

BuiltFor(d, k, stage) ==
    d \in 1..Len(built) /\ built[d].key = k /\ built[d].stage = stage

(* The transactions a job names were built for it, and one that is named as *)
(* its registration has bought what the job is for.                         *)
Traced(k, job) ==
    /\ job.tx # None =>
          /\ BuiltFor(job.tx, k, job.stage)
          /\ job.stage = "certify" => built[job.tx].registration = job.registration
    /\ job.registration # None =>
          /\ BuiltFor(job.registration, k, "register")
          /\ fate[job.registration] = "success"

JobsSound == \A k \in Keys : Shaped(jobs[k]) /\ (Own(k) => Traced(k, jobs[k]))

(* A batch has claimed its members for good, and they have nothing signed   *)
(* of their own.                                                            *)
ClaimsSound ==
    /\ \A u \in Uploads : claim[u] # None =>
           Encoded(jobs[Single(u)]) \/ jobs[Single(u)].state = "complete"
    /\ \A g \in Groups : jobs[g].state \notin {"none", "legacy"} =>
           \A u \in g : claim[u] = g

Names(job, d) ==
    \/ job.registration = d
    \/ job.tx = d /\ job.state \in {"signed", "complete", "failed"}

(* The job a transaction was built for names it, signed, for good. *)
Tracked(d) == Own(built[d].key) /\ Names(jobs[built[d].key], d)

Prompting(t, k) == call[t].at = "prompt" /\ call[t].key = k

(* The doubt of a batch whose wallet has not answered and cannot any more.  *)
Doubtful(d) ==
    LET k == built[d].key
    IN /\ k \in Groups /\ jobs[k].state = "signing" /\ jobs[k].tx = d
       /\ \A t \in Tabs : ~ Prompting(t, k)

(* What the network was given is tracked, or such a doubt.                  *)
SentTracked == \A d \in sent : d \in 1..Len(built) /\ (Tracked(d) \/ Doubtful(d))

ExecutedWasSent == \A d \in Digests : fate[d] \in {"success", "failure"} => d \in sent

(* What call t may rely on. *)
Knows(t) ==
    LET c == call[t]
    IN /\ c.at # "idle" =>
             /\ c.key \in Keys
             /\ c.job.revision <= jobs[c.key].revision
             /\ c.job.revision = jobs[c.key].revision => c.job = jobs[c.key] /\ Own(c.key)
       /\ c.at \in {"review", "wallet"} =>
             /\ c.job.state = "ready"
             /\ BuiltFor(c.tx, c.key, c.job.stage)
             /\ built[c.tx].registration = c.job.registration
       /\ c.at = "prompt" =>
             c.key \in Groups /\ c.job.state = "signing" /\ c.job = jobs[c.key]
       /\ c.at = "ask" => c.job.state \in {"signing", "signed"}
       /\ c.at = "sent" => c.job.state = "signed"
       /\ c.at \in {"ask", "sent"} /\ c.job.state = "signed" =>
             /\ c.job.tx \in 1..Len(built)
             /\ built[c.job.tx].key = c.key
             /\ Tracked(c.job.tx)
       /\ c.at = "store" => c.job.state = "finalized"

(* batchExclusive: one tab at a time signs or recovers a batch. *)
OneByOne ==
    \A s, t \in Tabs :
        /\ call[s].at \in Exclusive /\ call[t].at \in Exclusive
        /\ call[s].key = call[t].key /\ call[s].key \in Groups
        => s = t

IInv ==
    /\ TypeOK /\ JobsSound /\ ClaimsSound
    /\ SentTracked /\ ExecutedWasSent
    /\ OneByOne /\ \A t \in Tabs : Knows(t)

-----------------------------------------------------------------------------
(* Types. *)

LEMMA SingleIsNoGroup ==
    \A u, v \in Uploads : Single(u) \notin Groups /\ (Single(u) = Single(v) => u = v)
  BY WalrusAssumption DEF Single

(* Every job that is written has its type. *)
LEMMA BumpedTyped == ASSUME NEW job \in Job PROVE Bumped(job) \in Job
  BY DEF Bumped, Job

LEMMA JobTyped ==
    ASSUME NEW job \in Job, NEW state \in States, NEW stage \in Stages,
           NEW tx \in Digests \cup {None}, NEW sentYet \in BOOLEAN,
           NEW registration \in Digests \cup {None}, NEW kept \in SUBSET Uploads
    PROVE  [job EXCEPT !.state = state, !.stage = stage, !.tx = tx, !.broadcast = sentYet,
                       !.registration = registration, !.stored = kept] \in Job
  BY DEF Job

LEMMA PreparedTyped == NoJob \in Job /\ Prepared \in Job
  BY DEF NoJob, Prepared, Job, States, Stages

(* A comparing write of a job of its type *)
LEMMA SwapTyped ==
    ASSUME TypeOK, NEW t \in Tabs, NEW next \in Job, Swap(t, next)
    PROVE  jobs' \in [Keys -> Job]
  BY BumpedTyped DEF TypeOK, Swap

LEMMA TypeStep ==
    TypeOK /\ JobsSound /\ (\A t \in Tabs : Knows(t)) /\ [Next]_vars => TypeOK'
<1> SUFFICES ASSUME TypeOK, JobsSound, \A t \in Tabs : Knows(t), [Next]_vars PROVE TypeOK'
  OBVIOUS
<1> USE DEF TypeOK
<1>1. CASE \E u \in Uploads : Prepare(u)
  BY <1>1, PreparedTyped DEF Prepare, chainVars, Keys
<1>2. CASE \E g \in Groups : ClaimBatch(g)
  <2> PICK g \in Groups : ClaimBatch(g)
    BY <1>2
  <2>1. jobs' \in [Keys -> Job]
    <3>1. [jobs[g] EXCEPT !.state = "legacy"] \in Job
      BY DEF Keys, Job, States
    <3>2. CASE \A u \in g : Encoded(jobs[Single(u)])
      BY <3>2, PreparedTyped, BumpedTyped DEF ClaimBatch
    <3>3. CASE ~ \A u \in g : Encoded(jobs[Single(u)])
      <4>1. jobs' = [jobs EXCEPT ![g] = [jobs[g] EXCEPT !.state = "legacy"]]
        BY <3>3 DEF ClaimBatch
      <4> QED BY <4>1, <3>1
    <3> QED BY <3>2, <3>3
  <2>2. claim' \in [Uploads -> Groups \cup {None}]
    BY DEF ClaimBatch
  <2> QED BY <2>1, <2>2 DEF ClaimBatch, chainVars
<1>3. CASE \E g \in Groups : DropReview(g)
  <2> PICK g \in Groups : DropReview(g)
    BY <1>3
  <2>1. [jobs[g] EXCEPT !.state = "ready", !.tx = None] \in Job
    BY DEF Keys, Job, States
  <2> QED BY <2>1, BumpedTyped DEF DropReview, chainVars, Keys
<1>4. CASE \E g \in Groups, t \in Tabs : SignBatch(t, g)
  <2> PICK g \in Groups, t \in Tabs : SignBatch(t, g)
    BY <1>4
  <2>1. [jobs[g] EXCEPT !.state = "signing"] \in Job
    BY DEF Keys, Job, States
  <2>2. jobs' \in [Keys -> Job]
    BY <2>1, BumpedTyped DEF SignBatch
  <2> QED BY <2>2 DEF SignBatch, chainVars, Keys, Call, Steps
<1>5. CASE \E t \in Tabs, k \in Keys : Build(t, k)
  <2> PICK t \in Tabs, k \in Keys : Build(t, k)
    BY <1>5
  <2>1. [key |-> k, stage |-> jobs[k].stage, registration |-> jobs[k].registration] \in Transaction
    BY DEF Transaction, Job
  <2>2. built' \in Seq(Transaction) /\ Len(built') = Len(built) + 1 /\ Len(built') <= MaxBuilds
    BY <2>1, WalrusAssumption DEF Build
  <2>3. Len(built) + 1 \in Digests
    BY <2>2, WalrusAssumption DEF Build, Digests
  <2>4. PICK at \in {"review", "wallet"} :
            call' = [call EXCEPT ![t] = [at |-> at, key |-> k, job |-> jobs[k], tx |-> Len(built) + 1]]
    BY DEF Build
  <2>5. call' \in [Tabs -> Call]
    BY <2>3, <2>4 DEF Call, Steps
  <2> QED BY <2>2, <2>5 DEF Build, storeVars, chainVars
<1>6. CASE \E t \in Tabs, k \in Keys : Resume(t, k)
  <2> PICK t \in Tabs, k \in Keys : Resume(t, k)
    BY <1>6
  <2>1. PICK at \in {"store", "ask"} : Begin(t, k, at)
    BY DEF Resume
  <2>2. [Idle EXCEPT !.at = at, !.key = k, !.job = jobs[k]] \in Call
    BY DEF Idle, Call, Steps
  <2> QED BY <2>1, <2>2 DEF Resume, Begin, storeVars, chainVars
<1>7. CASE \E t \in Tabs : Advance(t)
  <2> PICK t \in Tabs : Advance(t)
    BY <1>7
  <2>1. call[t].job \in Job /\ call[t].tx \in Digests \cup {None} /\ call[t].key \in Keys \cup {{}}
    BY DEF Call
  <2>2. Return(t) => call' \in [Tabs -> Call]
    BY PreparedTyped DEF Return, Call, Idle, Steps
  <2>3. ASSUME NEW at \in Steps, Goto(t, at) PROVE call' \in [Tabs -> Call]
    BY <2>3 DEF Goto, Call
  <2>4. ASSUME NEW at \in Steps, Reread(t, at), jobs' \in [Keys -> Job], call[t].key \in Keys
        PROVE  call' \in [Tabs -> Call]
    <3>1. call[t].key \in Keys /\ jobs'[call[t].key] \in Job
      BY <2>4
    <3>2. [call[t] EXCEPT !.at = at, !.job = jobs'[call[t].key]] \in Call
      BY <2>4, <3>1 DEF Call
    <3>3. call' = [call EXCEPT ![t] = [call[t] EXCEPT !.at = at, !.job = jobs'[call[t].key]]]
      BY <2>4 DEF Reread
    <3> QED BY <3>2, <3>3
  <2>5. ASSUME NEW next, Swap(t, next), next \in Job PROVE jobs' \in [Keys -> Job]
    BY <2>5, SwapTyped
  <2> DEFINE job == call[t].job
  <2>6. CASE SignReviewed(t)
    BY <2>6, <2>3 DEF SignReviewed, storeVars, chainVars, Steps
  <2>7. CASE KeepSignature(t)
    <3>1. [job EXCEPT !.state = "signed", !.tx = call[t].tx, !.broadcast = FALSE] \in Job
      BY <2>1 DEF Job, States
    <3> QED BY <2>7, <3>1, <2>2, <2>5 DEF KeepSignature, chainVars
  <2>8. CASE KeepReview(t)
    <3>1. [job EXCEPT !.state = "prepared", !.tx = call[t].tx, !.broadcast = FALSE] \in Job
      BY <2>1 DEF Job, States
    <3> QED BY <2>8, <3>1, <2>2, <2>5 DEF KeepReview, chainVars
  <2>9. \A state \in States : [job EXCEPT !.state = state] \in Job
    BY <2>1 DEF Job
  <2>10. CASE WalletRejects(t)
    BY <2>10, <2>9, <2>2, <2>5 DEF WalletRejects, chainVars, States
  <2>11. CASE KeepBatchSignature(t)
    BY <2>11, <2>9, <2>2, <2>5 DEF KeepBatchSignature, chainVars, States
  <2>12. CASE WalletSends(t)
    <3>1. call[t].key \in Keys /\ job.state = "signing" /\ job = jobs[call[t].key]
      BY <2>12 DEF WalletSends, Knows, Keys
    <3>2. job.tx \in Digests
      BY <3>1, <2>1 DEF JobsSound, Shaped, Job
    <3> QED BY <2>12, <3>2, <2>2 DEF WalletSends, storeVars
  <2>13. CASE SaveFailure(t)
    BY <2>13, <2>9, <2>2, <2>5 DEF SaveFailure, chainVars, States
  <2>14. CASE Broadcast(t)
    <3>1. job.tx \in 1..Len(built)
      BY <2>14 DEF Broadcast, Knows
    <3>2. job.tx \in Digests
      BY <3>1, WalrusAssumption DEF Digests
    <3> QED BY <2>14, <3>2, <2>2, <2>3 DEF Broadcast, storeVars, Steps
  <2>15. CASE SaveBroadcast(t)
    <3>1. [job EXCEPT !.broadcast = TRUE] \in Job
      BY <2>1 DEF Job
    <3> QED BY <2>15, <3>1, <2>2, <2>5 DEF SaveBroadcast, chainVars
  <2>16. call[t].at # "idle" => call[t].key \in Keys
    BY DEF Knows
  <2>17. CASE AdoptSignature(t)
    <3>1. jobs' \in [Keys -> Job]
      BY <2>17, <2>9, <2>5 DEF AdoptSignature, States
    <3> QED BY <2>17, <3>1, <2>4, <2>16 DEF AdoptSignature, Told, chainVars, Steps
  <2>18. CASE SaveRegistered(t)
    <3>1. [job EXCEPT !.state = "finalized", !.registration = job.tx] \in Job
      BY <2>1 DEF Job, States
    <3>2. jobs' \in [Keys -> Job]
      BY <2>18, <3>1, <2>5 DEF SaveRegistered
    <3> QED BY <2>18, <3>2, <2>4, <2>16 DEF SaveRegistered, Told, chainVars, Steps
  <2>19. CASE Store(t)
    <3>1. call[t].key \in Keys /\ call[t].key \subseteq Uploads
      BY <2>19, <2>16, WalrusAssumption DEF Store, Keys, Single
    <3>2. [job EXCEPT !.state = "ready", !.stage = "certify", !.tx = None,
                      !.broadcast = FALSE, !.stored = call[t].key] \in Job
      BY <2>1, <3>1 DEF Job, States, Stages
    <3>3. \A u \in call[t].key : [job EXCEPT !.stored = @ \cup {u}] \in Job
      BY <2>1, <3>1 DEF Job
    <3>4. jobs' \in [Keys -> Job]
      BY <2>19, <3>2, <3>3, <2>5 DEF Store
    <3>5. Return(t) \/ Reread(t, "store")
      BY <2>19 DEF Store
    <3> QED BY <2>19, <3>1, <3>4, <3>5, <2>2, <2>4 DEF Store, chainVars, Steps
  <2>20. CASE SaveComplete(t)
    <3>1. call[t].key \in Keys
      BY <2>20, <2>16 DEF SaveComplete, Told
    <3>2. [job EXCEPT !.state = "complete"] \in Job
      BY <2>9 DEF States
    <3>3. ASSUME NEW i \in Keys, NEW u \in Uploads, i = Single(u)
          PROVE  [jobs[i] EXCEPT !.state = "complete", !.stage = "certify", !.tx = job.tx,
                                 !.registration = job.registration, !.stored = i] \in Job
      BY <3>3, <2>1 DEF Job, States, Stages, Single
    <3>4. call[t].key \subseteq Uploads
      BY <3>1, WalrusAssumption DEF Keys, Single
    <3>5. jobs' \in [Keys -> Job]
      BY <2>20, <3>2, <3>3, <3>4, BumpedTyped DEF SaveComplete
    <3> QED BY <2>20, <3>5, <2>2 DEF SaveComplete, chainVars
  <2>21. CASE Abandon(t)
    BY <2>21, <2>2 DEF Abandon, storeVars, chainVars
  <2> QED BY <2>6, <2>7, <2>8, <2>10, <2>11, <2>12, <2>13, <2>14, <2>15, <2>17, <2>18,
             <2>19, <2>20, <2>21 DEF Advance
<1>8. CASE \E d \in Digests : Execute(d) \/ Lapse(d)
  BY <1>8 DEF Execute, Lapse, storeVars
<1>9. CASE UNCHANGED vars
  BY <1>9 DEF vars, storeVars, chainVars
<1> QED BY <1>1, <1>2, <1>3, <1>4, <1>5, <1>6, <1>7, <1>8, <1>9 DEF Next

-----------------------------------------------------------------------------
(* What other calls know, and what a write keeps. *)

(* Transactions are only added. *)
Grows ==
    /\ Len(built) <= Len(built')
    /\ \A d \in 1..Len(built) : built'[d] = built[d]

Lasting == \A d \in 1..Len(built) : Tracked(d) => Tracked(d)'

(* Job k is left alone, is written under a new revision, or is new.         *)
Moves(k) ==
    \/ jobs'[k] = jobs[k] /\ (Own(k) => Own(k)')
    \/ jobs'[k].revision > jobs[k].revision
    \/ jobs[k] = NoJob

LEMMA Typed ==
    ASSUME TypeOK
    PROVE  /\ \A k \in Keys : jobs[k] \in Job /\ jobs[k].revision \in Nat
                              /\ jobs[k].tx \in Digests \cup {None}
                              /\ jobs[k].registration \in Digests \cup {None}
                              /\ jobs[k].state \in States /\ jobs[k].stage \in Stages
           /\ \A t \in Tabs : call[t] \in Call /\ call[t].job \in Job
                              /\ call[t].job.revision \in Nat
                              /\ call[t].tx \in Digests \cup {None}
           /\ Len(built) \in Nat /\ 1..Len(built) \subseteq Digests
           /\ \A d \in Digests : d \in Nat /\ d # None
           /\ \A d \in 1..Len(built) : built[d] \in Transaction
  BY WalrusAssumption DEF TypeOK, Job, Call, Digests

(* A call is never about a job that does not exist. *)
LEMMA CallsExist ==
    ASSUME NEW t \in Tabs, Knows(t), call[t].at \in Steps, call[t].at # "idle"
    PROVE  call[t].job # NoJob
  BY DEF Knows, NoJob, Steps

LEMMA OthersKnow ==
    ASSUME TypeOK, TypeOK', NEW t \in Tabs, Knows(t), call'[t] = call[t],
           Grows, Lasting,
           call[t].at # "idle" => Moves(call[t].key),
           call[t].at = "prompt" => jobs'[call[t].key] = jobs[call[t].key]
    PROVE  Knows(t)'
<1> DEFINE c == call[t]
<1>1. c.at \in Steps /\ c.job.revision \in Nat
  BY Typed DEF Call
<1>2. CASE c.at = "idle"
  BY <1>2 DEF Knows
<1>3. CASE c.at # "idle"
  <2>1. c.key \in Keys /\ jobs[c.key].revision \in Nat /\ jobs'[c.key].revision \in Nat
    BY <1>3, Typed DEF Knows, TypeOK, Job
  <2>2. c.job # NoJob
    BY <1>1, <1>3, CallsExist
  <2>3. jobs[c.key] # NoJob
    <3>1. NoJob.revision = 0
      BY DEF NoJob
    <3>2. c.job.revision <= 0 => c.job.revision = 0
      BY <1>1
    <3> QED BY <2>2, <3>1, <3>2, <1>3 DEF Knows
  <2>4. \/ jobs'[c.key] = jobs[c.key] /\ (Own(c.key) => Own(c.key)')
        \/ jobs'[c.key].revision > jobs[c.key].revision
    BY <1>3, <2>3 DEF Moves
  <2>5. /\ c.job.revision <= jobs'[c.key].revision
        /\ c.job.revision = jobs'[c.key].revision => c.job = jobs'[c.key] /\ Own(c.key)'
    BY <1>1, <1>3, <2>1, <2>4 DEF Knows
  <2>6. \A d \in 1..Len(built) : d \in 1..Len(built)' /\ built'[d] = built[d]
    BY Typed DEF Grows, TypeOK
  <2>7. c.at \in {"review", "wallet"} =>
             /\ c.job.state = "ready"
             /\ BuiltFor(c.tx, c.key, c.job.stage)'
             /\ built'[c.tx].registration = c.job.registration
    BY <2>6 DEF Knows, BuiltFor
  <2>8. c.at \in {"ask", "sent"} /\ c.job.state = "signed" =>
             /\ c.job.tx \in 1..Len(built)'
             /\ built'[c.job.tx].key = c.key
             /\ Tracked(c.job.tx)'
    BY <2>6 DEF Knows, Lasting
  <2> QED BY <2>1, <2>5, <2>7, <2>8 DEF Knows
<1> QED BY <1>2, <1>3

(* A step of one tab that takes nobody else's batch *)
LEMMA OneByOneKept ==
    ASSUME OneByOne, NEW t \in Tabs,
           \A s \in Tabs : s # t => call'[s] = call[s],
           call'[t].at \in Exclusive =>
              \/ call[t].at \in Exclusive /\ call'[t].key = call[t].key
              \/ ~ Busy(call'[t].key)
    PROVE  OneByOne'
  BY DEF OneByOne, Busy, InBatch

(* Nobody prompts for a job that another call can still write. *)
LEMMA Unprompted ==
    ASSUME IInv, NEW t \in Tabs, call[t].at # "idle",
           jobs[call[t].key] = call[t].job, call[t].at # "prompt"
    PROVE  \A s \in Tabs : ~ Prompting(s, call[t].key)
<1> SUFFICES ASSUME NEW s \in Tabs, Prompting(s, call[t].key) PROVE FALSE
  OBVIOUS
<1>1. call[s].job = jobs[call[s].key] /\ call[s].key \in Groups /\ call[s].job.state = "signing"
  BY DEF Prompting, IInv, Knows
<1>2. call[t].at \notin {"review", "wallet"}
  BY <1>1 DEF Prompting, IInv, Knows
<1>3. call[t].at \in Exclusive
  BY <1>2, Typed DEF IInv, Call, Steps, Exclusive
<1> QED BY <1>1, <1>3 DEF OneByOne, IInv, Prompting, Exclusive

LEMMA PromptAlone ==
    ASSUME IInv, NEW t \in Tabs, call[t].at = "prompt"
    PROVE  \A s \in Tabs : s # t => ~ Prompting(s, call[t].key)
  BY DEF IInv, Prompting, Knows, OneByOne, Exclusive

-----------------------------------------------------------------------------
(* A write of a job, and perhaps of uploads it has claimed. *)

Settled(i) ==
    ~ Own(i) /\ Shaped(jobs'[i]) /\ jobs'[i].state = "complete"
             /\ jobs'[i].revision > jobs[i].revision

LEMMA Written ==
    ASSUME IInv, NEW k \in Keys, Own(k), NEW new \in Job,
           jobs'[k] = Bumped(new),
           \A i \in Keys : i # k => jobs'[i] = jobs[i] \/ Settled(i),
           UNCHANGED <<claim, built, fate, sent>>,
           new.revision = jobs[k].revision,
           Shaped(new), Traced(k, new),
           jobs[k].state \notin {"none", "legacy"}, new.state \notin {"none", "legacy"},
           \A d \in Digests : Names(jobs[k], d) => Names(new, d),
           jobs[k].state = "signing" =>
               Names(new, jobs[k].tx) \/ \E t \in Tabs : Prompting(t, k),
           \A t \in Tabs, g \in Groups : g # k /\ Prompting(t, g)' => Prompting(t, g)
    PROVE  /\ JobsSound' /\ ClaimsSound' /\ SentTracked' /\ ExecutedWasSent'
           /\ Grows /\ Lasting /\ \A i \in Keys : Moves(i)
<1> DEFINE b == Bumped(new)
<1>1. /\ b.state = new.state /\ b.stage = new.stage /\ b.tx = new.tx
      /\ b.registration = new.registration /\ b.revision = new.revision + 1
  BY DEF Bumped, Job
<1>2. jobs'[k] = b /\ \A i \in Keys : i # k => jobs'[i] = jobs[i] \/ Settled(i)
  OBVIOUS
<1>3. \A i \in Keys : Own(i)' <=> Own(i)
  BY DEF Own, Standalone
<1> HIDE DEF b
<1>4. JobsSound'
  <2>1. Shaped(b) /\ Traced(k, b)
    BY <1>1 DEF Shaped, Traced
  <2>2. Traced(k, b)'
    BY <2>1 DEF Traced, BuiltFor
  <2>3. ASSUME NEW i \in Keys PROVE Shaped(jobs[i])' /\ (Own(i)' => Traced(i, jobs[i])')
    <3>1. CASE i = k
      BY <3>1, <1>2, <2>1, <2>2 DEF Shaped
    <3>2. CASE i # k
      <4>1. CASE jobs'[i] = jobs[i]
        <5>1. Shaped(jobs[i]) /\ (Own(i) => Traced(i, jobs[i]))
          BY DEF IInv, JobsSound
        <5> QED BY <4>1, <5>1, <1>3 DEF Shaped, Traced, BuiltFor
      <4>2. CASE Settled(i)
        BY <4>2, <1>3 DEF Settled, Shaped
      <4> QED BY <3>2, <1>2, <4>1, <4>2
    <3> QED BY <3>1, <3>2
  <2> QED BY <2>3 DEF JobsSound
<1>5. ClaimsSound'
  <2>1. ASSUME NEW u \in Uploads, claim'[u] # None
        PROVE  Encoded(jobs'[Single(u)]) \/ jobs'[Single(u)].state = "complete"
    <3>1. Single(u) # k
      BY <2>1, SingleIsNoGroup DEF Own, Standalone
    <3>2. Single(u) \in Keys
      BY DEF Keys
    <3> QED BY <2>1, <3>1, <3>2, <1>2 DEF IInv, ClaimsSound, Settled
  <2>2. ASSUME NEW g \in Groups, jobs'[g].state \notin {"none", "legacy"}
        PROVE  \A u \in g : claim'[u] = g
    <3>1. g \in Keys
      BY DEF Keys
    <3>2. jobs[g].state \notin {"none", "legacy"}
      BY <2>2, <3>1, <1>2 DEF Settled, Own
    <3> QED BY <3>2 DEF IInv, ClaimsSound
  <2> QED BY <2>1, <2>2 DEF ClaimsSound
<1>6. \A d \in Digests, i \in Keys : Own(i) /\ Names(jobs[i], d) => Names(jobs'[i], d)
  BY <1>1, <1>2 DEF Names, Settled
<1>7. Grows
  BY Typed DEF Grows, IInv
<1>8. Lasting
  <2>1. \A d \in 1..Len(built) : d \in Digests /\ built[d].key \in Keys
    BY Typed DEF IInv, Transaction
  <2> QED BY <2>1, <1>3, <1>6 DEF Lasting, Tracked
<1>9. SentTracked'
  <2> SUFFICES ASSUME NEW d \in sent
      PROVE  d \in 1..Len(built)' /\ (Tracked(d)' \/ Doubtful(d)')
    BY DEF SentTracked
  <2>1. d \in 1..Len(built) /\ d \in 1..Len(built)'
    BY DEF SentTracked, IInv
  <2>2. CASE Tracked(d)
    BY <2>1, <2>2, <1>8 DEF Lasting
  <2>3. CASE ~ Tracked(d)
    <3> DEFINE i == built[d].key
    <3>1. /\ i \in Groups /\ jobs[i].state = "signing" /\ jobs[i].tx = d
          /\ \A t \in Tabs : ~ Prompting(t, i)
      BY <2>3 DEF SentTracked, Doubtful, IInv
    <3>2. CASE i = k
      <4>1. Names(new, d)
        BY <3>1, <3>2
      <4>2. Names(jobs'[i], d)
        BY <4>1, <3>2, <1>1, <1>2 DEF Names
      <4> QED BY <4>2, <2>1, <3>2, <1>3 DEF Tracked
    <3>3. CASE i # k
      <4>1. i \in Keys /\ jobs'[i] = jobs[i]
        BY <3>1, <3>3, <1>2 DEF Keys, Settled, Own
      <4>2. \A t \in Tabs : ~ Prompting(t, i)'
        BY <3>1, <3>3
      <4> QED BY <4>1, <4>2, <2>1, <3>1 DEF Doubtful
    <3> QED BY <3>2, <3>3
  <2> QED BY <2>2, <2>3
<1>10. ExecutedWasSent'
  BY DEF IInv, ExecutedWasSent
<1>11. ASSUME NEW i \in Keys PROVE Moves(i)
  <2>1. jobs[k].revision \in Nat
    BY Typed DEF IInv
  <2>2. i = k => jobs'[i].revision > jobs[i].revision
    BY <2>1, <1>1, <1>2
  <2> QED BY <2>2, <1>2, <1>3 DEF Moves, Settled
<1> QED BY <1>4, <1>5, <1>7, <1>8, <1>9, <1>10, <1>11

-----------------------------------------------------------------------------
(* What a call writes. *)

Others(t) == \A s \in Tabs : s # t => call'[s] = call[s]

LEMMA CallKnows ==
    ASSUME IInv, NEW t \in Tabs, call[t].at # "idle", jobs[call[t].key] = call[t].job
    PROVE  /\ call[t].key \in Keys /\ Own(call[t].key)
           /\ Shaped(call[t].job) /\ Traced(call[t].key, call[t].job)
           /\ call[t].job \in Job
  BY Typed DEF IInv, JobsSound, Knows

(* The job a call has read, written under the next revision *)
Replaced(t, new) ==
    /\ jobs[call[t].key] = call[t].job
    /\ jobs'[call[t].key] = Bumped(new)
    /\ \A i \in Keys : i # call[t].key => jobs'[i] = jobs[i] \/ Settled(i)

LEMMA CallWrites ==
    ASSUME IInv, TypeOK', NEW t \in Tabs, call[t].at # "idle", NEW new \in Job,
           Replaced(t, new),
           UNCHANGED <<claim, built, fate, sent>>,
           new.revision = call[t].job.revision,
           Shaped(new), Traced(call[t].key, new),
           call[t].job.state \notin {"none", "legacy"}, new.state \notin {"none", "legacy"},
           \A d \in Digests : Names(call[t].job, d) => Names(new, d),
           call[t].job.state = "signing" => Names(new, call[t].job.tx) \/ call[t].at = "prompt",
           Others(t), call'[t].at # "prompt"
    PROVE  /\ JobsSound' /\ ClaimsSound' /\ SentTracked' /\ ExecutedWasSent'
           /\ Lasting /\ \A s \in Tabs : s # t => Knows(s)'
<1> DEFINE k == call[t].key
<1>1. k \in Keys /\ Own(k) /\ jobs[k] = call[t].job
  BY CallKnows DEF Replaced
<1>2. \A s \in Tabs, g \in Groups : Prompting(s, g)' => Prompting(s, g)
  BY DEF Others, Prompting
<1>3. \A s \in Tabs : s # t => ~ Prompting(s, k)
  BY <1>1, Unprompted, PromptAlone
<1>4. /\ JobsSound' /\ ClaimsSound' /\ SentTracked' /\ ExecutedWasSent'
      /\ Grows /\ Lasting /\ \A i \in Keys : Moves(i)
  <2>1. jobs[k].state = "signing" =>
            Names(new, jobs[k].tx) \/ \E s \in Tabs : Prompting(s, k)
    BY <1>1 DEF Prompting
  <2>2. jobs'[k] = Bumped(new) /\ \A i \in Keys : i # k => jobs'[i] = jobs[i] \/ Settled(i)
    BY DEF Replaced
  <2>3. /\ new.revision = jobs[k].revision /\ Traced(k, new)
        /\ jobs[k].state \notin {"none", "legacy"}
        /\ \A d \in Digests : Names(jobs[k], d) => Names(new, d)
    BY <1>1
  <2> HIDE DEF k
  <2> QED BY <1>1, <1>2, <2>1, <2>2, <2>3, Written
<1>5. ASSUME NEW s \in Tabs, s # t PROVE Knows(s)'
  <2>1. Knows(s) /\ call'[s] = call[s]
    BY <1>5 DEF IInv, Others
  <2>2. call[s].at # "idle" => call[s].key \in Keys
    BY <2>1 DEF Knows
  <2>3. call[s].at = "prompt" => jobs'[call[s].key] = jobs[call[s].key]
    BY <1>3, <1>5, <2>1 DEF Prompting, Replaced, Settled, Knows, Own, Keys
  <2> QED BY <1>4, <2>1, <2>2, <2>3, OthersKnow DEF IInv
<1> QED BY <1>4, <1>5

LEMMA Returned ==
    ASSUME IInv, NEW t \in Tabs, Return(t)
    PROVE  /\ Others(t) /\ OneByOne' /\ Knows(t)' /\ call'[t].at # "prompt"
<1>1. call'[t] = Idle /\ Others(t)
  BY DEF Return, Others, IInv, TypeOK
<1>2. Idle.at = "idle"
  BY DEF Idle
<1>3. Knows(t)'
  BY <1>1, <1>2 DEF Knows
<1>4. OneByOne'
  BY <1>1, <1>2, OneByOneKept DEF Others, Exclusive, IInv
<1> QED BY <1>1, <1>2, <1>3, <1>4

LEMMA Swapped ==
    ASSUME IInv, NEW t \in Tabs, call[t].at # "idle", NEW new \in Job, Swap(t, new)
    PROVE  Replaced(t, new)
<1>1. call[t].key \in Keys
  BY CallKnows DEF Swap
<1> QED BY <1>1 DEF Swap, Replaced, IInv, TypeOK

(* A call that writes and returns *)
LEMMA WritesAndReturns ==
    ASSUME IInv, TypeOK', NEW t \in Tabs, call[t].at # "idle", NEW new \in Job,
           Replaced(t, new), Return(t),
           UNCHANGED <<claim, built, fate, sent>>,
           new.revision = call[t].job.revision,
           Shaped(new), Traced(call[t].key, new),
           call[t].job.state \notin {"none", "legacy"}, new.state \notin {"none", "legacy"},
           \A d \in Digests : Names(call[t].job, d) => Names(new, d),
           call[t].job.state = "signing" => Names(new, call[t].job.tx) \/ call[t].at = "prompt"
    PROVE  IInv'
<1>1. Others(t) /\ OneByOne' /\ Knows(t)' /\ call'[t].at # "prompt"
  BY Returned
<1>2. /\ JobsSound' /\ ClaimsSound' /\ SentTracked' /\ ExecutedWasSent'
      /\ Lasting /\ \A s \in Tabs : s # t => Knows(s)'
  BY <1>1, CallWrites
<1> QED BY <1>1, <1>2 DEF IInv

(* A call that writes and goes on with what it wrote *)
LEMMA WritesAndGoesOn ==
    ASSUME IInv, TypeOK', NEW t \in Tabs, call[t].at \in Exclusive, NEW new \in Job,
           Replaced(t, new), NEW at \in {"ask", "store"}, Reread(t, at),
           at = "ask" => new.state = "signed", at = "store" => new.state = "finalized",
           UNCHANGED <<claim, built, fate, sent>>,
           new.revision = call[t].job.revision,
           Shaped(new), Traced(call[t].key, new),
           call[t].job.state \notin {"none", "legacy"},
           \A d \in Digests : Names(call[t].job, d) => Names(new, d),
           call[t].job.state = "signing" => Names(new, call[t].job.tx) \/ call[t].at = "prompt"
    PROVE  IInv'
<1> DEFINE b == Bumped(new)
<1>0. PICK k : k = call[t].key
  OBVIOUS
<1>1. call[t].at # "idle" /\ new.state \notin {"none", "legacy"}
  BY DEF Exclusive
<1>2. k \in Keys /\ Own(k)
  BY <1>0, <1>1, CallKnows DEF Replaced
<1>3. /\ call'[t].at = at /\ call'[t].key = k /\ call'[t].job = b /\ jobs'[k] = b
      /\ Others(t)
  BY <1>0 DEF Reread, Replaced, Others, IInv, TypeOK, Call
<1>4. /\ JobsSound' /\ ClaimsSound' /\ SentTracked' /\ ExecutedWasSent'
      /\ Lasting /\ \A s \in Tabs : s # t => Knows(s)'
  BY <1>1, <1>3, CallWrites
<1>5. OneByOne'
  BY <1>0, <1>3, OneByOneKept DEF Others, IInv
<1>6. Own(k)'
  BY <1>2 DEF Own, Standalone
<1>7. /\ b.state = new.state /\ b.tx = new.tx /\ b.registration = new.registration
      /\ b.revision \in Nat
  BY DEF Bumped, Job
<1>8. at = "ask" => /\ b.tx \in 1..Len(built)' /\ built'[b.tx].key = k /\ Names(b, b.tx)
  BY <1>0, <1>7 DEF Shaped, Traced, BuiltFor, Names
<1> HIDE DEF b
<1>9. at = "ask" => Tracked(b.tx)'
  BY <1>3, <1>6, <1>8 DEF Tracked
<1>10. Knows(t)'
  BY <1>2, <1>3, <1>6, <1>7, <1>8, <1>9 DEF Knows
<1> QED BY <1>4, <1>5, <1>10 DEF IInv

-----------------------------------------------------------------------------
(* The invariant is kept: the calls that sign. *)

LEMMA KeepsSignature ==
    ASSUME IInv, TypeOK', NEW t \in Tabs, KeepSignature(t) \/ KeepReview(t)
    PROVE  IInv'
<1> DEFINE job == call[t].job
<1>1. PICK state \in {"signed", "prepared"} :
          /\ Swap(t, [job EXCEPT !.state = state, !.tx = call[t].tx, !.broadcast = FALSE])
          /\ Return(t)
  BY DEF KeepSignature, KeepReview
<1> DEFINE new == [job EXCEPT !.state = state, !.tx = call[t].tx, !.broadcast = FALSE]
<1>2. call[t].at \in {"review", "wallet"} /\ UNCHANGED <<claim, built, fate, sent>>
  BY DEF KeepSignature, KeepReview, chainVars
<1>3. /\ job.state = "ready" /\ BuiltFor(call[t].tx, call[t].key, job.stage)
      /\ built[call[t].tx].registration = job.registration
  BY <1>2 DEF IInv, Knows
<1>4. call[t].tx \in Digests /\ call[t].tx # None
  BY <1>3, Typed DEF IInv, BuiltFor
<1>5. job \in Job /\ Shaped(job) /\ Traced(call[t].key, job)
  BY <1>1, <1>2, CallKnows DEF Swap
<1>6. /\ new \in Job /\ new.revision = job.revision /\ new.state = state /\ new.tx = call[t].tx
      /\ new.registration = job.registration /\ new.stage = job.stage
  BY <1>4, <1>5 DEF Job, States
<1> HIDE DEF new, job
<1>7. Shaped(new) /\ Traced(call[t].key, new)
  BY <1>3, <1>4, <1>5, <1>6 DEF Shaped, Traced
<1>8. \A d \in Digests : Names(job, d) => Names(new, d)
  BY <1>3, <1>6 DEF Names
<1>9. Replaced(t, new)
  BY <1>1, <1>2, <1>6, Swapped DEF new
<1> QED BY <1>1, <1>2, <1>3, <1>6, <1>7, <1>8, <1>9, WritesAndReturns DEF job

(* A job whose status alone changes, from one in which it is being signed. *)
LEMMA Restated ==
    ASSUME NEW job \in Job, NEW k, Shaped(job), Traced(k, job),
           job.state \in {"signing", "signed"}, NEW state \in {"prepared", "signed", "failed"},
           state = "prepared" => job.state = "signing"
    PROVE  LET new == [job EXCEPT !.state = state]
           IN /\ new \in Job /\ new.revision = job.revision /\ new.state = state
              /\ Shaped(new) /\ Traced(k, new)
              /\ \A d : Names(job, d) => Names(new, d)
              /\ state # "prepared" => Names(new, job.tx)
<1> DEFINE new == [job EXCEPT !.state = state]
<1>1. /\ new \in Job /\ new.revision = job.revision /\ new.state = state /\ new.tx = job.tx
      /\ new.registration = job.registration /\ new.stage = job.stage
  BY DEF Job, States
<1> HIDE DEF new
<1>2. Shaped(new)
  BY <1>1 DEF Shaped
<1>3. Traced(k, new)
  BY <1>1 DEF Traced
<1>4. \A d : Names(job, d) => Names(new, d)
  BY <1>1 DEF Names
<1>5. state # "prepared" => Names(new, job.tx)
  BY <1>1 DEF Names
<1> QED BY <1>1, <1>2, <1>3, <1>4, <1>5 DEF new

LEMMA KeepsAnswer ==
    ASSUME IInv, TypeOK', NEW t \in Tabs,
           WalletRejects(t) \/ KeepBatchSignature(t) \/ SaveFailure(t)
    PROVE  IInv'
<1> DEFINE job == call[t].job
<1>1. PICK state \in {"prepared", "signed", "failed"} :
          /\ Swap(t, [job EXCEPT !.state = state])
          /\ state \in {"prepared", "signed"} => call[t].at = "prompt"
          /\ state = "failed" => call[t].at = "ask"
  BY DEF WalletRejects, KeepBatchSignature, SaveFailure, Told
<1>2. Return(t) /\ UNCHANGED <<claim, built, fate, sent>>
  BY DEF WalletRejects, KeepBatchSignature, SaveFailure, chainVars
<1> DEFINE new == [job EXCEPT !.state = state]
<1>3. /\ call[t].at # "idle" /\ job.state \in {"signing", "signed"}
      /\ state = "prepared" => job.state = "signing"
  BY <1>1 DEF IInv, Knows
<1>4. job \in Job /\ Shaped(job) /\ Traced(call[t].key, job)
  BY <1>1, <1>3, CallKnows DEF Swap
<1>5. /\ new \in Job /\ new.revision = job.revision /\ new.state = state
      /\ Shaped(new) /\ Traced(call[t].key, new)
      /\ \A d : Names(job, d) => Names(new, d)
      /\ state # "prepared" => Names(new, job.tx)
  <2> HIDE DEF job
  <2> QED BY <1>3, <1>4, Restated
<1>6. Replaced(t, new)
  BY <1>1, <1>3, <1>5, Swapped
<1> HIDE DEF new
<1> QED BY <1>1, <1>2, <1>3, <1>5, <1>6, WritesAndReturns

LEMMA KeepsAdoption ==
    ASSUME IInv, TypeOK', NEW t \in Tabs, AdoptSignature(t)
    PROVE  IInv'
<1> DEFINE job == call[t].job
           new == [job EXCEPT !.state = "signed"]
<1>1. /\ Swap(t, new) /\ Reread(t, "ask") /\ UNCHANGED <<claim, built, fate, sent>>
      /\ call[t].at = "ask" /\ job.state = "signing"
  BY DEF AdoptSignature, Told, chainVars
<1>2. job \in Job /\ Shaped(job) /\ Traced(call[t].key, job)
  BY <1>1, CallKnows DEF Swap
<1>3. /\ new \in Job /\ new.revision = job.revision /\ new.state = "signed"
      /\ Shaped(new) /\ Traced(call[t].key, new)
      /\ \A d : Names(job, d) => Names(new, d)
      /\ Names(new, job.tx)
  BY <1>1, <1>2, Restated
<1>4. Replaced(t, new) /\ call[t].at \in Exclusive
  BY <1>1, <1>3, Swapped DEF Exclusive
<1> HIDE DEF new
<1> QED BY <1>1, <1>3, <1>4, WritesAndGoesOn

LEMMA KeepsBroadcast ==
    ASSUME IInv, TypeOK', NEW t \in Tabs, SaveBroadcast(t)
    PROVE  IInv'
<1> DEFINE job == call[t].job
           new == [job EXCEPT !.broadcast = TRUE]
<1>1. /\ Swap(t, new) /\ Return(t) /\ UNCHANGED <<claim, built, fate, sent>>
      /\ call[t].at = "sent" /\ job.state = "signed"
  BY DEF SaveBroadcast, chainVars, IInv, Knows
<1>2. job \in Job /\ Shaped(job) /\ Traced(call[t].key, job)
  BY <1>1, CallKnows DEF Swap
<1>3. /\ new \in Job /\ new.revision = job.revision /\ new.state = "signed" /\ new.tx = job.tx
      /\ new.registration = job.registration /\ new.stage = job.stage
  BY <1>1, <1>2 DEF Job
<1>4. Replaced(t, new)
  BY <1>1, <1>3, Swapped
<1> HIDE DEF new
<1>5. Shaped(new) /\ Traced(call[t].key, new) /\ \A d : Names(job, d) => Names(new, d)
  BY <1>1, <1>2, <1>3 DEF Shaped, Traced, Names
<1> QED BY <1>1, <1>3, <1>4, <1>5, WritesAndReturns

LEMMA KeepsRegistered ==
    ASSUME IInv, TypeOK', NEW t \in Tabs, SaveRegistered(t)
    PROVE  IInv'
<1> DEFINE job == call[t].job
           new == [job EXCEPT !.state = "finalized", !.registration = job.tx]
<1>1. /\ Swap(t, new) /\ Reread(t, "store") /\ UNCHANGED <<claim, built, fate, sent>>
      /\ call[t].at = "ask" /\ job.state = "signed" /\ job.stage = "register"
      /\ fate[job.tx] = "success"
  BY DEF SaveRegistered, Told, chainVars
<1>2. job \in Job /\ Shaped(job) /\ Traced(call[t].key, job)
  BY <1>1, CallKnows DEF Swap
<1>3. /\ new \in Job /\ new.revision = job.revision /\ new.state = "finalized"
      /\ new.tx = job.tx /\ new.registration = job.tx /\ new.stage = "register"
      /\ job.tx # None /\ job.registration = None
  BY <1>1, <1>2 DEF Job, States, Shaped
<1>4. Replaced(t, new) /\ call[t].at \in Exclusive
  BY <1>1, <1>3, Swapped DEF Exclusive
<1> HIDE DEF new
<1>5. Shaped(new) /\ Traced(call[t].key, new)
  BY <1>1, <1>2, <1>3 DEF Shaped, Traced
<1>6. \A d \in Digests : Names(job, d) => Names(new, d)
  BY <1>1, <1>3, Typed DEF IInv, Names
<1> QED BY <1>1, <1>3, <1>4, <1>5, <1>6, WritesAndGoesOn

LEMMA KeepsStored ==
    ASSUME IInv, TypeOK', NEW t \in Tabs, Store(t)
    PROVE  IInv'
<1> DEFINE job == call[t].job
<1>1. /\ UNCHANGED <<claim, built, fate, sent>> /\ call[t].at = "store"
      /\ job.state = "finalized" /\ jobs[call[t].key] = job
  BY DEF Store, Swap, chainVars, IInv, Knows
<1>2. job \in Job /\ Shaped(job) /\ Traced(call[t].key, job) /\ call[t].key \in Keys
  BY <1>1, CallKnows
<1>3. call[t].key \subseteq Uploads
  BY <1>2, WalrusAssumption DEF Keys, Single
<1>4. CASE /\ Swap(t, [job EXCEPT !.state = "ready", !.stage = "certify", !.tx = None,
                                  !.broadcast = FALSE, !.stored = call[t].key])
           /\ Return(t)
  <2> DEFINE new == [job EXCEPT !.state = "ready", !.stage = "certify", !.tx = None,
                                !.broadcast = FALSE, !.stored = call[t].key]
  <2>1. /\ new \in Job /\ new.revision = job.revision /\ new.state = "ready"
        /\ new.tx = None /\ new.registration = job.registration /\ new.stage = "certify"
    BY <1>2, <1>3 DEF Job, States, Stages
  <2>2. Replaced(t, new)
    BY <1>1, <1>4, <2>1, Swapped
  <2> HIDE DEF new
  <2>3. Shaped(new) /\ Traced(call[t].key, new)
    BY <1>1, <1>2, <2>1 DEF Shaped, Traced
  <2>4. \A d \in Digests : Names(job, d) => Names(new, d)
    BY <1>1, <2>1 DEF Names
  <2> QED BY <1>1, <1>4, <2>1, <2>2, <2>3, <2>4, WritesAndReturns
<1>5. ASSUME NEW u \in call[t].key, Swap(t, [job EXCEPT !.stored = @ \cup {u}]), Reread(t, "store")
      PROVE  IInv'
  <2> DEFINE new == [job EXCEPT !.stored = @ \cup {u}]
  <2>1. /\ new \in Job /\ new.revision = job.revision /\ new.state = "finalized"
        /\ new.tx = job.tx /\ new.registration = job.registration /\ new.stage = job.stage
    BY <1>1, <1>2, <1>3 DEF Job
  <2>2. Replaced(t, new) /\ call[t].at \in Exclusive
    BY <1>1, <1>5, <2>1, Swapped DEF Exclusive
  <2> HIDE DEF new
  <2>3. Shaped(new) /\ Traced(call[t].key, new) /\ \A d : Names(job, d) => Names(new, d)
    BY <1>1, <1>2, <2>1 DEF Shaped, Traced, Names
  <2> QED BY <1>1, <1>5, <2>1, <2>2, <2>3, WritesAndGoesOn
<1> QED BY <1>4, <1>5 DEF Store

LEMMA KeepsComplete ==
    ASSUME IInv, TypeOK', NEW t \in Tabs, SaveComplete(t)
    PROVE  IInv'
<1> DEFINE job == call[t].job
           new == [job EXCEPT !.state = "complete"]
<1>0. PICK k : k = call[t].key
  OBVIOUS
<1>1. /\ Return(t) /\ UNCHANGED <<claim, built, fate, sent>>
      /\ call[t].at = "ask" /\ job.state = "signed" /\ job.stage = "certify" /\ jobs[k] = job
      /\ jobs' = [i \in Keys |->
                     IF i = k THEN Bumped(new)
                     ELSE IF InBatch(k) /\ \E u \in k : i = Single(u)
                     THEN Bumped([jobs[i] EXCEPT !.state = "complete", !.stage = "certify",
                                                 !.tx = job.tx, !.registration = job.registration,
                                                 !.stored = i])
                     ELSE jobs[i]]
  BY <1>0 DEF SaveComplete, Told, chainVars
<1>2. job \in Job /\ Shaped(job) /\ Traced(k, job) /\ k \in Keys
  BY <1>0, <1>1, CallKnows
<1>3. /\ new \in Job /\ new.revision = job.revision /\ new.state = "complete"
      /\ new.tx = job.tx /\ new.registration = job.registration /\ new.stage = job.stage
  BY <1>2 DEF Job, States
<1> HIDE DEF new
<1>4. Shaped(new) /\ Traced(k, new) /\ \A d : Names(job, d) => Names(new, d)
  BY <1>1, <1>2, <1>3 DEF Shaped, Traced, Names
<1>5. ASSUME NEW i \in Keys, i # k PROVE jobs'[i] = jobs[i] \/ Settled(i)
  <2>1. CASE ~ (InBatch(k) /\ \E u \in k : i = Single(u))
    BY <1>1, <1>5, <2>1
  <2>2. CASE InBatch(k) /\ \E u \in k : i = Single(u)
    <3>1. PICK u \in k : i = Single(u)
      BY <2>2
    <3>2. u \in Uploads /\ claim[u] = k /\ k # None
      BY <1>1, <2>2, <3>1, WalrusAssumption DEF InBatch, IInv, ClaimsSound
    <3>3. ~ Own(i)
      BY <3>1, <3>2, SingleIsNoGroup DEF Own, Standalone
    <3> DEFINE old == jobs[i]
               next == [old EXCEPT !.state = "complete", !.stage = "certify", !.tx = job.tx,
                                   !.registration = job.registration, !.stored = i]
    <3>4. old \in Job /\ old.revision \in Nat
      BY Typed DEF IInv
    <3>5. jobs'[i] = Bumped(next)
      BY <1>1, <1>5, <2>2
    <3> HIDE DEF old
    <3>6. LET b == Bumped(next)
          IN /\ b.state = "complete" /\ b.stage = "certify" /\ b.tx = job.tx
             /\ b.registration = job.registration /\ b.revision = old.revision + 1
      BY <3>4 DEF Bumped, Job
    <3>7. job.tx # None /\ job.registration # None
      BY <1>1, <1>2 DEF Shaped
    <3> HIDE DEF next
    <3>8. Shaped(jobs'[i]) /\ jobs'[i].revision > old.revision /\ jobs'[i].state = "complete"
      BY <3>4, <3>5, <3>6, <3>7 DEF Shaped
    <3> QED BY <3>3, <3>8 DEF Settled, old
  <2> QED BY <2>1, <2>2
<1>6. Replaced(t, new)
  BY <1>0, <1>1, <1>2, <1>5 DEF Replaced
<1> QED BY <1>0, <1>1, <1>3, <1>4, <1>6, WritesAndReturns

-----------------------------------------------------------------------------
(* The invariant is kept: reviews of a batch. *)

LEMMA KeepsReviews ==
    ASSUME IInv, TypeOK', NEW g \in Groups, DropReview(g)
    PROVE  IInv'
<1> DEFINE new == [jobs[g] EXCEPT !.state = "ready", !.tx = None]
<1>1. g \in Keys /\ Own(g) /\ jobs[g] \in Job /\ jobs[g].state = "prepared"
  BY Typed DEF Keys, Own, IInv, DropReview
<1>2. Shaped(jobs[g]) /\ Traced(g, jobs[g])
  BY <1>1 DEF IInv, JobsSound
<1>3. /\ new \in Job /\ new.revision = jobs[g].revision /\ new.state = "ready" /\ new.tx = None
      /\ new.registration = jobs[g].registration /\ new.stage = jobs[g].stage
  BY <1>1 DEF Job, States
<1>4. /\ jobs'[g] = Bumped(new) /\ \A i \in Keys : i # g => jobs'[i] = jobs[i]
      /\ UNCHANGED <<claim, call, built, fate, sent>>
  BY <1>1 DEF DropReview, chainVars, IInv, TypeOK
<1> HIDE DEF new
<1>5. Shaped(new) /\ Traced(g, new) /\ \A d \in Digests : Names(jobs[g], d) => Names(new, d)
  BY <1>1, <1>2, <1>3 DEF Shaped, Traced, Names
<1>6. /\ JobsSound' /\ ClaimsSound' /\ SentTracked' /\ ExecutedWasSent'
      /\ Grows /\ Lasting /\ \A i \in Keys : Moves(i)
  <2>1. \A t \in Tabs, i \in Groups : Prompting(t, i)' => Prompting(t, i)
    BY <1>4 DEF Prompting
  <2> QED BY <1>1, <1>3, <1>4, <1>5, <2>1, Written
<1>7. ASSUME NEW s \in Tabs PROVE Knows(s)'
  <2>1. Knows(s) /\ call'[s] = call[s]
    BY <1>4 DEF IInv
  <2>2. call[s].at # "idle" => call[s].key \in Keys
    BY <2>1 DEF Knows
  <2>3. call[s].at = "prompt" => jobs'[call[s].key] = jobs[call[s].key]
    BY <1>1, <1>4, <2>1, <2>2 DEF Knows
  <2> QED BY <1>6, <2>1, <2>2, <2>3, OthersKnow DEF IInv
<1>8. OneByOne'
  BY <1>4 DEF IInv, OneByOne
<1> QED BY <1>6, <1>7, <1>8 DEF IInv

LEMMA KeepsPrompt ==
    ASSUME IInv, TypeOK', NEW g \in Groups, NEW t \in Tabs, SignBatch(t, g)
    PROVE  IInv'
<1> DEFINE new == [jobs[g] EXCEPT !.state = "signing"]
           b == Bumped(new)
<1>1. g \in Keys /\ Own(g) /\ jobs[g] \in Job /\ jobs[g].state = "prepared" /\ ~ Busy(g)
  BY Typed DEF Keys, Own, IInv, SignBatch
<1>2. Shaped(jobs[g]) /\ Traced(g, jobs[g])
  BY <1>1 DEF IInv, JobsSound
<1>3. /\ new \in Job /\ new.revision = jobs[g].revision /\ new.state = "signing"
      /\ new.tx = jobs[g].tx
      /\ new.registration = jobs[g].registration /\ new.stage = jobs[g].stage
  BY <1>1 DEF Job, States
<1>4. /\ jobs'[g] = b /\ \A i \in Keys : i # g => jobs'[i] = jobs[i]
      /\ UNCHANGED <<claim, built, fate, sent>> /\ call[t] = Idle
      /\ call'[t] = [at |-> "prompt", key |-> g, job |-> b, tx |-> None] /\ Others(t)
  BY <1>1 DEF SignBatch, chainVars, IInv, TypeOK, Others
<1> HIDE DEF new
<1>5. Shaped(new) /\ Traced(g, new) /\ \A d \in Digests : Names(jobs[g], d) => Names(new, d)
  BY <1>1, <1>2, <1>3 DEF Shaped, Traced, Names
<1>6. /\ JobsSound' /\ ClaimsSound' /\ SentTracked' /\ ExecutedWasSent'
      /\ Grows /\ Lasting /\ \A i \in Keys : Moves(i)
  <2>1. \A s \in Tabs, i \in Groups : i # g /\ Prompting(s, i)' => Prompting(s, i)
    BY <1>4 DEF Prompting, Others
  <2> QED BY <1>1, <1>3, <1>4, <1>5, <2>1, Written
<1>7. ASSUME NEW s \in Tabs, s # t PROVE Knows(s)'
  <2>1. Knows(s) /\ call'[s] = call[s]
    BY <1>4, <1>7 DEF IInv, Others
  <2>2. call[s].at # "idle" => call[s].key \in Keys
    BY <2>1 DEF Knows
  <2>3. call[s].at = "prompt" => jobs'[call[s].key] = jobs[call[s].key]
    BY <1>1, <1>4, <2>1, <2>2 DEF Knows
  <2> QED BY <1>6, <2>1, <2>2, <2>3, OthersKnow DEF IInv
<1>8. Knows(t)'
  <2>1. b.revision \in Nat /\ b.state = "signing"
    BY <1>3 DEF Bumped, Job
  <2> HIDE DEF b
  <2> QED BY <1>1, <1>4, <2>1 DEF Knows, Own
<1>9. OneByOne'
  BY <1>1, <1>4, OneByOneKept DEF IInv, Others
<1> QED BY <1>6, <1>7, <1>8, <1>9 DEF IInv

-----------------------------------------------------------------------------
(* The invariant is kept: what creates and claims jobs. *)

(* A job that begins *)
Begins(i) ==
    /\ jobs[i] = NoJob
    /\ Shaped(jobs'[i]) /\ jobs'[i].tx = None /\ jobs'[i].registration = None

(* An upload that is claimed, or might be *)
Claimed(i) == Encoded(jobs[i]) /\ jobs'[i] = Bumped(jobs[i])

LEMMA BeginsAndClaims ==
    ASSUME IInv, TypeOK', ClaimsSound',
           UNCHANGED <<call, built, fate, sent>>,
           \A i \in Keys : \/ jobs'[i] = jobs[i] /\ (Own(i)' <=> Own(i))
                           \/ Begins(i) \/ Claimed(i)
    PROVE  IInv'
<1>1. ASSUME NEW i \in Keys, Claimed(i)
      PROVE  /\ Shaped(jobs'[i]) /\ jobs'[i].tx = None /\ jobs'[i].registration = None
             /\ jobs'[i].revision > jobs[i].revision
             /\ jobs[i].tx = None /\ jobs[i].registration = None
  <2>1. jobs[i] \in Job /\ Shaped(jobs[i]) /\ jobs[i].revision \in Nat
    BY Typed DEF IInv, JobsSound
  <2>2. jobs[i].tx = None /\ jobs[i].registration = None
    BY <1>1, <2>1 DEF Claimed, Encoded, Shaped
  <2>3. /\ jobs'[i].state = "ready" /\ jobs'[i].stage = "register" /\ jobs'[i].tx = None
        /\ jobs'[i].registration = None /\ jobs'[i].revision = jobs[i].revision + 1
    BY <1>1, <2>1, <2>2 DEF Claimed, Encoded, Bumped, Job
  <2> QED BY <2>1, <2>2, <2>3 DEF Shaped
<1>2. JobsSound'
  <2>1. ASSUME NEW i \in Keys PROVE Shaped(jobs[i])' /\ (Own(i)' => Traced(i, jobs[i])')
    <3>1. CASE jobs'[i] = jobs[i] /\ (Own(i)' <=> Own(i))
      <4>1. Shaped(jobs[i]) /\ (Own(i) => Traced(i, jobs[i]))
        BY DEF IInv, JobsSound
      <4> QED BY <3>1, <4>1 DEF Shaped, Traced, BuiltFor
    <3>2. CASE Begins(i)
      BY <3>2 DEF Begins, Shaped, Traced
    <3>3. CASE Claimed(i)
      BY <3>3, <1>1 DEF Shaped, Traced
    <3> QED BY <3>1, <3>2, <3>3
  <2> QED BY <2>1 DEF JobsSound
<1>3. Lasting
  <2> SUFFICES ASSUME NEW d \in 1..Len(built), Tracked(d) PROVE Tracked(d)'
    BY DEF Lasting
  <2> DEFINE i == built[d].key
  <2>1. i \in Keys /\ d # None /\ built'[d] = built[d]
    BY Typed DEF IInv, Transaction
  <2>2. ~ Begins(i)
    BY <2>1 DEF Begins, Tracked, Names, NoJob
  <2>3. ~ Claimed(i)
    BY <2>1, <1>1 DEF Tracked, Names
  <2> QED BY <2>1, <2>2, <2>3 DEF Tracked
<1>4. \A i \in Keys : Moves(i)
  BY <1>1 DEF Moves, Begins
<1>5. Grows
  BY Typed DEF Grows, IInv
<1>6. ASSUME NEW i \in Keys, jobs[i].state = "signing" PROVE jobs'[i] = jobs[i]
  BY <1>6 DEF Begins, Claimed, Encoded, NoJob
<1>7. ASSUME NEW s \in Tabs PROVE Knows(s)'
  <2>1. Knows(s) /\ call'[s] = call[s]
    BY DEF IInv
  <2>2. call[s].at # "idle" => call[s].key \in Keys
    BY <2>1 DEF Knows
  <2>3. call[s].at = "prompt" => jobs'[call[s].key] = jobs[call[s].key]
    BY <1>6, <2>1, <2>2 DEF Knows
  <2> QED BY <1>3, <1>4, <1>5, <2>1, <2>2, <2>3, OthersKnow DEF IInv
<1>8. SentTracked'
  <2> SUFFICES ASSUME NEW d \in sent
      PROVE  d \in 1..Len(built)' /\ (Tracked(d)' \/ Doubtful(d)')
    BY DEF SentTracked
  <2>1. d \in 1..Len(built) /\ (Tracked(d) \/ Doubtful(d))
    BY DEF SentTracked, IInv
  <2>2. CASE Tracked(d)
    BY <2>1, <2>2, <1>3 DEF Lasting
  <2>3. CASE Doubtful(d)
    <3>1. built[d].key \in Keys /\ jobs[built[d].key].state = "signing"
      BY <2>3 DEF Doubtful, Keys
    <3>2. jobs'[built[d].key] = jobs[built[d].key]
      BY <3>1, <1>6
    <3> QED BY <2>1, <2>3, <3>2 DEF Doubtful, Prompting
  <2> QED BY <2>1, <2>2, <2>3
<1>9. ExecutedWasSent' /\ OneByOne'
  BY DEF IInv, ExecutedWasSent, OneByOne
<1> QED BY <1>2, <1>7, <1>8, <1>9 DEF IInv

LEMMA PreparedShaped ==
    /\ Shaped(Prepared) /\ Prepared.tx = None /\ Prepared.registration = None
    /\ Encoded(Prepared)
  BY DEF Shaped, Prepared, NoJob, Encoded

LEMMA KeepsUploads ==
    ASSUME IInv, TypeOK', NEW u \in Uploads, Prepare(u)
    PROVE  IInv'
<1> DEFINE k == Single(u)
<1>1. k \in Keys /\ jobs[k] = NoJob /\ UNCHANGED <<claim, call, built, fate, sent>>
  BY DEF Prepare, Keys, chainVars
<1>2. jobs'[k] = Prepared /\ \A i \in Keys : i # k => jobs'[i] = jobs[i]
  BY <1>1 DEF Prepare, IInv, TypeOK
<1>3. ClaimsSound'
  <2>1. ASSUME NEW v \in Uploads, claim'[v] # None
        PROVE  Encoded(jobs'[Single(v)]) \/ jobs'[Single(v)].state = "complete"
    <3>1. Single(v) \in Keys
      BY DEF Keys
    <3> QED BY <1>1, <1>2, <2>1, <3>1, PreparedShaped DEF IInv, ClaimsSound
  <2>2. ASSUME NEW g \in Groups, jobs'[g].state \notin {"none", "legacy"}
        PROVE  \A v \in g : claim'[v] = g
    <3>1. g \in Keys /\ g # k
      BY SingleIsNoGroup DEF Keys
    <3> QED BY <1>1, <1>2, <2>2, <3>1 DEF IInv, ClaimsSound
  <2> QED BY <2>1, <2>2 DEF ClaimsSound
<1>4. \A i \in Keys : Own(i)' <=> Own(i)
  BY <1>1 DEF Own, Standalone
<1>5. Begins(k)
  BY <1>1, <1>2, PreparedShaped DEF Begins
<1> HIDE DEF k
<1> QED BY <1>1, <1>2, <1>3, <1>4, <1>5, BeginsAndClaims

LEMMA KeepsClaims ==
    ASSUME IInv, TypeOK', NEW g \in Groups, ClaimBatch(g)
    PROVE  IInv'
<1>1. /\ g \in Keys /\ jobs[g] = NoJob /\ UNCHANGED <<call, built, fate, sent>>
      /\ g \subseteq Uploads /\ g # None
      /\ \A u \in g : claim[u] = None
  BY WalrusAssumption DEF ClaimBatch, Keys, chainVars
<1>2. CASE \A u \in g : Encoded(jobs[Single(u)])
  <2>1. /\ jobs' = [k \in Keys |-> IF k = g THEN Prepared
                                   ELSE IF \E u \in g : k = Single(u) THEN Bumped(jobs[k])
                                   ELSE jobs[k]]
        /\ claim' = [u \in Uploads |-> IF u \in g THEN g ELSE claim[u]]
    BY <1>2 DEF ClaimBatch
  <2>2. Begins(g)
    BY <1>1, <2>1, PreparedShaped DEF Begins
  <2>3. \A u \in g : Single(u) \in Keys /\ Single(u) # g /\ Claimed(Single(u))
    BY <1>1, <1>2, <2>1, SingleIsNoGroup DEF Claimed, Keys
  <2>4. ASSUME NEW i \in Keys, i # g, ~ \E u \in g : i = Single(u)
        PROVE  jobs'[i] = jobs[i] /\ (Own(i)' <=> Own(i))
    <3>1. jobs'[i] = jobs[i]
      BY <2>1, <2>4
    <3>2. \A u \in Uploads : i = Single(u) => claim'[u] = claim[u]
      BY <2>1, <2>4
    <3> QED BY <3>1, <3>2 DEF Own, Standalone
  <2>5. ClaimsSound'
    <3>1. ASSUME NEW u \in Uploads, claim'[u] # None
          PROVE  Encoded(jobs'[Single(u)]) \/ jobs'[Single(u)].state = "complete"
      <4>1. Single(u) \in Keys /\ Single(u) # g
        BY SingleIsNoGroup DEF Keys
      <4>2. CASE u \in g
        <5>1. jobs[Single(u)] \in Job
          BY <4>1, Typed DEF IInv
        <5> QED BY <4>2, <5>1, <2>3 DEF Claimed, Encoded, Bumped, Job
      <4>3. CASE u \notin g
        <5>1. \A v \in g : Single(u) # Single(v)
          BY <1>1, <4>3, SingleIsNoGroup
        <5>2. jobs'[Single(u)] = jobs[Single(u)] /\ claim'[u] = claim[u]
          BY <2>1, <4>1, <4>3, <5>1
        <5> QED BY <3>1, <5>2 DEF IInv, ClaimsSound
      <4> QED BY <4>2, <4>3
    <3>2. ASSUME NEW h \in Groups, jobs'[h].state \notin {"none", "legacy"}
          PROVE  \A u \in h : claim'[u] = h
      <4>1. CASE h = g
        BY <1>1, <2>1, <4>1
      <4>2. CASE h # g
        <5>1. h \in Keys /\ h \subseteq Uploads /\ h # None /\ jobs'[h] = jobs[h]
          BY <4>2, <1>1, <2>1, SingleIsNoGroup, WalrusAssumption DEF Keys
        <5>2. \A u \in h : claim[u] = h
          BY <3>2, <5>1 DEF IInv, ClaimsSound
        <5> QED BY <1>1, <2>1, <5>1, <5>2
      <4> QED BY <4>1, <4>2
    <3> QED BY <3>1, <3>2 DEF ClaimsSound
  <2> QED BY <1>1, <2>2, <2>3, <2>4, <2>5, BeginsAndClaims
<1>3. CASE ~ \A u \in g : Encoded(jobs[Single(u)])
  <2>1. jobs' = [jobs EXCEPT ![g].state = "legacy"] /\ claim' = claim
    BY <1>3 DEF ClaimBatch
  <2>2. /\ jobs'[g] = [NoJob EXCEPT !.state = "legacy"]
        /\ \A i \in Keys : i # g => jobs'[i] = jobs[i]
    BY <1>1, <2>1 DEF IInv, TypeOK
  <2>3. Begins(g)
    BY <1>1, <2>2 DEF Begins, Shaped, NoJob
  <2>4. \A i \in Keys : Own(i)' <=> Own(i)
    BY <2>1 DEF Own, Standalone
  <2>5. ClaimsSound'
    <3>1. jobs'[g].state = "legacy"
      BY <2>2 DEF NoJob
    <3>2. \A u \in Uploads : Single(u) \in Keys /\ Single(u) # g
      BY SingleIsNoGroup DEF Keys
    <3>3. \A h \in Groups : h \in Keys
      BY DEF Keys
    <3> QED BY <2>1, <2>2, <3>1, <3>2, <3>3 DEF IInv, ClaimsSound
  <2> QED BY <1>1, <2>2, <2>3, <2>4, <2>5, BeginsAndClaims
<1> QED BY <1>2, <1>3

-----------------------------------------------------------------------------
(* The invariant is kept: calls that write nothing. *)

LEMMA CallMoves ==
    ASSUME IInv, TypeOK', NEW t \in Tabs,
           UNCHANGED <<jobs, claim, fate>>, Grows,
           Others(t), call'[t].at # "prompt", OneByOne', Knows(t)',
           sent \subseteq sent',
           \A d \in sent' \ sent : d \in 1..Len(built) /\ (Tracked(d) \/ Doubtful(d)')
    PROVE  IInv'
<1>1. \A d \in 1..Len(built) : d \in 1..Len(built)' /\ built'[d] = built[d]
  BY Typed DEF IInv, TypeOK, Grows
<1>2. \A i \in Keys : Own(i)' <=> Own(i)
  BY DEF Own, Standalone
<1>3. JobsSound'
  <2>1. ASSUME NEW i \in Keys PROVE Shaped(jobs[i])' /\ (Own(i)' => Traced(i, jobs[i])')
    <3>1. Shaped(jobs[i]) /\ (Own(i) => Traced(i, jobs[i]))
      BY DEF IInv, JobsSound
    <3> QED BY <3>1, <1>1, <1>2 DEF Shaped, Traced, BuiltFor
  <2> QED BY <2>1 DEF JobsSound
<1>4. ClaimsSound'
  BY DEF IInv, ClaimsSound
<1>5. Lasting
  <2>1. \A d \in 1..Len(built) : built[d].key \in Keys
    BY Typed DEF IInv, Transaction
  <2> QED BY <2>1, <1>1, <1>2 DEF Lasting, Tracked
<1>6. ASSUME NEW s \in Tabs, s # t PROVE Knows(s)'
  <2>1. Knows(s) /\ call'[s] = call[s]
    BY <1>6 DEF IInv, Others
  <2>2. call[s].at # "idle" => Moves(call[s].key)
    BY <1>2, <2>1 DEF Moves, Knows
  <2> QED BY <1>5, <2>1, <2>2, OthersKnow DEF IInv
<1>7. SentTracked'
  <2> SUFFICES ASSUME NEW d \in sent'
      PROVE  d \in 1..Len(built)' /\ (Tracked(d)' \/ Doubtful(d)')
    BY DEF SentTracked
  <2>1. d \in 1..Len(built) /\ (Tracked(d) \/ Doubtful(d) \/ Doubtful(d)')
    BY DEF SentTracked, IInv
  <2>2. CASE Tracked(d)
    BY <2>1, <2>2, <1>1, <1>5 DEF Lasting
  <2>3. CASE Doubtful(d)
    BY <2>1, <2>3, <1>1 DEF Doubtful, Prompting, Others
  <2> QED BY <1>1, <2>1, <2>2, <2>3
<1>8. ExecutedWasSent'
  BY DEF IInv, ExecutedWasSent
<1> QED BY <1>3, <1>4, <1>6, <1>7, <1>8 DEF IInv

LEMMA KeepsReturns ==
    ASSUME IInv, TypeOK', NEW t \in Tabs, WalletSends(t) \/ Abandon(t)
    PROVE  IInv'
<1>1. Return(t) /\ UNCHANGED <<jobs, claim, fate>> /\ built' = built
  BY DEF WalletSends, Abandon, storeVars, chainVars
<1>2. Others(t) /\ call'[t].at # "prompt" /\ OneByOne' /\ Knows(t)'
  BY <1>1, Returned
<1>3. Grows
  BY <1>1, Typed DEF Grows, IInv
<1>4. CASE Abandon(t)
  <2>1. sent' = sent
    BY <1>4 DEF Abandon, chainVars
  <2> QED BY <1>1, <1>2, <1>3, <2>1, CallMoves
<1>5. CASE WalletSends(t)
  <2>0. PICK k, d : k = call[t].key /\ d = call[t].job.tx
    OBVIOUS
  <2>1. /\ sent' = sent \cup {d} /\ k \in Groups /\ call[t].job = jobs[k]
        /\ jobs[k].state = "signing" /\ jobs[k].tx = d /\ call[t].at = "prompt"
    BY <1>5, <2>0 DEF WalletSends, IInv, Knows
  <2>2. k \in Keys /\ Own(k)
    BY <2>1 DEF Keys, Own
  <2>3. Shaped(jobs[k]) /\ Traced(k, jobs[k])
    BY <2>2 DEF IInv, JobsSound
  <2>4. d \in 1..Len(built) /\ built[d].key = k
    BY <2>1, <2>3 DEF Shaped, Traced, BuiltFor
  <2>5. \A s \in Tabs : ~ Prompting(s, k)'
    <3>1. \A s \in Tabs : s # t => ~ Prompting(s, k)
      BY <2>0, <2>1, PromptAlone
    <3> QED BY <1>2, <3>1 DEF Others, Prompting
  <2>6. Doubtful(d)'
    BY <1>1, <2>1, <2>4, <2>5 DEF Doubtful
  <2> QED BY <1>1, <1>2, <1>3, <2>1, <2>4, <2>6, CallMoves
<1> QED BY <1>4, <1>5

LEMMA KeepsReviewed ==
    ASSUME IInv, TypeOK', NEW t \in Tabs, SignReviewed(t)
    PROVE  IInv'
<1>1. /\ UNCHANGED <<jobs, claim, built, fate, sent>> /\ call[t].at = "review"
      /\ call' = [call EXCEPT ![t].at = "wallet"]
  BY DEF SignReviewed, Goto, storeVars, chainVars
<1>2. /\ Others(t) /\ call'[t].at = "wallet" /\ call'[t].key = call[t].key
      /\ call'[t].job = call[t].job /\ call'[t].tx = call[t].tx
  BY <1>1 DEF Others, IInv, TypeOK, Call
<1>3. Knows(t)
  BY DEF IInv
<1>5. Knows(t)'
  BY <1>1, <1>2, <1>3 DEF Knows, BuiltFor, Own, Standalone
<1>6. OneByOne'
  BY <1>2, OneByOneKept DEF Others, IInv, Exclusive
<1>7. Grows
  BY <1>1, Typed DEF Grows, IInv
<1> QED BY <1>1, <1>2, <1>5, <1>6, <1>7, CallMoves

LEMMA KeepsSending ==
    ASSUME IInv, TypeOK', NEW t \in Tabs, Broadcast(t)
    PROVE  IInv'
<1>0. PICK k, job : k = call[t].key /\ job = call[t].job
  OBVIOUS
<1>1. /\ UNCHANGED <<jobs, claim, built, fate>> /\ call[t].at = "ask"
      /\ job.state = "signed" /\ sent' = sent \cup {job.tx}
      /\ Return(t) \/ Goto(t, "sent")
  BY <1>0 DEF Broadcast, storeVars
<1>2. /\ job.tx \in 1..Len(built) /\ built[job.tx].key = k /\ Tracked(job.tx)
      /\ k \in Keys /\ job.revision <= jobs[k].revision
      /\ job.revision = jobs[k].revision => job = jobs[k] /\ Own(k)
  BY <1>0, <1>1 DEF IInv, Knows
<1>3. Grows
  BY <1>1, Typed DEF Grows, IInv
<1>4. CASE Return(t)
  BY <1>1, <1>2, <1>3, <1>4, Returned, CallMoves
<1>5. CASE Goto(t, "sent")
  <2>1. /\ Others(t) /\ call'[t].at = "sent" /\ call'[t].key = k /\ call'[t].job = job
    BY <1>0, <1>5 DEF Goto, Others, IInv, TypeOK, Call
  <2>2. OneByOne'
    BY <1>0, <1>1, <2>1, OneByOneKept DEF Others, IInv, Exclusive
  <2>3. (Own(k)' <=> Own(k)) /\ Tracked(job.tx)'
    BY <1>1, <1>2 DEF Own, Standalone, Tracked
  <2>4. Knows(t)'
    BY <1>1, <1>2, <2>1, <2>3 DEF Knows
  <2> QED BY <1>1, <1>2, <1>3, <2>1, <2>2, <2>4, CallMoves
<1> QED BY <1>1, <1>4, <1>5

LEMMA KeepsResumed ==
    ASSUME IInv, TypeOK', NEW t \in Tabs, NEW k \in Keys, Resume(t, k)
    PROVE  IInv'
<1>1. /\ UNCHANGED <<jobs, claim, built, fate, sent>> /\ call[t] = Idle
      /\ Own(k) /\ ~ Busy(k)
      /\ jobs[k].state \in {"signing", "signed", "finalized"}
      /\ Begin(t, k, IF jobs[k].state = "finalized" THEN "store" ELSE "ask")
  BY SingleIsNoGroup DEF Resume, Begin, storeVars, chainVars, Own, InBatch, Standalone, Busy
<1>2. PICK at : at = IF jobs[k].state = "finalized" THEN "store" ELSE "ask"
  OBVIOUS
<1>3. call'[t] = [Idle EXCEPT !.at = at, !.key = k, !.job = jobs[k]] /\ Others(t)
  BY <1>1, <1>2 DEF Begin, Others, IInv, TypeOK
<1>4. call'[t].at = at /\ call'[t].key = k /\ call'[t].job = jobs[k]
  BY <1>3 DEF Idle
<1>5. jobs[k] \in Job /\ Shaped(jobs[k]) /\ Traced(k, jobs[k]) /\ jobs[k].revision \in Nat
  BY <1>1, Typed DEF IInv, JobsSound
<1>6. jobs[k].state = "signed" => /\ jobs[k].tx \in 1..Len(built) /\ built[jobs[k].tx].key = k
                                  /\ Names(jobs[k], jobs[k].tx)
  BY <1>5 DEF Shaped, Traced, BuiltFor, Names
<1>7. (Own(k)' <=> Own(k)) /\ jobs' = jobs /\ built' = built
  BY <1>1 DEF Own, Standalone
<1>8. jobs[k].state = "signed" => Tracked(jobs[k].tx)'
  BY <1>1, <1>6, <1>7 DEF Tracked
<1>9. Knows(t)'
  BY <1>1, <1>2, <1>4, <1>5, <1>6, <1>7, <1>8 DEF Knows
<1>10. OneByOne'
  BY <1>1, <1>3, <1>4, OneByOneKept DEF Others, IInv
<1>11. Grows
  BY <1>1, Typed DEF Grows, IInv
<1> QED BY <1>1, <1>2, <1>3, <1>4, <1>9, <1>10, <1>11, CallMoves

LEMMA KeepsBuilt ==
    ASSUME IInv, TypeOK', NEW t \in Tabs, NEW k \in Keys, Build(t, k)
    PROVE  IInv'
<1> DEFINE n == Len(built) + 1
<1>1. /\ UNCHANGED <<jobs, claim, fate, sent>> /\ jobs[k].state = "ready" /\ Own(k)
      /\ built' = Append(built, [key |-> k, stage |-> jobs[k].stage,
                                 registration |-> jobs[k].registration])
  BY DEF Build, storeVars, chainVars, Own, InBatch
<1>2. PICK at \in {"review", "wallet"} :
          call' = [call EXCEPT ![t] = [at |-> at, key |-> k, job |-> jobs[k], tx |-> Len(built) + 1]]
  BY DEF Build
<1>3. call'[t] = [at |-> at, key |-> k, job |-> jobs[k], tx |-> n] /\ Others(t)
  BY <1>2 DEF Others, IInv, TypeOK
<1>4. /\ Len(built') = n /\ n \in 1..Len(built') /\ Len(built) \in Nat
      /\ \A d \in 1..Len(built) : built'[d] = built[d]
      /\ built'[n] = [key |-> k, stage |-> jobs[k].stage, registration |-> jobs[k].registration]
  BY <1>1, Typed DEF IInv, TypeOK
<1>5. Grows
  BY <1>4 DEF Grows
<1>6. jobs[k].revision \in Nat /\ (Own(k)' <=> Own(k))
  BY <1>1, Typed DEF IInv, Own, Standalone
<1> HIDE DEF n
<1>7. Knows(t)'
  BY <1>1, <1>3, <1>4, <1>6 DEF Knows, BuiltFor
<1>8. OneByOne'
  BY <1>3, OneByOneKept DEF Others, IInv, Exclusive
<1> QED BY <1>1, <1>3, <1>5, <1>7, <1>8, CallMoves

-----------------------------------------------------------------------------
(* The invariant is kept by the chain, and by every step. *)

LEMMA KeepsChain ==
    ASSUME IInv, TypeOK', NEW d \in Digests, Execute(d) \/ Lapse(d)
    PROVE  IInv'
<1>1. /\ UNCHANGED <<jobs, claim, call, built, sent>> /\ fate[d] = "none"
      /\ \E outcome : fate' = [fate EXCEPT ![d] = outcome]
      /\ fate'[d] \in {"success", "failure"} => d \in sent
  BY DEF Execute, Lapse, storeVars, IInv, TypeOK
<1>2. \A e \in Digests : e # d => fate'[e] = fate[e]
  BY <1>1 DEF IInv, TypeOK
<1>3. \A i \in Keys : Own(i)' <=> Own(i)
  BY <1>1 DEF Own, Standalone
<1>4. JobsSound'
  <2>1. ASSUME NEW i \in Keys PROVE Shaped(jobs[i])' /\ (Own(i)' => Traced(i, jobs[i])')
    <3>1. Shaped(jobs[i]) /\ (Own(i) => Traced(i, jobs[i])) /\ jobs[i].registration \in Digests \cup {None}
      BY Typed DEF IInv, JobsSound
    <3>2. Shaped(jobs[i])'
      BY <1>1, <3>1 DEF Shaped
    <3> QED BY <1>1, <1>2, <1>3, <3>1, <3>2 DEF Traced, BuiltFor
  <2> QED BY <2>1 DEF JobsSound
<1>5. ClaimsSound' /\ OneByOne'
  BY <1>1 DEF IInv, ClaimsSound, OneByOne
<1>6. SentTracked' /\ Lasting
  BY <1>1, <1>3 DEF IInv, SentTracked, Lasting, Tracked, Doubtful, Prompting, Own, Standalone
<1>7. ExecutedWasSent'
  BY <1>1, <1>2 DEF IInv, ExecutedWasSent
<1>8. ASSUME NEW s \in Tabs PROVE Knows(s)'
  <2>1. Knows(s) /\ call'[s] = call[s]
    BY <1>1 DEF IInv
  <2>2. call[s].at # "idle" => Moves(call[s].key)
    BY <1>1, <1>3, <2>1 DEF Moves, Knows
  <2>3. Grows
    BY <1>1, Typed DEF Grows, IInv
  <2> QED BY <1>1, <1>6, <2>1, <2>2, <2>3, OthersKnow DEF IInv
<1> QED BY <1>4, <1>5, <1>6, <1>7, <1>8 DEF IInv

LEMMA InitSafe == Init => IInv
<1> SUFFICES ASSUME Init PROVE IInv
  OBVIOUS
<1>1. TypeOK
  <2>1. Idle \in Call
    BY PreparedTyped DEF Idle, Call, Steps
  <2>2. << >> \in Seq(Transaction) /\ Len(<< >>) = 0
    OBVIOUS
  <2> QED BY <2>1, <2>2, PreparedTyped, WalrusAssumption DEF Init, TypeOK
<1>2. JobsSound
  BY DEF Init, JobsSound, Shaped, Traced, NoJob
<1>3. ClaimsSound
  <2>1. \A g \in Groups : g \in Keys
    BY DEF Keys
  <2> QED BY <2>1 DEF Init, ClaimsSound, NoJob
<1>4. SentTracked /\ ExecutedWasSent /\ OneByOne
  BY DEF Init, SentTracked, ExecutedWasSent, OneByOne, Exclusive, Idle
<1>5. \A t \in Tabs : Knows(t)
  BY DEF Init, Knows, Idle
<1> QED BY <1>1, <1>2, <1>3, <1>4, <1>5 DEF IInv

LEMMA StepSafe == IInv /\ [Next]_vars => IInv'
<1> SUFFICES ASSUME IInv, [Next]_vars PROVE IInv'
  OBVIOUS
<1>1. TypeOK'
  BY TypeStep DEF IInv
<1>2. CASE \E u \in Uploads : Prepare(u)
  BY <1>1, <1>2, KeepsUploads
<1>3. CASE \E g \in Groups : ClaimBatch(g) \/ DropReview(g)
  BY <1>1, <1>3, KeepsClaims, KeepsReviews
<1>4. CASE \E g \in Groups, t \in Tabs : SignBatch(t, g)
  BY <1>1, <1>4, KeepsPrompt
<1>5. CASE \E t \in Tabs, k \in Keys : Build(t, k) \/ Resume(t, k)
  BY <1>1, <1>5, KeepsBuilt, KeepsResumed
<1>6. CASE \E t \in Tabs : Advance(t)
  BY <1>1, <1>6, KeepsSignature, KeepsAnswer, KeepsAdoption, KeepsBroadcast, KeepsRegistered,
     KeepsStored, KeepsComplete, KeepsReturns, KeepsReviewed, KeepsSending DEF Advance
<1>7. CASE \E d \in Digests : Execute(d) \/ Lapse(d)
  BY <1>1, <1>7, KeepsChain
<1>8. CASE UNCHANGED vars
  BY <1>8 DEF vars, storeVars, chainVars, IInv, TypeOK, JobsSound, ClaimsSound, Traced, BuiltFor,
             Own, Standalone, SentTracked, Tracked, Doubtful, Prompting, ExecutedWasSent,
             OneByOne, Knows
<1> QED BY <1>2, <1>3, <1>4, <1>5, <1>6, <1>7, <1>8 DEF Next

(* The inductive invariant holds of the store, the calls and the chain.    *)
THEOREM Inductive == Spec => []IInv
BY InitSafe, StepSafe, PTL DEF Spec

(* Every variable keeps its type. *)
THEOREM TypeCorrect == Spec => []TypeOK
BY Inductive, PTL DEF IInv

-----------------------------------------------------------------------------
(* Who bought what. *)

(* The job that signs for an upload, by its key *)
Charge(u) == IF claim[u] = None THEN Single(u) ELSE claim[u]

LEMMA SentCharge ==
    ASSUME IInv, NEW d \in sent, NEW u \in built[d].key
    PROVE  LET k == Charge(u)
           IN /\ d \in 1..Len(built) /\ d \in Digests /\ d # None /\ u \in Uploads
              /\ built[d].key = k /\ k \in Keys /\ Own(k)
              /\ d = jobs[k].registration \/ d = jobs[k].tx
<1> DEFINE k == built[d].key
<1>1. d \in 1..Len(built) /\ (Tracked(d) \/ Doubtful(d))
  BY DEF IInv, SentTracked
<1>2. d \in Digests /\ d # None /\ k \in Keys
  BY <1>1, Typed DEF IInv, Transaction
<1>3. u \in Uploads
  BY <1>2, WalrusAssumption DEF Keys, Single
<1>4. Own(k) /\ (d = jobs[k].registration \/ d = jobs[k].tx)
  BY <1>1 DEF Tracked, Doubtful, Names, Own
<1>5. k \in Groups => claim[u] = k /\ k # None
  <2> SUFFICES ASSUME k \in Groups PROVE claim[u] = k /\ k # None
    OBVIOUS
  <2>1. Shaped(jobs[k])
    BY <1>2 DEF IInv, JobsSound
  <2>2. jobs[k].state \notin {"none", "legacy"}
    BY <1>2, <1>4, <2>1 DEF Shaped
  <2> QED BY <2>2, WalrusAssumption DEF IInv, ClaimsSound
<1>6. k \notin Groups => k = Single(u) /\ claim[u] = None
  BY <1>4 DEF Own, Standalone, Single
<1>7. Charge(u) = k
  BY <1>5, <1>6 DEF Charge
<1> QED BY <1>1, <1>2, <1>3, <1>4, <1>7

LEMMA OneEach ==
    ASSUME IInv, NEW d \in sent, NEW e \in sent, NEW u,
           u \in built[d].key, u \in built[e].key,
           built[d].stage = "register", built[e].stage = "register"
    PROVE  d = e
<1> DEFINE k == Charge(u)
           job == jobs[k]
<1>1. /\ k \in Keys /\ Own(k) /\ d # None /\ e # None
      /\ d = job.registration \/ d = job.tx
      /\ e = job.registration \/ e = job.tx
  BY SentCharge
<1>2. Shaped(job) /\ Traced(k, job)
  BY <1>1 DEF IInv, JobsSound
<1> HIDE DEF job
<1>3. job.tx \in {d, e} => job.stage = "register"
  BY <1>1, <1>2 DEF Traced, BuiltFor
<1>4. job.registration # None /\ job.stage = "register" => job.registration = job.tx
  BY <1>2 DEF Shaped
<1> QED BY <1>1, <1>3, <1>4

(* Storage that was paid for stays on record: no write, claim or retry of   *)
(* prepareBatch, signBatchReviewed, settle or settleBatch loses it.         *)
THEOREM PaidStays == Spec => []PaidIsKept
<1>1. IInv => PaidIsKept
  <2> SUFFICES ASSUME IInv, NEW u \in Uploads, NEW d \in Bought(u)
      PROVE  d \in {InCharge(u).tx, InCharge(u).registration}
    BY DEF PaidIsKept
  <2>1. d \in sent /\ u \in built[d].key
    BY DEF Bought, Succeeded, IInv, ExecutedWasSent
  <2>2. InCharge(u) = jobs[Charge(u)]
    BY DEF InCharge, Charge
  <2> QED BY <2>1, <2>2, SentCharge
<1> QED BY <1>1, Inductive, PTL

-----------------------------------------------------------------------------
(* The uploads implement the purchase. *)

Certified == {u \in Uploads : \E d \in Succeeded("certify") : u \in built[d].key}
Completed == {u \in Uploads : jobs[Single(u)].state = "complete"}

LEMMA BuiltGrows ==
    ASSUME IInv, [Next]_vars
    PROVE  Grows
<1>1. built \in Seq(Transaction)
  BY DEF IInv, TypeOK
<1>2. CASE built' = built
  BY <1>2, Typed DEF Grows, IInv
<1>3. ASSUME NEW t \in Tabs, NEW k \in Keys, Build(t, k) PROVE Grows
  <2>1. PICK b : built' = Append(built, b)
    BY <1>3 DEF Build
  <2>2. /\ Len(built') = Len(built) + 1 /\ Len(built) \in Nat
        /\ \A d \in 1..Len(built) : built'[d] = built[d]
    BY <1>1, <2>1
  <2> QED BY <2>2 DEF Grows
<1> QED BY <1>2, <1>3 DEF Next, Advance, vars, storeVars, chainVars, Prepare, ClaimBatch,
       DropReview, SignBatch, Resume, SignReviewed, KeepSignature, KeepReview, WalletRejects,
       KeepBatchSignature, WalletSends, SaveFailure, Broadcast, SaveBroadcast, AdoptSignature,
       SaveRegistered, Store, SaveComplete, Abandon, Execute, Lapse

(* Nothing is bought or certified but by a transaction that executes.       *)
LEMMA ChainStays ==
    ASSUME IInv, IInv', Grows, \A d \in Digests : fate'[d] = "success" <=> fate[d] = "success"
    PROVE  Certified' = Certified /\ \A u \in Uploads : Bought(u)' = Bought(u)
<1>1. ASSUME NEW d \in Digests, fate[d] = "success"
      PROVE  /\ d \in 1..Len(built) /\ d <= Len(built) /\ d <= Len(built') /\ built'[d] = built[d]
  BY <1>1, Typed DEF IInv, ExecutedWasSent, SentTracked, Grows, TypeOK
<1>2. \A stage : Succeeded(stage)' = Succeeded(stage)
  BY <1>1 DEF Succeeded
<1>3. \A stage : \A d \in Succeeded(stage) : built'[d] = built[d]
  BY <1>1 DEF Succeeded
<1> QED BY <1>2, <1>3 DEF Certified, Bought

LEMMA CompleteStays ==
    ASSUME IInv, Next, \A t \in Tabs : ~ SaveComplete(t)
    PROVE  Completed' = Completed
<1> SUFFICES \A u \in Uploads : jobs'[Single(u)].state = "complete"
                                    <=> jobs[Single(u)].state = "complete"
  BY DEF Completed
<1>1. \A u \in Uploads : Single(u) \in Keys /\ Single(u) \notin Groups
  BY SingleIsNoGroup DEF Keys
<1>2. CASE jobs' = jobs
  BY <1>2
<1>3. ASSUME NEW v \in Uploads, Prepare(v)
      PROVE  \A u \in Uploads : jobs'[Single(u)].state = "complete"
                                    <=> jobs[Single(u)].state = "complete"
  BY <1>1, <1>3 DEF Prepare, Prepared, NoJob, IInv, TypeOK
<1>4. ASSUME NEW g \in Groups, ClaimBatch(g)
      PROVE  \A u \in Uploads : jobs'[Single(u)].state = "complete"
                                    <=> jobs[Single(u)].state = "complete"
  <2>1. \A i \in Keys : jobs[i] \in Job
    BY Typed DEF IInv
  <2>2. \A i \in Keys : Bumped(jobs[i]).state = jobs[i].state
    BY <2>1 DEF Bumped, Job
  <2>3. CASE \A u \in g : Encoded(jobs[Single(u)])
    <3>1. \A i \in Keys : i # g => jobs'[i] \in {jobs[i], Bumped(jobs[i])}
      BY <1>4, <2>3 DEF ClaimBatch
    <3> QED BY <1>1, <2>2, <3>1
  <2>4. CASE ~ \A u \in g : Encoded(jobs[Single(u)])
    <3>1. jobs' = [jobs EXCEPT ![g].state = "legacy"]
      BY <1>4, <2>4 DEF ClaimBatch
    <3>2. \A i \in Keys : i # g => jobs'[i] = jobs[i]
      BY <3>1 DEF IInv, TypeOK
    <3> QED BY <1>1, <3>2
  <2> QED BY <2>3, <2>4
<1>5. ASSUME NEW g \in Groups, DropReview(g) \/ \E t \in Tabs : SignBatch(t, g)
      PROVE  \A u \in Uploads : jobs'[Single(u)].state = "complete"
                                    <=> jobs[Single(u)].state = "complete"
  <2>1. \A i \in Keys : i # g => jobs'[i] = jobs[i]
    BY <1>5 DEF DropReview, SignBatch, IInv, TypeOK
  <2> QED BY <1>1, <2>1
<1>6. ASSUME NEW t \in Tabs, NEW new \in Job, Swap(t, new), new.state # "complete",
             call[t].at # "idle"
      PROVE  \A u \in Uploads : jobs'[Single(u)].state = "complete"
                                    <=> jobs[Single(u)].state = "complete"
  <2>1. jobs[call[t].key].state # "complete" /\ call[t].key \in Keys
    BY <1>6, Typed DEF Swap, IInv, Knows, Call, Steps
  <2>2. jobs'[call[t].key].state # "complete"
    BY <1>6, <2>1 DEF Swap, Bumped, Job, IInv, TypeOK
  <2> QED BY <1>1, <1>6, <2>1, <2>2 DEF Swap, IInv, TypeOK
<1>7. ASSUME NEW t \in Tabs, Advance(t)
      PROVE  \A u \in Uploads : jobs'[Single(u)].state = "complete"
                                    <=> jobs[Single(u)].state = "complete"
  <2> DEFINE job == call[t].job
  <2>1. job \in Job /\ call[t].tx \in Digests \cup {None}
    BY Typed DEF IInv
  <2>2. ASSUME NEW state \in States PROVE [job EXCEPT !.state = state] \in Job
    BY <2>1 DEF Job
  <2>3. CASE KeepSignature(t) \/ KeepReview(t)
    <3>1. PICK state \in {"signed", "prepared"} :
              Swap(t, [job EXCEPT !.state = state, !.tx = call[t].tx, !.broadcast = FALSE])
      BY <2>3 DEF KeepSignature, KeepReview
    <3> DEFINE new == [job EXCEPT !.state = state, !.tx = call[t].tx, !.broadcast = FALSE]
    <3>2. new \in Job /\ new.state # "complete"
      BY <2>1 DEF Job, States
    <3> QED BY <1>6, <2>3, <3>1, <3>2 DEF KeepSignature, KeepReview
  <2>4. CASE WalletRejects(t) \/ KeepBatchSignature(t) \/ SaveFailure(t) \/ AdoptSignature(t)
    <3>1. PICK state \in {"prepared", "signed", "failed"} : Swap(t, [job EXCEPT !.state = state])
      BY <2>4 DEF WalletRejects, KeepBatchSignature, SaveFailure, AdoptSignature
    <3> DEFINE new == [job EXCEPT !.state = state]
    <3>2. new \in Job /\ new.state # "complete"
      BY <2>1, <2>2 DEF Job, States
    <3> QED BY <1>6, <2>4, <3>1, <3>2
            DEF WalletRejects, KeepBatchSignature, SaveFailure, AdoptSignature, Told
  <2>5. CASE SaveBroadcast(t)
    <3>1. [job EXCEPT !.broadcast = TRUE] \in Job
             /\ [job EXCEPT !.broadcast = TRUE].state # "complete" /\ call[t].at # "idle"
      BY <2>1, <2>5 DEF Job, SaveBroadcast, IInv, Knows
    <3> QED BY <1>6, <2>5, <3>1 DEF SaveBroadcast
  <2>6. CASE SaveRegistered(t)
    <3> DEFINE new == [job EXCEPT !.state = "finalized", !.registration = job.tx]
    <3>1. new \in Job /\ new.state # "complete"
      BY <2>1 DEF Job, States
    <3> QED BY <1>6, <2>6, <3>1 DEF SaveRegistered, Told
  <2>7. CASE Store(t)
    <3>1. call[t].at = "store" /\ job.state = "finalized" /\ call[t].key \subseteq Uploads
      BY <2>7, WalrusAssumption DEF Store, IInv, Knows, Keys, Single
    <3> DEFINE last == [job EXCEPT !.state = "ready", !.stage = "certify", !.tx = None,
                                   !.broadcast = FALSE, !.stored = call[t].key]
               one(v) == [job EXCEPT !.stored = @ \cup {v}]
    <3>2. last \in Job /\ last.state # "complete"
      BY <2>1, <3>1 DEF Job, States, Stages
    <3>3. \A v \in call[t].key : one(v) \in Job /\ one(v).state # "complete"
      BY <2>1, <3>1 DEF Job
    <3>4. Swap(t, last) \/ \E v \in call[t].key : Swap(t, one(v))
      BY <2>7 DEF Store
    <3> HIDE DEF last, one
    <3> QED BY <1>6, <3>1, <3>2, <3>3, <3>4
  <2>8. CASE jobs' = jobs
    BY <2>8
  <2> QED BY <1>7, <2>3, <2>4, <2>5, <2>6, <2>7, <2>8
          DEF Advance, SignReviewed, WalletSends, Broadcast, Abandon, storeVars
<1> QED BY <1>2, <1>3, <1>4, <1>5, <1>7 DEF Next, Build, Resume, Execute, Lapse, storeVars

LEMMA ExecutesPurchase ==
    ASSUME IInv, IInv', NEW d \in Digests, Execute(d)
    PROVE  [Purchase!PurchaseNext]_(Purchase!purchaseVars)
<1>1. /\ UNCHANGED <<jobs, built>> /\ d \in sent /\ fate[d] = "none"
      /\ fate' = [fate EXCEPT ![d] = "success"] \/ fate' = [fate EXCEPT ![d] = "failure"]
  BY DEF Execute, storeVars
<1>2. \A e \in Digests : e # d => fate'[e] = fate[e]
  BY <1>1 DEF IInv, TypeOK
<1>3. Completed' = Completed
  BY <1>1 DEF Completed
<1>4. CASE fate'[d] # "success"
  <2>1. Grows
    BY <1>1, Typed DEF Grows, IInv
  <2>2. \A e \in Digests : fate'[e] = "success" <=> fate[e] = "success"
    BY <1>1, <1>2, <1>4
  <2>3. Certified' = Certified /\ \A u \in Uploads : Bought(u)' = Bought(u)
    BY <2>1, <2>2, ChainStays
  <2> QED BY <1>3, <2>3 DEF Purchase!purchaseVars, Certified, Completed
<1>5. CASE fate'[d] = "success"
  <2> DEFINE k == built[d].key
             job == jobs[k]
  <2>1. /\ d \in 1..Len(built) /\ d <= Len(built) /\ k \in Keys /\ k \subseteq Uploads
        /\ built[d].stage \in Stages
    BY <1>1, Typed, WalrusAssumption DEF IInv, SentTracked, Transaction, Keys, Single
  <2>2. \A stage : Succeeded(stage)' = IF stage = built[d].stage THEN Succeeded(stage) \cup {d}
                                                                 ELSE Succeeded(stage)
    BY <1>1, <1>2, <1>5, <2>1 DEF Succeeded
  <2>3. k \in SUBSET Uploads
    BY <2>1
  <2>4. CASE built[d].stage = "register"
    <3>1. Certified' = Certified
      BY <1>1, <2>2, <2>4 DEF Certified
    <3>2. ASSUME NEW u \in k PROVE Bought(u) = {}
      <4> SUFFICES ASSUME NEW e \in Bought(u) PROVE FALSE
        OBVIOUS
      <4>1. e \in sent /\ u \in built[e].key /\ built[e].stage = "register" /\ fate[e] = "success"
        BY DEF Bought, Succeeded, IInv, ExecutedWasSent
      <4>2. e = d
        BY <1>1, <2>4, <3>2, <4>1, OneEach
      <4> QED BY <1>1, <4>1, <4>2
    <3>3. \A u \in Uploads : Bought(u)' = IF u \in k THEN {d} ELSE Bought(u)
      BY <1>1, <2>2, <2>4, <3>2 DEF Bought
    <3>4. Purchase!Buy(k, d)
      BY <1>3, <2>1, <3>1, <3>2, <3>3 DEF Purchase!Buy, Certified, Completed
    <3> QED BY <2>3, <3>4 DEF Purchase!PurchaseNext
  <2>5. CASE built[d].stage = "certify"
    <3>1. \A u \in Uploads : Bought(u)' = Bought(u)
      BY <1>1, <2>2, <2>5 DEF Bought
    <3>2. Certified' = Certified \cup k
      BY <1>1, <2>1, <2>2, <2>5 DEF Certified
    <3>3. ASSUME NEW u \in k PROVE Bought(u) # {}
      <4> HIDE DEF job
      <4>1. k = Charge(u) /\ Own(k) /\ (d = job.registration \/ d = job.tx) /\ d # None
        BY <1>1, <3>3, SentCharge DEF job
      <4>2. Shaped(job) /\ Traced(k, job)
        BY <2>1, <4>1 DEF IInv, JobsSound, job
      <4>3. job.tx = d
        BY <2>5, <4>1, <4>2 DEF Traced, BuiltFor
      <4>4. job.stage = "certify"
        BY <2>5, <4>1, <4>2, <4>3 DEF Traced, BuiltFor
      <4>5. job.registration # None
        BY <4>2, <4>4 DEF Shaped
      <4>6. BuiltFor(job.registration, k, "register") /\ fate[job.registration] = "success"
        BY <4>2, <4>5 DEF Traced
      <4>7. job.registration \in Bought(u)
        BY <3>3, <4>6, Typed DEF BuiltFor, Bought, Succeeded, IInv
      <4> QED BY <4>7
    <3>4. PICK group \in SUBSET Uploads : group = k
      BY <2>3
    <3>5. Purchase!Certify(group)
      BY <1>3, <3>1, <3>2, <3>3, <3>4 DEF Purchase!Certify, Certified, Completed
    <3> QED BY <3>5 DEF Purchase!PurchaseNext
  <2> QED BY <2>1, <2>4, <2>5 DEF Stages
<1> QED BY <1>4, <1>5

LEMMA CompletesPurchase ==
    ASSUME IInv, IInv', NEW t \in Tabs, SaveComplete(t)
    PROVE  [Purchase!PurchaseNext]_(Purchase!purchaseVars)
<1>0. PICK k, job : k = call[t].key /\ job = call[t].job
  OBVIOUS
<1>1. /\ UNCHANGED <<built, fate>> /\ jobs[k] = job /\ call[t].at = "ask"
      /\ \A u \in k : CertifiedObject(u, job.registration)
      /\ jobs' = [i \in Keys |->
                     IF i = k THEN Bumped([job EXCEPT !.state = "complete"])
                     ELSE IF InBatch(k) /\ \E u \in k : i = Single(u)
                     THEN Bumped([jobs[i] EXCEPT !.state = "complete", !.stage = "certify",
                                                 !.tx = job.tx, !.registration = job.registration,
                                                 !.stored = i])
                     ELSE jobs[i]]
  BY <1>0 DEF SaveComplete, Told, chainVars
<1>2. k \in Keys /\ job \in Job
  BY <1>0, <1>1, CallKnows
<1>3. k \in SUBSET Uploads
  BY <1>2, WalrusAssumption DEF Keys, Single
<1>4. Certified' = Certified /\ \A u \in Uploads : Bought(u)' = Bought(u)
  <2>1. Grows
    <3>1. built' = built
      BY <1>1
    <3> QED BY <3>1, Typed DEF Grows, IInv
  <2> QED BY <1>1, <2>1, ChainStays
<1>5. k \subseteq Certified
  BY <1>1, <1>3 DEF CertifiedObject, Certified
<1>6. Completed' = Completed \cup k
  <2>1. Bumped([job EXCEPT !.state = "complete"]).state = "complete"
    BY <1>2 DEF Bumped, Job
  <2>2. ASSUME NEW i \in Keys
        PROVE  Bumped([jobs[i] EXCEPT !.state = "complete", !.stage = "certify", !.tx = job.tx,
                           !.registration = job.registration, !.stored = i]).state = "complete"
    <3>1. jobs[i] \in Job
      BY Typed DEF IInv
    <3> QED BY <3>1 DEF Bumped, Job
  <2>3. ASSUME NEW u \in k PROVE jobs'[Single(u)].state = "complete"
    <3>1. Single(u) \in Keys
      BY <1>3 DEF Keys
    <3>2. k = Single(u) \/ InBatch(k)
      BY <1>2 DEF Keys, InBatch, Single
    <3> QED BY <1>1, <2>1, <2>2, <3>1, <3>2
  <2>4. ASSUME NEW u \in Uploads, u \notin k PROVE jobs'[Single(u)] = jobs[Single(u)]
    <3>1. Single(u) \in Keys /\ Single(u) # k
      BY <2>4 DEF Keys, Single
    <3>2. \A v \in k : Single(u) # Single(v)
      BY <1>3, <2>4, SingleIsNoGroup
    <3> QED BY <1>1, <3>1, <3>2
  <2> QED BY <1>3, <2>3, <2>4 DEF Completed
<1>7. Purchase!Report(k)
  BY <1>4, <1>5, <1>6 DEF Purchase!Report, Certified, Completed
<1> QED BY <1>3, <1>7 DEF Purchase!PurchaseNext

LEMMA RestUnseen ==
    ASSUME IInv, IInv', [Next]_vars, \A t \in Tabs : ~ SaveComplete(t),
           \A d \in Digests : ~ Execute(d)
    PROVE  UNCHANGED Purchase!purchaseVars
<1>1. \A d \in Digests : fate'[d] = "success" <=> fate[d] = "success"
  <2>1. CASE fate' = fate
    BY <2>1
  <2>2. ASSUME NEW d \in Digests, Lapse(d)
        PROVE  \A e \in Digests : fate'[e] = "success" <=> fate[e] = "success"
    BY <2>2 DEF Lapse, IInv, TypeOK
  <2> QED BY <2>1, <2>2 DEF Next, Advance, vars, chainVars, Prepare, ClaimBatch,
       DropReview, SignBatch, Build, Resume, SignReviewed, KeepSignature, KeepReview,
       WalletRejects, KeepBatchSignature, WalletSends, SaveFailure, Broadcast, SaveBroadcast,
       AdoptSignature, SaveRegistered, Store, Abandon
<1>2. Certified' = Certified /\ \A u \in Uploads : Bought(u)' = Bought(u)
  BY <1>1, BuiltGrows, ChainStays
<1>3. Completed' = Completed
  <2>1. CASE Next
    BY <2>1, CompleteStays
  <2>2. CASE UNCHANGED vars
    BY <2>2 DEF vars, storeVars, Completed
  <2> QED BY <2>1, <2>2
<1> QED BY <1>2, <1>3 DEF Purchase!purchaseVars, Certified, Completed

(* Uploads, whatever tabs, batches and wallets do, implement the abstract   *)
(* purchase: no blob is paid for twice, none is certified that was not      *)
(* bought, none is complete that is not certified.                          *)
THEOREM UploadsImplementPurchase == Spec => BoughtOnce
<1>1. Init => Purchase!PurchaseInit
  <2> SUFFICES ASSUME Init PROVE Purchase!PurchaseInit
    OBVIOUS
  <2>1. \A stage : Succeeded(stage) = {}
    BY DEF Init, Succeeded
  <2>2. \A u \in Uploads : Bought(u) = {}
    BY <2>1 DEF Bought
  <2>3. Certified = {}
    BY <2>1 DEF Certified
  <2>4. Completed = {}
    BY DEF Init, Completed, Keys, NoJob
  <2> QED BY <2>2, <2>3, <2>4 DEF Purchase!PurchaseInit, Certified, Completed
<1>2. IInv /\ IInv' /\ [Next]_vars => [Purchase!PurchaseNext]_(Purchase!purchaseVars)
  <2> SUFFICES ASSUME IInv, IInv', [Next]_vars
               PROVE  [Purchase!PurchaseNext]_(Purchase!purchaseVars)
    OBVIOUS
  <2>1. CASE \E t \in Tabs : SaveComplete(t)
    BY <2>1, CompletesPurchase
  <2>2. CASE \E d \in Digests : Execute(d)
    BY <2>2, ExecutesPurchase
  <2> QED BY <2>1, <2>2, RestUnseen
<1> QED BY <1>1, <1>2, Inductive, PTL DEF Spec, BoughtOnce, Purchase!PurchaseSpec

=============================================================================
