--------------------------- MODULE DraftStoreProofs ---------------------------
(***************************************************************************)
(* Theorems about DraftStore, for any drafts, assets, contents, hashes and *)
(* tabs: what a revision number promises to a tab that read it, that kept  *)
(* revisions keep their bytes although they share them, also when hashes   *)
(* collide, and that asset revisions tell contents apart.                  *)
(*                                                                         *)
(* Every write is a Commit of a next revision that fits: it is the first   *)
(* of a draft id never used, or follows the current one and renumbers the  *)
(* rows it changes.  The invariant is preserved by any such write; and a   *)
(* write, a deletion and a read are a write, a discard and a stutter of    *)
(* the DraftArchive.                                                       *)
(***************************************************************************)
EXTENDS DraftStore, TLAPS, WellFoundedInduction

-----------------------------------------------------------------------------
(* The inductive invariant.                                                *)

Ids == \A d \in Drafts : drafts[d] # None => d \in identities

(* Nothing that was kept, read or saved is ahead of its draft.             *)
Past ==
    /\ \A h \in history : h.draft \in identities /\
           (drafts[h.draft] # None => h.revision <= drafts[h.draft].revision)
    /\ \A v \in versions : v.draft \in identities /\
           (drafts[v.draft] # None => v.draftRevision <= drafts[v.draft].revision)
    /\ \A s \in saved : s.draft \in identities /\
           (drafts[s.draft] # None => s.revision <= drafts[s.draft].revision)
    /\ \A t \in Tabs : held[t] # None =>
           held[t].draft \in identities /\
           (drafts[held[t].draft] # None => held[t].record.revision <= drafts[held[t].draft].revision)

(* The name of a blob says the hash of its bytes, or the write that made it. *)
Named(b) ==
    \/ b = <<Hash[blobs[b]]>>
    \/ \E d \in identities, r \in Nat, a \in AssetIds :
           /\ b = <<Hash[blobs[b]], d, r, a>>
           /\ drafts[d] # None => r <= drafts[d].revision
BlobsNamed == \A b \in DOMAIN blobs : Named(b)

(* The rows of a draft are those of its last save, and no save is ahead.   *)
RowsGrow ==
    \A d \in Drafts : drafts[d] # None =>
        /\ \E s \in saved : s.draft = d /\ s.rows = drafts[d].rows
        /\ \A s \in saved : s.draft = d =>
               \A a \in DOMAIN s.rows \cap DOMAIN drafts[d].rows :
                   s.rows[a].revision <= drafts[d].rows[a].revision

DraftInv ==
    /\ DraftTypeOK /\ Ids /\ Past /\ BlobsNamed
    /\ VersionsIntact /\ RevisionDeterminesDraft /\ RowsGrow /\ AssetRevisionsApart

(* A next revision that a method may write.                                *)
Fits(d, next) ==
    /\ IsDraft(next) /\ next \in DraftsWith(DOMAIN next.rows)
    /\ \/ drafts[d] = None /\ d \notin identities
       \/ /\ drafts[d] # None /\ next.revision = drafts[d].revision + 1
          /\ \A a \in DOMAIN next.rows :
                 \/ a \in DOMAIN drafts[d].rows /\ next.rows[a] = drafts[d].rows[a]
                 \/ next.rows[a].revision = NextRevision(drafts[d], a)

(* Tabs read nothing.                                                      *)
OnlyLetGo == DOMAIN held' = Tabs /\ \A t \in Tabs : held'[t] = None \/ held'[t] = held[t]

Write(d, next) ==
    /\ Fits(d, next) /\ Commit(d, next) /\ OnlyLetGo
    /\ identities' = identities \cup {d}

SomeWrite == \E d \in Drafts : \E next : Write(d, next)

-----------------------------------------------------------------------------
(* Sets of naturals have a least element.                                  *)
LEMMA LeastOf ==
    ASSUME NEW S, S \subseteq Nat, S # {}
    PROVE  \E x \in S : \A y \in S : x <= y
<1> DEFINE R == OpToRel(<, Nat)
<1>1. IsWellFoundedOn(R, Nat)
  BY NatLessThanWellFounded
<1>2. \A x, y \in Nat : <<y, x>> \in R <=> y < x
  BY DEF OpToRel
<1> HIDE DEF R
<1>3. PICK x \in S : \A y \in S : ~(<<y, x>> \in R)
  BY <1>1, WFMin
<1>4. ASSUME NEW y \in S PROVE x <= y
  <2>1. x \in Nat /\ y \in Nat
    OBVIOUS
  <2>2. ~(y < x)
    BY <1>2, <1>3, <2>1, Zenon
  <2> QED BY <2>1, <2>2
<1> QED BY <1>4

LEMMA FirstIsFirst ==
    ASSUME NEW next, IsDraft(next), NEW a \in DOMAIN next.rows
    PROVE  LET c == next.rows[a].content
               e == FirstWith(next, c)
           IN /\ e \in DOMAIN next.rows /\ e \in Nat /\ next.rows[e].content = c
              /\ \A f \in DOMAIN next.rows : next.rows[f].content = c => e <= f
<1> DEFINE c == next.rows[a].content
           S == {e \in DOMAIN next.rows : next.rows[e].content = c}
<1>1. S \subseteq Nat /\ S # {} /\ DOMAIN next.rows \subseteq Nat
  BY DraftAssumption DEF IsDraft, DraftAssumption
<1>2. \E x \in S : \A y \in S : x <= y
  BY <1>1, LeastOf
<1> QED BY <1>1, <1>2 DEF FirstWith

-----------------------------------------------------------------------------
(* A row's blob is one with its bytes, or a new one under a free name.     *)
LEMMA BlobOf ==
    ASSUME DraftInv, NEW d \in Drafts, NEW next, Fits(d, next), NEW a \in DOMAIN next.rows
    PROVE  LET c == next.rows[a].content
               b == BlobId(d, next, a)
           IN \/ b \in DOMAIN blobs /\ blobs[b] = c
              \/ /\ b \notin DOMAIN blobs /\ b = <<Hash[c]>>
                 /\ \A f \in DOMAIN next.rows :
                        Hash[next.rows[f].content] = Hash[c] => ~(f < FirstWith(next, c))
              \/ b \notin DOMAIN blobs /\ b = <<Hash[c], d, next.revision, FirstWith(next, c)>>
<1> DEFINE c == next.rows[a].content
           b == BlobId(d, next, a)
<1>1. CASE Matching(c) # {}
  <2>1. b \in Matching(c)
    BY <1>1 DEF BlobId
  <2> QED BY <2>1 DEF Matching
<1>2. CASE Matching(c) = {} /\ ~Taken(next, c)
  <2>1. b = <<Hash[c]>>
    BY <1>2 DEF BlobId
  <2>2. \A e \in DOMAIN blobs : Hash[blobs[e]] # Hash[c]
    BY <1>2 DEF Taken
  <2>3. b \notin DOMAIN blobs
    <3> SUFFICES ASSUME b \in DOMAIN blobs PROVE FALSE
      OBVIOUS
    <3>1. Named(b)
      BY DEF DraftInv, BlobsNamed
    <3> QED BY <2>1, <2>2, <3>1 DEF Named
  <2>4. \A f \in DOMAIN next.rows :
            Hash[next.rows[f].content] = Hash[c] => ~(f < FirstWith(next, c))
    BY <1>2 DEF Taken
  <2> QED BY <2>1, <2>3, <2>4
<1>3. CASE Matching(c) = {} /\ Taken(next, c)
  <2> DEFINE e == FirstWith(next, c)
  <2>1. b = <<Hash[c], d, next.revision, e>>
    BY <1>3 DEF BlobId
  <2>2. b \notin DOMAIN blobs
    <3> SUFFICES ASSUME b \in DOMAIN blobs PROVE FALSE
      OBVIOUS
    <3>1. Named(b)
      BY DEF DraftInv, BlobsNamed
    <3> HIDE DEF e, c, b
    <3>2. PICK f \in identities, r \in Nat, g \in AssetIds :
             /\ b = <<Hash[blobs[b]], f, r, g>>
             /\ drafts[f] # None => r <= drafts[f].revision
      BY <2>1, <3>1 DEF Named
    <3>3. f = d /\ r = next.revision
      BY <2>1, <3>2
    <3>4. drafts[d] # None /\ next.revision = drafts[d].revision + 1
      BY <3>2, <3>3 DEF Fits
    <3>5. drafts[d].revision \in Nat
      BY <3>4 DEF DraftInv, DraftTypeOK, IsDraft
    <3> QED BY <3>2, <3>3, <3>4, <3>5
  <2> QED BY <2>1, <2>2
<1> QED BY <1>1, <1>2, <1>3

(* Rows that share a blob have the same bytes.                             *)
LEMMA OneContentPerBlob ==
    ASSUME DraftInv, NEW d \in Drafts, NEW next, Fits(d, next),
           NEW a \in DOMAIN next.rows, NEW e \in DOMAIN next.rows,
           BlobId(d, next, a) = BlobId(d, next, e)
    PROVE  next.rows[a].content = next.rows[e].content
<1> DEFINE c == next.rows[a].content
           k == next.rows[e].content
           p == FirstWith(next, c)
           q == FirstWith(next, k)
           b == BlobId(d, next, a)
<1>1. IsDraft(next)
  BY DEF Fits
<1>2. /\ p \in DOMAIN next.rows /\ p \in Nat /\ next.rows[p].content = c
      /\ q \in DOMAIN next.rows /\ q \in Nat /\ next.rows[q].content = k
  BY <1>1, FirstIsFirst
<1>3. \/ b \in DOMAIN blobs /\ blobs[b] = c
      \/ /\ b \notin DOMAIN blobs /\ b = <<Hash[c]>>
         /\ \A f \in DOMAIN next.rows : Hash[next.rows[f].content] = Hash[c] => ~(f < p)
      \/ b \notin DOMAIN blobs /\ b = <<Hash[c], d, next.revision, p>>
  BY BlobOf
<1>4. \/ b \in DOMAIN blobs /\ blobs[b] = k
      \/ /\ b \notin DOMAIN blobs /\ b = <<Hash[k]>>
         /\ \A f \in DOMAIN next.rows : Hash[next.rows[f].content] = Hash[k] => ~(f < q)
      \/ b \notin DOMAIN blobs /\ b = <<Hash[k], d, next.revision, q>>
  BY BlobOf
<1> HIDE DEF p, q, b, c, k
<1>5. CASE b \in DOMAIN blobs
  BY <1>3, <1>4, <1>5 DEF c, k
<1>6. CASE b \notin DOMAIN blobs
  <2>1. CASE b = <<Hash[c]>> /\ b = <<Hash[k]>>
    <3>1. Hash[c] = Hash[k]
      BY <2>1
    <3>2. b # <<Hash[c], d, next.revision, p>> /\ b # <<Hash[k], d, next.revision, q>>
      BY <2>1
    <3>3. ~(p < q) /\ ~(q < p)
      BY <1>2, <1>3, <1>4, <1>6, <3>1, <3>2
    <3> QED BY <1>2, <3>3 DEF c, k
  <2>2. CASE b = <<Hash[c], d, next.revision, p>> /\ b = <<Hash[k], d, next.revision, q>>
    <3>1. p = q
      BY <2>2
    <3> QED BY <1>2, <3>1 DEF c, k
  <2>3. ~(b = <<Hash[c]>> /\ b = <<Hash[k], d, next.revision, q>>)
    OBVIOUS
  <2>4. ~(b = <<Hash[k]>> /\ b = <<Hash[c], d, next.revision, p>>)
    OBVIOUS
  <2> QED BY <1>3, <1>4, <1>6, <2>1, <2>2, <2>3, <2>4
<1> QED BY <1>5, <1>6

-----------------------------------------------------------------------------
(* What a write leaves in the stores.                                      *)

LEMMA BlobsAfterWrite ==
    ASSUME DraftInv, NEW d \in Drafts, NEW next, Write(d, next)
    PROVE  /\ DOMAIN blobs' = {v.blob : v \in versions'}
           /\ \A b \in DOMAIN blobs \cap DOMAIN blobs' : blobs'[b] = blobs[b]
           /\ \A a \in DOMAIN next.rows :
                  blobs'[BlobId(d, next, a)] = next.rows[a].content
           /\ \A b \in DOMAIN blobs' \ DOMAIN blobs :
                  \E a \in DOMAIN next.rows : b = BlobId(d, next, a)
<1> DEFINE new == NewVersions(d, next)
           old == VersionsOf(d, next.revision - MaxHistory)
           kept == (versions \cup new) \ old
           dead == Unreferenced(old, kept)
           byId == [b \in {v.blob : v \in new} |->
                       LET v == CHOOSE w \in new : w.blob = b IN next.rows[v.asset].content]
           all == DOMAIN blobs \cup DOMAIN byId
<1>1. /\ versions' = kept
      /\ blobs' = [b \in all \ dead |-> IF b \in DOMAIN blobs THEN blobs[b] ELSE byId[b]]
  BY DEF Write, Commit
<1>2. Fits(d, next)
  BY DEF Write
<1>3. \A v \in new : v.asset \in DOMAIN next.rows /\ v.blob = BlobId(d, next, v.asset)
  BY DEF NewVersions
<1>4. \A a \in DOMAIN next.rows : \E v \in new : v.asset = a /\ v.blob = BlobId(d, next, a)
  <2> TAKE a \in DOMAIN next.rows
  <2> DEFINE v == [draft |-> d, draftRevision |-> next.revision, asset |-> a,
                   revision |-> next.rows[a].revision, blob |-> BlobId(d, next, a)]
  <2>1. v \in new
    BY DEF NewVersions
  <2>2. v.asset = a /\ v.blob = BlobId(d, next, a)
    OBVIOUS
  <2> HIDE DEF v, new
  <2> QED BY <2>1, <2>2
<1>5. \A v \in new : v.draftRevision = next.revision
  BY DEF NewVersions
<1>6. DOMAIN blobs = {v.blob : v \in versions}
  BY DEF DraftInv, VersionsIntact
<1>7. new \cap old = {} /\ old \subseteq versions
  <2>1. next.revision \in Nat /\ MaxHistory \in Nat \ {0}
    BY <1>2, DraftAssumption DEF Fits, IsDraft, DraftAssumption
  <2>2. \A v \in old : v.draftRevision = next.revision - MaxHistory
    BY DEF VersionsOf
  <2>3. next.revision - MaxHistory # next.revision
    BY <2>1
  <2> QED BY <1>5, <2>2, <2>3 DEF VersionsOf
<1>8. DOMAIN byId = {v.blob : v \in new}
  OBVIOUS
<1>9. \A a \in DOMAIN next.rows : byId[BlobId(d, next, a)] = next.rows[a].content
  <2> SUFFICES ASSUME NEW a \in DOMAIN next.rows
               PROVE  byId[BlobId(d, next, a)] = next.rows[a].content
    OBVIOUS
  <2> DEFINE b == BlobId(d, next, a)
             v == CHOOSE w \in new : w.blob = b
  <2>1. v \in new /\ v.blob = b
    BY <1>4
  <2>2. b \in {w.blob : w \in new}
    BY <1>4
  <2>3. byId[b] = next.rows[v.asset].content
    BY <2>2
  <2>4. v.asset \in DOMAIN next.rows /\ BlobId(d, next, v.asset) = BlobId(d, next, a)
    BY <1>3, <2>1
  <2>5. next.rows[v.asset].content = next.rows[a].content
    BY <1>2, <2>4, OneContentPerBlob
  <2> QED BY <2>3, <2>5
<1> HIDE DEF byId, new, old
<1>10. DOMAIN blobs' = all \ dead
  BY <1>1
<1>11. all \ dead = {v.blob : v \in kept}
  BY <1>6, <1>7, <1>8 DEF Unreferenced
<1>12. \A b \in DOMAIN blobs \cap DOMAIN blobs' : blobs'[b] = blobs[b]
  BY <1>1, <1>10
<1>13. \A a \in DOMAIN next.rows :
           BlobId(d, next, a) \in DOMAIN blobs' /\
           blobs'[BlobId(d, next, a)] = next.rows[a].content
  <2> SUFFICES ASSUME NEW a \in DOMAIN next.rows
               PROVE  BlobId(d, next, a) \in DOMAIN blobs' /\
                      blobs'[BlobId(d, next, a)] = next.rows[a].content
    OBVIOUS
  <2> DEFINE b == BlobId(d, next, a)
             c == next.rows[a].content
  <2>1. b \in DOMAIN blobs'
    BY <1>4, <1>7, <1>10, <1>11
  <2>2. b \in DOMAIN blobs => blobs[b] = c
    BY <1>2, BlobOf
  <2>3. byId[b] = c
    BY <1>9
  <2> HIDE DEF b, c
  <2>4. blobs'[b] = c
    BY <1>1, <1>10, <2>1, <2>2, <2>3
  <2> QED BY <2>1, <2>4 DEF b, c
<1>14. \A b \in DOMAIN blobs' \ DOMAIN blobs :
           \E a \in DOMAIN next.rows : b = BlobId(d, next, a)
  BY <1>3, <1>8, <1>10
<1> QED BY <1>1, <1>10, <1>11, <1>12, <1>13, <1>14

(* Revisions other than the written one and the pruned one are as before.  *)
LEMMA OthersAfterWrite ==
    ASSUME DraftInv, NEW d \in Drafts, NEW next, Write(d, next)
    PROVE  /\ \A e \in Drafts : e # d => drafts'[e] = drafts[e]
           /\ drafts'[d] = next /\ DOMAIN drafts' = Drafts
           /\ \A e, r : e # d =>
                  HistoryOf(e, r)' = HistoryOf(e, r) /\ VersionsOf(e, r)' = VersionsOf(e, r)
           /\ \A r : r # next.revision /\ HistoryOf(d, r)' # {} =>
                  HistoryOf(d, r)' = HistoryOf(d, r) /\ VersionsOf(d, r)' = VersionsOf(d, r)
           /\ HistoryOf(d, next.revision)' =
                  {[draft |-> d, revision |-> next.revision, document |-> next.document]}
           /\ VersionsOf(d, next.revision)' = NewVersions(d, next)
<1> DEFINE n == next.revision
           m == next.revision - MaxHistory
           h0 == [draft |-> d, revision |-> n, document |-> next.document]
           new == NewVersions(d, next)
<1>1. /\ drafts' = [drafts EXCEPT ![d] = next]
      /\ history' = (history \cup {h0}) \ HistoryOf(d, m)
      /\ versions' = (versions \cup new) \ VersionsOf(d, m)
  BY DEF Write, Commit
<1>2. DOMAIN drafts = Drafts
  BY DEF DraftInv, DraftTypeOK
<1>3. m # n /\ n \in Nat
  BY DraftAssumption DEF Write, Fits, IsDraft, DraftAssumption
<1>4. \A v \in new : v.draft = d /\ v.draftRevision = n
  BY DEF NewVersions
<1>5. h0.draft = d /\ h0.revision = n
  OBVIOUS
<1>6. /\ \A h \in history : ~(h.draft = d /\ h.revision = n)
      /\ \A v \in versions : ~(v.draft = d /\ v.draftRevision = n)
  <2>1. CASE drafts[d] = None
    BY <2>1 DEF DraftInv, Past, Write, Fits
  <2>2. CASE drafts[d] # None
    <3>1. drafts[d].revision \in Nat /\ n = drafts[d].revision + 1
      BY <2>2 DEF Write, Fits, DraftInv, DraftTypeOK, IsDraft, Ids
    <3>2. \A h \in history : h.draft = d => h.revision \in Nat /\ h.revision <= drafts[d].revision
      BY <2>2 DEF DraftInv, DraftTypeOK, Past
    <3>3. \A v \in versions : v.draft = d => v.draftRevision \in Nat /\ v.draftRevision <= drafts[d].revision
      BY <2>2 DEF DraftInv, DraftTypeOK, Past
    <3> QED BY <3>1, <3>2, <3>3
  <2> QED BY <2>1, <2>2
<1> HIDE DEF new, h0, n, m
<1>7. /\ \A e \in Drafts : e # d => drafts'[e] = drafts[e]
      /\ drafts'[d] = next /\ DOMAIN drafts' = Drafts
  BY <1>1, <1>2
<1>8. \A e, r : e # d =>
          HistoryOf(e, r)' = HistoryOf(e, r) /\ VersionsOf(e, r)' = VersionsOf(e, r)
  <2> SUFFICES ASSUME NEW e, NEW r, e # d
               PROVE  HistoryOf(e, r)' = HistoryOf(e, r) /\ VersionsOf(e, r)' = VersionsOf(e, r)
    OBVIOUS
  <2>1. HistoryOf(e, r)' = {h \in history' : h.draft = e /\ h.revision = r}
    BY DEF HistoryOf
  <2>2. VersionsOf(e, r)' = {v \in versions' : v.draft = e /\ v.draftRevision = r}
    BY DEF VersionsOf
  <2>3. \A h : h.draft = e => (h \in history' <=> h \in history)
    BY <1>1, <1>5 DEF HistoryOf
  <2>4. \A v : v.draft = e => (v \in versions' <=> v \in versions)
    BY <1>1, <1>4 DEF VersionsOf
  <2> QED BY <2>1, <2>2, <2>3, <2>4 DEF HistoryOf, VersionsOf
<1>9. \A r : r # n /\ HistoryOf(d, r)' # {} =>
          HistoryOf(d, r)' = HistoryOf(d, r) /\ VersionsOf(d, r)' = VersionsOf(d, r)
  <2> SUFFICES ASSUME NEW r, r # n, HistoryOf(d, r)' # {}
               PROVE  HistoryOf(d, r)' = HistoryOf(d, r) /\ VersionsOf(d, r)' = VersionsOf(d, r)
    OBVIOUS
  <2>1. HistoryOf(d, r)' = {h \in history' : h.draft = d /\ h.revision = r}
    BY DEF HistoryOf
  <2>2. VersionsOf(d, r)' = {v \in versions' : v.draft = d /\ v.draftRevision = r}
    BY DEF VersionsOf
  <2>3. r # m
    <3>1. HistoryOf(d, m)' = {}
      <4>1. HistoryOf(d, m)' = {h \in history' : h.draft = d /\ h.revision = m}
        BY DEF HistoryOf
      <4> QED BY <1>1, <1>3, <1>5, <4>1 DEF HistoryOf
    <3> QED BY <3>1
  <2>4. \A h : h.revision = r => (h \in history' <=> h \in history)
    BY <1>1, <1>5, <2>3 DEF HistoryOf
  <2>5. \A v : v.draftRevision = r => (v \in versions' <=> v \in versions)
    BY <1>1, <1>4, <2>3 DEF VersionsOf
  <2> QED BY <2>1, <2>2, <2>4, <2>5 DEF HistoryOf, VersionsOf
<1>10. HistoryOf(d, n)' = {h0}
  <2>1. HistoryOf(d, n)' = {h \in history' : h.draft = d /\ h.revision = n}
    BY DEF HistoryOf
  <2> QED BY <1>1, <1>3, <1>5, <1>6, <2>1 DEF HistoryOf
<1>11. VersionsOf(d, n)' = new
  <2>1. VersionsOf(d, n)' = {v \in versions' : v.draft = d /\ v.draftRevision = n}
    BY DEF VersionsOf
  <2> QED BY <1>1, <1>3, <1>4, <1>6, <2>1 DEF VersionsOf
<1> QED BY <1>7, <1>8, <1>9, <1>10, <1>11 DEF n, h0, new

(* Bytes that a version named and still names stay where they are.         *)
LEMMA KeptBytesAfterWrite ==
    ASSUME DraftInv, NEW d \in Drafts, NEW next, Write(d, next),
           NEW v \in versions, v \in versions'
    PROVE  v.blob \in DOMAIN blobs' /\ blobs'[v.blob] = blobs[v.blob]
<1>1. v.blob \in DOMAIN blobs
  BY DEF DraftInv, VersionsIntact
<1>2. v.blob \in DOMAIN blobs'
  BY BlobsAfterWrite
<1> QED BY <1>1, <1>2, BlobsAfterWrite

-----------------------------------------------------------------------------
(* A write keeps each part of the invariant.                               *)

LEMMA TypeAfterWrite ==
    ASSUME DraftInv, NEW d \in Drafts, NEW next, Write(d, next)
    PROVE  DraftTypeOK' /\ Ids'
<1>1. IsDraft(next) /\ DraftTypeOK
  BY DEF Write, Fits, DraftInv
<1>2. /\ \A e \in Drafts : e # d => drafts'[e] = drafts[e]
      /\ drafts'[d] = next /\ DOMAIN drafts' = Drafts
  BY OthersAfterWrite
<1>3. \A e \in Drafts : drafts'[e] # None => IsDraft(drafts'[e])
  BY <1>1, <1>2 DEF DraftTypeOK
<1>4. \A h \in history' : h.draft \in Drafts /\ h.revision \in Nat \ {0} /\ h.document \in Documents
  <2>1. \A h \in history' : h \in history \/
            h = [draft |-> d, revision |-> next.revision, document |-> next.document]
    BY DEF Write, Commit
  <2> QED BY <1>1, <2>1 DEF DraftTypeOK, IsDraft
<1>5. \A v \in versions' : v.draft \in Drafts /\ v.draftRevision \in Nat \ {0} /\ v.asset \in AssetIds
  <2>1. \A v \in versions' : v \in versions \/ v \in NewVersions(d, next)
    BY DEF Write, Commit
  <2>2. \A v \in NewVersions(d, next) : v.draft = d /\ v.draftRevision = next.revision /\ v.asset \in DOMAIN next.rows
    BY DEF NewVersions
  <2> QED BY <1>1, <2>1, <2>2 DEF DraftTypeOK, IsDraft
<1>6. \A b \in DOMAIN blobs' : blobs'[b] \in Contents
  <2> SUFFICES ASSUME NEW b \in DOMAIN blobs' PROVE blobs'[b] \in Contents
    OBVIOUS
  <2>1. CASE b \in DOMAIN blobs
    BY <1>1, <2>1, BlobsAfterWrite DEF DraftTypeOK
  <2>2. CASE b \notin DOMAIN blobs
    <3>1. PICK a \in DOMAIN next.rows : b = BlobId(d, next, a)
      BY <2>2, BlobsAfterWrite
    <3>2. blobs'[b] = next.rows[a].content
      BY <3>1, BlobsAfterWrite
    <3> QED BY <1>1, <3>2 DEF IsDraft
  <2> QED BY <2>1, <2>2
<1>7. identities' \subseteq Drafts
  BY <1>1 DEF Write, DraftTypeOK
<1>8. /\ DOMAIN held' = Tabs
      /\ \A t \in Tabs : held'[t] # None => held'[t].draft \in Drafts /\ IsDraft(held'[t].record)
  BY <1>1 DEF Write, OnlyLetGo, DraftTypeOK
<1>9. \A s \in saved' : s.draft \in Drafts /\ IsDraft(s)
  <2>1. \A s \in saved' : s \in saved \/
            s = [draft |-> d, revision |-> next.revision, document |-> next.document, rows |-> next.rows]
    BY DEF Write, Commit
  <2> QED BY <1>1, <2>1 DEF DraftTypeOK, IsDraft
<1>10. Ids'
  BY <1>1, <1>2 DEF DraftInv, Ids, Write
<1>11. DraftTypeOK'
  BY <1>2, <1>3, <1>4, <1>5, <1>6, <1>7, <1>8, <1>9 DEF DraftTypeOK, IsDraft
<1> QED BY <1>10, <1>11

LEMMA PastAfterWrite ==
    ASSUME DraftInv, NEW d \in Drafts, NEW next, Write(d, next)
    PROVE  Past'
<1> DEFINE n == next.revision
<1>1. /\ \A e \in Drafts : e # d => drafts'[e] = drafts[e]
      /\ drafts'[d] = next
  BY OthersAfterWrite
<1>2. n \in Nat /\ drafts'[d].revision = n
  BY <1>1 DEF Write, Fits, IsDraft
<1>3. drafts[d] # None => drafts[d].revision \in Nat /\ n = drafts[d].revision + 1 /\ d \in identities
  BY DEF Write, Fits, DraftInv, DraftTypeOK, IsDraft, Ids
<1>4. drafts[d] = None => d \notin identities
  BY DEF Write, Fits
<1>5. identities' = identities \cup {d}
  BY DEF Write
<1>6. \A h \in history' : h.draft \in identities' /\
          (drafts'[h.draft] # None => h.revision <= drafts'[h.draft].revision)
  <2>1. \A h \in history' : h \in history \/
            h = [draft |-> d, revision |-> n, document |-> next.document]
    BY DEF Write, Commit
  <2>2. \A h \in history : h.draft \in Drafts /\ h.revision \in Nat /\ h.draft \in identities
                            /\ (drafts[h.draft] # None => h.revision <= drafts[h.draft].revision)
    BY DEF DraftInv, DraftTypeOK, Past
  <2> HIDE DEF n
  <2> QED BY <1>1, <1>2, <1>3, <1>4, <1>5, <2>1, <2>2
<1>7. \A v \in versions' : v.draft \in identities' /\
          (drafts'[v.draft] # None => v.draftRevision <= drafts'[v.draft].revision)
  <2>1. \A v \in versions' : v \in versions \/ (v.draft = d /\ v.draftRevision = n)
    BY DEF Write, Commit, NewVersions
  <2>2. \A v \in versions : v.draft \in Drafts /\ v.draftRevision \in Nat /\ v.draft \in identities
                            /\ (drafts[v.draft] # None => v.draftRevision <= drafts[v.draft].revision)
    BY DEF DraftInv, DraftTypeOK, Past
  <2> HIDE DEF n
  <2> QED BY <1>1, <1>2, <1>3, <1>4, <1>5, <2>1, <2>2
<1>8. \A s \in saved' : s.draft \in identities' /\
          (drafts'[s.draft] # None => s.revision <= drafts'[s.draft].revision)
  <2>1. \A s \in saved' : s \in saved \/
            s = [draft |-> d, revision |-> n, document |-> next.document, rows |-> next.rows]
    BY DEF Write, Commit
  <2>2. \A s \in saved : s.draft \in Drafts /\ s.revision \in Nat /\ s.draft \in identities
                            /\ (drafts[s.draft] # None => s.revision <= drafts[s.draft].revision)
    BY DEF DraftInv, DraftTypeOK, Past, IsDraft
  <2>3. identities' = identities \cup {d}
    BY DEF Write
  <2> HIDE DEF n
  <2> QED BY <1>1, <1>2, <1>3, <1>4, <2>1, <2>2, <2>3
<1>9. \A t \in Tabs : held'[t] # None =>
          held'[t].draft \in identities' /\
          (drafts'[held'[t].draft] # None => held'[t].record.revision <= drafts'[held'[t].draft].revision)
  <2> SUFFICES ASSUME NEW t \in Tabs, held'[t] # None
               PROVE  held'[t].draft \in identities' /\
                      (drafts'[held'[t].draft] # None =>
                          held'[t].record.revision <= drafts'[held'[t].draft].revision)
    OBVIOUS
  <2>1. held'[t] = held[t] /\ identities' = identities \cup {d}
    BY DEF Write, OnlyLetGo
  <2>2. /\ held[t].draft \in Drafts /\ held[t].record.revision \in Nat /\ held[t].draft \in identities
        /\ drafts[held[t].draft] # None => held[t].record.revision <= drafts[held[t].draft].revision
    BY <2>1 DEF DraftInv, DraftTypeOK, Past, IsDraft
  <2> HIDE DEF n
  <2> QED BY <1>1, <1>2, <1>3, <1>4, <2>1, <2>2
<1> QED BY <1>6, <1>7, <1>8, <1>9 DEF Past

LEMMA NamedAfterWrite ==
    ASSUME DraftInv, NEW d \in Drafts, NEW next, Write(d, next)
    PROVE  BlobsNamed'
<1>1. /\ \A e \in Drafts : e # d => drafts'[e] = drafts[e]
      /\ drafts'[d] = next
  BY OthersAfterWrite
<1>2. next.revision \in Nat /\ DOMAIN next.rows \subseteq AssetIds /\ IsDraft(next) /\ Fits(d, next)
  BY DEF Write, Fits, IsDraft
<1>3. identities' = identities \cup {d} /\ identities \subseteq Drafts
  BY DEF Write, DraftInv, DraftTypeOK
<1> SUFFICES ASSUME NEW b \in DOMAIN blobs' PROVE Named(b)'
  BY DEF BlobsNamed
<1>4. CASE b \in DOMAIN blobs
  <2>1. blobs'[b] = blobs[b] /\ Named(b)
    BY <1>4, BlobsAfterWrite DEF DraftInv, BlobsNamed
  <2>2. CASE b = <<Hash[blobs[b]]>>
    BY <2>1, <2>2 DEF Named
  <2>3. CASE b # <<Hash[blobs[b]]>>
    <3>1. PICK e \in identities, r \in Nat, a \in AssetIds :
             /\ b = <<Hash[blobs[b]], e, r, a>>
             /\ drafts[e] # None => r <= drafts[e].revision
      BY <2>1, <2>3 DEF Named
    <3>2. drafts'[e] # None => r <= drafts'[e].revision
      <4>1. CASE e # d
        BY <1>1, <1>3, <3>1, <4>1
      <4>2. CASE e = d
        <5>1. drafts[d] # None /\ next.revision = drafts[d].revision + 1
          BY <1>2, <3>1, <4>2 DEF Fits
        <5>2. drafts[d].revision \in Nat
          BY <5>1 DEF DraftInv, DraftTypeOK, IsDraft
        <5> QED BY <1>1, <3>1, <4>2, <5>1, <5>2
      <4> QED BY <4>1, <4>2
    <3> QED BY <1>3, <2>1, <3>1, <3>2 DEF Named
  <2> QED BY <2>2, <2>3
<1>5. CASE b \notin DOMAIN blobs
  <2>1. PICK a \in DOMAIN next.rows : b = BlobId(d, next, a)
    BY <1>5, BlobsAfterWrite
  <2> DEFINE c == next.rows[a].content
             p == FirstWith(next, c)
  <2>2. blobs'[b] = c
    BY <2>1, BlobsAfterWrite
  <2>3. b = <<Hash[c]>> \/ b = <<Hash[c], d, next.revision, p>>
    BY <1>2, <1>5, <2>1, BlobOf
  <2>4. p \in AssetIds
    BY <1>2, FirstIsFirst
  <2> HIDE DEF p, c
  <2>5. drafts'[d] # None => next.revision <= drafts'[d].revision
    BY <1>1, <1>2
  <2> QED BY <1>2, <1>3, <2>2, <2>3, <2>4, <2>5 DEF Named
<1> QED BY <1>4, <1>5

LEMMA VersionsAfterWrite ==
    ASSUME DraftInv, NEW d \in Drafts, NEW next, Write(d, next)
    PROVE  VersionsIntact'
<1> DEFINE n == next.revision
           s0 == [draft |-> d, revision |-> n, document |-> next.document, rows |-> next.rows]
<1>1. /\ \A e \in Drafts : e # d => drafts'[e] = drafts[e]
      /\ drafts'[d] = next
      /\ \A e, r : e # d =>
             HistoryOf(e, r)' = HistoryOf(e, r) /\ VersionsOf(e, r)' = VersionsOf(e, r)
      /\ \A r : r # n /\ HistoryOf(d, r)' # {} =>
             HistoryOf(d, r)' = HistoryOf(d, r) /\ VersionsOf(d, r)' = VersionsOf(d, r)
      /\ HistoryOf(d, n)' = {[draft |-> d, revision |-> n, document |-> next.document]}
      /\ VersionsOf(d, n)' = NewVersions(d, next)
  BY OthersAfterWrite
<1>2. s0 \in saved' /\ saved \subseteq saved'
  BY DEF Write, Commit
<1>3. ASSUME NEW h \in history'
      PROVE  \E s \in saved' :
                /\ s.draft = h.draft /\ s.revision = h.revision /\ s.document = h.document
                /\ {v.asset : v \in VersionsOf(h.draft, h.revision)'} = DOMAIN s.rows
                /\ \A v \in VersionsOf(h.draft, h.revision)' :
                       /\ v.blob \in DOMAIN blobs' /\ blobs'[v.blob] = s.rows[v.asset].content
                       /\ v.revision = s.rows[v.asset].revision
  <2>1. HistoryOf(h.draft, h.revision)' = {g \in history' : g.draft = h.draft /\ g.revision = h.revision}
    BY DEF HistoryOf
  <2>2. h \in HistoryOf(h.draft, h.revision)'
    BY <2>1
  <2>3. CASE h.draft = d /\ h.revision = n
    <3>1. h = [draft |-> d, revision |-> n, document |-> next.document]
      BY <1>1, <2>2, <2>3
    <3>2. VersionsOf(h.draft, h.revision)' = NewVersions(d, next)
      BY <1>1, <2>3
    <3>3. {v.asset : v \in NewVersions(d, next)} = DOMAIN next.rows
      <4>1. \A v \in NewVersions(d, next) : v.asset \in DOMAIN next.rows
        BY DEF NewVersions
      <4>2. \A a \in DOMAIN next.rows : \E v \in NewVersions(d, next) : v.asset = a
        <5> TAKE a \in DOMAIN next.rows
        <5> DEFINE v == [draft |-> d, draftRevision |-> next.revision, asset |-> a,
                         revision |-> next.rows[a].revision, blob |-> BlobId(d, next, a)]
        <5>1. v \in NewVersions(d, next) /\ v.asset = a
          BY DEF NewVersions
        <5> HIDE DEF v
        <5> QED BY <5>1
      <4> QED BY <4>1, <4>2
    <3>4. \A v \in NewVersions(d, next) :
             /\ v.asset \in DOMAIN next.rows /\ v.blob = BlobId(d, next, v.asset)
             /\ v.revision = next.rows[v.asset].revision
      BY DEF NewVersions
    <3>5. \A v \in NewVersions(d, next) : v \in versions'
      <4>1. VersionsOf(d, n)' = {v \in versions' : v.draft = d /\ v.draftRevision = n}
        BY DEF VersionsOf
      <4> QED BY <1>1, <4>1
    <3>6. DOMAIN blobs' = {v.blob : v \in versions'}
      BY BlobsAfterWrite
    <3>7. \A v \in NewVersions(d, next) : blobs'[v.blob] = next.rows[v.asset].content
      <4> TAKE v \in NewVersions(d, next)
      <4>1. v.asset \in DOMAIN next.rows /\ v.blob = BlobId(d, next, v.asset)
        BY <3>4
      <4>2. \A a \in DOMAIN next.rows : blobs'[BlobId(d, next, a)] = next.rows[a].content
        BY BlobsAfterWrite
      <4> QED BY <4>1, <4>2
    <3>8. \A v \in NewVersions(d, next) : v.blob \in DOMAIN blobs'
      BY <3>5, <3>6
    <3>9. s0.draft = d /\ s0.revision = n /\ s0.document = h.document /\ s0.rows = next.rows
      BY <3>1
    <3> HIDE DEF s0, n
    <3> QED BY <1>2, <2>3, <3>2, <3>3, <3>4, <3>7, <3>8, <3>9
  <2>4. CASE ~(h.draft = d /\ h.revision = n)
    <3>1. /\ HistoryOf(h.draft, h.revision)' = HistoryOf(h.draft, h.revision)
          /\ VersionsOf(h.draft, h.revision)' = VersionsOf(h.draft, h.revision)
      <4>1. HistoryOf(h.draft, h.revision)' # {}
        BY <2>2
      <4>2. CASE h.draft # d
        BY <1>1, <4>2
      <4>3. CASE h.draft = d
        BY <1>1, <2>4, <4>1, <4>3
      <4> QED BY <4>2, <4>3
    <3>2. h \in history
      BY <2>2, <3>1 DEF HistoryOf
    <3>3. PICK s \in saved :
             /\ s.draft = h.draft /\ s.revision = h.revision /\ s.document = h.document
             /\ {v.asset : v \in VersionsOf(h.draft, h.revision)} = DOMAIN s.rows
             /\ \A v \in VersionsOf(h.draft, h.revision) :
                    /\ v.blob \in DOMAIN blobs /\ blobs[v.blob] = s.rows[v.asset].content
                    /\ v.revision = s.rows[v.asset].revision
      BY <3>2 DEF DraftInv, VersionsIntact
    <3>4. \A v \in VersionsOf(h.draft, h.revision) :
             v.blob \in DOMAIN blobs' /\ blobs'[v.blob] = blobs[v.blob]
      <4> TAKE v \in VersionsOf(h.draft, h.revision)
      <4>1. VersionsOf(h.draft, h.revision)' \subseteq versions'
        BY DEF VersionsOf
      <4>2. v \in versions /\ v \in versions'
        BY <3>1, <4>1 DEF VersionsOf
      <4> QED BY <4>2, KeptBytesAfterWrite
    <3>5. s \in saved'
      BY <1>2
    <3> QED BY <3>1, <3>3, <3>4, <3>5
  <2> QED BY <2>3, <2>4
<1>4. DOMAIN blobs' = {v.blob : v \in versions'}
  BY BlobsAfterWrite
<1>5. ASSUME NEW e \in Drafts, drafts'[e] # None
      PROVE  \E h \in history' : h.draft = e /\ h.revision = drafts'[e].revision
  <2>1. CASE e = d
    <3>1. HistoryOf(d, n)' = {h \in history' : h.draft = d /\ h.revision = n}
      BY DEF HistoryOf
    <3> QED BY <1>1, <2>1, <3>1
  <2>2. CASE e # d
    <3>1. drafts'[e] = drafts[e] /\ drafts[e] # None
      BY <1>1, <1>5, <2>2
    <3>2. HistoryOf(e, drafts[e].revision) # {}
      BY <3>1 DEF DraftInv, VersionsIntact
    <3>3. \A h : h.draft = e => (h \in history' <=> h \in history)
      BY <2>2 DEF Write, Commit, HistoryOf
    <3> QED BY <3>1, <3>2, <3>3 DEF HistoryOf
  <2> QED BY <2>1, <2>2
<1>6. \A e \in Drafts : drafts'[e] # None => HistoryOf(e, drafts[e].revision)' # {}
  BY <1>5 DEF HistoryOf
<1> QED BY <1>3, <1>4, <1>6 DEF VersionsIntact, VersionsOf

LEMMA SeenAfterWrite ==
    ASSUME DraftInv, NEW d \in Drafts, NEW next, Write(d, next)
    PROVE  RevisionDeterminesDraft'
<1>1. /\ \A e \in Drafts : e # d => drafts'[e] = drafts[e]
      /\ drafts'[d] = next
      /\ \A e, r : e # d =>
             HistoryOf(e, r)' = HistoryOf(e, r) /\ VersionsOf(e, r)' = VersionsOf(e, r)
  BY OthersAfterWrite
<1> SUFFICES ASSUME NEW t \in Tabs, held'[t] # None, SameRevision(held[t])'
             PROVE  (held[t] = Snapshot(held[t].draft, held[t].target))'
  BY DEF RevisionDeterminesDraft, Verified
<1>0. drafts'[held'[t].draft] # None /\ drafts'[held'[t].draft].revision = held'[t].record.revision
  BY DEF SameRevision
<1> PICK s : s = held[t]
  OBVIOUS
<1>2. held'[t] = s /\ s # None
  BY DEF Write, OnlyLetGo
<1>3. s.draft \in Drafts /\ s.draft \in identities /\ s.record.revision \in Nat
  BY <1>2 DEF DraftInv, DraftTypeOK, Past, IsDraft
<1>4. s.draft # d
  <2> SUFFICES ASSUME s.draft = d PROVE FALSE
    OBVIOUS
  <2>1. drafts[d] # None /\ next.revision = drafts[d].revision + 1
    BY <1>3 DEF Write, Fits
  <2>2. drafts[d].revision \in Nat /\ s.record.revision <= drafts[d].revision
    BY <1>2, <2>1 DEF DraftInv, DraftTypeOK, Past, IsDraft
  <2>3. next.revision = s.record.revision
    BY <1>0, <1>1, <1>2
  <2> QED BY <1>3, <2>1, <2>2, <2>3
<1>5. drafts'[s.draft] = drafts[s.draft]
  BY <1>1, <1>3, <1>4
<1>6. s = Snapshot(s.draft, s.target)
  BY <1>0, <1>2, <1>5 DEF DraftInv, RevisionDeterminesDraft, SameRevision, Verified
<1>7. /\ HistoryOf(s.draft, s.target)' = HistoryOf(s.draft, s.target)
      /\ VersionsOf(s.draft, s.target)' = VersionsOf(s.draft, s.target)
  BY <1>1, <1>4
<1>8. \A v \in VersionsOf(s.draft, s.target) : blobs'[v.blob] = blobs[v.blob]
  <2> TAKE v \in VersionsOf(s.draft, s.target)
  <2>1. VersionsOf(s.draft, s.target)' \subseteq versions'
    BY DEF VersionsOf
  <2>2. v \in versions /\ v \in versions'
    BY <1>7, <2>1 DEF VersionsOf
  <2> QED BY <2>2, KeptBytesAfterWrite
<1>9. {<<v.blob, blobs'[v.blob]>> : v \in VersionsOf(s.draft, s.target)}
        = {<<v.blob, blobs[v.blob]>> : v \in VersionsOf(s.draft, s.target)}
  BY <1>8
<1>10. Snapshot(s.draft, s.target)' =
           [draft |-> s.draft, record |-> drafts'[s.draft], target |-> s.target,
            historical |-> HistoryOf(s.draft, s.target)', versions |-> VersionsOf(s.draft, s.target)',
            blobs |-> {<<v.blob, blobs'[v.blob]>> : v \in VersionsOf(s.draft, s.target)'}]
  BY DEF Snapshot
<1>11. Snapshot(s.draft, s.target)' = Snapshot(s.draft, s.target)
  BY <1>5, <1>7, <1>9, <1>10 DEF Snapshot
<1>12. Snapshot(held[t].draft, held[t].target)' = Snapshot(s.draft, s.target)'
  BY <1>2 DEF Snapshot, HistoryOf, VersionsOf
<1> QED BY <1>2, <1>6, <1>11, <1>12

LEMMA RowsAfterWrite ==
    ASSUME DraftInv, NEW d \in Drafts, NEW next, Write(d, next)
    PROVE  RowsGrow' /\ AssetRevisionsApart'
<1> DEFINE s0 == [draft |-> d, revision |-> next.revision, document |-> next.document, rows |-> next.rows]
<1>1. /\ \A e \in Drafts : e # d => drafts'[e] = drafts[e]
      /\ drafts'[d] = next
  BY OthersAfterWrite
<1>2. saved' = saved \cup {s0}
  BY DEF Write, Commit
<1>3. s0.draft = d /\ s0.rows = next.rows
  OBVIOUS
<1>4. \A a \in DOMAIN next.rows : next.rows[a].revision \in Nat
  BY DEF Write, Fits, IsDraft
<1>5. \A s \in saved : s.revision \in Nat /\ s.draft \in Drafts
          /\ \A a \in DOMAIN s.rows : s.rows[a].revision \in Nat /\ s.rows[a].revision <= s.revision
  BY DEF DraftInv, DraftTypeOK, IsDraft
<1> HIDE DEF s0
<1>6. ASSUME NEW s \in saved, s.draft = d, NEW a \in DOMAIN s.rows, a \in DOMAIN next.rows
      PROVE  /\ drafts[d] # None
             /\ s.rows[a].revision <= next.rows[a].revision
             /\ \/ s.rows[a].revision < next.rows[a].revision
                \/ a \in DOMAIN drafts[d].rows /\ next.rows[a] = drafts[d].rows[a]
  <2>1. d \in identities
    BY <1>6 DEF DraftInv, Past
  <2>2. drafts[d] # None /\ s.revision <= drafts[d].revision /\ drafts[d].revision \in Nat
    BY <1>6, <2>1 DEF Write, Fits, DraftInv, Past, DraftTypeOK, IsDraft
  <2>3. a \in DOMAIN drafts[d].rows =>
            /\ s.rows[a].revision <= drafts[d].rows[a].revision
            /\ drafts[d].rows[a].revision \in Nat
    BY <1>6, <2>2 DEF DraftInv, RowsGrow, DraftTypeOK, IsDraft
  <2>4. \/ a \in DOMAIN drafts[d].rows /\ next.rows[a] = drafts[d].rows[a]
        \/ next.rows[a].revision = NextRevision(drafts[d], a)
    BY <1>6, <2>1, <2>2 DEF Write, Fits
  <2>5. CASE a \in DOMAIN drafts[d].rows /\ next.rows[a] = drafts[d].rows[a]
    BY <2>2, <2>3, <2>5
  <2>6. CASE next.rows[a].revision = NextRevision(drafts[d], a)
    <3>1. CASE a \in DOMAIN drafts[d].rows
      <4>1. next.rows[a].revision = drafts[d].rows[a].revision + 1
        BY <2>6, <3>1 DEF NextRevision
      <4> QED BY <1>5, <1>6, <2>2, <2>3, <3>1, <4>1
    <3>2. CASE a \notin DOMAIN drafts[d].rows
      <4>1. next.rows[a].revision = drafts[d].revision + 1
        BY <2>6, <3>2 DEF NextRevision
      <4> QED BY <1>5, <1>6, <2>2, <4>1
    <3> QED BY <3>1, <3>2
  <2> QED BY <2>4, <2>5, <2>6
<1>7. ASSUME NEW s \in saved, s.draft = d, NEW a \in DOMAIN s.rows, a \in DOMAIN next.rows,
             s.rows[a].revision = next.rows[a].revision
      PROVE  s.rows[a].content = next.rows[a].content
  <2>1. a \in DOMAIN drafts[d].rows /\ next.rows[a] = drafts[d].rows[a] /\ drafts[d] # None
    <3>1. s.rows[a].revision \in Nat /\ next.rows[a].revision \in Nat
      BY <1>4, <1>5, <1>7
    <3> QED BY <1>6, <1>7, <3>1
  <2>2. PICK u \in saved : u.draft = d /\ u.rows = drafts[d].rows
    BY <2>1 DEF DraftInv, RowsGrow
  <2>3. s.rows[a].content = u.rows[a].content
    BY <1>7, <2>1, <2>2 DEF DraftInv, AssetRevisionsApart
  <2> QED BY <2>1, <2>2, <2>3
<1>8. AssetRevisionsApart'
  <2> SUFFICES ASSUME NEW s \in saved', NEW u \in saved', s.draft = u.draft,
                      NEW a \in DOMAIN s.rows \cap DOMAIN u.rows,
                      s.rows[a].revision = u.rows[a].revision
               PROVE  s.rows[a].content = u.rows[a].content
    BY DEF AssetRevisionsApart
  <2>1. CASE s \in saved /\ u \in saved
    BY <2>1 DEF DraftInv, AssetRevisionsApart
  <2>2. CASE s \in saved /\ u = s0
    BY <1>3, <1>7, <2>2
  <2>3. CASE s = s0 /\ u \in saved
    <3>1. u.rows[a].content = next.rows[a].content
      BY <1>3, <1>7, <2>3
    <3> QED BY <1>3, <2>3, <3>1
  <2>4. CASE s = s0 /\ u = s0
    BY <2>4
  <2> QED BY <1>2, <2>1, <2>2, <2>3, <2>4
<1>9. RowsGrow'
  <2> SUFFICES ASSUME NEW e \in Drafts, drafts'[e] # None
               PROVE  /\ \E s \in saved' : s.draft = e /\ s.rows = drafts'[e].rows
                      /\ \A s \in saved' : s.draft = e =>
                             \A a \in DOMAIN s.rows \cap DOMAIN drafts'[e].rows :
                                 s.rows[a].revision <= drafts'[e].rows[a].revision
    BY DEF RowsGrow
  <2>1. CASE e = d
    <3>1. \E s \in saved' : s.draft = e /\ s.rows = drafts'[e].rows
      BY <1>1, <1>2, <1>3, <2>1
    <3>2. ASSUME NEW s \in saved', s.draft = e, NEW a \in DOMAIN s.rows \cap DOMAIN drafts'[e].rows
          PROVE  s.rows[a].revision <= drafts'[e].rows[a].revision
      <4>1. CASE s \in saved
        BY <1>1, <1>6, <2>1, <3>2, <4>1
      <4>2. CASE s = s0
        <5>1. next.rows[a].revision \in Nat /\ s.rows = next.rows /\ drafts'[e].rows = next.rows
          BY <1>1, <1>3, <1>4, <2>1, <3>2, <4>2
        <5> QED BY <5>1
      <4> QED BY <1>2, <4>1, <4>2
    <3> QED BY <3>1, <3>2
  <2>2. CASE e # d
    <3>1. drafts'[e] = drafts[e] /\ drafts[e] # None
      BY <1>1, <2>2
    <3>2. \A s \in saved' : s.draft = e => s \in saved
      BY <1>2, <1>3, <2>2
    <3>3. \E s \in saved' : s.draft = e /\ s.rows = drafts[e].rows
      BY <1>2, <3>1 DEF DraftInv, RowsGrow
    <3>4. \A s \in saved : s.draft = e =>
              \A a \in DOMAIN s.rows \cap DOMAIN drafts[e].rows :
                  s.rows[a].revision <= drafts[e].rows[a].revision
      BY <3>1 DEF DraftInv, RowsGrow
    <3> QED BY <3>1, <3>2, <3>3, <3>4
  <2> QED BY <2>1, <2>2
<1> QED BY <1>8, <1>9

LEMMA WriteKeepsInv ==
    ASSUME DraftInv, NEW d \in Drafts, NEW next, Write(d, next)
    PROVE  DraftInv'
<1> QED BY TypeAfterWrite, PastAfterWrite, NamedAfterWrite, VersionsAfterWrite,
           SeenAfterWrite, RowsAfterWrite DEF DraftInv

-----------------------------------------------------------------------------
(* Every method writes a revision that fits.                               *)

LEMMA DescribingTyped ==
    ASSUME NEW rows, DOMAIN rows \subseteq AssetIds,
           \A a \in DOMAIN rows : rows[a].content \in Contents,
           NEW text \in Texts
    PROVE  [text |-> text, shapes |-> Shapes(rows)] \in Documents
<1> DEFINE S == DOMAIN rows
           X == {Shape[c] : c \in Contents}
           D == {[U -> {Shape[c] : c \in Contents}] : U \in SUBSET AssetIds}
<1>1. Shapes(rows) \in [S -> X]
  BY DEF Shapes
<1>2. [S -> X] \in D
  OBVIOUS
<1>3. Shapes(rows) \in UNION D
  BY <1>1, <1>2, Zenon
<1> QED BY <1>3 DEF Documents

LEMMA DescribingIn ==
    ASSUME NEW rows, DOMAIN rows \subseteq AssetIds,
           \A a \in DOMAIN rows : rows[a].content \in Contents,
           NEW document \in Describing(rows)
    PROVE  document \in Documents
<1>1. PICK text \in Texts : document = [text |-> text, shapes |-> Shapes(rows)]
  BY DEF Describing
<1> QED BY <1>1, DescribingTyped

LEMMA FollowingFits ==
    ASSUME DraftInv, NEW d \in Drafts, drafts[d] # None, NEW document \in Documents, NEW rows,
           DOMAIN rows \subseteq AssetIds, rows \in [DOMAIN rows -> Row],
           \A a \in DOMAIN rows :
               \/ a \in DOMAIN drafts[d].rows /\ rows[a] = drafts[d].rows[a]
               \/ rows[a].content \in Contents /\ rows[a].revision = NextRevision(drafts[d], a)
    PROVE  Fits(d, [revision |-> drafts[d].revision + 1, document |-> document, rows |-> rows])
<1> DEFINE r == drafts[d].revision
           next == [revision |-> r + 1, document |-> document, rows |-> rows]
<1>1. IsDraft(drafts[d])
  BY DEF DraftInv, DraftTypeOK
<1>2. r \in Nat \ {0} /\ next.revision = r + 1 /\ next.document = document /\ next.rows = rows
  BY <1>1 DEF IsDraft
<1>3. \A a \in DOMAIN drafts[d].rows :
          drafts[d].rows[a].content \in Contents /\ drafts[d].rows[a].revision \in 1 .. r
  BY <1>1 DEF IsDraft
<1>4. ASSUME NEW a \in DOMAIN rows
      PROVE  rows[a].content \in Contents /\ rows[a].revision \in 1 .. r + 1
  <2>1. CASE a \in DOMAIN drafts[d].rows
    <3>1. NextRevision(drafts[d], a) = drafts[d].rows[a].revision + 1
      BY <2>1 DEF NextRevision
    <3> HIDE DEF r
    <3> QED BY <1>2, <1>3, <2>1, <3>1
  <2>2. CASE a \notin DOMAIN drafts[d].rows
    <3>1. NextRevision(drafts[d], a) = r + 1
      BY <2>2 DEF NextRevision
    <3> HIDE DEF r
    <3> QED BY <1>2, <2>2, <3>1
  <2> QED BY <2>1, <2>2
<1>5. next \in DraftsWith(DOMAIN rows)
  <2> HIDE DEF r
  <2> QED BY <1>2 DEF DraftsWith
<1> HIDE DEF next
<1>6. IsDraft(next)
  <2> HIDE DEF r
  <2> QED BY <1>2, <1>4 DEF IsDraft
<1>7. Fits(d, next)
  BY <1>2, <1>5, <1>6 DEF Fits
<1> QED BY <1>7 DEF next

LEMMA FirstFits ==
    ASSUME NEW d, Unused(d), NEW document \in Documents, NEW rows,
           DOMAIN rows \subseteq AssetIds, rows \in [DOMAIN rows -> Row],
           \A a \in DOMAIN rows : rows[a].content \in Contents /\ rows[a].revision = 1
    PROVE  Fits(d, [revision |-> 1, document |-> document, rows |-> rows])
<1> DEFINE next == [revision |-> 1, document |-> document, rows |-> rows]
<1>1. /\ next.revision = 1 /\ next.document = document /\ next.rows = rows
      /\ next \in DraftsWith(DOMAIN rows)
  BY DEF DraftsWith
<1> HIDE DEF next
<1>2. IsDraft(next)
  BY <1>1 DEF IsDraft
<1>3. Fits(d, next)
  BY <1>1, <1>2 DEF Fits, Unused
<1> QED BY <1>3 DEF next

(* What a method that is about to write holds is the current draft.        *)
LEMMA ReadyHolds ==
    ASSUME DraftInv, NEW t \in Tabs, NEW k, Ready(t, k)
    PROVE  LET d == held[t].draft
           IN /\ held[t] # None /\ d \in Drafts /\ d \in identities
              /\ drafts[d] # None /\ IsDraft(drafts[d])
              /\ held[t].record = drafts[d]
              /\ held[t].historical = HistoryOf(d, held[t].target)
<1> DEFINE d == held[t].draft
<1>1. held[t] # None /\ SameRevision(held[t]) /\ held[t] = Snapshot(d, held[t].target)
  BY DEF Ready, Verified
<1>2. Snapshot(d, held[t].target).record = drafts[d]
      /\ Snapshot(d, held[t].target).historical = HistoryOf(d, held[t].target)
  BY DEF Snapshot
<1>3. d \in Drafts /\ drafts[d] # None
  BY <1>1 DEF DraftInv, DraftTypeOK, SameRevision
<1>4. held[t].record = drafts[d] /\ held[t].historical = HistoryOf(d, held[t].target)
  BY <1>1, <1>2
<1> QED BY <1>1, <1>3, <1>4 DEF DraftInv, DraftTypeOK, Ids

LEMMA SaveWrites ==
    ASSUME DraftInv, NEW t \in Tabs, NEW k, Ready(t, k), NEW next,
           Save(t, next), Fits(held[t].draft, next)
    PROVE  SomeWrite
<1> DEFINE d == held[t].draft
<1>1. d \in Drafts /\ d \in identities
  BY ReadyHolds
<1>2. Commit(d, next) /\ identities' = identities /\ held' = [held EXCEPT ![t] = None]
  BY DEF Save
<1>3. OnlyLetGo
  BY <1>2 DEF OnlyLetGo, DraftInv, DraftTypeOK
<1>4. Write(d, next)
  BY <1>1, <1>2, <1>3 DEF Write
<1> QED BY <1>1, <1>4 DEF SomeWrite

LEMMA BeginWrites ==
    ASSUME DraftInv, NEW d \in Drafts, NEW next, Begin(d, next), Fits(d, next), OnlyLetGo
    PROVE  SomeWrite
<1>1. Write(d, next)
  BY DEF Begin, Write
<1> QED BY <1>1 DEF SomeWrite

LEMMA ReboundIs ==
    ASSUME NEW current, NEW contents
    PROVE  /\ DOMAIN Rebound(current, contents) = DOMAIN contents
           /\ \A a \in DOMAIN contents :
                  /\ Rebound(current, contents)[a].content = contents[a]
                  /\ Rebound(current, contents)[a].revision = NextRevision(current, a)
<1> QED BY DEF Rebound

LEMMA ReboundIn ==
    ASSUME NEW current, IsDraft(current), NEW contents, \A a \in DOMAIN contents : contents[a] \in Contents
    PROVE  Rebound(current, contents) \in [DOMAIN contents -> Row]
<1>1. \A a : NextRevision(current, a) \in Nat
  BY DEF IsDraft, NextRevision
<1> QED BY <1>1 DEF Rebound, Row

LEMMA CreationsWrite ==
    ASSUME DraftInv, NEW d \in Drafts, CreateBundle(d) \/ ImportBundle(d)
    PROVE  SomeWrite
<1>1. OnlyLetGo
  BY DEF CreateBundle, ImportBundle, OnlyLetGo, DraftInv, DraftTypeOK
<1>2. CASE CreateBundle(d)
  <2>1. PICK S \in SUBSET AssetIds : \E contents \in [S -> Contents] :
             LET rows == [a \in S |-> [content |-> contents[a], revision |-> 1]]
             IN \E document \in Describing(rows) :
                    Begin(d, [revision |-> 1, document |-> document, rows |-> rows])
    BY <1>2 DEF CreateBundle
  <2>2. PICK contents \in [S -> Contents] :
             LET rows == [a \in S |-> [content |-> contents[a], revision |-> 1]]
             IN \E document \in Describing(rows) :
                    Begin(d, [revision |-> 1, document |-> document, rows |-> rows])
    BY <2>1
  <2> DEFINE rows == [a \in S |-> [content |-> contents[a], revision |-> 1]]
  <2>3. PICK document \in Describing(rows) :
             Begin(d, [revision |-> 1, document |-> document, rows |-> rows])
    BY <2>2
  <2>4. /\ DOMAIN rows \subseteq AssetIds /\ rows \in [DOMAIN rows -> Row]
        /\ \A a \in DOMAIN rows : rows[a].content \in Contents /\ rows[a].revision = 1
    BY DEF Row
  <2> HIDE DEF rows
  <2>5. document \in Documents
    BY <2>4, DescribingIn
  <2>6. Fits(d, [revision |-> 1, document |-> document, rows |-> rows])
    BY <1>2, <2>4, <2>5, FirstFits DEF CreateBundle
  <2> QED BY <1>1, <2>3, <2>6, BeginWrites
<1>3. CASE ImportBundle(d)
  <2>1. PICK bundle \in Exports : Begin(d, bundle)
    BY <1>3 DEF ImportBundle
  <2>2. Fits(d, bundle)
    BY <1>3, DraftAssumption DEF ImportBundle, Unused, Fits, DraftAssumption
  <2> QED BY <1>1, <2>1, <2>2, BeginWrites
<1> QED BY <1>2, <1>3

LEMMA SuccessorWrites ==
    ASSUME DraftInv, NEW t \in Tabs, NEW d \in Drafts, CreateSuccessor(t, d)
    PROVE  SomeWrite
<1> DEFINE rows == [a \in DOMAIN held[t].record.rows |->
                       [content |-> held[t].record.rows[a].content, revision |-> 1]]
<1>1. OnlyLetGo
  BY DEF CreateSuccessor, OnlyLetGo, DraftInv, DraftTypeOK
<1>2. PICK document \in Describing(rows) :
           Begin(d, [revision |-> 1, document |-> document, rows |-> rows])
  BY DEF CreateSuccessor
<1>3. IsDraft(held[t].record)
  BY ReadyHolds DEF CreateSuccessor
<1>4. /\ DOMAIN rows \subseteq AssetIds /\ rows \in [DOMAIN rows -> Row]
      /\ \A a \in DOMAIN rows : rows[a].content \in Contents /\ rows[a].revision = 1
  BY <1>3 DEF IsDraft, Row
<1> HIDE DEF rows
<1>5. document \in Documents
  BY <1>4, DescribingIn
<1>6. Fits(d, [revision |-> 1, document |-> document, rows |-> rows])
  BY <1>4, <1>5, FirstFits DEF CreateSuccessor
<1> QED BY <1>1, <1>2, <1>6, BeginWrites

LEMMA SavesWrite ==
    ASSUME DraftInv, NEW t \in Tabs,
           CompareAndSwap(t) \/ CompareAndSwapBundle(t) \/ UpsertAsset(t) \/ ReplaceBundle(t)
    PROVE  SomeWrite
<1> DEFINE d == held[t].draft
           old == held[t].record.rows
<1>0. Ready(t, FALSE)
  BY DEF CompareAndSwap, CompareAndSwapBundle, UpsertAsset, ReplaceBundle
<1>1. /\ d \in Drafts /\ drafts[d] # None /\ held[t].record = drafts[d]
      /\ held[t].record.document \in Documents
      /\ DOMAIN old \subseteq AssetIds /\ \A a \in DOMAIN old : old[a].content \in Contents
      /\ IsDraft(held[t].record) /\ old \in [DOMAIN old -> Row]
  BY <1>0, ReadyHolds DEF IsDraft
<1>2. ASSUME NEW document \in Documents, NEW rows, DOMAIN rows \subseteq AssetIds,
             rows \in [DOMAIN rows -> Row],
             Save(t, Successor(held[t], document, rows)),
             \A a \in DOMAIN rows :
                 \/ a \in DOMAIN old /\ rows[a] = old[a]
                 \/ rows[a].content \in Contents /\ rows[a].revision = NextRevision(held[t].record, a)
      PROVE  SomeWrite
  <2>1. Fits(d, Successor(held[t], document, rows))
    BY <1>1, <1>2, FollowingFits DEF Successor
  <2> QED BY <1>0, <1>2, <2>1, SaveWrites
<1>3. CASE CompareAndSwap(t)
  <2>1. PICK document \in Describing(old) : Save(t, Successor(held[t], document, old))
    BY <1>3 DEF CompareAndSwap
  <2>2. document \in Documents
    BY <1>1, DescribingIn
  <2> QED BY <1>1, <1>2, <2>1, <2>2
<1>4. CASE CompareAndSwapBundle(t)
  <2>a. PICK deletes \in SUBSET DOMAIN old :
             \E upserts \in SUBSET (AssetIds \ deletes) : \E contents \in [upserts -> Contents] :
             LET fresh == Rebound(held[t].record, contents)
                 next == [a \in (DOMAIN old \ deletes) \cup upserts |->
                             IF a \in upserts THEN fresh[a] ELSE old[a]]
             IN \E document \in Describing(next) : Save(t, Successor(held[t], document, next))
    BY <1>4 DEF CompareAndSwapBundle
  <2>b. PICK upserts \in SUBSET (AssetIds \ deletes) : \E contents \in [upserts -> Contents] :
             LET fresh == Rebound(held[t].record, contents)
                 next == [a \in (DOMAIN old \ deletes) \cup upserts |->
                             IF a \in upserts THEN fresh[a] ELSE old[a]]
             IN \E document \in Describing(next) : Save(t, Successor(held[t], document, next))
    BY <2>a
  <2>1. PICK contents \in [upserts -> Contents] :
             LET fresh == Rebound(held[t].record, contents)
                 next == [a \in (DOMAIN old \ deletes) \cup upserts |->
                             IF a \in upserts THEN fresh[a] ELSE old[a]]
             IN \E document \in Describing(next) : Save(t, Successor(held[t], document, next))
    BY <2>b
  <2> DEFINE fresh == Rebound(held[t].record, contents)
             next == [a \in (DOMAIN old \ deletes) \cup upserts |->
                         IF a \in upserts THEN fresh[a] ELSE old[a]]
  <2>2. PICK document \in Describing(next) : Save(t, Successor(held[t], document, next))
    BY <2>1
  <2>3. /\ \A a \in upserts : fresh[a].content \in Contents /\ fresh[a].revision = NextRevision(held[t].record, a)
        /\ \A a \in upserts : fresh[a] \in Row
    BY <1>1, ReboundIs, ReboundIn
  <2> HIDE DEF fresh, old
  <2>4. DOMAIN next \subseteq AssetIds /\ next \in [DOMAIN next -> Row]
    BY <1>1, <2>3
  <2>5. \A a \in DOMAIN next :
            \/ a \in DOMAIN old /\ next[a] = old[a]
            \/ next[a].content \in Contents /\ next[a].revision = NextRevision(held[t].record, a)
    BY <2>3
  <2>6. \A a \in DOMAIN next : next[a].content \in Contents
    BY <1>1, <2>5
  <2> HIDE DEF next
  <2>7. document \in Documents
    BY <2>4, <2>6, DescribingIn
  <2> QED BY <1>2, <2>2, <2>4, <2>5, <2>7 DEF old
<1>5. CASE UpsertAsset(t)
  <2>1. PICK a \in AssetIds, c \in Contents :
           LET fresh == Rebound(held[t].record, [e \in {a} |-> c])
               rows == [e \in DOMAIN old \cup {a} |-> IF e = a THEN fresh[a] ELSE old[e]]
           IN Save(t, Successor(held[t], [held[t].record.document EXCEPT !.shapes = Shapes(rows)], rows))
    BY <1>5 DEF UpsertAsset
  <2> DEFINE fresh == Rebound(held[t].record, [e \in {a} |-> c])
             rows == [e \in DOMAIN old \cup {a} |-> IF e = a THEN fresh[a] ELSE old[e]]
             document == [held[t].record.document EXCEPT !.shapes = Shapes(rows)]
  <2>2. Save(t, Successor(held[t], document, rows))
    BY <2>1
  <2>3. /\ fresh[a].content = c /\ fresh[a].revision = NextRevision(held[t].record, a)
        /\ fresh[a] \in Row
    BY <1>1, ReboundIs, ReboundIn
  <2> HIDE DEF fresh, old
  <2>4. DOMAIN rows \subseteq AssetIds /\ rows \in [DOMAIN rows -> Row]
    BY <1>1, <2>3
  <2>5. \A e \in DOMAIN rows :
            \/ e \in DOMAIN old /\ rows[e] = old[e]
            \/ rows[e].content \in Contents /\ rows[e].revision = NextRevision(held[t].record, e)
    BY <2>3
  <2>6. \A e \in DOMAIN rows : rows[e].content \in Contents
    BY <1>1, <2>5
  <2> HIDE DEF rows
  <2>7. document = [text |-> held[t].record.document.text, shapes |-> Shapes(rows)]
        /\ held[t].record.document.text \in Texts
    BY <1>1 DEF Documents
  <2>8. document \in Documents
    BY <2>4, <2>6, <2>7, DescribingTyped
  <2> HIDE DEF document
  <2> QED BY <1>2, <2>2, <2>4, <2>5, <2>8 DEF old
<1>6. CASE ReplaceBundle(t)
  <2>1. PICK bundle \in Exports :
           Save(t, Successor(held[t], bundle.document, Rebound(held[t].record, ContentsOf(bundle.rows))))
    BY <1>6 DEF ReplaceBundle
  <2> DEFINE rows == Rebound(held[t].record, ContentsOf(bundle.rows))
  <2>2. IsDraft(bundle)
    BY DraftAssumption DEF DraftAssumption
  <2>3. DOMAIN ContentsOf(bundle.rows) = DOMAIN bundle.rows
        /\ \A a \in DOMAIN bundle.rows : ContentsOf(bundle.rows)[a] \in Contents
    BY <2>2 DEF IsDraft, ContentsOf
  <2>4. /\ DOMAIN rows \subseteq AssetIds /\ rows \in [DOMAIN rows -> Row]
        /\ \A a \in DOMAIN rows : rows[a].content \in Contents /\ rows[a].revision = NextRevision(held[t].record, a)
    BY <1>1, <2>2, <2>3, ReboundIs, ReboundIn DEF IsDraft
  <2>5. bundle.document \in Documents
    BY <2>2 DEF IsDraft
  <2> HIDE DEF rows
  <2> QED BY <1>2, <2>1, <2>4, <2>5 DEF rows
<1> QED BY <1>3, <1>4, <1>5, <1>6

LEMMA RestoreWrites ==
    ASSUME DraftInv, NEW t \in Tabs, RestoreVersion(t)
    PROVE  SomeWrite
<1> DEFINE d == held[t].draft
           r == held[t].target
           contents == Hydrated(d, r)
           rows == Rebound(held[t].record, contents)
<1>1. Ready(t, TRUE)
  BY DEF RestoreVersion
<1>2. /\ d \in Drafts /\ drafts[d] # None /\ held[t].record = drafts[d]
      /\ held[t].historical = HistoryOf(d, r) /\ IsDraft(held[t].record)
  BY <1>1, ReadyHolds
<1>3. PICK h \in HistoryOf(d, r) : Save(t, Successor(held[t], h.document, rows))
  BY <1>2 DEF RestoreVersion
<1>4. h.document \in Documents
  BY DEF HistoryOf, DraftInv, DraftTypeOK
<1>5. DOMAIN contents \subseteq AssetIds /\ \A a \in DOMAIN contents : contents[a] \in Contents
  <2>1. DOMAIN contents = {v.asset : v \in VersionsOf(d, r)}
    BY DEF Hydrated
  <2>2. \A v \in VersionsOf(d, r) : v.asset \in AssetIds /\ blobs[v.blob] \in Contents
    BY DEF VersionsOf, DraftInv, DraftTypeOK, VersionsIntact
  <2>3. ASSUME NEW a \in DOMAIN contents PROVE contents[a] \in Contents
    <3> DEFINE v == CHOOSE w \in VersionsOf(d, r) : w.asset = a
    <3>1. v \in VersionsOf(d, r)
      BY <2>1
    <3>2. contents[a] = blobs[v.blob]
      BY <2>1 DEF Hydrated
    <3> QED BY <2>2, <3>1, <3>2
  <2> QED BY <2>1, <2>2, <2>3
<1> HIDE DEF contents
<1>6. /\ DOMAIN rows \subseteq AssetIds /\ rows \in [DOMAIN rows -> Row]
      /\ \A a \in DOMAIN rows : rows[a].content \in Contents /\ rows[a].revision = NextRevision(held[t].record, a)
  BY <1>2, <1>5, ReboundIs, ReboundIn
<1> HIDE DEF rows
<1>7. Fits(d, Successor(held[t], h.document, rows))
  BY <1>2, <1>4, <1>6, FollowingFits DEF Successor
<1> QED BY <1>1, <1>3, <1>7, SaveWrites

-----------------------------------------------------------------------------
(* Reading, deleting, giving up.                                           *)

LEMMA StoresUnchanged ==
    ASSUME DraftInv, UNCHANGED <<drafts, history, versions, blobs, saved>>
    PROVE  VersionsIntact'
<1>1. /\ \A d, r : VersionsOf(d, r)' = VersionsOf(d, r)
      /\ \A d, r : HistoryOf(d, r)' = HistoryOf(d, r)
  BY DEF VersionsOf, HistoryOf
<1>2. \A h \in history' : \E s \in saved' :
          /\ s.draft = h.draft /\ s.revision = h.revision /\ s.document = h.document
          /\ {v.asset : v \in VersionsOf(h.draft, h.revision)'} = DOMAIN s.rows
          /\ \A v \in VersionsOf(h.draft, h.revision)' :
                 /\ v.blob \in DOMAIN blobs' /\ blobs'[v.blob] = s.rows[v.asset].content
                 /\ v.revision = s.rows[v.asset].revision
  <2> TAKE h \in history'
  <2>1. h \in history /\ VersionsOf(h.draft, h.revision)' = VersionsOf(h.draft, h.revision)
    BY <1>1
  <2>2. PICK s \in saved :
          /\ s.draft = h.draft /\ s.revision = h.revision /\ s.document = h.document
          /\ {v.asset : v \in VersionsOf(h.draft, h.revision)} = DOMAIN s.rows
          /\ \A v \in VersionsOf(h.draft, h.revision) :
                 /\ v.blob \in DOMAIN blobs /\ blobs[v.blob] = s.rows[v.asset].content
                 /\ v.revision = s.rows[v.asset].revision
    BY <2>1 DEF DraftInv, VersionsIntact
  <2>3. blobs' = blobs /\ s \in saved'
    OBVIOUS
  <2> QED BY <2>1, <2>2, <2>3
<1>3. DOMAIN blobs' = {v.blob : v \in versions'}
  BY DEF DraftInv, VersionsIntact
<1>4. \A d \in Drafts : drafts'[d] # None => \E h \in history' : h.draft = d /\ h.revision = drafts'[d].revision
  BY DEF DraftInv, VersionsIntact, HistoryOf
<1>5. \A d \in Drafts : drafts'[d] # None => HistoryOf(d, drafts[d].revision)' # {}
  BY <1>4 DEF HistoryOf
<1> QED BY <1>2, <1>3, <1>5 DEF VersionsIntact, VersionsOf

LEMMA ReadsKeepInv ==
    ASSUME DraftInv, NEW t \in Tabs,
           (\E d \in Drafts : Look(t, d) \/ LookBack(t, d)) \/ GiveUp(t)
    PROVE  DraftInv'
<1>1. UNCHANGED <<storeVars, saved>>
  BY DEF Look, LookBack, GiveUp, storeVars
<1>2. \/ held' = held
      \/ held' = [held EXCEPT ![t] = None]
      \/ \E d \in Drafts : \E k : drafts[d] # None /\ held' = [held EXCEPT ![t] = Snapshot(d, k)]
  BY DEF Look, LookBack, GiveUp
<1>3. /\ DOMAIN held' = Tabs
      /\ \A u \in Tabs : \/ held'[u] = held[u] \/ held'[u] = None
                         \/ \E d \in Drafts : \E k : drafts[d] # None /\ held'[u] = Snapshot(d, k)
  <2>1. DOMAIN held = Tabs
    BY DEF DraftInv, DraftTypeOK
  <2>2. CASE held' = held
    BY <2>1, <2>2
  <2>3. CASE held' = [held EXCEPT ![t] = None]
    BY <2>1, <2>3
  <2>4. ASSUME NEW d \in Drafts, NEW k, drafts[d] # None, held' = [held EXCEPT ![t] = Snapshot(d, k)]
        PROVE  /\ DOMAIN held' = Tabs
               /\ \A u \in Tabs : held'[u] = held[u] \/ held'[u] = Snapshot(d, k)
    BY <2>1, <2>4
  <2> QED BY <1>2, <2>2, <2>3, <2>4
<1>4. \A d, k : Snapshot(d, k)' = Snapshot(d, k)
  BY <1>1 DEF storeVars, Snapshot, HistoryOf, VersionsOf
<1>5. \A d, k : Snapshot(d, k).draft = d /\ Snapshot(d, k).record = drafts[d] /\ Snapshot(d, k).target = k
  BY DEF Snapshot
<1>6. ASSUME NEW u \in Tabs, held'[u] # None
      PROVE  /\ held'[u].draft \in Drafts /\ held'[u].draft \in identities
             /\ IsDraft(held'[u].record)
             /\ drafts[held'[u].draft] # None =>
                    held'[u].record.revision <= drafts[held'[u].draft].revision
             /\ drafts[held'[u].draft] # None /\ drafts[held'[u].draft].revision = held'[u].record.revision
                    => held'[u] = Snapshot(held'[u].draft, held'[u].target)
  <2>1. CASE held'[u] = held[u]
    BY <1>6, <2>1 DEF DraftInv, DraftTypeOK, Past, RevisionDeterminesDraft, SameRevision, Verified
  <2>2. ASSUME NEW d \in Drafts, NEW k, drafts[d] # None, held'[u] = Snapshot(d, k)
        PROVE  /\ held'[u].draft = d /\ d \in identities /\ IsDraft(held'[u].record)
               /\ held'[u].record.revision <= drafts[d].revision
               /\ held'[u] = Snapshot(held'[u].draft, held'[u].target)
    <3>1. held'[u].draft = d /\ held'[u].record = drafts[d] /\ held'[u].target = k
      BY <1>5, <2>2
    <3>2. IsDraft(drafts[d]) /\ d \in identities
      BY <2>2 DEF DraftInv, DraftTypeOK, Ids
    <3>3. drafts[d].revision <= drafts[d].revision
      BY <3>2 DEF IsDraft
    <3> QED BY <2>2, <3>1, <3>2, <3>3
  <2> QED BY <1>3, <1>6, <2>1, <2>2
<1>7. DraftTypeOK'
  BY <1>1, <1>3, <1>6 DEF DraftInv, DraftTypeOK, storeVars, IsDraft
<1>8. Past'
  BY <1>1, <1>6 DEF DraftInv, Past, storeVars
<1>9. RevisionDeterminesDraft'
  <2> SUFFICES ASSUME NEW u \in Tabs, held'[u] # None, SameRevision(held[u])'
               PROVE  (held[u] = Snapshot(held[u].draft, held[u].target))'
    BY DEF RevisionDeterminesDraft, Verified
  <2> PICK s : s = held'[u]
    OBVIOUS
  <2>1. s = Snapshot(s.draft, s.target)
    BY <1>1, <1>6 DEF SameRevision, storeVars
  <2>2. Snapshot(held[u].draft, held[u].target)' = Snapshot(s.draft, s.target)'
    BY DEF Snapshot, HistoryOf, VersionsOf
  <2> QED BY <1>4, <2>1, <2>2
<1>10. Ids' /\ BlobsNamed'
  BY <1>1 DEF DraftInv, Ids, BlobsNamed, Named, storeVars
<1>11. VersionsIntact'
  BY <1>1, StoresUnchanged DEF storeVars
<1>12. RowsGrow' /\ AssetRevisionsApart'
  BY <1>1 DEF DraftInv, RowsGrow, AssetRevisionsApart, storeVars
<1> QED BY <1>7, <1>8, <1>9, <1>10, <1>11, <1>12 DEF DraftInv

LEMMA DeleteKeepsInv ==
    ASSUME DraftInv, NEW t \in Tabs, Delete(t)
    PROVE  DraftInv'
<1> PICK d : d = held[t].draft
  OBVIOUS
<1> DEFINE old == {v \in versions : v.draft = d}
           dead == Unreferenced(old, versions \ old)
<1>1. /\ d \in Drafts
      /\ drafts' = [drafts EXCEPT ![d] = None]
      /\ history' = {h \in history : h.draft # d}
      /\ versions' = versions \ old
      /\ blobs' = [b \in DOMAIN blobs \ dead |-> blobs[b]]
      /\ held' = [held EXCEPT ![t] = None]
      /\ identities' = identities /\ saved' = saved
  BY DEF Delete, DraftInv, DraftTypeOK
<1>2. /\ DOMAIN drafts' = Drafts /\ drafts'[d] = None
      /\ \A e \in Drafts : e # d => drafts'[e] = drafts[e]
      /\ DOMAIN held' = Tabs /\ \A u \in Tabs : held'[u] = None \/ held'[u] = held[u]
  BY <1>1 DEF DraftInv, DraftTypeOK
<1>3. DOMAIN blobs = {v.blob : v \in versions}
  BY DEF DraftInv, VersionsIntact
<1>4. /\ DOMAIN blobs' = {v.blob : v \in versions'}
      /\ \A b \in DOMAIN blobs' : b \in DOMAIN blobs /\ blobs'[b] = blobs[b]
  BY <1>1, <1>3 DEF Unreferenced
<1>5. /\ \A h \in history' : h \in history /\ h.draft # d
      /\ \A v \in versions' : v \in versions /\ v.draft # d
      /\ \A e, r : e # d => HistoryOf(e, r)' = HistoryOf(e, r) /\ VersionsOf(e, r)' = VersionsOf(e, r)
  <2>1. ASSUME NEW e, NEW r, e # d
        PROVE  HistoryOf(e, r)' = HistoryOf(e, r) /\ VersionsOf(e, r)' = VersionsOf(e, r)
    <3>1. HistoryOf(e, r)' = {h \in history' : h.draft = e /\ h.revision = r}
      BY DEF HistoryOf
    <3>2. VersionsOf(e, r)' = {v \in versions' : v.draft = e /\ v.draftRevision = r}
      BY DEF VersionsOf
    <3> QED BY <1>1, <2>1, <3>1, <3>2 DEF HistoryOf, VersionsOf
  <2> QED BY <1>1, <2>1
<1> HIDE DEF old, dead
<1>6. DraftTypeOK'
  <2>1. DraftTypeOK
    BY DEF DraftInv
  <2>2. \A e \in Drafts : drafts'[e] # None => IsDraft(drafts'[e])
    BY <1>2, <2>1 DEF DraftTypeOK
  <2>3. \A h \in history' : h.draft \in Drafts /\ h.revision \in Nat \ {0} /\ h.document \in Documents
    BY <1>5, <2>1 DEF DraftTypeOK
  <2>4. \A v \in versions' : v.draft \in Drafts /\ v.draftRevision \in Nat \ {0} /\ v.asset \in AssetIds
    BY <1>5, <2>1 DEF DraftTypeOK
  <2>5. \A b \in DOMAIN blobs' : blobs'[b] \in Contents
    BY <1>4, <2>1 DEF DraftTypeOK
  <2>6. \A u \in Tabs : held'[u] # None => held'[u].draft \in Drafts /\ IsDraft(held'[u].record)
    BY <1>2, <2>1 DEF DraftTypeOK
  <2> QED BY <1>1, <1>2, <2>1, <2>2, <2>3, <2>4, <2>5, <2>6 DEF DraftTypeOK, IsDraft
<1>7. Ids'
  BY <1>1, <1>2 DEF DraftInv, Ids
<1>8. Past'
  <2>1. \A h \in history' : h.draft \in identities' /\
            (drafts'[h.draft] # None => h.revision <= drafts'[h.draft].revision)
    BY <1>1, <1>2, <1>5 DEF DraftInv, DraftTypeOK, Past
  <2>2. \A v \in versions' : v.draft \in identities' /\
            (drafts'[v.draft] # None => v.draftRevision <= drafts'[v.draft].revision)
    BY <1>1, <1>2, <1>5 DEF DraftInv, DraftTypeOK, Past
  <2>3. \A s \in saved' : s.draft \in identities' /\
            (drafts'[s.draft] # None => s.revision <= drafts'[s.draft].revision)
    BY <1>1, <1>2 DEF DraftInv, DraftTypeOK, Past
  <2>4. \A u \in Tabs : held'[u] # None =>
            held'[u].draft \in identities' /\
            (drafts'[held'[u].draft] # None => held'[u].record.revision <= drafts'[held'[u].draft].revision)
    BY <1>1, <1>2 DEF DraftInv, DraftTypeOK, Past
  <2> QED BY <2>1, <2>2, <2>3, <2>4 DEF Past
<1>9. BlobsNamed'
  <2> SUFFICES ASSUME NEW b \in DOMAIN blobs' PROVE Named(b)'
    BY DEF BlobsNamed
  <2>1. Named(b) /\ blobs'[b] = blobs[b]
    BY <1>4 DEF DraftInv, BlobsNamed
  <2>2. \A e \in Drafts : \A r : (drafts[e] # None => r <= drafts[e].revision)
            => (drafts'[e] # None => r <= drafts'[e].revision)
    BY <1>2
  <2>3. identities \subseteq Drafts
    BY DEF DraftInv, DraftTypeOK
  <2> QED BY <1>1, <2>1, <2>2, <2>3 DEF Named
<1>10. VersionsIntact'
  <2>1. ASSUME NEW h \in history'
        PROVE  \E s \in saved' :
                 /\ s.draft = h.draft /\ s.revision = h.revision /\ s.document = h.document
                 /\ {v.asset : v \in VersionsOf(h.draft, h.revision)'} = DOMAIN s.rows
                 /\ \A v \in VersionsOf(h.draft, h.revision)' :
                        /\ v.blob \in DOMAIN blobs' /\ blobs'[v.blob] = s.rows[v.asset].content
                        /\ v.revision = s.rows[v.asset].revision
    <3>1. h \in history /\ VersionsOf(h.draft, h.revision)' = VersionsOf(h.draft, h.revision)
      BY <1>5
    <3>2. PICK s \in saved :
             /\ s.draft = h.draft /\ s.revision = h.revision /\ s.document = h.document
             /\ {v.asset : v \in VersionsOf(h.draft, h.revision)} = DOMAIN s.rows
             /\ \A v \in VersionsOf(h.draft, h.revision) :
                    /\ v.blob \in DOMAIN blobs /\ blobs[v.blob] = s.rows[v.asset].content
                    /\ v.revision = s.rows[v.asset].revision
      BY <3>1 DEF DraftInv, VersionsIntact
    <3>3. \A v \in VersionsOf(h.draft, h.revision) :
              v.blob \in DOMAIN blobs' /\ blobs'[v.blob] = blobs[v.blob]
      <4>1. VersionsOf(h.draft, h.revision)' \subseteq versions'
        BY DEF VersionsOf
      <4> QED BY <1>4, <3>1, <4>1
    <3> QED BY <1>1, <3>1, <3>2, <3>3
  <2>2. ASSUME NEW e \in Drafts, drafts'[e] # None
        PROVE  \E h \in history' : h.draft = e /\ h.revision = drafts'[e].revision
    <3>1. e # d /\ drafts'[e] = drafts[e]
      BY <1>2, <2>2
    <3>2. HistoryOf(e, drafts[e].revision) # {}
      BY <2>2, <3>1 DEF DraftInv, VersionsIntact
    <3> QED BY <1>1, <3>1, <3>2 DEF HistoryOf
  <2>3. \A e \in Drafts : drafts'[e] # None => HistoryOf(e, drafts[e].revision)' # {}
    BY <2>2 DEF HistoryOf
  <2> QED BY <1>4, <2>1, <2>3 DEF VersionsIntact, VersionsOf
<1>11. RevisionDeterminesDraft'
  <2> SUFFICES ASSUME NEW u \in Tabs, held'[u] # None, SameRevision(held[u])'
               PROVE  (held[u] = Snapshot(held[u].draft, held[u].target))'
    BY DEF RevisionDeterminesDraft, Verified
  <2> PICK s : s = held[u]
    OBVIOUS
  <2>1. held'[u] = s /\ s # None
    BY <1>2
  <2>2. s.draft \in Drafts /\ s.draft # d /\ drafts'[s.draft] = drafts[s.draft]
    BY <1>2, <2>1 DEF SameRevision, DraftInv, DraftTypeOK
  <2>3. s = Snapshot(s.draft, s.target)
    BY <2>1, <2>2 DEF DraftInv, RevisionDeterminesDraft, SameRevision, Verified
  <2>4. /\ HistoryOf(s.draft, s.target)' = HistoryOf(s.draft, s.target)
        /\ VersionsOf(s.draft, s.target)' = VersionsOf(s.draft, s.target)
    BY <1>5, <2>2
  <2>5. \A v \in VersionsOf(s.draft, s.target) : blobs'[v.blob] = blobs[v.blob]
    <3>1. VersionsOf(s.draft, s.target)' \subseteq versions'
      BY DEF VersionsOf
    <3> QED BY <1>4, <2>4, <3>1
  <2>6. {<<v.blob, blobs'[v.blob]>> : v \in VersionsOf(s.draft, s.target)}
          = {<<v.blob, blobs[v.blob]>> : v \in VersionsOf(s.draft, s.target)}
    BY <2>5
  <2>7. Snapshot(s.draft, s.target)' =
           [draft |-> s.draft, record |-> drafts'[s.draft], target |-> s.target,
            historical |-> HistoryOf(s.draft, s.target)', versions |-> VersionsOf(s.draft, s.target)',
            blobs |-> {<<v.blob, blobs'[v.blob]>> : v \in VersionsOf(s.draft, s.target)'}]
    BY DEF Snapshot
  <2>8. Snapshot(s.draft, s.target)' = Snapshot(s.draft, s.target)
    BY <2>2, <2>4, <2>6, <2>7 DEF Snapshot
  <2>9. Snapshot(held[u].draft, held[u].target)' = Snapshot(s.draft, s.target)'
    BY <2>1 DEF Snapshot, HistoryOf, VersionsOf
  <2> QED BY <2>1, <2>3, <2>8, <2>9
<1>12. RowsGrow' /\ AssetRevisionsApart'
  <2>1. AssetRevisionsApart'
    BY <1>1 DEF DraftInv, AssetRevisionsApart
  <2>2. RowsGrow'
    BY <1>1, <1>2 DEF DraftInv, RowsGrow
  <2> QED BY <2>1, <2>2
<1> QED BY <1>6, <1>7, <1>8, <1>9, <1>10, <1>11, <1>12 DEF DraftInv

-----------------------------------------------------------------------------
(* The theorems.                                                           *)

LEMMA InitHolds == DraftInit => DraftInv
<1> SUFFICES ASSUME DraftInit PROVE DraftInv
  OBVIOUS
<1>1. /\ drafts = [d \in Drafts |-> None] /\ history = {} /\ versions = {} /\ DOMAIN blobs = {}
      /\ identities = {} /\ held = [t \in Tabs |-> None] /\ saved = {}
  BY DEF DraftInit
<1>2. DraftTypeOK /\ Ids /\ Past
  BY <1>1 DEF DraftTypeOK, Ids, Past
<1>3. BlobsNamed /\ VersionsIntact
  BY <1>1 DEF BlobsNamed, VersionsIntact
<1>4. RevisionDeterminesDraft /\ RowsGrow /\ AssetRevisionsApart
  BY <1>1 DEF RevisionDeterminesDraft, RowsGrow, AssetRevisionsApart
<1> QED BY <1>2, <1>3, <1>4 DEF DraftInv

LEMMA WritersWrite ==
    ASSUME DraftInv, [DraftNext]_vars
    PROVE  \/ SomeWrite
           \/ \E t \in Tabs : Delete(t)
           \/ \E t \in Tabs : (\E d \in Drafts : Look(t, d) \/ LookBack(t, d)) \/ GiveUp(t)
           \/ UNCHANGED vars
<1>1. ASSUME NEW d \in Drafts, CreateBundle(d) \/ ImportBundle(d) PROVE SomeWrite
  BY <1>1, CreationsWrite
<1>2. ASSUME NEW t \in Tabs, NEW d \in Drafts, CreateSuccessor(t, d) PROVE SomeWrite
  BY <1>2, SuccessorWrites
<1>3. ASSUME NEW t \in Tabs,
             CompareAndSwap(t) \/ CompareAndSwapBundle(t) \/ UpsertAsset(t) \/ ReplaceBundle(t)
      PROVE  SomeWrite
  BY <1>3, SavesWrite
<1>4. ASSUME NEW t \in Tabs, RestoreVersion(t) PROVE SomeWrite
  BY <1>4, RestoreWrites
<1> QED BY <1>1, <1>2, <1>3, <1>4 DEF DraftNext

LEMMA StepHolds == ASSUME DraftInv, [DraftNext]_vars PROVE DraftInv'
<1>1. CASE SomeWrite
  BY <1>1, WriteKeepsInv DEF SomeWrite
<1>2. ASSUME NEW t \in Tabs, Delete(t) PROVE DraftInv'
  BY <1>2, DeleteKeepsInv
<1>3. ASSUME NEW t \in Tabs, (\E d \in Drafts : Look(t, d) \/ LookBack(t, d)) \/ GiveUp(t)
      PROVE  DraftInv'
  BY <1>3, ReadsKeepInv
<1>4. CASE UNCHANGED vars
  <2>1. DraftTypeOK' /\ Ids' /\ Past'
    BY <1>4 DEF vars, DraftInv, DraftTypeOK, Ids, Past, IsDraft
  <2>2. BlobsNamed'
    BY <1>4 DEF vars, DraftInv, BlobsNamed, Named
  <2>3. VersionsIntact'
    BY <1>4, StoresUnchanged DEF vars
  <2>4. RevisionDeterminesDraft'
    BY <1>4 DEF vars, DraftInv, RevisionDeterminesDraft, SameRevision, Verified, Snapshot,
         HistoryOf, VersionsOf
  <2>5. RowsGrow' /\ AssetRevisionsApart'
    BY <1>4 DEF vars, DraftInv, RowsGrow, AssetRevisionsApart
  <2> QED BY <2>1, <2>2, <2>3, <2>4, <2>5 DEF DraftInv
<1> QED BY <1>1, <1>2, <1>3, <1>4, WritersWrite

(* The invariant holds of every caller of the store: the library's methods *)
(* in any number of tabs.                                                  *)
THEOREM Inductive == DraftSpec => []DraftInv
<1>1. DraftInit => DraftInv
  BY InitHolds
<1>2. DraftInv /\ [DraftNext]_vars => DraftInv'
  BY StepHolds
<1> QED BY <1>1, <1>2, PTL DEF DraftSpec

(* Drafts, history, versions, blobs and snapshots keep their types.        *)
THEOREM TypeCorrect == DraftSpec => []DraftTypeOK
<1>1. DraftInv => DraftTypeOK
  BY DEF DraftInv
<1> QED BY <1>1, Inductive, PTL

(* Pruning and deletion take no bytes that a kept revision of any draft    *)
(* needs, and leave none that nothing needs, whatever hashes collide       *)
(* (putAssetVersions, deleteUnreferencedAssetBlobs).                       *)
THEOREM RevisionsKeepTheirBytes == DraftSpec => []VersionsIntact
<1>1. DraftInv => VersionsIntact
  BY DEF DraftInv
<1> QED BY <1>1, Inductive, PTL

(* A tab whose revision is still current has read the current draft: what  *)
(* compareAndSwap and its kin overwrite, their caller has seen.            *)
THEOREM NothingUnseenOverwritten == DraftSpec => []RevisionDeterminesDraft
<1>1. DraftInv => RevisionDeterminesDraft
  BY DEF DraftInv
<1> QED BY <1>1, Inductive, PTL

(* An asset's revision names one content over the whole life of a draft    *)
(* (the numbering in compareAndSwapBundle and replaceBundle).              *)
THEOREM AssetRevisionsName == DraftSpec => []AssetRevisionsApart
<1>1. DraftInv => AssetRevisionsApart
  BY DEF DraftInv
<1> QED BY <1>1, Inductive, PTL

-----------------------------------------------------------------------------
(* The archive of whole copies.  What is needed beyond the invariant: that *)
(* every version is of a kept revision, and that only the last MaxHistory  *)
(* revisions of the drafts there are kept.                                 *)

VersionsKept == \A v \in versions : HistoryOf(v.draft, v.draftRevision) # {}
Window ==
    \A h \in history : /\ drafts[h.draft] # None
                       /\ h.revision > drafts[h.draft].revision - MaxHistory
KeepInv == DraftInv /\ VersionsKept /\ Window

LEMMA KeptIs ==
    ASSUME NEW h
    PROVE  /\ Kept(h).draft = h.draft /\ Kept(h).revision = h.revision
           /\ Kept(h).document = h.document /\ Kept(h).rows = RowsKept(h.draft, h.revision)
<1> QED BY DEF Kept

LEMMA RowsAre ==
    ASSUME DraftInv, NEW h \in history
    PROVE  LET rows == RowsKept(h.draft, h.revision)
               mine == VersionsOf(h.draft, h.revision)
           IN /\ DOMAIN rows = {v.asset : v \in mine}
              /\ \A v \in mine : v.blob \in DOMAIN blobs /\ rows[v.asset].content = blobs[v.blob]
<1> DEFINE mine == VersionsOf(h.draft, h.revision)
           rows == RowsKept(h.draft, h.revision)
<1>1. PICK s \in saved : \A v \in mine :
          v.blob \in DOMAIN blobs /\ blobs[v.blob] = s.rows[v.asset].content
  BY DEF DraftInv, VersionsIntact
<1>2. ASSUME NEW v \in mine PROVE rows[v.asset].content = blobs[v.blob]
  <2> DEFINE w == CHOOSE u \in mine : u.asset = v.asset
  <2>1. w \in mine /\ w.asset = v.asset
    BY <1>2
  <2>2. rows[v.asset] = [content |-> Stored(w.blob), revision |-> w.revision]
    BY <1>2 DEF RowsKept
  <2> HIDE DEF w, mine, rows
  <2> QED BY <1>1, <1>2, <2>1, <2>2 DEF Stored
<1>3. DOMAIN rows = {v.asset : v \in mine}
  BY DEF RowsKept
<1> QED BY <1>1, <1>2, <1>3

(* What the blobs hold is what the copies have.                            *)
LEMMA BytesAre ==
    KeepInv => {blobs[b] : b \in DOMAIN blobs} = Archive!BytesIn({Kept(h) : h \in history})
<1> SUFFICES ASSUME KeepInv
             PROVE  {blobs[b] : b \in DOMAIN blobs} = Archive!BytesIn({Kept(h) : h \in history})
  OBVIOUS
<1>1. ASSUME NEW b \in DOMAIN blobs
      PROVE  \E h \in history : \E a \in DOMAIN RowsKept(h.draft, h.revision) :
                 RowsKept(h.draft, h.revision)[a].content = blobs[b]
  <2>1. PICK v \in versions : b = v.blob
    BY <1>1 DEF KeepInv, DraftInv, VersionsIntact
  <2>2. PICK h \in history : h.draft = v.draft /\ h.revision = v.draftRevision
    BY DEF KeepInv, VersionsKept, HistoryOf
  <2>3. v \in VersionsOf(h.draft, h.revision)
    BY <2>2 DEF VersionsOf
  <2> QED BY <2>1, <2>3, RowsAre DEF KeepInv
<1>2. ASSUME NEW h \in history, NEW a \in DOMAIN RowsKept(h.draft, h.revision)
      PROVE  RowsKept(h.draft, h.revision)[a].content \in {blobs[b] : b \in DOMAIN blobs}
  <2>1. PICK v \in VersionsOf(h.draft, h.revision) : v.asset = a
    BY <1>2, RowsAre DEF KeepInv
  <2> QED BY <2>1, RowsAre DEF KeepInv
<1>3. Archive!BytesIn({Kept(h) : h \in history})
        = UNION {{RowsKept(h.draft, h.revision)[a].content : a \in DOMAIN RowsKept(h.draft, h.revision)}
                     : h \in history}
  BY KeptIs DEF Archive!BytesIn
<1> DEFINE stored == {blobs[b] : b \in DOMAIN blobs}
           rows(h) == RowsKept(h.draft, h.revision)
           copied == UNION {{rows(h)[a].content : a \in DOMAIN rows(h)} : h \in history}
<1>4. stored \subseteq copied
  <2> SUFFICES ASSUME NEW x \in stored PROVE x \in copied
    OBVIOUS
  <2>1. PICK h \in history : \E a \in DOMAIN rows(h) : rows(h)[a].content = x
    BY <1>1
  <2> HIDE DEF rows
  <2> QED BY <2>1
<1>5. copied \subseteq stored
  <2> SUFFICES ASSUME NEW h \in history, NEW a \in DOMAIN rows(h) PROVE rows(h)[a].content \in stored
    OBVIOUS
  <2> QED BY <1>2
<1> QED BY <1>3, <1>4, <1>5

-----------------------------------------------------------------------------
(* A write is a write to the archive.                                      *)

LEMMA NextIsSome ==
    ASSUME NEW d, NEW next, Fits(d, next)
    PROVE  next # None
<1>1. DOMAIN next.rows \in SUBSET AssetIds /\ next \in DraftsWith(DOMAIN next.rows)
  BY DEF Fits, IsDraft
<1> QED BY <1>1, DraftAssumption DEF DraftAssumption

LEMMA HistoryAfterWrite ==
    ASSUME KeepInv, NEW d \in Drafts, NEW next, Write(d, next)
    PROVE  LET first == [draft |-> d, revision |-> next.revision, document |-> next.document]
           IN /\ first \in history'
              /\ \A h : h \in history' /\ h # first
                     <=> h \in history /\ (h.draft = d => h.revision > next.revision - MaxHistory)
              /\ \A h \in history : h.draft = d => h.revision # next.revision
<1> DEFINE n == next.revision
           first == [draft |-> d, revision |-> n, document |-> next.document]
<1>1. history' = (history \cup {first}) \ HistoryOf(d, n - MaxHistory)
  BY DEF Write, Commit
<1>2. n \in Nat /\ MaxHistory \in Nat \ {0}
  BY DraftAssumption DEF Write, Fits, IsDraft, DraftAssumption
<1>3. ASSUME NEW h \in history, h.draft = d
      PROVE  h.revision \in Nat /\ h.revision < n /\ h.revision >= n - MaxHistory
  <2>1. drafts[d] # None /\ h.revision > drafts[d].revision - MaxHistory /\ h.revision \in Nat
        /\ h.revision <= drafts[d].revision
    BY <1>3 DEF KeepInv, Window, DraftInv, DraftTypeOK, Past
  <2>2. n = drafts[d].revision + 1 /\ drafts[d].revision \in Nat
    BY <2>1 DEF Write, Fits, KeepInv, DraftInv, DraftTypeOK, IsDraft
  <2> QED BY <1>2, <2>1, <2>2
<1>4. first.draft = d /\ first.revision = n
  OBVIOUS
<1> HIDE DEF first
<1>5. first \notin history /\ first \in history'
  <2>1. first \notin history
    BY <1>2, <1>3, <1>4
  <2>2. n # n - MaxHistory
    BY <1>2
  <2> QED BY <1>1, <1>4, <2>1, <2>2 DEF HistoryOf
<1>6. ASSUME NEW h, h # first
      PROVE  h \in history' <=> h \in history /\ (h.draft = d => h.revision > n - MaxHistory)
  <2>1. h \in history' <=> h \in history /\ ~(h.draft = d /\ h.revision = n - MaxHistory)
    BY <1>1, <1>6 DEF HistoryOf
  <2>2. h \in history /\ h.draft = d => h.revision \in Nat /\ h.revision >= n - MaxHistory
    BY <1>3
  <2> QED BY <1>2, <2>1, <2>2
<1>7. \A h \in history : h.draft = d => h.revision # n
  BY <1>2, <1>3
<1> QED BY <1>5, <1>6, <1>7 DEF first

LEMMA SameRowsKept ==
    ASSUME NEW e, NEW r, VersionsOf(e, r)' = VersionsOf(e, r),
           \A v \in VersionsOf(e, r) : Stored(v.blob)' = Stored(v.blob)
    PROVE  RowsKept(e, r)' = RowsKept(e, r)
<1> PICK mine : mine = VersionsOf(e, r)
  OBVIOUS
<1> DEFINE at(a) == CHOOSE w \in mine : w.asset = a
<1>1. RowsKept(e, r)' = [a \in {v.asset : v \in mine} |->
                             [content |-> Stored(at(a).blob)', revision |-> at(a).revision]]
  BY DEF RowsKept
<1>2. RowsKept(e, r) = [a \in {v.asset : v \in mine} |->
                            [content |-> Stored(at(a).blob), revision |-> at(a).revision]]
  BY DEF RowsKept
<1>3. \A a \in {v.asset : v \in mine} : at(a) \in mine
  OBVIOUS
<1> HIDE DEF at
<1>4. \A a \in {v.asset : v \in mine} : Stored(at(a).blob)' = Stored(at(a).blob)
  BY <1>3
<1> QED BY <1>1, <1>2, <1>4

(* A revision that was there and still is is the copy it was.              *)
LEMMA CopiesStay ==
    ASSUME KeepInv, NEW d \in Drafts, NEW next, Write(d, next), NEW h \in history, h \in history'
    PROVE  Kept(h)' = Kept(h)
<1> DEFINE e == h.draft
           r == h.revision
<1>1. h.draft = d => h.revision # next.revision
  BY HistoryAfterWrite
<1>2. HistoryOf(e, r)' # {}
  <2>1. HistoryOf(e, r)' = {g \in history' : g.draft = e /\ g.revision = r}
    BY DEF HistoryOf
  <2> QED BY <2>1
<1>3. VersionsOf(e, r)' = VersionsOf(e, r)
  BY <1>1, <1>2, OthersAfterWrite DEF KeepInv
<1>4. \A v \in VersionsOf(e, r) : Stored(v.blob)' = Stored(v.blob)
  <2> SUFFICES ASSUME NEW v \in VersionsOf(e, r) PROVE Stored(v.blob)' = Stored(v.blob)
    OBVIOUS
  <2>1. VersionsOf(e, r)' \subseteq versions' /\ VersionsOf(e, r) \subseteq versions
    BY DEF VersionsOf
  <2>2. v \in versions /\ v \in versions'
    BY <1>3, <2>1
  <2>3. v.blob \in DOMAIN blobs
    BY <2>2 DEF KeepInv, DraftInv, VersionsIntact
  <2> QED BY <2>2, <2>3, KeptBytesAfterWrite DEF KeepInv, Stored
<1> HIDE DEF e, r
<1> QED BY <1>3, <1>4, SameRowsKept DEF Kept, e, r

(* The written revision is the copy of the draft.                          *)
LEMMA CopyIsNew ==
    ASSUME KeepInv, NEW d \in Drafts, NEW next, Write(d, next)
    PROVE  Kept([draft |-> d, revision |-> next.revision, document |-> next.document])'
               = Archive!CopyOf(d, next)
<1> PICK new : new = NewVersions(d, next)
  OBVIOUS
<1> DEFINE n == next.revision
           at(a) == CHOOSE w \in new : w.asset = a
<1>1. VersionsOf(d, n)' = new
  BY OthersAfterWrite DEF KeepInv
<1>2. \A v \in new : v.blob \in DOMAIN blobs'
  <2>1. VersionsOf(d, n)' \subseteq versions'
    BY DEF VersionsOf
  <2> QED BY <1>1, <2>1, BlobsAfterWrite DEF KeepInv
<1>3. /\ {v.asset : v \in new} = DOMAIN next.rows
      /\ \A v \in new : /\ v.revision = next.rows[v.asset].revision
                        /\ blobs'[v.blob] = next.rows[v.asset].content
  <2>1. \A v \in new : /\ v.asset \in DOMAIN next.rows /\ v.blob = BlobId(d, next, v.asset)
                       /\ v.revision = next.rows[v.asset].revision
    BY DEF NewVersions
  <2>2. ASSUME NEW a \in DOMAIN next.rows PROVE \E v \in new : v.asset = a
    <3> DEFINE v == [draft |-> d, draftRevision |-> next.revision, asset |-> a,
                     revision |-> next.rows[a].revision, blob |-> BlobId(d, next, a)]
    <3>1. v \in new
      BY DEF NewVersions
    <3>2. v.asset = a
      OBVIOUS
    <3> HIDE DEF v
    <3> QED BY <3>1, <3>2
  <2>3. \A a \in DOMAIN next.rows : blobs'[BlobId(d, next, a)] = next.rows[a].content
    BY BlobsAfterWrite DEF KeepInv
  <2>4. \A v \in new : blobs'[v.blob] = next.rows[v.asset].content
    BY <2>1, <2>3
  <2> QED BY <2>1, <2>2, <2>4
<1>4. RowsKept(d, n)' = [a \in {v.asset : v \in new} |->
                             [content |-> Stored(at(a).blob)', revision |-> at(a).revision]]
  BY <1>1 DEF RowsKept
<1>5. \A a \in {v.asset : v \in new} : at(a) \in new /\ at(a).asset = a
  OBVIOUS
<1>6. next.rows \in [DOMAIN next.rows -> Row]
  BY DEF Write, Fits, IsDraft
<1> HIDE DEF at, n
<1>7. \A a \in DOMAIN next.rows :
          Stored(at(a).blob)' = next.rows[a].content /\ at(a).revision = next.rows[a].revision
  BY <1>2, <1>3, <1>5 DEF Stored
<1>8. \A a \in DOMAIN next.rows :
          next.rows[a] = [content |-> next.rows[a].content, revision |-> next.rows[a].revision]
  BY <1>6 DEF Row
<1>9. RowsKept(d, n)' = next.rows
  <2>1. RowsKept(d, n)' = [a \in DOMAIN next.rows |->
                               [content |-> Stored(at(a).blob)', revision |-> at(a).revision]]
    BY <1>3, <1>4
  <2>2. RowsKept(d, n)' = [a \in DOMAIN next.rows |->
                  [content |-> next.rows[a].content, revision |-> next.rows[a].revision]]
    BY <1>7, <2>1
  <2>3. RowsKept(d, n)' = [a \in DOMAIN next.rows |-> next.rows[a]]
    BY <1>8, <2>2
  <2> QED BY <1>6, <2>3
<1>10. Kept([draft |-> d, revision |-> n, document |-> next.document])'
         = [draft |-> d, revision |-> n, document |-> next.document, rows |-> RowsKept(d, n)']
  BY DEF Kept
<1> QED BY <1>9, <1>10 DEF Archive!CopyOf, n

LEMMA WriteKeepsWindow ==
    ASSUME KeepInv, NEW d \in Drafts, NEW next, Write(d, next)
    PROVE  VersionsKept' /\ Window'
<1> DEFINE n == next.revision
           m == n - MaxHistory
           first == [draft |-> d, revision |-> n, document |-> next.document]
<1>1. /\ \A e \in Drafts : e # d => drafts'[e] = drafts[e]
      /\ drafts'[d] = next
  BY OthersAfterWrite DEF KeepInv
<1>2. /\ first \in history'
      /\ \A h : h \in history' /\ h # first
             <=> h \in history /\ (h.draft = d => h.revision > m)
  BY HistoryAfterWrite
<1>3. next # None /\ n \in Nat /\ MaxHistory \in Nat \ {0} /\ n > m
  BY NextIsSome, DraftAssumption DEF Write, Fits, IsDraft, DraftAssumption
<1>4. versions' = (versions \cup NewVersions(d, next)) \ VersionsOf(d, m)
  BY DEF Write, Commit
<1>5. first.draft = d /\ first.revision = n
  OBVIOUS
<1>6. \A v \in NewVersions(d, next) : v.draft = d /\ v.draftRevision = n
  BY DEF NewVersions
<1>7. \A h \in history : h.draft \in Drafts /\ h.revision \in Nat
  BY DEF KeepInv, DraftInv, DraftTypeOK
<1>8. \A h \in history : h.draft = d => h.revision >= m
  <2> SUFFICES ASSUME NEW h \in history, h.draft = d PROVE h.revision >= m
    OBVIOUS
  <2>1. drafts[d] # None /\ h.revision > drafts[d].revision - MaxHistory
    BY DEF KeepInv, Window
  <2>2. n = drafts[d].revision + 1 /\ drafts[d].revision \in Nat
    BY <2>1 DEF Write, Fits, KeepInv, DraftInv, DraftTypeOK, IsDraft
  <2> HIDE DEF n
  <2> QED BY <1>3, <1>7, <2>1, <2>2
<1> HIDE DEF first, n
<1>9. Window'
  <2> SUFFICES ASSUME NEW h \in history'
               PROVE  drafts'[h.draft] # None /\ h.revision > drafts'[h.draft].revision - MaxHistory
    BY DEF Window
  <2>1. CASE h.draft = d
    BY <1>1, <1>2, <1>3, <1>5, <2>1 DEF n
  <2>2. CASE h.draft # d
    <3>1. h \in history /\ drafts'[h.draft] = drafts[h.draft]
      BY <1>1, <1>2, <1>5, <1>7, <2>2
    <3> QED BY <3>1 DEF KeepInv, Window
  <2> QED BY <2>1, <2>2
<1>10. ASSUME NEW v \in versions'
       PROVE  \E h \in history' : h.draft = v.draft /\ h.revision = v.draftRevision
  <2>1. CASE v \in NewVersions(d, next)
    BY <1>2, <1>5, <1>6, <2>1
  <2>2. CASE v \in versions
    <3>1. PICK h \in history : h.draft = v.draft /\ h.revision = v.draftRevision
      BY <2>2 DEF KeepInv, VersionsKept, HistoryOf
    <3>2. h.draft = d => h.revision # m
      BY <1>4, <1>10, <2>2, <3>1 DEF VersionsOf
    <3>3. h \in history'
      BY <1>2, <1>3, <1>7, <1>8, <3>2
    <3> QED BY <3>1, <3>3
  <2> QED BY <1>4, <2>1, <2>2
<1>11. VersionsKept'
  BY <1>10 DEF VersionsKept, HistoryOf
<1> QED BY <1>9, <1>11

LEMMA WriteIsWrite ==
    ASSUME KeepInv, NEW d \in Drafts, NEW next, Write(d, next)
    PROVE  Archive!Write(d)
<1> DEFINE first == [draft |-> d, revision |-> next.revision, document |-> next.document]
<1>1. drafts' = [drafts EXCEPT ![d] = next] /\ identities' = identities \cup {d} /\ drafts'[d] = next
  BY OthersAfterWrite DEF Write, Commit, KeepInv
<1>2. /\ first \in history'
      /\ \A h : h \in history' /\ h # first
             <=> h \in history /\ (h.draft = d => h.revision > next.revision - MaxHistory)
  BY HistoryAfterWrite
<1>3. \A h \in history : h \in history' => Kept(h)' = Kept(h)
  BY CopiesStay
<1>4. Kept(first)' = Archive!CopyOf(d, next)
  BY CopyIsNew
<1>5. \A h : Kept(h).draft = h.draft /\ Kept(h).revision = h.revision
  BY KeptIs
<1>6. first.draft = d /\ first.revision = next.revision
  OBVIOUS
<1> HIDE DEF first
<1>7. {Kept(h) : h \in history}' = {Kept(h)' : h \in history'}
  OBVIOUS
<1>8. first \notin history
  BY <1>6, HistoryAfterWrite
<1>9. {Kept(h)' : h \in history'}
        = {c \in {Kept(h) : h \in history} : c.draft = d => c.revision > next.revision - MaxHistory}
              \cup {Archive!CopyOf(d, next)}
  BY <1>2, <1>3, <1>4, <1>5, <1>8
<1>10. Archive!Follows(d, next)
  BY DEF Archive!Follows, Write, Fits
<1>11. next # None
  BY NextIsSome DEF Write
<1> QED BY <1>1, <1>7, <1>9, <1>10, <1>11 DEF Archive!Write

-----------------------------------------------------------------------------
(* A deletion discards the copies of the draft.                            *)

LEMMA DeleteDiscards ==
    ASSUME KeepInv, NEW t \in Tabs, Delete(t)
    PROVE  /\ \E d \in Drafts : Archive!Discard(d)
           /\ VersionsKept' /\ Window'
<1> PICK d : d = held[t].draft
  OBVIOUS
<1> DEFINE old == {v \in versions : v.draft = d}
           dead == Unreferenced(old, versions \ old)
<1>1. /\ d \in Drafts /\ drafts[d] # None
      /\ drafts' = [drafts EXCEPT ![d] = None]
      /\ history' = {h \in history : h.draft # d}
      /\ versions' = versions \ old
      /\ blobs' = [b \in DOMAIN blobs \ dead |-> blobs[b]]
      /\ identities' = identities
  BY DEF Delete, SameRevision, KeepInv, DraftInv, DraftTypeOK
<1>2. \A e \in Drafts : e # d => drafts'[e] = drafts[e]
  BY <1>1 DEF KeepInv, DraftInv, DraftTypeOK
<1>3. ASSUME NEW e, NEW r, e # d PROVE VersionsOf(e, r)' = VersionsOf(e, r)
  <2>1. VersionsOf(e, r)' = {v \in versions' : v.draft = e /\ v.draftRevision = r}
    BY DEF VersionsOf
  <2> QED BY <1>1, <1>3, <2>1 DEF VersionsOf
<1>4. ASSUME NEW v \in versions, v.draft # d PROVE Stored(v.blob)' = Stored(v.blob)
  <2>1. v.blob \in DOMAIN blobs
    BY <1>4 DEF KeepInv, DraftInv, VersionsIntact
  <2>2. v.blob \notin dead
    BY <1>4 DEF Unreferenced
  <2> HIDE DEF dead, old
  <2> QED BY <1>1, <2>1, <2>2 DEF Stored
<1> HIDE DEF dead
<1>5. ASSUME NEW h \in history' PROVE Kept(h)' = Kept(h)
  <2> DEFINE e == h.draft
             r == h.revision
  <2>1. VersionsOf(e, r)' = VersionsOf(e, r)
    BY <1>1, <1>3, <1>5
  <2>2. \A v \in VersionsOf(e, r) : Stored(v.blob)' = Stored(v.blob)
    BY <1>1, <1>4, <1>5 DEF VersionsOf
  <2> HIDE DEF e, r
  <2> QED BY <2>1, <2>2, SameRowsKept DEF Kept, e, r
<1>6. \A h : Kept(h).draft = h.draft
  BY KeptIs
<1>7. {Kept(h) : h \in history}' = {Kept(h)' : h \in history'}
  OBVIOUS
<1>8. {Kept(h)' : h \in history'} = {c \in {Kept(h) : h \in history} : c.draft # d}
  BY <1>1, <1>5, <1>6
<1>9. Archive!Discard(d)
  BY <1>1, <1>7, <1>8 DEF Archive!Discard
<1>10. Window'
  BY <1>1, <1>2 DEF Window, KeepInv, DraftInv, DraftTypeOK
<1>11. VersionsKept'
  <2> SUFFICES ASSUME NEW v \in versions'
               PROVE  \E h \in history' : h.draft = v.draft /\ h.revision = v.draftRevision
    BY DEF VersionsKept, HistoryOf
  <2>1. v \in versions /\ v.draft # d
    BY <1>1
  <2>2. PICK h \in history : h.draft = v.draft /\ h.revision = v.draftRevision
    BY <2>1 DEF KeepInv, VersionsKept, HistoryOf
  <2> QED BY <1>1, <2>1, <2>2
<1> QED BY <1>1, <1>9, <1>10, <1>11

(* What only reads leaves the archive alone.                               *)
LEMMA ReadingStutters ==
    ASSUME KeepInv, UNCHANGED storeVars
    PROVE  UNCHANGED Archive!archiveVars /\ VersionsKept' /\ Window'
<1>1. /\ drafts' = drafts /\ history' = history /\ versions' = versions /\ blobs' = blobs
      /\ identities' = identities
  BY DEF storeVars
<1>2. \A d, r : VersionsOf(d, r)' = VersionsOf(d, r)
  BY <1>1 DEF VersionsOf
<1>3. \A d, r : RowsKept(d, r)' = RowsKept(d, r)
  BY <1>1, <1>2, SameRowsKept DEF Stored
<1>4. \A h : Kept(h)' = Kept(h)
  BY <1>3 DEF Kept
<1>5. {Kept(h) : h \in history}' = {Kept(h) : h \in history}
  BY <1>1, <1>4
<1>6. {blobs[b] : b \in DOMAIN blobs}' = {blobs[b] : b \in DOMAIN blobs}
  BY <1>1
<1>7. Window' /\ VersionsKept'
  BY <1>1 DEF Window, VersionsKept, HistoryOf, KeepInv
<1> QED BY <1>1, <1>5, <1>6, <1>7 DEF Archive!archiveVars

LEMMA KeepStep ==
    ASSUME KeepInv, [DraftNext]_vars
    PROVE  /\ KeepInv'
           /\ (\E d \in Drafts : Archive!Write(d) \/ Archive!Discard(d)) \/ UNCHANGED Archive!archiveVars
<1>1. DraftInv'
  BY StepHolds DEF KeepInv
<1>2. CASE SomeWrite
  <2> PICK d \in Drafts : \E next : Write(d, next)
    BY <1>2 DEF SomeWrite
  <2> PICK next : Write(d, next)
    OBVIOUS
  <2>1. Archive!Write(d)
    BY WriteIsWrite
  <2>2. VersionsKept' /\ Window'
    BY WriteKeepsWindow
  <2> QED BY <1>1, <2>1, <2>2 DEF KeepInv
<1>3. ASSUME NEW t \in Tabs, Delete(t)
      PROVE  /\ \E d \in Drafts : Archive!Discard(d)
             /\ VersionsKept' /\ Window'
  BY <1>3, DeleteDiscards
<1>4. ASSUME NEW t \in Tabs, (\E d \in Drafts : Look(t, d) \/ LookBack(t, d)) \/ GiveUp(t)
      PROVE  UNCHANGED storeVars
  BY <1>4 DEF Look, LookBack, GiveUp
<1>5. UNCHANGED vars => UNCHANGED storeVars
  BY DEF vars, storeVars
<1> QED BY <1>1, <1>2, <1>3, <1>4, <1>5, WritersWrite, ReadingStutters DEF KeepInv

(* The store is an archive of whole copies: in any number of tabs and for  *)
(* any hashes, the last MaxHistory revisions of every draft are what they  *)
(* were when they were written, and no other bytes are stored              *)
(* (putAssetVersions, pruneHistoryRevision, deleteUnreferencedAssetBlobs). *)
THEOREM StoreIsArchive == DraftSpec => KeepsCopies
<1>1. DraftInit => KeepInv
  BY InitHolds DEF DraftInit, KeepInv, VersionsKept, Window
<1>2. KeepInv /\ [DraftNext]_vars => KeepInv'
  BY KeepStep
<1>3. DraftInit => Archive!ArchiveInit
  BY DEF DraftInit, Archive!ArchiveInit
<1>4. KeepInv => {blobs[b] : b \in DOMAIN blobs} = Archive!BytesIn({Kept(h) : h \in history})
  BY BytesAre
<1>5. KeepInv' => ({blobs[b] : b \in DOMAIN blobs} = Archive!BytesIn({Kept(h) : h \in history}))'
  BY <1>4, PTL
<1>6. KeepInv /\ KeepInv' /\ [DraftNext]_vars => [Archive!ArchiveNext]_(Archive!archiveVars)
  <2> SUFFICES ASSUME KeepInv, KeepInv', [DraftNext]_vars, ~ UNCHANGED Archive!archiveVars
               PROVE  Archive!ArchiveNext
    OBVIOUS
  <2>1. \E d \in Drafts : Archive!Write(d) \/ Archive!Discard(d)
    BY KeepStep
  <2>2. {blobs[b] : b \in DOMAIN blobs}' = Archive!BytesIn({Kept(h) : h \in history}')
    BY <1>5 DEF Archive!BytesIn
  <2> QED BY <2>1, <2>2 DEF Archive!ArchiveNext
<1> QED BY <1>1, <1>2, <1>3, <1>6, PTL DEF DraftSpec, KeepsCopies, Archive!ArchiveSpec
=============================================================================
