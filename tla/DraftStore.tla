------------------------------ MODULE DraftStore ------------------------------
(***************************************************************************)
(* The Maker drafts that a browser keeps, maker-v8-draft-store.js.  A      *)
(* draft is a document and the bytes of its assets; every save makes one   *)
(* more revision, and the last MaxHistory of them can be restored.  The    *)
(* bytes of old revisions are kept once, as blobs that all revisions of    *)
(* all drafts share, and are deleted with the last version that names them.*)
(*                                                                         *)
(* A method first reads a snapshot, checks the hashes of its bytes, and    *)
(* then writes in one more IndexedDB transaction; other tabs may write in  *)
(* between.  An IndexedDB transaction that fails leaves nothing.           *)
(***************************************************************************)
EXTENDS Integers, FiniteSets

CONSTANTS
    Drafts,         \* draft ids
    AssetIds,       \* asset ids, numbers in the order of the ids
    Contents,       \* bytes an asset can have
    Hash,           \* content -> its SHA-256
    Shape,          \* content -> its kind, media type and length
    Texts,          \* what else a document says
    Tabs,
    MaxHistory,     \* MAX_HISTORY
    Exports,        \* drafts that this or another browser has exported
    MaxWrites,      \* bound: revisions written
    None

VARIABLES
    drafts,         \* id -> the draft or None
    history,        \* the documents of kept revisions
    versions,       \* the assets of kept revisions, each with the id of its blob
    blobs,          \* blob id -> bytes
    identities,     \* ids that were ever used
    held,           \* tab -> the snapshot its method has read, or None
    saved           \* history variable: every revision as it was written

storeVars == <<drafts, history, versions, blobs, identities>>
vars == <<drafts, history, versions, blobs, identities, held, saved>>

-----------------------------------------------------------------------------
(* Drafts.                                                                 *)

Documents == [text : Texts, shapes : UNION {[S -> {Shape[c] : c \in Contents}] : S \in SUBSET AssetIds}]
Row == [content : Contents, revision : Nat]
DraftsWith(S) == [revision : Nat \ {0}, document : Documents, rows : [S -> Row]]
IsDraft(record) ==
    /\ record.revision \in Nat \ {0} /\ record.document \in Documents
    /\ DOMAIN record.rows \subseteq AssetIds /\ record.rows \in [DOMAIN record.rows -> Row]
    /\ \A a \in DOMAIN record.rows : /\ record.rows[a].content \in Contents
                                     /\ record.rows[a].revision \in 1 .. record.revision

Shapes(rows) == [a \in DOMAIN rows |-> Shape[rows[a].content]]

(* The document describes exactly the assets whose bytes there are.        *)
Exact(document, rows) == document.shapes = Shapes(rows)
Describing(rows) == {document \in [text : Texts, shapes : {Shapes(rows)}] : Exact(document, rows)}

(* A row that is written over one of current takes the next revision of    *)
(* it, a new one that of the draft.                                        *)
NextRevision(current, a) ==
    IF a \in DOMAIN current.rows THEN current.rows[a].revision + 1
                                 ELSE current.revision + 1

Rebound(current, contents) ==
    [a \in DOMAIN contents |-> [content |-> contents[a], revision |-> NextRevision(current, a)]]

ASSUME DraftAssumption ==
    /\ AssetIds \subseteq Nat /\ MaxHistory \in Nat \ {0} /\ MaxWrites \in Nat
    /\ DOMAIN Hash = Contents /\ DOMAIN Shape = Contents
    /\ \A S \in SUBSET AssetIds : None \notin DraftsWith(S)
    /\ \A export \in Exports : /\ export \in DraftsWith(DOMAIN export.rows)
                              /\ IsDraft(export) /\ Exact(export.document, export.rows)

ContentsOf(rows) == [a \in DOMAIN rows |-> rows[a].content]

-----------------------------------------------------------------------------
(* Blobs.  The id of a blob is the hash of its bytes, or names the asset   *)
(* that first had them if the hash is taken by other bytes.                *)

Matching(c) == {b \in DOMAIN blobs : blobs[b] = c}

(* The first of the draft's assets with these bytes.                       *)
FirstWith(next, c) ==
    CHOOSE e \in DOMAIN next.rows :
        /\ next.rows[e].content = c
        /\ \A f \in DOMAIN next.rows : next.rows[f].content = c => e <= f

Taken(next, c) ==
    \/ \E b \in DOMAIN blobs : Hash[blobs[b]] = Hash[c]
    \/ \E f \in DOMAIN next.rows :
           f < FirstWith(next, c) /\ Hash[next.rows[f].content] = Hash[c]

BlobId(d, next, a) ==
    LET c == next.rows[a].content
    IN CASE Matching(c) # {} -> CHOOSE b \in Matching(c) : TRUE
         [] Matching(c) = {} /\ ~Taken(next, c) -> <<Hash[c]>>
         [] OTHER -> <<Hash[c], d, next.revision, FirstWith(next, c)>>

NewVersions(d, next) ==
    {[draft |-> d, draftRevision |-> next.revision, asset |-> a,
      revision |-> next.rows[a].revision, blob |-> BlobId(d, next, a)] : a \in DOMAIN next.rows}

VersionsOf(d, r) == {v \in versions : v.draft = d /\ v.draftRevision = r}

(* Mutant: only the versions of the same draft are counted. *)
UnreferencedHere(dropped, kept) ==
    {v.blob : v \in dropped} \ {v.blob : v \in {w \in kept : \E u \in dropped : u.draft = w.draft}}

(* Blobs that no version of any draft names any longer. *)
Unreferenced(dropped, kept) == {v.blob : v \in dropped} \ {v.blob : v \in kept}

(* The rows of an old revision, put together from versions and blobs.      *)
Hydrated(d, r) ==
    LET at(a) == CHOOSE v \in VersionsOf(d, r) : v.asset = a
    IN [a \in {v.asset : v \in VersionsOf(d, r)} |-> blobs[at(a).blob]]

HistoryOf(d, r) == {h \in history : h.draft = d /\ h.revision = r}

-----------------------------------------------------------------------------
(* What every write does: the draft, its rows, one more revision in the    *)
(* history with the versions of all its assets, and the oldest pruned.     *)

Commit(d, next) ==
    LET new == NewVersions(d, next)
        old == VersionsOf(d, next.revision - MaxHistory)
        kept == (versions \cup new) \ old
        dead == Unreferenced(old, kept)
        byId == [b \in {v.blob : v \in new} |->
                    LET v == CHOOSE w \in new : w.blob = b IN next.rows[v.asset].content]
    IN /\ Cardinality(saved) < MaxWrites
       /\ drafts' = [drafts EXCEPT ![d] = next]
       /\ history' = (history \cup {[draft |-> d, revision |-> next.revision, document |-> next.document]})
                         \ HistoryOf(d, next.revision - MaxHistory)
       /\ versions' = kept
       /\ blobs' = [b \in (DOMAIN blobs \cup DOMAIN byId) \ dead |->
                       IF b \in DOMAIN blobs THEN blobs[b] ELSE byId[b]]
       /\ saved' = saved \cup {[draft |-> d, revision |-> next.revision,
                                document |-> next.document, rows |-> next.rows]}

DraftInit ==
    /\ drafts = [d \in Drafts |-> None]
    /\ history = {} /\ versions = {} /\ blobs = <<>> /\ identities = {}
    /\ held = [t \in Tabs |-> None] /\ saved = {}

(* Mutant: the ids of deleted drafts are free again. *)
Absent(d) == drafts[d] = None

(* A new draft has an id that no draft ever had.                           *)
Unused(d) == drafts[d] = None /\ d \notin identities

Begin(d, next) ==
    /\ identities' = identities \cup {d}
    /\ Commit(d, next)

CreateBundle(d) ==
    /\ Unused(d)
    /\ \E S \in SUBSET AssetIds : \E contents \in [S -> Contents] :
           LET rows == [a \in S |-> [content |-> contents[a], revision |-> 1]]
           IN \E document \in Describing(rows) :
                  Begin(d, [revision |-> 1, document |-> document, rows |-> rows])
    /\ UNCHANGED held

ImportBundle(d) ==
    /\ Unused(d)
    /\ \E bundle \in Exports : Begin(d, bundle)
    /\ UNCHANGED held

-----------------------------------------------------------------------------
(* The methods that first read a snapshot.                                 *)

Snapshot(d, target) ==
    [draft |-> d, record |-> drafts[d], target |-> target,
     historical |-> HistoryOf(d, target), versions |-> VersionsOf(d, target),
     blobs |-> {<<v.blob, blobs[v.blob]>> : v \in VersionsOf(d, target)}]

Look(t, d) ==
    /\ held[t] = None /\ drafts[d] # None
    /\ held' = [held EXCEPT ![t] = Snapshot(d, 0)]
    /\ UNCHANGED <<storeVars, saved>>

(* The preflight of a restore also reads the revision to be restored.      *)
LookBack(t, d) ==
    /\ held[t] = None /\ drafts[d] # None
    /\ \E h \in history :
           /\ h.draft = d
           /\ held' = [held EXCEPT ![t] = Snapshot(d, h.revision)]
    /\ UNCHANGED <<storeVars, saved>>

(* The write finds the revision of the snapshot, and then all of it.       *)
SameRevision(s) == drafts[s.draft] # None /\ drafts[s.draft].revision = s.record.revision
Verified(s) == SameRevision(s) /\ s = Snapshot(s.draft, s.target)

Ready(t, forRestore) ==
    held[t] # None /\ (held[t].target > 0) = forRestore /\ Verified(held[t])

Save(t, next) ==
    /\ Exact(next.document, next.rows)
    /\ Commit(held[t].draft, next)
    /\ held' = [held EXCEPT ![t] = None]
    /\ UNCHANGED identities

Successor(s, document, rows) ==
    [revision |-> s.record.revision + 1, document |-> document, rows |-> rows]

CompareAndSwap(t) ==
    /\ Ready(t, FALSE)
    /\ \E document \in Describing(held[t].record.rows) :
           Save(t, Successor(held[t], document, held[t].record.rows))

(* Rows are deleted and others written over or added, with one document.   *)
CompareAndSwapBundle(t) ==
    /\ Ready(t, FALSE)
    /\ LET rows == held[t].record.rows
       IN \E deletes \in SUBSET DOMAIN rows : \E upserts \in SUBSET (AssetIds \ deletes) :
              \E contents \in [upserts -> Contents] :
                  LET fresh == Rebound(held[t].record, contents)
                      next == [a \in (DOMAIN rows \ deletes) \cup upserts |->
                                  IF a \in upserts THEN fresh[a] ELSE rows[a]]
                  IN \E document \in Describing(next) : Save(t, Successor(held[t], document, next))

(* One row, and its description in the document as it is.                  *)
UpsertAsset(t) ==
    /\ Ready(t, FALSE)
    /\ \E a \in AssetIds, c \in Contents :
           LET record == held[t].record
               fresh == Rebound(record, [e \in {a} |-> c])
               rows == [e \in DOMAIN record.rows \cup {a} |-> IF e = a THEN fresh[a] ELSE record.rows[e]]
           IN Save(t, Successor(held[t], [record.document EXCEPT !.shapes = Shapes(rows)], rows))

ReplaceBundle(t) ==
    /\ Ready(t, FALSE)
    /\ \E bundle \in Exports :
           Save(t, Successor(held[t], bundle.document,
                                    Rebound(held[t].record, ContentsOf(bundle.rows))))

RestoreVersion(t) ==
    /\ Ready(t, TRUE)
    /\ \E h \in held[t].historical :
           Save(t, Successor(held[t], h.document,
                                   Rebound(held[t].record, Hydrated(held[t].draft, held[t].target))))

(* A new draft with the assets of another, for the Maker's next version.   *)
CreateSuccessor(t, d) ==
    /\ Ready(t, FALSE) /\ d # held[t].draft /\ Unused(d)
    /\ LET rows == [a \in DOMAIN held[t].record.rows |->
                       [content |-> held[t].record.rows[a].content, revision |-> 1]]
       IN \E document \in Describing(rows) :
              Begin(d, [revision |-> 1, document |-> document, rows |-> rows])
    /\ held' = [held EXCEPT ![t] = None]

(* Deletion knows the revision, and looks at nothing else.                 *)
Delete(t) ==
    /\ held[t] # None /\ SameRevision(held[t])
    /\ LET d == held[t].draft
           old == {v \in versions : v.draft = d}
           dead == Unreferenced(old, versions \ old)
       IN /\ drafts' = [drafts EXCEPT ![d] = None]
          /\ history' = {h \in history : h.draft # d}
          /\ versions' = versions \ old
          /\ blobs' = [b \in DOMAIN blobs \ dead |-> blobs[b]]
    /\ held' = [held EXCEPT ![t] = None]
    /\ UNCHANGED <<identities, saved>>

(* A method that is refused, or whose tab is closed, writes nothing.       *)
GiveUp(t) ==
    /\ held[t] # None
    /\ held' = [held EXCEPT ![t] = None]
    /\ UNCHANGED <<storeVars, saved>>

DraftNext ==
    \/ \E d \in Drafts : CreateBundle(d) \/ ImportBundle(d)
    \/ \E t \in Tabs :
           \/ \E d \in Drafts : Look(t, d) \/ LookBack(t, d) \/ CreateSuccessor(t, d)
           \/ CompareAndSwap(t) \/ CompareAndSwapBundle(t) \/ UpsertAsset(t)
           \/ ReplaceBundle(t) \/ RestoreVersion(t) \/ Delete(t) \/ GiveUp(t)

DraftSpec == DraftInit /\ [][DraftNext]_vars

-----------------------------------------------------------------------------
(* Type correctness of the stores and of what the tabs hold.               *)
DraftTypeOK ==
    /\ DOMAIN drafts = Drafts /\ \A d \in Drafts : drafts[d] # None => IsDraft(drafts[d])
    /\ \A h \in history : h.draft \in Drafts /\ h.revision \in Nat \ {0} /\ h.document \in Documents
    /\ \A v \in versions : v.draft \in Drafts /\ v.draftRevision \in Nat \ {0} /\ v.asset \in AssetIds
    /\ \A b \in DOMAIN blobs : blobs[b] \in Contents
    /\ identities \subseteq Drafts
    /\ DOMAIN held = Tabs
    /\ \A t \in Tabs : held[t] # None => held[t].draft \in Drafts /\ IsDraft(held[t].record)
    /\ \A s \in saved : s.draft \in Drafts /\ IsDraft(s)

(* A revision that is offered for restoring has exactly the document and   *)
(* the bytes it was saved with, whatever other drafts were pruned or       *)
(* deleted that shared them, and no bytes are kept that nothing names      *)
(* (putAssetVersions, pruneHistoryRevision, deleteUnreferencedAssetBlobs). *)
VersionsIntact ==
    /\ \A h \in history : \E s \in saved :
           /\ s.draft = h.draft /\ s.revision = h.revision /\ s.document = h.document
           /\ {v.asset : v \in VersionsOf(h.draft, h.revision)} = DOMAIN s.rows
           /\ \A v \in VersionsOf(h.draft, h.revision) :
                  /\ v.blob \in DOMAIN blobs /\ blobs[v.blob] = s.rows[v.asset].content
                  /\ v.revision = s.rows[v.asset].revision
    /\ DOMAIN blobs = {v.blob : v \in versions}
    /\ \A d \in Drafts : drafts[d] # None => HistoryOf(d, drafts[d].revision) # {}

(* While a draft has the revision that a tab read, everything the tab read *)
(* of it is as it was, also after the draft was deleted: a write that      *)
(* compares revisions overwrites nothing that its caller has not seen, and *)
(* DRAFT_CHANGED and VERSION_CHANGED are never raised.                     *)
RevisionDeterminesDraft ==
    \A t \in Tabs : held[t] # None /\ SameRevision(held[t]) => Verified(held[t])

(* One revision of one asset never stands for two contents, through        *)
(* deletions, new assets of an old id, restores and imports: the asset     *)
(* revision that a save names as expected cannot be that of other bytes.   *)
AssetRevisionsApart ==
    \A s, u \in saved : s.draft = u.draft =>
        \A a \in DOMAIN s.rows \cap DOMAIN u.rows :
            s.rows[a].revision = u.rows[a].revision => s.rows[a].content = u.rows[a].content

-----------------------------------------------------------------------------
(* The archive of whole copies that this store stands for: a kept revision  *)
(* has the rows put together from its versions and the blobs they name.     *)
Stored(b) == IF b \in DOMAIN blobs THEN blobs[b] ELSE None

RowsKept(d, r) ==
    LET mine == VersionsOf(d, r)
    IN [a \in {v.asset : v \in mine} |->
           LET v == CHOOSE w \in mine : w.asset = a
           IN [content |-> Stored(v.blob), revision |-> v.revision]]

Kept(h) == [draft |-> h.draft, revision |-> h.revision, document |-> h.document,
            rows |-> RowsKept(h.draft, h.revision)]

Archive == INSTANCE DraftArchive WITH
    current <- drafts,
    copies <- {Kept(h) : h \in history},
    used <- identities,
    bytes <- {blobs[b] : b \in DOMAIN blobs}

(* Sharing the blobs does not show: in whatever order tabs save, restore,   *)
(* import and delete, each of the last MaxHistory revisions of each draft   *)
(* is there with the document, the bytes and the asset revisions it was     *)
(* written with, every write follows the revision before it, and no bytes   *)
(* stay that no kept revision has (putAssetVersions, pruneHistoryRevision,  *)
(* deleteUnreferencedAssetBlobs).                                           *)
KeepsCopies == Archive!ArchiveSpec
=============================================================================
