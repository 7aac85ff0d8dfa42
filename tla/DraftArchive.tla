---------------------------- MODULE DraftArchive ----------------------------
(***************************************************************************)
(* What the draft store promises, with no blobs, no snapshots and no tabs: *)
(* the last MaxHistory revisions of a draft are kept, each as a whole copy *)
(* of its document and its assets.  A revision is written once, follows    *)
(* the one before it, and is never touched again until it is too old or    *)
(* its draft is deleted; a deleted draft does not come back.  The bytes in *)
(* store are those of the copies.                                          *)
(***************************************************************************)
EXTENDS Integers

CONSTANTS Drafts, MaxHistory, None

VARIABLES
    current,    \* the draft of each id, or None
    copies,     \* the revisions kept, of all drafts
    used,       \* ids that were ever used
    bytes       \* what is stored

archiveVars == <<current, copies, used, bytes>>

(* A copy has the rows of the draft as it was.                             *)
CopyOf(d, record) ==
    [draft |-> d, revision |-> record.revision, document |-> record.document, rows |-> record.rows]

BytesIn(kept) == UNION {{c.rows[a].content : a \in DOMAIN c.rows} : c \in kept}

ArchiveInit ==
    /\ current = [d \in Drafts |-> None]
    /\ copies = {} /\ used = {} /\ bytes = {}

(* The next revision of d, or its first.                                   *)
Follows(d, record) ==
    IF current[d] = None THEN d \notin used
                         ELSE record.revision = current[d].revision + 1

Write(d) ==
    /\ current'[d] # None /\ Follows(d, current'[d])
    /\ current' = [current EXCEPT ![d] = current'[d]]
    /\ copies' = {c \in copies : c.draft = d => c.revision > current'[d].revision - MaxHistory}
                     \cup {CopyOf(d, current'[d])}
    /\ used' = used \cup {d}

Discard(d) ==
    /\ current[d] # None
    /\ current' = [current EXCEPT ![d] = None]
    /\ copies' = {c \in copies : c.draft # d}
    /\ UNCHANGED used

ArchiveNext ==
    /\ \E d \in Drafts : Write(d) \/ Discard(d)
    /\ bytes' = BytesIn(copies')

ArchiveSpec == ArchiveInit /\ [][ArchiveNext]_archiveVars
=============================================================================
