----------------------------- MODULE DesignStore -----------------------------
(***************************************************************************)
(* DesignerService over its SQLite tables: designs, immutable revisions,   *)
(* previews, content-addressed snapshots, archive tombstones and the       *)
(* idempotency table (apps/server/src/service.ts, db/database.ts).         *)
(*                                                                         *)
(* The server is one process over a synchronous database, so a transaction *)
(* is one action.  The network is not a variable: any well-formed request  *)
(* may arrive in any state and any number of times, which is a client that *)
(* retries, a duplicate, a reply that was lost and a request that was late.*)
(* A refused request throws and its transaction is rolled back; it is the  *)
(* request whose action is not enabled.  A document is the pair of its     *)
(* revision number and the set of edits made to it; its hash is itself.    *)
(***************************************************************************)
EXTENDS Naturals, Sequences

CONSTANTS
    Designs,        \* design ids
    Actors,         \* principals that write; the idempotency table is per actor
    Keys,           \* idempotency keys the actors choose
    Edits,          \* changes to a document
    Kinds,          \* preview kinds: ordinary, archive
    PreviewIds,     \* ids for previews: bounds how many are ever created
    RevisionIds,    \* ids for revisions: bounds how many are ever committed
    NoRevision,     \* the NULL parent of a first revision
    Requests,       \* the idempotent requests that may arrive
    PreviewTTL,     \* previewTtlSeconds
    Day,            \* the 86_400_000 ms of the idempotency and purge windows
    MaxTime,        \* bound of the clock
    MaxEngine       \* bound of the server upgrades

RequestType ==
    [op : {"create"}, actor : Actors, key : Keys]
    \cup [op : {"revise"}, actor : Actors, key : Keys, design : Designs,
          base : Nat, edit : Edits]
    \cup [op : {"commit"}, actor : Actors, key : Keys, design : Designs,
          base : Nat, preview : PreviewIds, kind : Kinds]
    \cup [op : {"restore"}, actor : Actors, key : Keys, design : Designs,
          base : Nat, target : Nat]
    \cup [op : {"archive"}, actor : Actors, key : Keys, design : Designs,
          base : Nat]
    \cup [op : {"unarchive"}, actor : Actors, key : Keys, design : Designs,
          base : Nat, archivedAt : Nat]

ASSUME RequestsAssumption == Requests \subseteq RequestType
ASSUME BoundsAssumption ==
    /\ PreviewTTL \in Nat
    /\ Day \in Nat
    /\ MaxTime \in Nat
    /\ MaxEngine \in Nat
ASSUME NoRevisionAssumption == NoRevision \notin RevisionIds

VARIABLES
    designs,     \* designs[d]: current_version (0: no such row), current_revision_id
    revisions,   \* the revisions table
    tombstones,  \* the design_archive rows of system_metadata
    previews,    \* previews[p]: the row, or that it is not there (yet, any more)
    snapshots,   \* the documents in the snapshots table
    idempotency, \* the idempotency table
    engine,      \* the command engine, renderer and font versions now running
    clock,       \* the wall clock
    effects      \* history: effects[q] is when request q took effect, in order

vars == <<designs, revisions, tombstones, previews, snapshots, idempotency,
          engine, clock, effects>>

-----------------------------------------------------------------------------
Documents == [revision : Nat, edits : SUBSET Edits]

DesignRows == [version : Nat, revision : RevisionIds \cup {NoRevision}]

\* "by" is history: the request that made the revision.
RevisionRows ==
    [id : RevisionIds, design : Designs, version : Nat,
     parent : RevisionIds \cup {NoRevision}, document : Documents, by : Requests]

TombstoneRows ==
    [design : Designs, version : Nat, revision : RevisionIds \cup {NoRevision},
     at : Nat]

PreviewRows ==
    [status : {"unused", "purged"}]
    \cup [status : {"ready", "blocked", "expired", "committed"},
          design : Designs, actor : Actors, kind : Kinds,
          base : Nat, baseRevision : RevisionIds, baseSnapshot : Documents,
          result : Documents, engine : Nat, expires : Nat,
          committed : RevisionIds \cup {NoRevision}]

Replies == [revision : RevisionIds] \cup [archivedAt : Nat] \cup [active : {TRUE}]

IdempotencyRows == [request : Requests, reply : Replies, expires : Nat]

-----------------------------------------------------------------------------
Exists(d) == designs[d].version # 0
IsDesignArchived(d) == \E t \in tombstones : t.design = d
Readable(d) == Exists(d) /\ ~IsDesignArchived(d)     \* requireDesign

InTable(row) == row.status \in {"ready", "blocked", "expired", "committed"}

NewRevisionId ==
    CHOOSE id \in RevisionIds : \A r \in revisions : r.id # id

-----------------------------------------------------------------------------
(* Retention: cleanupPreviews and the snapshots it collects.               *)

ExpireDue(row) ==
    IF row.status \in {"ready", "blocked"} /\ row.expires <= clock
    THEN [row EXCEPT !.status = "expired"] ELSE row

PurgeDue(row) ==
    IF row.status = "expired" /\ row.expires + Day <= clock
    THEN [status |-> "purged"] ELSE row

CleanedPreviews == [p \in PreviewIds |-> PurgeDue(ExpireDue(previews[p]))]

\* Mutant: a preview protects only the snapshot it starts from.
Referenced_NotResult(doc, rows) ==
    \/ \E r \in revisions : r.document = doc
    \/ \E p \in PreviewIds : InTable(rows[p]) /\ rows[p].baseSnapshot = doc

\* A snapshot is kept while a revision or a preview refers to it.
Referenced(doc, rows) ==
    \/ \E r \in revisions : r.document = doc
    \/ \E p \in PreviewIds : /\ InTable(rows[p])
                             /\ doc \in {rows[p].baseSnapshot, rows[p].result}

CollectedSnapshots(rows) == {doc \in snapshots : Referenced(doc, rows)}

CleanupPreviews ==
    /\ previews' = CleanedPreviews
    /\ snapshots' = CollectedSnapshots(CleanedPreviews)

-----------------------------------------------------------------------------
(* withIdempotency: one immediate transaction around the request.          *)

Scope(q) == IF q.op = "create" THEN <<"create">> ELSE <<q.op, q.design>>

Slot(q) == <<q.actor, Scope(q), q.key>>

LiveRows == {row \in idempotency : row.expires > clock}

\* The row a request finds under its actor, scope and key.
Found(q) == {row \in LiveRows : Slot(row.request) = Slot(q)}

\* The rows a request is answered from: found, and with the same input hash.
Answers(q) == {row \in Found(q) : row.request = q}

\* Mutant: the row is inserted without its expires_at.
Remember_NoExpiry(q, reply) ==
    /\ Found(q) = {}
    /\ idempotency' = LiveRows \cup {[request |-> q, reply |-> reply]}
    /\ effects' = [effects EXCEPT ![q] = Append(@, clock)]

Remember(q, reply) ==
    /\ Found(q) = {}
    /\ idempotency' = LiveRows \cup
          {[request |-> q, reply |-> reply, expires |-> clock + Day]}
    /\ effects' = [effects EXCEPT ![q] = Append(@, clock)]

\* A request already answered within the day is answered again from the table.
Replay(q) ==
    /\ Answers(q) # {}
    /\ idempotency' = LiveRows
    /\ UNCHANGED effects

-----------------------------------------------------------------------------
(* The two writers of the revisions table.                                 *)

\* Mutant: the head moves to the new version and keeps the old revision id.
CommitDocument_HeadKept(q, d, base, document) ==
    LET id == NewRevisionId IN
    /\ \E free \in RevisionIds : \A r \in revisions : r.id # free
    /\ designs[d].version = base
    /\ revisions' = revisions \cup
          {[id |-> id, design |-> d, version |-> base + 1,
            parent |-> designs[d].revision, document |-> document, by |-> q]}
    /\ designs' = [designs EXCEPT ![d].version = base + 1]
    /\ Remember(q, [revision |-> id])

\* The row is unique on (design_id, version), and the head is moved only from
\* the version and the revision the commit was computed from.
CommitDocument(q, d, base, document) ==
    LET id == NewRevisionId IN
    /\ \E free \in RevisionIds : \A r \in revisions : r.id # free
    /\ document.revision = base + 1
    /\ designs[d].version = base
    /\ \E parent \in revisions :
          /\ parent.design = d
          /\ parent.version = base
          /\ parent.id = designs[d].revision
    /\ \A r \in revisions : r.design = d => r.version # base + 1
    /\ revisions' = revisions \cup
          {[id |-> id, design |-> d, version |-> base + 1,
            parent |-> designs[d].revision, document |-> document, by |-> q]}
    /\ designs' = [designs EXCEPT ![d] = [version |-> base + 1, revision |-> id]]
    /\ Remember(q, [revision |-> id])

CreateDesign(q) ==
    LET id == NewRevisionId
        document == [revision |-> 1, edits |-> {}]
    IN  /\ q.op = "create"
        /\ \E free \in RevisionIds : \A r \in revisions : r.id # free
        /\ \E d \in Designs :
              /\ ~Exists(d)
              /\ designs' = [designs EXCEPT ![d] = [version |-> 1, revision |-> id]]
              /\ revisions' = revisions \cup
                    {[id |-> id, design |-> d, version |-> 1,
                      parent |-> NoRevision, document |-> document, by |-> q]}
        /\ snapshots' = snapshots \cup {document}
        /\ Remember(q, [revision |-> id])
        /\ UNCHANGED <<tombstones, previews, engine, clock>>

DocumentAt(d, v) ==
    (CHOOSE r \in revisions : r.design = d /\ r.version = v).document

\* Mutant: a request on an old version is applied to whatever is the head now.
ApplyRevision_Rebased(q) ==
    LET base == designs[q.design].version
        document == [revision |-> base + 1,
                     edits |-> DocumentAt(q.design, base).edits \cup {q.edit}]
    IN  /\ q.op = "revise"
        /\ Readable(q.design)
        /\ CommitDocument(q, q.design, base, document)
        /\ snapshots' = snapshots \cup {document}
        /\ UNCHANGED <<tombstones, previews, engine, clock>>

\* Mutant: the new document has only the new edit.
ApplyRevision_Overwrites(q) ==
    LET document == [revision |-> q.base + 1, edits |-> {q.edit}]
    IN  /\ q.op = "revise"
        /\ Readable(q.design)
        /\ designs[q.design].version = q.base
        /\ CommitDocument(q, q.design, q.base, document)
        /\ snapshots' = snapshots \cup {document}
        /\ UNCHANGED <<tombstones, previews, engine, clock>>

\* applyRevision: the operations are applied to the current document.
ApplyRevision(q) ==
    LET document == [revision |-> q.base + 1,
                     edits |-> DocumentAt(q.design, q.base).edits \cup {q.edit}]
    IN  /\ q.op = "revise"
        /\ Readable(q.design)
        /\ designs[q.design].version = q.base
        /\ CommitDocument(q, q.design, q.base, document)
        /\ snapshots' = snapshots \cup {document}
        /\ UNCHANGED <<tombstones, previews, engine, clock>>

\* restoreRevision: the content of an earlier version becomes the next one.
RestoreRevision(q) ==
    /\ q.op = "restore"
    /\ Readable(q.design)
    /\ designs[q.design].version = q.base
    /\ \E target \in revisions :
          LET document == [target.document EXCEPT !.revision = q.base + 1]
          IN  /\ target.design = q.design
              /\ target.version = q.target
              /\ CommitDocument(q, q.design, q.base, document)
              /\ snapshots' = snapshots \cup {document}
    /\ UNCHANGED <<tombstones, previews, engine, clock>>

-----------------------------------------------------------------------------
(* Previews.                                                               *)

PreviewRow(a, d, base, baseRevision, baseSnapshot, result, kind, ok) ==
    [status |-> IF ok THEN "ready" ELSE "blocked",
     design |-> d, actor |-> a, kind |-> kind, base |-> base,
     baseRevision |-> baseRevision, baseSnapshot |-> baseSnapshot,
     result |-> result, engine |-> engine, expires |-> clock + PreviewTTL,
     committed |-> NoRevision]

\* Whether the diagnostics of the result have an error is the "ok" of the data.
StorePreview(p, row, rows, docs) ==
    /\ previews[p].status = "unused"
    /\ previews' = [rows EXCEPT ![p] = row]
    /\ snapshots' = docs \cup {row.result}
    /\ UNCHANGED <<designs, revisions, tombstones, engine, clock, effects>>

\* createPreview with baseVersion: the base is the head of the design.
CreatePreview(a, d, p, new, kind, ok) ==
    /\ Readable(d)
    /\ \E r \in revisions :
          /\ r.design = d
          /\ r.version = designs[d].version
          /\ StorePreview(p,
                PreviewRow(a, d, r.version, r.id, r.document,
                           [revision |-> r.version + 1,
                            edits |-> r.document.edits \cup {new}], kind, ok),
                CleanedPreviews, CollectedSnapshots(CleanedPreviews))
    /\ idempotency' = LiveRows

\* Mutant: the refined preview claims the head as its base, not the root base
\* its content comes from.
RefinePreview_Rebased(a, p, from, new, ok) ==
    LET base == previews[from]
    IN  /\ base.status \in {"ready", "blocked"}
        /\ base.expires > clock
        /\ base.actor = a
        /\ Readable(base.design)
        /\ \E r \in revisions :
              /\ r.design = base.design
              /\ r.version = designs[base.design].version
              /\ StorePreview(p,
                    PreviewRow(a, base.design, r.version, r.id, r.document,
                               [revision |-> r.version + 1,
                                edits |-> base.result.edits \cup {new}],
                               base.kind, ok),
                    CleanedPreviews, CollectedSnapshots(CleanedPreviews))
        /\ idempotency' = LiveRows

\* createPreview with basePreviewId: the root base is inherited, whether or not
\* it is still the head.
RefinePreview(a, p, from, new, ok) ==
    LET base == previews[from]
    IN  /\ base.status \in {"ready", "blocked"}
        /\ base.expires > clock
        /\ base.actor = a
        /\ Readable(base.design)
        /\ StorePreview(p,
              PreviewRow(a, base.design, base.base, base.baseRevision,
                         base.baseSnapshot,
                         [base.result EXCEPT !.edits = @ \cup {new}],
                         base.kind, ok),
              CleanedPreviews, CollectedSnapshots(CleanedPreviews))
        /\ idempotency' = LiveRows

\* createPreparedPreview: the caller supplies the document; no cleanup runs.
CreatePreparedPreview(a, d, p, new, ok) ==
    /\ Readable(d)
    /\ "ordinary" \in Kinds
    /\ \E r \in revisions :
          /\ r.design = d
          /\ r.version = designs[d].version
          /\ StorePreview(p,
                PreviewRow(a, d, r.version, r.id, r.document,
                           [revision |-> r.version + 1,
                            edits |-> r.document.edits \cup {new}],
                           "ordinary", ok),
                previews, snapshots)
    /\ UNCHANGED idempotency

\* requirePreviewForRead: a read that finds the preview out of date says so in
\* the row before it fails.
ReadPreview(a, p) ==
    /\ InTable(previews[p])
    /\ previews[p].actor = a
    /\ Readable(previews[p].design)
    /\ previews' = [previews EXCEPT ![p] = ExpireDue(@)]
    /\ UNCHANGED <<designs, revisions, tombstones, snapshots, idempotency,
                   engine, clock, effects>>

\* loadPreview, as authorizePreviewCommit and the commit itself call it.
MayCommit(q) ==
    /\ Readable(q.design)
    /\ InTable(previews[q.preview])
    /\ previews[q.preview].design = q.design
    /\ previews[q.preview].actor = q.actor

\* Mutant: the engine that made the preview does not matter.
Committable_AnyEngine(q, row) ==
    /\ row.status = "ready"
    /\ row.expires > clock
    /\ row.kind = q.kind
    /\ row.base = q.base

\* The checks of commitPreviewInTransaction on the preview's row.
Committable(q, row) ==
    /\ row.status = "ready"
    /\ row.expires > clock
    /\ row.kind = q.kind
    /\ row.engine = engine
    /\ row.base = q.base

\* The authoritative base is still the one the preview was computed from.
BaseUnchanged(q, row) ==
    /\ designs[q.design].version = q.base
    /\ \E r \in revisions :
          /\ r.design = q.design
          /\ r.version = q.base
          /\ r.id = row.baseRevision
          /\ r.document = row.baseSnapshot

\* commitPreview: the cleanup runs before the transaction and outside it.
CommitPreview(q) ==
    LET row == CleanedPreviews[q.preview]
    IN  /\ q.op = "commit"
        /\ MayCommit(q)
        /\ InTable(row)
        /\ Committable(q, row)
        /\ BaseUnchanged(q, row)
        /\ row.result \in CollectedSnapshots(CleanedPreviews)
        /\ CommitDocument(q, q.design, q.base, row.result)
        /\ previews' = [CleanedPreviews EXCEPT
              ![q.preview].status = "committed",
              ![q.preview].committed = NewRevisionId]
        /\ snapshots' = CollectedSnapshots(CleanedPreviews)
        /\ UNCHANGED <<tombstones, engine, clock>>

\* A commit that is refused has still cleaned up.
RefuseCommit(q) ==
    /\ q.op = "commit"
    /\ MayCommit(q)
    /\ CleanupPreviews
    /\ UNCHANGED <<designs, revisions, tombstones, idempotency, engine, clock,
                   effects>>

-----------------------------------------------------------------------------
(* Archival.                                                               *)

ArchiveDesign(q) ==
    /\ q.op = "archive"
    /\ Readable(q.design)
    /\ designs[q.design].version = q.base
    /\ tombstones' = tombstones \cup
          {[design |-> q.design, version |-> designs[q.design].version,
            revision |-> designs[q.design].revision, at |-> clock]}
    /\ Remember(q, [archivedAt |-> clock])
    /\ UNCHANGED <<designs, revisions, previews, snapshots, engine, clock>>

RestoreArchivedDesign(q) ==
    /\ q.op = "unarchive"
    /\ \E t \in tombstones :
          /\ t.design = q.design
          /\ t.version = q.base
          /\ t.at = q.archivedAt
          /\ tombstones' = tombstones \ {t}
    /\ designs[q.design].version = q.base
    /\ Remember(q, [active |-> TRUE])
    /\ UNCHANGED <<designs, revisions, previews, snapshots, engine, clock>>

-----------------------------------------------------------------------------
\* The checks made before the table is looked at, on a retry as well.
Authorized(q) ==
    CASE q.op = "create" -> TRUE
      [] q.op = "commit" -> MayCommit(q)
      [] q.op \in {"archive", "unarchive"} -> Exists(q.design)
      [] OTHER -> Readable(q.design)

ReplayRequest(q) ==
    /\ Authorized(q)
    /\ Replay(q)
    /\ IF q.op = "commit" THEN CleanupPreviews ELSE UNCHANGED <<previews, snapshots>>
    /\ UNCHANGED <<designs, revisions, tombstones, engine, clock>>

\* The process stops and starts, perhaps as a later version; the constructor
\* of DesignerService cleans up.
Restart ==
    /\ engine' \in engine..MaxEngine
    /\ CleanupPreviews
    /\ UNCHANGED <<designs, revisions, tombstones, idempotency, clock, effects>>

Tick ==
    /\ clock < MaxTime
    /\ clock' = clock + 1
    /\ UNCHANGED <<designs, revisions, tombstones, previews, snapshots,
                   idempotency, engine, effects>>

Init ==
    /\ designs = [d \in Designs |-> [version |-> 0, revision |-> NoRevision]]
    /\ revisions = {}
    /\ tombstones = {}
    /\ previews = [p \in PreviewIds |-> [status |-> "unused"]]
    /\ snapshots = {}
    /\ idempotency = {}
    /\ engine = 1
    /\ clock = 0
    /\ effects = [q \in Requests |-> <<>>]

PreviewNext ==
    \E a \in Actors, p \in PreviewIds :
        \/ \E d \in Designs, new \in Edits, kind \in Kinds, ok \in BOOLEAN :
              CreatePreview(a, d, p, new, kind, ok)
        \/ \E from \in PreviewIds, new \in Edits, ok \in BOOLEAN :
              RefinePreview(a, p, from, new, ok)
        \/ \E d \in Designs, new \in Edits, ok \in BOOLEAN :
              CreatePreparedPreview(a, d, p, new, ok)
        \/ ReadPreview(a, p)

RequestNext ==
    \E q \in Requests :
        \/ CreateDesign(q)
        \/ ApplyRevision(q)
        \/ RestoreRevision(q)
        \/ CommitPreview(q)
        \/ RefuseCommit(q)
        \/ ArchiveDesign(q)
        \/ RestoreArchivedDesign(q)
        \/ ReplayRequest(q)

Next == PreviewNext \/ RequestNext \/ Restart \/ Tick

Spec == Init /\ [][Next]_vars

-----------------------------------------------------------------------------
(* Properties.                                                             *)

\* Every variable has its type.
TypeOK ==
    /\ designs \in [Designs -> DesignRows]
    /\ revisions \subseteq RevisionRows
    /\ tombstones \subseteq TombstoneRows
    /\ previews \in [PreviewIds -> PreviewRows]
    /\ snapshots \subseteq Documents
    /\ idempotency \subseteq IdempotencyRows
    /\ engine \in Nat
    /\ clock \in Nat
    /\ effects \in [Requests -> Seq(Nat)]

\* No two revisions share an id, or a version of one design.
DistinctRevisions ==
    \A r, s \in revisions :
        \/ r = s
        \/ r.id # s.id /\ <<r.design, r.version>> # <<s.design, s.version>>

\* The head of a design is its last revision, and no version before is missing.
HeadIsLast ==
    \A d \in Designs :
        /\ \A r \in revisions : r.design = d => r.version \in 1..designs[d].version
        /\ \A v \in 1..designs[d].version :
              \E r \in revisions : r.design = d /\ r.version = v
        /\ \A r \in revisions :
              r.design = d /\ r.version = designs[d].version
                  => r.id = designs[d].revision

\* The parent of a revision is the revision of the version just before.
ParentIsPrevious ==
    \A r \in revisions :
        \/ r.version = 1 /\ r.parent = NoRevision
        \/ \E s \in revisions : /\ s.design = r.design
                                /\ s.version + 1 = r.version
                                /\ s.id = r.parent

\* The revisions of a design are one chain from version 1 to its head: no gap,
\* no fork, every parent the revision just before, the head the last one.
\* (commitDocumentInTransaction: the version check, the parent and the update
\* of the head, service.ts:2600-2655.)
LinearHistory == DistinctRevisions /\ HeadIsLast /\ ParentIsPrevious

\* However often a request to revise, restore or commit arrives, and even after
\* the idempotency row that remembers it is gone, it makes one revision.
RevisionOncePerRequest ==
    \A r, s \in revisions : r.by = s.by /\ r.by.op # "create" => r = s

\* No request, design creation and archival included, takes effect twice within
\* the day its idempotency row is kept (withIdempotency, service.ts:3120-3151).
OnceWithinTheDay ==
    \A q \in Requests : \A i, j \in DOMAIN effects[q] :
        i < j => effects[q][j] >= effects[q][i] + Day

\* A retried request is answered with the result of its own earlier run, never
\* with that of another request that used the same key.
AnswerIsOwn ==
    \A q \in Requests : \A row \in Answers(q) :
        /\ effects[q] # <<>>
        /\ "revision" \in DOMAIN row.reply =>
              \E r \in revisions : r.id = row.reply.revision /\ r.by = q
        /\ "archivedAt" \in DOMAIN row.reply =>
              row.reply.archivedAt = effects[q][Len(effects[q])]

\* Over lost replies, retries and keys used again a request works once and is
\* answered with what it did (withIdempotency and, after the row is gone, the
\* version check of commitDocumentInTransaction).
RequestsWorkOnce == RevisionOncePerRequest /\ OnceWithinTheDay /\ AnswerIsOwn

\* A committed preview is exactly one revision: the very document that was
\* previewed, on the very revision it was previewed against and with all that
\* revision has.
CommittedExactly ==
    \A p \in PreviewIds : previews[p].status = "committed" =>
        \E r, base \in revisions :
            /\ r.id = previews[p].committed
            /\ r.design = previews[p].design
            /\ r.document = previews[p].result
            /\ r.parent = base.id
            /\ base.id = previews[p].baseRevision
            /\ base.document = previews[p].baseSnapshot
            /\ base.document.edits \subseteq r.document.edits
            /\ \A other \in PreviewIds \ {p} :
                  previews[other].status = "committed"
                      => previews[other].committed # r.id

\* The garbage collection of snapshots never takes one that a revision or a
\* preview still reads (cleanupPreviews, db/database.ts:3252-3260).
SnapshotsKept ==
    /\ \A r \in revisions : r.document \in snapshots
    /\ \A p \in PreviewIds : InTable(previews[p]) =>
          {previews[p].baseSnapshot, previews[p].result} \subseteq snapshots

\* An archived design stands still: its tombstone names its head, and there is
\* one tombstone (restoreArchivedDesign compares the two, service.ts:715).
FrozenWhileArchived ==
    \A t \in tombstones :
        /\ t.version = designs[t.design].version
        /\ t.revision = designs[t.design].revision
        /\ \A u \in tombstones : u.design = t.design => u = t

\* What rows refer to is there for as long as they do, whatever is collected,
\* archived, restored or expires in between.
ReferencesKept == SnapshotsKept /\ FrozenWhileArchived

\* A preview becomes committed only while it is unexpired, free of errors and
\* made by the engine that commits it; a committed or expired one stays so.
PreviewLifecycle ==
    [][\A p \in PreviewIds :
         /\ previews[p].status # "committed" /\ previews'[p].status = "committed"
              => /\ previews[p].status = "ready"
                 /\ previews[p].expires > clock
                 /\ previews[p].engine = engine
         /\ previews[p].status = "committed" => previews'[p] = previews[p]
         /\ previews[p].status = "expired"
              => previews'[p].status \in {"expired", "purged"}]_vars

\* The store implements the log: no commit loses an edit of the version it
\* follows, and nothing is appended to an archived design.
Abstract == INSTANCE RevisionLog WITH
    log <- [d \in Designs |->
              [v \in 1..designs[d].version |-> DocumentAt(d, v).edits]],
    closed <- {t.design : t \in tombstones}

ImplementsRevisionLog == Abstract!Spec
=============================================================================
