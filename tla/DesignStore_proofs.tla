-------------------------- MODULE DesignStore_proofs --------------------------
(***************************************************************************)
(* Proofs about DesignStore, for every number of designs, actors, keys,    *)
(* previews and revisions, and for every set of requests: histories,        *)
(* requests, previews and references, and the refinement of RevisionLog.    *)
(***************************************************************************)
EXTENDS DesignStore, TLAPS, SequenceTheorems

USE RequestsAssumption, BoundsAssumption, NoRevisionAssumption

-----------------------------------------------------------------------------
(* What the parts of a state are.                                          *)

\* The fields a request has, by its operation.
LEMMA RequestFields ==
    ASSUME NEW q \in Requests
    PROVE  /\ q.op # "create" => q.design \in Designs /\ q.base \in Nat
           /\ q.op = "revise" => q.edit \in Edits
           /\ q.op = "commit" => q.preview \in PreviewIds
  <1>1. q \in RequestType
    OBVIOUS
  <1>2. CASE q \in [op : {"create"}, actor : Actors, key : Keys]
    BY <1>2
  <1>3. CASE q \in [op : {"revise"}, actor : Actors, key : Keys,
                    design : Designs, base : Nat, edit : Edits]
    BY <1>3
  <1>4. CASE q \in [op : {"commit"}, actor : Actors, key : Keys,
                    design : Designs, base : Nat, preview : PreviewIds,
                    kind : Kinds]
    BY <1>4
  <1>5. CASE q \in [op : {"restore"}, actor : Actors, key : Keys,
                    design : Designs, base : Nat, target : Nat]
    BY <1>5
  <1>6. CASE q \in [op : {"archive"}, actor : Actors, key : Keys,
                    design : Designs, base : Nat]
    BY <1>6
  <1>7. CASE q \in [op : {"unarchive"}, actor : Actors, key : Keys,
                    design : Designs, base : Nat, archivedAt : Nat]
    BY <1>7
  <1> QED
    BY <1>1, <1>2, <1>3, <1>4, <1>5, <1>6, <1>7 DEF RequestType

\* A fresh id is an id that no revision has.
LEMMA FreshRevisionId ==
    ASSUME \E free \in RevisionIds : \A r \in revisions : r.id # free
    PROVE  /\ NewRevisionId \in RevisionIds
           /\ \A r \in revisions : r.id # NewRevisionId
  BY DEF NewRevisionId

\* The row of a version that exists has a document.
LEMMA DocumentAtType ==
    ASSUME TypeOK, NEW d, NEW v,
           \E r \in revisions : r.design = d /\ r.version = v
    PROVE  DocumentAt(d, v) \in Documents
  <1> DEFINE row == CHOOSE r \in revisions : r.design = d /\ r.version = v
  <1>1. row \in revisions
    OBVIOUS
  <1>2. row.document \in Documents
    BY <1>1 DEF TypeOK, RevisionRows
  <1> QED
    BY <1>2 DEF DocumentAt

\* The rows a preview can be in the table with.
StoredPreviewRows ==
    [status : {"ready", "blocked", "expired", "committed"},
     design : Designs, actor : Actors, kind : Kinds,
     base : Nat, baseRevision : RevisionIds, baseSnapshot : Documents,
     result : Documents, engine : Nat, expires : Nat,
     committed : RevisionIds \cup {NoRevision}]

\* A preview in the table has all its columns.
LEMMA StoredPreview ==
    ASSUME TypeOK, NEW row \in PreviewRows, InTable(row)
    PROVE  row \in StoredPreviewRows
  BY DEF PreviewRows, StoredPreviewRows, InTable

\* The expiry of a preview changes its status only.
LEMMA ExpireDueType ==
    ASSUME TypeOK, NEW row \in PreviewRows
    PROVE  ExpireDue(row) \in PreviewRows
  <1>1. CASE row.status \in {"ready", "blocked"} /\ row.expires <= clock
    <2>1. row \in StoredPreviewRows
      BY <1>1, StoredPreview DEF InTable
    <2>2. [row EXCEPT !.status = "expired"] \in StoredPreviewRows
      BY <2>1 DEF StoredPreviewRows
    <2> QED
      BY <1>1, <2>2 DEF ExpireDue, PreviewRows, StoredPreviewRows
  <1>2. CASE ~(row.status \in {"ready", "blocked"} /\ row.expires <= clock)
    BY <1>2 DEF ExpireDue
  <1> QED
    BY <1>1, <1>2

\* The cleanup leaves rows and documents.
LEMMA CleanupType ==
    ASSUME TypeOK
    PROVE  /\ CleanedPreviews \in [PreviewIds -> PreviewRows]
           /\ CollectedSnapshots(CleanedPreviews) \subseteq Documents
  <1>1. ASSUME NEW p \in PreviewIds
        PROVE  PurgeDue(ExpireDue(previews[p])) \in PreviewRows
    <2>1. ExpireDue(previews[p]) \in PreviewRows
      BY ExpireDueType DEF TypeOK
    <2>2. [status |-> "purged"] \in PreviewRows
      BY DEF PreviewRows
    <2> QED
      BY <2>1, <2>2 DEF PurgeDue
  <1>2. CleanedPreviews \in [PreviewIds -> PreviewRows]
    BY <1>1 DEF CleanedPreviews
  <1>3. CollectedSnapshots(CleanedPreviews) \subseteq Documents
    BY DEF CollectedSnapshots, TypeOK
  <1> QED
    BY <1>2, <1>3

\* What withIdempotency writes has its type.
LEMMA RememberType ==
    ASSUME TypeOK, NEW q \in Requests, NEW reply \in Replies, Remember(q, reply)
    PROVE  /\ idempotency' \subseteq IdempotencyRows
           /\ effects' \in [Requests -> Seq(Nat)]
  <1>1. [request |-> q, reply |-> reply, expires |-> clock + Day]
           \in IdempotencyRows
    BY DEF TypeOK, IdempotencyRows
  <1>2. idempotency' \subseteq IdempotencyRows
    BY <1>1 DEF Remember, LiveRows, TypeOK
  <1>3. Append(effects[q], clock) \in Seq(Nat)
    BY DEF TypeOK
  <1>4. effects' \in [Requests -> Seq(Nat)]
    BY <1>3 DEF Remember, TypeOK
  <1> QED
    BY <1>2, <1>4

\* A commit moves a head to a new row.
LEMMA CommitDocumentType ==
    ASSUME TypeOK, NEW q \in Requests, NEW d \in Designs, NEW base \in Nat,
           NEW document \in Documents, CommitDocument(q, d, base, document)
    PROVE  /\ designs' \in [Designs -> DesignRows]
           /\ revisions' \subseteq RevisionRows
           /\ idempotency' \subseteq IdempotencyRows
           /\ effects' \in [Requests -> Seq(Nat)]
           /\ NewRevisionId \in RevisionIds
  <1>1. NewRevisionId \in RevisionIds
    BY FreshRevisionId DEF CommitDocument
  <1>2. designs[d] \in DesignRows /\ base + 1 \in Nat
    BY DEF TypeOK
  <1>3. [version |-> base + 1, revision |-> NewRevisionId] \in DesignRows
    BY <1>1, <1>2 DEF DesignRows
  <1>4. [id |-> NewRevisionId, design |-> d, version |-> base + 1,
         parent |-> designs[d].revision, document |-> document, by |-> q]
           \in RevisionRows
    BY <1>1, <1>2 DEF RevisionRows, DesignRows
  <1>5. designs' \in [Designs -> DesignRows]
    BY <1>3 DEF CommitDocument, TypeOK
  <1>6. revisions' \subseteq RevisionRows
    BY <1>4 DEF CommitDocument, TypeOK
  <1>7. [revision |-> NewRevisionId] \in Replies
    BY <1>1 DEF Replies
  <1>8. Remember(q, [revision |-> NewRevisionId])
    BY DEF CommitDocument
  <1> QED
    BY <1>1, <1>5, <1>6, <1>7, <1>8, RememberType

\* A stored preview keeps the tables what they are.
LEMMA StorePreviewType ==
    ASSUME TypeOK, NEW p \in PreviewIds, NEW row \in StoredPreviewRows,
           NEW rows \in [PreviewIds -> PreviewRows], NEW docs \in SUBSET Documents,
           StorePreview(p, row, rows, docs)
    PROVE  /\ previews' \in [PreviewIds -> PreviewRows]
           /\ snapshots' \subseteq Documents
  <1>1. row \in PreviewRows /\ row.result \in Documents
    BY DEF StoredPreviewRows, PreviewRows
  <1> QED
    BY <1>1 DEF StorePreview

\* What createPreview inserts.
LEMMA PreviewRowType ==
    ASSUME TypeOK, NEW a \in Actors, NEW d \in Designs, NEW base \in Nat,
           NEW baseRevision \in RevisionIds, NEW baseSnapshot \in Documents,
           NEW result \in Documents, NEW kind \in Kinds, NEW ok \in BOOLEAN
    PROVE  PreviewRow(a, d, base, baseRevision, baseSnapshot, result, kind, ok)
              \in StoredPreviewRows
  <1>1. clock + PreviewTTL \in Nat /\ engine \in Nat
    BY DEF TypeOK
  <1> QED
    BY <1>1 DEF PreviewRow, StoredPreviewRows

\* A live idempotency row is one of the rows there were.
LEMMA LiveRowsType ==
    ASSUME TypeOK
    PROVE  LiveRows \subseteq IdempotencyRows
  BY DEF LiveRows, TypeOK

-----------------------------------------------------------------------------
(* Type correctness.                                                       *)

\* The empty store has its type.
LEMMA InitType == Init => TypeOK
  <1> SUFFICES ASSUME Init
               PROVE  TypeOK
    OBVIOUS
  <1>1. [version |-> 0, revision |-> NoRevision] \in DesignRows
    BY DEF DesignRows
  <1>2. [status |-> "unused"] \in PreviewRows
    BY DEF PreviewRows
  <1>3. << >> \in Seq(Nat)
    OBVIOUS
  <1> QED
    BY <1>1, <1>2, <1>3 DEF Init, TypeOK

\* So has the store after a preview is made, refined or read.
LEMMA PreviewNextType ==
    ASSUME TypeOK, PreviewNext
    PROVE  TypeOK'
  <1> PICK a \in Actors, p \in PreviewIds :
          \/ \E d \in Designs, new \in Edits, kind \in Kinds, ok \in BOOLEAN :
                CreatePreview(a, d, p, new, kind, ok)
          \/ \E from \in PreviewIds, new \in Edits, ok \in BOOLEAN :
                RefinePreview(a, p, from, new, ok)
          \/ \E d \in Designs, new \in Edits, ok \in BOOLEAN :
                CreatePreparedPreview(a, d, p, new, ok)
          \/ ReadPreview(a, p)
    BY DEF PreviewNext
  \* The document of a revision with one more edit is a document.
  <1>1. ASSUME NEW r \in revisions, NEW new \in Edits
        PROVE  /\ r.version \in Nat /\ r.id \in RevisionIds
               /\ r.document \in Documents
               /\ [revision |-> r.version + 1,
                   edits |-> r.document.edits \cup {new}] \in Documents
    BY DEF TypeOK, RevisionRows, Documents
  <1>2. ASSUME NEW d \in Designs, NEW new \in Edits, NEW kind \in Kinds,
               NEW ok \in BOOLEAN, CreatePreview(a, d, p, new, kind, ok)
        PROVE  TypeOK'
    <2> PICK r \in revisions :
            StorePreview(p,
                PreviewRow(a, d, r.version, r.id, r.document,
                           [revision |-> r.version + 1,
                            edits |-> r.document.edits \cup {new}], kind, ok),
                CleanedPreviews, CollectedSnapshots(CleanedPreviews))
      BY <1>2 DEF CreatePreview
    <2>1. PreviewRow(a, d, r.version, r.id, r.document,
                     [revision |-> r.version + 1,
                      edits |-> r.document.edits \cup {new}], kind, ok)
             \in StoredPreviewRows
      BY <1>1, PreviewRowType
    <2>2. /\ previews' \in [PreviewIds -> PreviewRows]
          /\ snapshots' \subseteq Documents
      BY <2>1, CleanupType, StorePreviewType
    <2>3. UNCHANGED <<designs, revisions, tombstones, engine, clock, effects>>
      BY DEF StorePreview
    <2>4. idempotency' \subseteq IdempotencyRows
      BY <1>2, LiveRowsType DEF CreatePreview
    <2> QED
      BY <2>2, <2>3, <2>4 DEF TypeOK
  <1>3. ASSUME NEW from \in PreviewIds, NEW new \in Edits, NEW ok \in BOOLEAN,
               RefinePreview(a, p, from, new, ok)
        PROVE  TypeOK'
    <2> DEFINE base == previews[from]
               result == [base.result EXCEPT !.edits = @ \cup {new}]
               row == PreviewRow(a, base.design, base.base, base.baseRevision,
                                 base.baseSnapshot, result, base.kind, ok)
    <2>1. base \in StoredPreviewRows
      BY <1>3, StoredPreview DEF RefinePreview, InTable, TypeOK
    <2>2. /\ base.design \in Designs /\ base.base \in Nat
          /\ base.baseRevision \in RevisionIds /\ base.baseSnapshot \in Documents
          /\ base.result \in Documents /\ base.kind \in Kinds
      BY <2>1 DEF StoredPreviewRows
    <2>3. result \in Documents
      BY <2>2 DEF Documents
    <2>4. row \in StoredPreviewRows
      BY <2>2, <2>3, PreviewRowType
    <2>5. StorePreview(p, row, CleanedPreviews, CollectedSnapshots(CleanedPreviews))
      BY <1>3 DEF RefinePreview
    <2>6. /\ previews' \in [PreviewIds -> PreviewRows]
          /\ snapshots' \subseteq Documents
      BY <2>4, <2>5, CleanupType, StorePreviewType
    <2>7. UNCHANGED <<designs, revisions, tombstones, engine, clock, effects>>
      BY <2>5 DEF StorePreview
    <2>8. idempotency' \subseteq IdempotencyRows
      BY <1>3, LiveRowsType DEF RefinePreview
    <2> QED
      BY <2>6, <2>7, <2>8 DEF TypeOK
  <1>4. ASSUME NEW d \in Designs, NEW new \in Edits, NEW ok \in BOOLEAN,
               CreatePreparedPreview(a, d, p, new, ok)
        PROVE  TypeOK'
    <2> PICK r \in revisions :
            StorePreview(p,
                PreviewRow(a, d, r.version, r.id, r.document,
                           [revision |-> r.version + 1,
                            edits |-> r.document.edits \cup {new}],
                           "ordinary", ok),
                previews, snapshots)
      BY <1>4 DEF CreatePreparedPreview
    <2>1. PreviewRow(a, d, r.version, r.id, r.document,
                     [revision |-> r.version + 1,
                      edits |-> r.document.edits \cup {new}], "ordinary", ok)
             \in StoredPreviewRows
      BY <1>1, <1>4, PreviewRowType DEF CreatePreparedPreview
    <2>2. /\ previews' \in [PreviewIds -> PreviewRows]
          /\ snapshots' \subseteq Documents
      BY <2>1, StorePreviewType DEF TypeOK
    <2>3. UNCHANGED <<designs, revisions, tombstones, engine, clock, effects>>
      BY DEF StorePreview
    <2>4. UNCHANGED idempotency
      BY <1>4 DEF CreatePreparedPreview
    <2> QED
      BY <2>2, <2>3, <2>4 DEF TypeOK
  <1>5. CASE ReadPreview(a, p)
    <2>1. ExpireDue(previews[p]) \in PreviewRows
      BY ExpireDueType DEF TypeOK
    <2>2. previews' \in [PreviewIds -> PreviewRows]
      BY <1>5, <2>1 DEF ReadPreview, TypeOK
    <2> QED
      BY <1>5, <2>2 DEF ReadPreview, TypeOK
  <1> QED
    BY <1>2, <1>3, <1>4, <1>5

\* createDesign adds a design, its revision 1 and a snapshot of their types.
LEMMA CreateDesignType ==
    ASSUME TypeOK, NEW q \in Requests, CreateDesign(q)
    PROVE  TypeOK'
  <1> DEFINE id == NewRevisionId
             document == [revision |-> 1, edits |-> {}]
  <1>1. id \in RevisionIds
    BY FreshRevisionId DEF CreateDesign
  <1>2. document \in Documents
    BY DEF Documents
  <1> PICK d \in Designs :
        /\ designs' = [designs EXCEPT ![d] = [version |-> 1, revision |-> id]]
        /\ revisions' = revisions \cup
              {[id |-> id, design |-> d, version |-> 1,
                parent |-> NoRevision, document |-> document, by |-> q]}
    BY DEF CreateDesign
  <1>3. [version |-> 1, revision |-> id] \in DesignRows
    BY <1>1 DEF DesignRows
  <1>4. [id |-> id, design |-> d, version |-> 1,
         parent |-> NoRevision, document |-> document, by |-> q] \in RevisionRows
    BY <1>1, <1>2 DEF RevisionRows
  <1>5. designs' \in [Designs -> DesignRows] /\ revisions' \subseteq RevisionRows
    BY <1>3, <1>4 DEF TypeOK
  <1>6. [revision |-> id] \in Replies
    BY <1>1 DEF Replies
  <1>7. /\ idempotency' \subseteq IdempotencyRows
        /\ effects' \in [Requests -> Seq(Nat)]
    <2>1. Remember(q, [revision |-> id])
      BY DEF CreateDesign
    <2> QED
      BY <1>6, <2>1, RememberType
  <1>8. snapshots' \subseteq Documents
    BY <1>2 DEF CreateDesign, TypeOK
  <1>9. UNCHANGED <<tombstones, previews, engine, clock>>
    BY DEF CreateDesign
  <1> QED
    BY <1>5, <1>7, <1>8, <1>9 DEF TypeOK

\* applyRevision adds a revision and a snapshot of their types.
LEMMA ApplyRevisionType ==
    ASSUME TypeOK, NEW q \in Requests, ApplyRevision(q)
    PROVE  TypeOK'
  <1> DEFINE document == [revision |-> q.base + 1,
                          edits |-> DocumentAt(q.design, q.base).edits \cup {q.edit}]
  <1>1. q.op = "revise" /\ CommitDocument(q, q.design, q.base, document)
    BY DEF ApplyRevision
  <1>2. q.design \in Designs /\ q.base \in Nat /\ q.edit \in Edits
    BY <1>1, RequestFields
  <1>3. DocumentAt(q.design, q.base) \in Documents
    <2>1. \E r \in revisions : r.design = q.design /\ r.version = q.base
      BY <1>1 DEF CommitDocument
    <2> QED
      BY <2>1, DocumentAtType
  <1>4. document \in Documents
    BY <1>2, <1>3 DEF Documents
  <1>5. snapshots' \subseteq Documents
    BY <1>4 DEF ApplyRevision, TypeOK
  <1>6. UNCHANGED <<tombstones, previews, engine, clock>>
    BY DEF ApplyRevision
  <1> HIDE DEF document
  <1> QED
    BY <1>1, <1>2, <1>4, <1>5, <1>6, CommitDocumentType DEF TypeOK

\* restoreRevision adds a revision whose document is an earlier one, renumbered.
LEMMA RestoreRevisionType ==
    ASSUME TypeOK, NEW q \in Requests, RestoreRevision(q)
    PROVE  TypeOK'
  <1> PICK target \in revisions :
        /\ CommitDocument(q, q.design, q.base,
                          [target.document EXCEPT !.revision = q.base + 1])
        /\ snapshots' = snapshots \cup
              {[target.document EXCEPT !.revision = q.base + 1]}
    BY DEF RestoreRevision
  <1> DEFINE document == [target.document EXCEPT !.revision = q.base + 1]
  <1>1. q.op = "restore"
    BY DEF RestoreRevision
  <1>2. q.design \in Designs /\ q.base \in Nat
    BY <1>1, RequestFields
  <1>3. target.document \in Documents
    BY DEF TypeOK, RevisionRows
  <1>4. document \in Documents
    BY <1>2, <1>3 DEF Documents
  <1>5. snapshots' \subseteq Documents
    BY <1>4 DEF TypeOK
  <1>6. UNCHANGED <<tombstones, previews, engine, clock>>
    BY DEF RestoreRevision
  <1>7. CommitDocument(q, q.design, q.base, document)
    OBVIOUS
  <1> HIDE DEF document
  <1> QED
    BY <1>2, <1>4, <1>5, <1>6, <1>7, CommitDocumentType DEF TypeOK

\* commitPreview adds the document of a row that is in the table.
LEMMA CommitPreviewType ==
    ASSUME TypeOK, NEW q \in Requests, CommitPreview(q)
    PROVE  TypeOK'
  <1> DEFINE row == CleanedPreviews[q.preview]
  <1>1. q.op = "commit" /\ CommitDocument(q, q.design, q.base, row.result)
    BY DEF CommitPreview
  <1>2. q.design \in Designs /\ q.base \in Nat /\ q.preview \in PreviewIds
    BY <1>1, RequestFields
  <1>3. row \in StoredPreviewRows
    <2>1. row \in PreviewRows
      BY <1>2, CleanupType
    <2>2. InTable(row)
      BY DEF CommitPreview
    <2> QED
      BY <2>1, <2>2, StoredPreview
  <1>4. row.result \in Documents
    BY <1>3 DEF StoredPreviewRows
  <1>5. /\ designs' \in [Designs -> DesignRows]
        /\ revisions' \subseteq RevisionRows
        /\ idempotency' \subseteq IdempotencyRows
        /\ effects' \in [Requests -> Seq(Nat)]
        /\ NewRevisionId \in RevisionIds
    BY <1>1, <1>2, <1>4, CommitDocumentType
  <1>6. previews' \in [PreviewIds -> PreviewRows]
    <2> DEFINE committed == [row EXCEPT !.status = "committed",
                                        !.committed = NewRevisionId]
    <2>1. committed \in StoredPreviewRows
      BY <1>3, <1>5 DEF StoredPreviewRows
    <2>2. committed \in PreviewRows
      BY <2>1 DEF PreviewRows, StoredPreviewRows
    <2>3. previews' = [CleanedPreviews EXCEPT ![q.preview] = committed]
      BY <1>2, CleanupType DEF CommitPreview
    <2> QED
      BY <2>2, <2>3, CleanupType
  <1>7. snapshots' \subseteq Documents
    BY CleanupType DEF CommitPreview
  <1>8. UNCHANGED <<tombstones, engine, clock>>
    BY DEF CommitPreview
  <1> QED
    BY <1>5, <1>6, <1>7, <1>8 DEF TypeOK

\* archiveDesign adds a tombstone.
LEMMA ArchiveDesignType ==
    ASSUME TypeOK, NEW q \in Requests, ArchiveDesign(q)
    PROVE  TypeOK'
  <1>1. q.op = "archive"
    BY DEF ArchiveDesign
  <1>2. q.design \in Designs
    BY <1>1, RequestFields
  <1>3. [design |-> q.design, version |-> designs[q.design].version,
         revision |-> designs[q.design].revision, at |-> clock] \in TombstoneRows
    BY <1>2 DEF TypeOK, DesignRows, TombstoneRows
  <1>4. tombstones' \subseteq TombstoneRows
    BY <1>3 DEF ArchiveDesign, TypeOK
  <1>5. [archivedAt |-> clock] \in Replies
    BY DEF Replies, TypeOK
  <1>6. Remember(q, [archivedAt |-> clock])
    BY DEF ArchiveDesign
  <1>7. /\ idempotency' \subseteq IdempotencyRows
        /\ effects' \in [Requests -> Seq(Nat)]
    BY <1>5, <1>6, RememberType
  <1>8. UNCHANGED <<designs, revisions, previews, snapshots, engine, clock>>
    BY DEF ArchiveDesign
  <1> QED
    BY <1>4, <1>7, <1>8 DEF TypeOK

\* restoreArchivedDesign only takes a tombstone away.
LEMMA RestoreArchivedDesignType ==
    ASSUME TypeOK, NEW q \in Requests, RestoreArchivedDesign(q)
    PROVE  TypeOK'
  <1>1. tombstones' \subseteq TombstoneRows
    BY DEF RestoreArchivedDesign, TypeOK
  <1>2. [active |-> TRUE] \in Replies
    BY DEF Replies
  <1>3. Remember(q, [active |-> TRUE])
    BY DEF RestoreArchivedDesign
  <1>4. /\ idempotency' \subseteq IdempotencyRows
        /\ effects' \in [Requests -> Seq(Nat)]
    BY <1>2, <1>3, RememberType
  <1>5. UNCHANGED <<designs, revisions, previews, snapshots, engine, clock>>
    BY DEF RestoreArchivedDesign
  <1> QED
    BY <1>1, <1>4, <1>5 DEF TypeOK

\* So has the store after any idempotent request, answered, refused or replayed.
LEMMA RequestNextType ==
    ASSUME TypeOK, RequestNext
    PROVE  TypeOK'
  <1> PICK q \in Requests :
        \/ CreateDesign(q)
        \/ ApplyRevision(q)
        \/ RestoreRevision(q)
        \/ CommitPreview(q)
        \/ RefuseCommit(q)
        \/ ArchiveDesign(q)
        \/ RestoreArchivedDesign(q)
        \/ ReplayRequest(q)
    BY DEF RequestNext
  <1>1. CASE RefuseCommit(q)
    BY <1>1, CleanupType DEF RefuseCommit, CleanupPreviews, TypeOK
  <1>2. CASE ReplayRequest(q)
    <2>1. /\ previews' \in [PreviewIds -> PreviewRows]
          /\ snapshots' \subseteq Documents
      <3>1. CASE q.op = "commit"
        BY <1>2, <3>1, CleanupType DEF ReplayRequest, CleanupPreviews
      <3>2. CASE q.op # "commit"
        BY <1>2, <3>2 DEF ReplayRequest, TypeOK
      <3> QED
        BY <3>1, <3>2
    <2>2. idempotency' \subseteq IdempotencyRows
      BY <1>2, LiveRowsType DEF ReplayRequest, Replay
    <2>3. UNCHANGED <<designs, revisions, tombstones, engine, clock, effects>>
      BY <1>2 DEF ReplayRequest, Replay
    <2> QED
      BY <2>1, <2>2, <2>3 DEF TypeOK
  <1> QED
    BY <1>1, <1>2, CreateDesignType, ApplyRevisionType, RestoreRevisionType,
       CommitPreviewType, ArchiveDesignType, RestoreArchivedDesignType

\* A restart runs the cleanup and may raise the engine version.
LEMMA RestartType ==
    ASSUME TypeOK, Restart
    PROVE  TypeOK'
  <1>1. engine' \in Nat
    BY DEF Restart, TypeOK
  <1> QED
    BY <1>1, CleanupType DEF Restart, CleanupPreviews, TypeOK

\* Every state of the store has its type.
THEOREM TypeCorrect == Spec => []TypeOK
  <1>1. TypeOK /\ [Next]_vars => TypeOK'
    <2> SUFFICES ASSUME TypeOK, [Next]_vars
                 PROVE  TypeOK'
      OBVIOUS
    <2>1. CASE Tick
      BY <2>1 DEF Tick, TypeOK
    <2>2. CASE UNCHANGED vars
      BY <2>2 DEF vars, TypeOK
    <2> QED
      BY <2>1, <2>2, PreviewNextType, RequestNextType, RestartType DEF Next
  <1> QED
    BY <1>1, InitType, PTL DEF Spec

-----------------------------------------------------------------------------
(* The history of a design is a chain.                                     *)

\* A commit on the head of a design keeps every history a chain: the new row has
\* a fresh id, the version after the head and the head as its parent.
LEMMA CommitDocumentLinear ==
    ASSUME TypeOK, LinearHistory, NEW q, NEW d \in Designs, NEW base \in Nat,
           NEW document, CommitDocument(q, d, base, document)
    PROVE  LinearHistory'
  <1> DEFINE id == NewRevisionId
             row == [id |-> id, design |-> d, version |-> base + 1,
                     parent |-> designs[d].revision, document |-> document,
                     by |-> q]
  <1>1. \A r \in revisions : r.id # id
    BY FreshRevisionId DEF CommitDocument
  <1>2. revisions' = revisions \cup {row}
    BY DEF CommitDocument
  <1>3. designs' = [designs EXCEPT ![d] = [version |-> base + 1, revision |-> id]]
    BY DEF CommitDocument
  <1>4. \A r \in revisions : r.design = d => r.version # base + 1
    BY DEF CommitDocument
  <1>5. row.id = id /\ row.design = d /\ row.version = base + 1
        /\ row.parent = designs[d].revision
    OBVIOUS
  <1>6. designs[d].version = base
    BY DEF CommitDocument
  <1>7. PICK parent \in revisions : /\ parent.design = d
                                    /\ parent.version = base
                                    /\ parent.id = designs[d].revision
    BY DEF CommitDocument
  <1>8. \A e \in Designs : designs'[e] = IF e = d
            THEN [version |-> base + 1, revision |-> id] ELSE designs[e]
    BY <1>3 DEF TypeOK
  <1> HIDE DEF id, row
  <1>9. DistinctRevisions'
    <2> SUFFICES ASSUME NEW r \in revisions', NEW s \in revisions', r # s
                 PROVE  r.id # s.id /\ <<r.design, r.version>> # <<s.design, s.version>>
      BY DEF DistinctRevisions
    <2>1. CASE r \in revisions /\ s \in revisions
      BY <2>1 DEF LinearHistory, DistinctRevisions
    <2>2. CASE r = row \/ s = row
      BY <1>1, <1>2, <1>4, <1>5, <2>2
    <2> QED
      BY <1>2, <2>1, <2>2
  <1>10. HeadIsLast'
    <2> SUFFICES ASSUME NEW e \in Designs
                 PROVE  /\ \A r \in revisions' :
                              r.design = e => r.version \in 1..designs'[e].version
                        /\ \A v \in 1..designs'[e].version :
                              \E r \in revisions' : r.design = e /\ r.version = v
                        /\ \A r \in revisions' :
                              r.design = e /\ r.version = designs'[e].version
                                  => r.id = designs'[e].revision
      BY DEF HeadIsLast
    <2>1. CASE e # d
      BY <1>2, <1>5, <1>8, <2>1 DEF LinearHistory, HeadIsLast
    <2>2. CASE e = d
      <3>1. designs'[e].version = base + 1 /\ designs'[e].revision = id
        BY <1>8, <2>2
      <3>2. \A r \in revisions : r.design = d => r.version \in 1..base
        BY <1>6 DEF LinearHistory, HeadIsLast
      <3>3. \A v \in 1..base : \E r \in revisions : r.design = d /\ r.version = v
        BY <1>6 DEF LinearHistory, HeadIsLast
      <3>4. \A r \in revisions' : r.design = d => r.version \in 1..(base + 1)
        BY <1>2, <1>5, <3>2
      <3>5. \A v \in 1..(base + 1) :
               \E r \in revisions' : r.design = d /\ r.version = v
        <4> TAKE v \in 1..(base + 1)
        <4>1. CASE v = base + 1
          BY <1>2, <1>5, <4>1
        <4>2. CASE v \in 1..base
          BY <1>2, <3>3, <4>2
        <4> QED
          BY <4>1, <4>2
      <3>6. \A r \in revisions' :
               r.design = d /\ r.version = base + 1 => r.id = id
        BY <1>2, <1>4, <1>5
      <3> QED
        BY <2>2, <3>1, <3>4, <3>5, <3>6
    <2> QED
      BY <2>1, <2>2
  <1>11. ParentIsPrevious'
    <2> SUFFICES ASSUME NEW r \in revisions'
                 PROVE  \/ r.version = 1 /\ r.parent = NoRevision
                        \/ \E s \in revisions' : /\ s.design = r.design
                                                 /\ s.version + 1 = r.version
                                                 /\ s.id = r.parent
      BY DEF ParentIsPrevious
    <2>1. CASE r \in revisions
      BY <1>2, <2>1 DEF LinearHistory, ParentIsPrevious
    <2>2. CASE r = row
      BY <1>2, <1>5, <1>7, <2>2
    <2> QED
      BY <1>2, <2>1, <2>2
  <1> QED
    BY <1>9, <1>10, <1>11 DEF LinearHistory

\* createDesign starts a chain: a design without a row has no revision.
LEMMA CreateDesignLinear ==
    ASSUME TypeOK, LinearHistory, NEW q, CreateDesign(q)
    PROVE  LinearHistory'
  <1> DEFINE id == NewRevisionId
             document == [revision |-> 1, edits |-> {}]
  <1> PICK d \in Designs :
        /\ ~Exists(d)
        /\ designs' = [designs EXCEPT ![d] = [version |-> 1, revision |-> id]]
        /\ revisions' = revisions \cup
              {[id |-> id, design |-> d, version |-> 1,
                parent |-> NoRevision, document |-> document, by |-> q]}
    BY DEF CreateDesign
  <1> DEFINE row == [id |-> id, design |-> d, version |-> 1,
                     parent |-> NoRevision, document |-> document, by |-> q]
  <1>1. \A r \in revisions : r.id # id
    BY FreshRevisionId DEF CreateDesign
  <1>2. revisions' = revisions \cup {row}
    OBVIOUS
  <1>3. \A r \in revisions : r.design # d
    BY DEF LinearHistory, HeadIsLast, Exists
  <1>4. row.id = id /\ row.design = d /\ row.version = 1 /\ row.parent = NoRevision
    OBVIOUS
  <1>5. \A e \in Designs : designs'[e] = IF e = d
            THEN [version |-> 1, revision |-> id] ELSE designs[e]
    BY DEF TypeOK
  <1> HIDE DEF id, row
  <1>6. DistinctRevisions'
    <2> SUFFICES ASSUME NEW r \in revisions', NEW s \in revisions', r # s
                 PROVE  r.id # s.id /\ <<r.design, r.version>> # <<s.design, s.version>>
      BY DEF DistinctRevisions
    <2>1. CASE r \in revisions /\ s \in revisions
      BY <2>1 DEF LinearHistory, DistinctRevisions
    <2>2. CASE r = row \/ s = row
      BY <1>1, <1>2, <1>3, <1>4, <2>2
    <2> QED
      BY <1>2, <2>1, <2>2
  <1>7. HeadIsLast'
    <2>1. ASSUME NEW e \in Designs, e # d
          PROVE  designs'[e] = designs[e]
                 /\ \A r \in revisions' : r.design = e => r \in revisions
      BY <1>2, <1>4, <1>5, <2>1
    <2>2. designs'[d].version = 1 /\ designs'[d].revision = id
      BY <1>5
    <2>3. \A r \in revisions' : r.design = d => r = row
      BY <1>2, <1>3
    <2> QED
      BY <1>2, <1>4, <2>1, <2>2, <2>3 DEF LinearHistory, HeadIsLast
  <1>8. ParentIsPrevious'
    BY <1>2, <1>4 DEF LinearHistory, ParentIsPrevious
  <1> QED
    BY <1>6, <1>7, <1>8 DEF LinearHistory

\* A step that leaves the two tables alone leaves the history alone.
LEMMA UnchangedLinear ==
    ASSUME LinearHistory, UNCHANGED <<designs, revisions>>
    PROVE  LinearHistory'
  BY DEF LinearHistory, DistinctRevisions, HeadIsLast, ParentIsPrevious

\* The history of every design is a chain in every state: with the types, the
\* property is inductive, because both writers of the revisions table are guarded
\* by the head they were computed from.
THEOREM HistoryIsLinear == Spec => []LinearHistory
  <1>1. Init => LinearHistory
    BY DEF Init, LinearHistory, DistinctRevisions, HeadIsLast, ParentIsPrevious
  <1>2. TypeOK /\ LinearHistory /\ [Next]_vars => LinearHistory'
    <2> SUFFICES ASSUME TypeOK, LinearHistory, [Next]_vars
                 PROVE  LinearHistory'
      OBVIOUS
    <2>1. CASE PreviewNext
      <3> PICK a \in Actors, p \in PreviewIds :
            \/ \E d \in Designs, new \in Edits, kind \in Kinds, ok \in BOOLEAN :
                  CreatePreview(a, d, p, new, kind, ok)
            \/ \E from \in PreviewIds, new \in Edits, ok \in BOOLEAN :
                  RefinePreview(a, p, from, new, ok)
            \/ \E d \in Designs, new \in Edits, ok \in BOOLEAN :
                  CreatePreparedPreview(a, d, p, new, ok)
            \/ ReadPreview(a, p)
        BY <2>1 DEF PreviewNext
      <3>1. UNCHANGED <<designs, revisions>>
        <4>1. ASSUME NEW d, NEW new, NEW kind, NEW ok,
                     CreatePreview(a, d, p, new, kind, ok)
              PROVE  UNCHANGED <<designs, revisions>>
          BY <4>1 DEF CreatePreview, StorePreview
        <4>2. ASSUME NEW from, NEW new, NEW ok, RefinePreview(a, p, from, new, ok)
              PROVE  UNCHANGED <<designs, revisions>>
          BY <4>2 DEF RefinePreview, StorePreview
        <4>3. ASSUME NEW d, NEW new, NEW ok, CreatePreparedPreview(a, d, p, new, ok)
              PROVE  UNCHANGED <<designs, revisions>>
          BY <4>3 DEF CreatePreparedPreview, StorePreview
        <4>4. CASE ReadPreview(a, p)
          BY <4>4 DEF ReadPreview
        <4> QED
          BY <4>1, <4>2, <4>3, <4>4
      <3> QED
        BY <3>1, UnchangedLinear
    <2>2. CASE RequestNext
      <3> PICK q \in Requests :
            \/ CreateDesign(q)
            \/ ApplyRevision(q)
            \/ RestoreRevision(q)
            \/ CommitPreview(q)
            \/ RefuseCommit(q)
            \/ ArchiveDesign(q)
            \/ RestoreArchivedDesign(q)
            \/ ReplayRequest(q)
        BY <2>2 DEF RequestNext
      <3>1. CASE CreateDesign(q)
        BY <3>1, CreateDesignLinear
      <3>2. CASE ApplyRevision(q)
        BY <3>2, RequestFields, CommitDocumentLinear DEF ApplyRevision
      <3>3. CASE RestoreRevision(q)
        BY <3>3, RequestFields, CommitDocumentLinear DEF RestoreRevision
      <3>4. CASE CommitPreview(q)
        BY <3>4, RequestFields, CommitDocumentLinear DEF CommitPreview
      <3>5. CASE \/ RefuseCommit(q) \/ ArchiveDesign(q)
                 \/ RestoreArchivedDesign(q) \/ ReplayRequest(q)
        BY <3>5, UnchangedLinear
           DEF RefuseCommit, ArchiveDesign, RestoreArchivedDesign, ReplayRequest
      <3> QED
        BY <3>1, <3>2, <3>3, <3>4, <3>5
    <2>3. CASE Restart \/ Tick \/ UNCHANGED vars
      BY <2>3, UnchangedLinear DEF Restart, Tick, vars
    <2> QED
      BY <2>1, <2>2, <2>3 DEF Next
  <1> QED
    BY <1>1, <1>2, TypeCorrect, PTL DEF Spec

-------------------------------------------------------------------------------
(***************************************************************************)
(* A request to the design store works once, however often it arrives: the *)
(* idempotency table within the day it is kept, the version check after it.*)
(***************************************************************************)

\* A revision is the one after the version its request was made on.
MadeOnBase ==
    \A r \in revisions : r.by.op # "create" =>
        r.design = r.by.design /\ r.version = r.by.base + 1

\* An effect of the last day is remembered.
StillRemembered ==
    \A q \in Requests : \A i \in DOMAIN effects[q] :
        \/ effects[q][i] + Day <= clock
        \/ \E row \in LiveRows : row.request = q /\ effects[q][i] + Day <= row.expires

\* What a reply says of the request it was given to.
Tells(reply, q) ==
    /\ effects[q] # <<>>
    /\ "revision" \in DOMAIN reply =>
          \E r \in revisions : r.id = reply.revision /\ r.by = q
    /\ "archivedAt" \in DOMAIN reply =>
          reply.archivedAt = effects[q][Len(effects[q])]

RowsTell == \A row \in LiveRows : Tells(row.reply, row.request)

\* The inductive invariant, beside the types and the linear history.
RequestsInv == MadeOnBase /\ StillRemembered /\ OnceWithinTheDay /\ RowsTell

-----------------------------------------------------------------------------
(* Every step answers nobody anew, or does the work of one request.         *)

Quiet ==
    /\ UNCHANGED <<revisions, effects>>
    /\ idempotency' \subseteq idempotency
    /\ LiveRows \subseteq idempotency'
    /\ clock' \in Nat /\ clock' >= clock

\* The request made a revision and was told of it, or made none.
Work(q, reply) ==
    \/ /\ UNCHANGED revisions
       /\ "revision" \notin DOMAIN reply
       /\ "archivedAt" \in DOMAIN reply => reply.archivedAt = clock
    \/ \E row \in RevisionRows :
          /\ revisions' = revisions \cup {row}
          /\ row.by = q /\ DOMAIN reply = {"revision"} /\ reply.revision = row.id
          /\ q.op # "create" => row.design = q.design /\ row.version = q.base + 1

Worked(q) == \E reply \in Replies : Remember(q, reply) /\ Work(q, reply) /\ UNCHANGED clock

LEMMA CommitWorks ==
    ASSUME TypeOK, NEW q \in Requests, q.op # "create", NEW document \in Documents,
           CommitDocument(q, q.design, q.base, document), UNCHANGED clock
    PROVE  Worked(q)
  <1> DEFINE id == NewRevisionId
             row == [id |-> id, design |-> q.design, version |-> q.base + 1,
                     parent |-> designs[q.design].revision, document |-> document, by |-> q]
             reply == [revision |-> id]
  <1>1. q.design \in Designs /\ q.base \in Nat
    BY RequestFields
  <1>2. id \in RevisionIds
    BY FreshRevisionId DEF CommitDocument
  <1>3. row \in RevisionRows
    BY <1>1, <1>2 DEF TypeOK, DesignRows, RevisionRows
  <1>4. reply \in Replies
    BY <1>2 DEF Replies
  <1>5. revisions' = revisions \cup {row} /\ Remember(q, reply)
    BY DEF CommitDocument
  <1>6. DOMAIN reply = {"revision"} /\ reply.revision = row.id
    OBVIOUS
  <1>7. row.by = q /\ row.design = q.design /\ row.version = q.base + 1
    OBVIOUS
  <1> HIDE DEF row, reply
  <1>8. Work(q, reply)
    BY <1>3, <1>5, <1>6, <1>7 DEF Work
  <1> QED
    BY <1>4, <1>5, <1>8 DEF Worked

LEMMA CreateWorks ==
    ASSUME TypeOK, NEW q \in Requests, CreateDesign(q)
    PROVE  Worked(q)
  <1> DEFINE id == NewRevisionId
             document == [revision |-> 1, edits |-> {}]
             reply == [revision |-> id]
  <1>1. PICK d \in Designs :
          revisions' = revisions \cup
              {[id |-> id, design |-> d, version |-> 1, parent |-> NoRevision,
                document |-> document, by |-> q]}
    BY DEF CreateDesign
  <1> DEFINE row == [id |-> id, design |-> d, version |-> 1, parent |-> NoRevision,
                     document |-> document, by |-> q]
  <1>2. id \in RevisionIds
    BY FreshRevisionId DEF CreateDesign
  <1>3. row \in RevisionRows
    BY <1>2 DEF RevisionRows, Documents
  <1>4. reply \in Replies
    BY <1>2 DEF Replies
  <1>5. revisions' = revisions \cup {row} /\ Remember(q, reply) /\ UNCHANGED clock /\ q.op = "create"
    BY <1>1 DEF CreateDesign
  <1>6. DOMAIN reply = {"revision"} /\ reply.revision = row.id /\ row.by = q
    OBVIOUS
  <1> HIDE DEF row, reply
  <1>7. Work(q, reply)
    BY <1>3, <1>5, <1>6 DEF Work
  <1> QED
    BY <1>4, <1>5, <1>7 DEF Worked

LEMMA RequestSteps ==
    ASSUME TypeOK, NEW q \in Requests,
           \/ CreateDesign(q) \/ ApplyRevision(q) \/ RestoreRevision(q) \/ CommitPreview(q)
           \/ RefuseCommit(q) \/ ArchiveDesign(q) \/ RestoreArchivedDesign(q) \/ ReplayRequest(q)
    PROVE  Quiet \/ Worked(q)
  <1>1. CASE CreateDesign(q)
    BY <1>1, CreateWorks
  <1>2. CASE ApplyRevision(q)
    <2> DEFINE document == [revision |-> q.base + 1,
                            edits |-> DocumentAt(q.design, q.base).edits \cup {q.edit}]
    <2>1. q.op = "revise" /\ CommitDocument(q, q.design, q.base, document) /\ UNCHANGED clock
      BY <1>2 DEF ApplyRevision
    <2>2. DocumentAt(q.design, q.base) \in Documents
      BY <2>1, DocumentAtType DEF CommitDocument
    <2>3. document \in Documents
      BY <2>1, <2>2, RequestFields DEF Documents
    <2> QED
      BY <2>1, <2>3, CommitWorks
  <1>3. CASE RestoreRevision(q)
    <2>1. PICK target \in revisions :
            CommitDocument(q, q.design, q.base, [target.document EXCEPT !.revision = q.base + 1])
      BY <1>3 DEF RestoreRevision
    <2>2. q.op = "restore" /\ UNCHANGED clock
      BY <1>3 DEF RestoreRevision
    <2>3. target.document \in Documents
      BY DEF TypeOK, RevisionRows
    <2>4. [target.document EXCEPT !.revision = q.base + 1] \in Documents
      BY <2>2, <2>3, RequestFields DEF Documents
    <2> QED
      BY <2>1, <2>2, <2>4, CommitWorks
  <1>4. CASE CommitPreview(q)
    <2> DEFINE row == CleanedPreviews[q.preview]
    <2>1. /\ q.op = "commit" /\ CommitDocument(q, q.design, q.base, row.result)
          /\ row.result \in CollectedSnapshots(CleanedPreviews) /\ UNCHANGED clock
      BY <1>4 DEF CommitPreview
    <2> QED
      BY <2>1, CleanupType, CommitWorks
  <1>5. CASE RefuseCommit(q)
    BY <1>5 DEF RefuseCommit, Quiet, LiveRows, TypeOK
  <1>6. CASE ReplayRequest(q)
    BY <1>6 DEF ReplayRequest, Replay, Quiet, LiveRows, TypeOK
  <1>7. CASE ArchiveDesign(q)
    <2> DEFINE reply == [archivedAt |-> clock]
    <2>1. reply \in Replies /\ DOMAIN reply = {"archivedAt"} /\ reply.archivedAt = clock
      BY DEF Replies, TypeOK
    <2>2. Remember(q, reply) /\ UNCHANGED <<revisions, clock>>
      BY <1>7 DEF ArchiveDesign
    <2> HIDE DEF reply
    <2> QED
      BY <2>1, <2>2 DEF Worked, Work
  <1>8. CASE RestoreArchivedDesign(q)
    <2> DEFINE reply == [active |-> TRUE]
    <2>1. reply \in Replies
      BY Zenon DEF Replies
    <2>2. DOMAIN reply = {"active"}
      OBVIOUS
    <2>3. Remember(q, reply) /\ UNCHANGED <<revisions, clock>>
      BY <1>8 DEF RestoreArchivedDesign
    <2> HIDE DEF reply
    <2> QED
      BY <2>1, <2>2, <2>3 DEF Worked, Work
  <1> QED
    BY <1>1, <1>2, <1>3, <1>4, <1>5, <1>6, <1>7, <1>8

LEMMA PreviewSteps ==
    ASSUME TypeOK, PreviewNext
    PROVE  Quiet
  <1>1. ASSUME NEW a, NEW d, NEW p, NEW new, NEW kind, NEW ok, CreatePreview(a, d, p, new, kind, ok)
        PROVE  Quiet
    BY <1>1 DEF CreatePreview, StorePreview, Quiet, LiveRows, TypeOK
  <1>2. ASSUME NEW a, NEW p, NEW from, NEW new, NEW ok, RefinePreview(a, p, from, new, ok)
        PROVE  Quiet
    BY <1>2 DEF RefinePreview, StorePreview, Quiet, LiveRows, TypeOK
  <1>3. ASSUME NEW a, NEW d, NEW p, NEW new, NEW ok, CreatePreparedPreview(a, d, p, new, ok)
        PROVE  Quiet
    BY <1>3 DEF CreatePreparedPreview, StorePreview, Quiet, LiveRows, TypeOK
  <1>4. ASSUME NEW a, NEW p, ReadPreview(a, p)
        PROVE  Quiet
    BY <1>4 DEF ReadPreview, Quiet, LiveRows, TypeOK
  <1> QED
    BY <1>1, <1>2, <1>3, <1>4 DEF PreviewNext

LEMMA Steps ==
    ASSUME TypeOK, [Next]_vars
    PROVE  Quiet \/ \E q \in Requests : Worked(q)
  <1>1. CASE Restart
    BY <1>1 DEF Restart, Quiet, LiveRows, TypeOK
  <1>2. CASE Tick
    BY <1>2 DEF Tick, Quiet, LiveRows, TypeOK
  <1>3. CASE UNCHANGED vars
    BY <1>3 DEF vars, Quiet, LiveRows, TypeOK
  <1> QED
    BY <1>1, <1>2, <1>3, PreviewSteps, RequestSteps DEF Next, RequestNext

-----------------------------------------------------------------------------
(* The invariant.                                                          *)

LEMMA QuietKeeps ==
    ASSUME TypeOK, RequestsInv, Quiet
    PROVE  RequestsInv'
  <1>1. clock \in Nat /\ clock' \in Nat /\ clock' >= clock
    BY DEF Quiet, TypeOK
  <1>2. LiveRows' \subseteq LiveRows
    BY <1>1 DEF Quiet, LiveRows, TypeOK, IdempotencyRows
  <1>3. MadeOnBase'
    BY DEF RequestsInv, MadeOnBase, Quiet
  <1>4. StillRemembered'
    <2> SUFFICES ASSUME NEW q \in Requests, NEW i \in DOMAIN effects[q]
                 PROVE  \/ effects[q][i] + Day <= clock'
                        \/ \E row \in LiveRows' : row.request = q /\ effects[q][i] + Day <= row.expires
      BY DEF StillRemembered, Quiet
    <2>1. effects[q][i] \in Nat
      BY DEF TypeOK
    <2>2. CASE effects[q][i] + Day <= clock
      BY <1>1, <2>1, <2>2
    <2>3. ASSUME NEW row \in LiveRows, row.request = q, effects[q][i] + Day <= row.expires
          PROVE  \/ effects[q][i] + Day <= clock'
                 \/ \E r \in LiveRows' : r.request = q /\ effects[q][i] + Day <= r.expires
      <3>1. row.expires \in Nat /\ row \in idempotency'
        BY <2>3 DEF Quiet, LiveRows, TypeOK, IdempotencyRows
      <3>2. CASE row.expires > clock'
        BY <2>3, <3>1, <3>2 DEF LiveRows
      <3>3. CASE ~(row.expires > clock')
        BY <1>1, <2>1, <2>3, <3>1, <3>3
      <3> QED
        BY <3>2, <3>3
    <2> QED
      BY <2>2, <2>3 DEF RequestsInv, StillRemembered
  <1>5. OnceWithinTheDay'
    BY DEF RequestsInv, OnceWithinTheDay, Quiet
  <1>6. RowsTell'
    BY <1>2 DEF RequestsInv, RowsTell, Tells, Quiet
  <1> QED
    BY <1>3, <1>4, <1>5, <1>6 DEF RequestsInv

\* A request that does its work has none left of the last day.
LEMMA WorkedIsDue ==
    ASSUME TypeOK, RequestsInv, NEW q \in Requests, NEW reply, Remember(q, reply)
    PROVE  \A i \in DOMAIN effects[q] : effects[q][i] + Day <= clock
  BY DEF Remember, RequestsInv, StillRemembered, Found

LEMMA WorkedKeeps ==
    ASSUME TypeOK, LinearHistory, RequestsInv, NEW q \in Requests, Worked(q)
    PROVE  RequestsInv'
  <1> PICK reply \in Replies : Remember(q, reply) /\ Work(q, reply) /\ UNCHANGED clock
    BY DEF Worked
  <1> DEFINE n == Len(effects[q])
             memory == [request |-> q, reply |-> reply, expires |-> clock + Day]
  <1>1. clock \in Nat /\ effects[q] \in Seq(Nat) /\ n \in Nat
    BY LenProperties DEF TypeOK
  <1>2. /\ effects'[q] = Append(effects[q], clock)
        /\ \A o \in Requests \ {q} : effects'[o] = effects[o]
    BY DEF Remember, TypeOK
  <1>3. /\ Len(effects'[q]) = n + 1 /\ effects'[q] # <<>>
        /\ \A i \in 1 .. n : effects'[q][i] = effects[q][i]
        /\ effects'[q][n + 1] = clock
        /\ DOMAIN effects'[q] = 1 .. (n + 1) /\ DOMAIN effects[q] = 1 .. n
    BY <1>1, <1>2, AppendProperties, LenProperties
  <1>4. idempotency' = LiveRows \cup {memory}
    BY DEF Remember
  <1>5. memory.request = q /\ memory.reply = reply /\ memory.expires = clock + Day
    OBVIOUS
  <1>6. \A i \in 1 .. n : effects[q][i] + Day <= clock /\ effects[q][i] \in Nat
    BY <1>1, <1>3, WorkedIsDue
  <1>7. \A row \in LiveRows : row.request # q
    BY DEF Remember, Found
  <1> HIDE DEF memory
  <1>8. /\ LiveRows' \subseteq LiveRows \cup {memory}
        /\ LiveRows \subseteq LiveRows'
        /\ Day # 0 => memory \in LiveRows'
    BY <1>1, <1>4, <1>5 DEF LiveRows
  <1>9. MadeOnBase'
    BY DEF RequestsInv, MadeOnBase, Work
  <1>10. StillRemembered'
    <2> SUFFICES ASSUME NEW o \in Requests, NEW i \in DOMAIN effects'[o]
                 PROVE  \/ effects'[o][i] + Day <= clock
                        \/ \E row \in LiveRows' : row.request = o /\ effects'[o][i] + Day <= row.expires
      BY DEF StillRemembered
    <2>1. CASE o # q
      BY <1>2, <1>8, <2>1 DEF RequestsInv, StillRemembered
    <2>2. CASE o = q /\ i \in 1 .. n
      BY <1>3, <1>6, <2>2
    <2>3. CASE o = q /\ i = n + 1
      <3>1. CASE Day = 0
        BY <1>1, <1>3, <2>3, <3>1
      <3>2. CASE Day # 0
        BY <1>1, <1>3, <1>5, <1>8, <2>3, <3>2
      <3> QED
        BY <3>1, <3>2
    <2> QED
      BY <1>3, <2>1, <2>2, <2>3
  <1>11. OnceWithinTheDay'
    <2> SUFFICES ASSUME NEW o \in Requests, NEW i \in DOMAIN effects'[o], NEW j \in DOMAIN effects'[o],
                        i < j
                 PROVE  effects'[o][j] >= effects'[o][i] + Day
      BY DEF OnceWithinTheDay
    <2>1. CASE o # q
      BY <1>2, <2>1 DEF RequestsInv, OnceWithinTheDay
    <2>2. CASE o = q /\ j \in 1 .. n
      BY <1>3, <2>2 DEF RequestsInv, OnceWithinTheDay
    <2>3. CASE o = q /\ j = n + 1
      <3>1. i \in 1 .. n
        BY <1>1, <1>3, <2>3
      <3> QED
        BY <1>1, <1>3, <1>6, <2>3, <3>1
    <2> QED
      BY <1>3, <2>1, <2>2, <2>3
  <1>12. RowsTell'
    <2> SUFFICES ASSUME NEW row \in LiveRows'
                 PROVE  Tells(row.reply, row.request)'
      BY DEF RowsTell
    <2>1. revisions \subseteq revisions'
      BY DEF Work
    <2>2. CASE row \in LiveRows
      <3>1. row.request \in Requests \ {q} /\ Tells(row.reply, row.request)
        BY <1>7, <2>2 DEF RequestsInv, RowsTell, LiveRows, TypeOK, IdempotencyRows
      <3>2. effects'[row.request] = effects[row.request]
        BY <1>2, <3>1
      <3> QED
        BY <2>1, <3>1, <3>2 DEF Tells
    <2>3. CASE row = memory
      <3>1. "revision" \in DOMAIN reply => \E r \in revisions' : r.id = reply.revision /\ r.by = q
        BY DEF Work
      <3>2. "archivedAt" \in DOMAIN reply => reply.archivedAt = clock
        BY DEF Work
      <3>3. effects'[q][Len(effects'[q])] = clock
        BY <1>1, <1>3
      <3> QED
        BY <1>3, <1>5, <2>3, <3>1, <3>2, <3>3 DEF Tells
    <2> QED
      BY <1>8, <2>2, <2>3
  <1> QED
    BY <1>9, <1>10, <1>11, <1>12 DEF RequestsInv

LEMMA RequestsInvAlways == Spec => []RequestsInv
  <1>1. Init => RequestsInv
    BY DEF Init, RequestsInv, MadeOnBase, StillRemembered, OnceWithinTheDay, RowsTell, LiveRows
  <1>2. TypeOK /\ LinearHistory /\ RequestsInv /\ [Next]_vars => RequestsInv'
    BY Steps, QuietKeeps, WorkedKeeps
  <1> QED
    BY <1>1, <1>2, TypeCorrect, HistoryIsLinear, PTL DEF Spec

LEMMA OnlyOneRevision ==
    ASSUME TypeOK, LinearHistory, RequestsInv
    PROVE  RequestsWorkOnce
  <1>1. RevisionOncePerRequest
    <2> SUFFICES ASSUME NEW r \in revisions, NEW s \in revisions, r.by = s.by, r.by.op # "create"
                 PROVE  r = s
      BY DEF RevisionOncePerRequest
    <2>1. r.design = s.design /\ r.version = s.version
      BY DEF RequestsInv, MadeOnBase
    <2> QED
      BY <2>1 DEF LinearHistory, DistinctRevisions
  <1>2. AnswerIsOwn
    <2> SUFFICES ASSUME NEW q \in Requests, NEW row \in Answers(q)
                 PROVE  Tells(row.reply, q)
      BY DEF AnswerIsOwn, Tells
    <2>1. row \in LiveRows /\ row.request = q
      BY DEF Answers, Found
    <2> QED
      BY <2>1 DEF RequestsInv, RowsTell
  <1> QED
    BY <1>1, <1>2 DEF RequestsInv, RequestsWorkOnce

\* However often and however late a request arrives, it takes effect once
\* within the day, makes one revision for good, and is answered with its own
\* result: while its row lives nothing is done again, and after that the
\* version it was made on is no longer the head.
THEOREM RequestsWorkOnceAlways == Spec => []RequestsWorkOnce
  BY TypeCorrect, HistoryIsLinear, RequestsInvAlways, OnlyOneRevision, PTL

-------------------------------------------------------------------------------
(***************************************************************************)
(* What the previews, snapshots and tombstones of the design store refer to*)
(* stays there, and a preview commits what it showed.                      *)
(***************************************************************************)

\* The result of a preview has all the edits of what it was made from.
ResultsGrow ==
    \A p \in PreviewIds :
        InTable(previews[p]) => previews[p].baseSnapshot.edits \subseteq previews[p].result.edits

\* The inductive invariant about previews, beside the types and the history.
PreviewsInv == SnapshotsKept /\ ResultsGrow /\ CommittedExactly

\* And that about tombstones: none is of a design that is still to be created.
TombstonesInv == FrozenWhileArchived /\ \A t \in tombstones : Exists(t.design)

-----------------------------------------------------------------------------
(* What steps do to rows.                                                  *)

\* What a row may come to without being written: it expires and is purged.
Aged(old, new) ==
    \/ new = old
    \/ old.status \in {"ready", "blocked"} /\ new = [old EXCEPT !.status = "expired"]
    \/ old.status \in {"ready", "blocked", "expired"} /\ new = [status |-> "purged"]

Ages(rows) == \A p \in PreviewIds : Aged(previews[p], rows[p])

LEMMA CleanupAges ==
    ASSUME TypeOK
    PROVE  Ages(CleanedPreviews)
  <1> SUFFICES ASSUME NEW p \in PreviewIds
               PROVE  Aged(previews[p], PurgeDue(ExpireDue(previews[p])))
    BY DEF Ages, CleanedPreviews
  <1> DEFINE old == previews[p]
  <1>1. old \in PreviewRows
    BY DEF TypeOK
  <1>2. CASE ExpireDue(old) = old
    BY <1>2 DEF PurgeDue, Aged
  <1>3. CASE ExpireDue(old) # old
    <2>1. old.status \in {"ready", "blocked"} /\ ExpireDue(old) = [old EXCEPT !.status = "expired"]
      BY <1>3 DEF ExpireDue
    <2> QED
      BY <2>1 DEF PurgeDue, Aged
  <1> QED
    BY <1>2, <1>3

\* A row that aged and is in the table still has its columns.
LEMMA AgedColumns ==
    ASSUME NEW old \in PreviewRows, NEW new, Aged(old, new), InTable(new)
    PROVE  /\ InTable(old)
           /\ new.design = old.design /\ new.baseRevision = old.baseRevision
           /\ new.baseSnapshot = old.baseSnapshot /\ new.result = old.result
           /\ new.committed = old.committed
           /\ new.status = "committed" => new = old
  <1>1. CASE new = old
    BY <1>1
  <1>2. CASE old.status \in {"ready", "blocked"} /\ new = [old EXCEPT !.status = "expired"]
    <2>1. InTable(old)
      BY <1>2 DEF InTable
    <2>2. old \in StoredPreviewRows
      BY <2>1 DEF PreviewRows, StoredPreviewRows, InTable
    <2> QED
      BY <1>2, <2>1, <2>2 DEF StoredPreviewRows
  <1>3. CASE new = [status |-> "purged"]
    BY <1>3 DEF InTable
  <1> QED
    BY <1>1, <1>2, <1>3 DEF Aged

\* A committed row does not age.
LEMMA CommittedStays ==
    ASSUME NEW old, NEW new, Aged(old, new), old.status = "committed"
    PROVE  new = old
  BY DEF Aged

\* What a row in the table refers to survives a collection.
LEMMA CollectionKeeps ==
    ASSUME TypeOK, SnapshotsKept, NEW rows, Ages(rows)
    PROVE  /\ \A r \in revisions : r.document \in CollectedSnapshots(rows)
           /\ \A p \in PreviewIds : InTable(rows[p]) =>
                {rows[p].baseSnapshot, rows[p].result} \subseteq CollectedSnapshots(rows)
  <1>1. ASSUME NEW r \in revisions
        PROVE  r.document \in CollectedSnapshots(rows)
    BY DEF SnapshotsKept, CollectedSnapshots, Referenced
  <1>2. ASSUME NEW p \in PreviewIds, InTable(rows[p])
        PROVE  {rows[p].baseSnapshot, rows[p].result} \subseteq CollectedSnapshots(rows)
    <2>1. previews[p] \in PreviewRows /\ Aged(previews[p], rows[p])
      BY DEF TypeOK, Ages
    <2>2. /\ InTable(previews[p])
          /\ rows[p].baseSnapshot = previews[p].baseSnapshot /\ rows[p].result = previews[p].result
      BY <1>2, <2>1, AgedColumns
    <2>3. {rows[p].baseSnapshot, rows[p].result} \subseteq snapshots
      BY <2>2 DEF SnapshotsKept
    <2> QED
      BY <1>2, <2>3 DEF CollectedSnapshots, Referenced
  <1> QED
    BY <1>1, <1>2

\* A step that makes no row committed leaves the committed ones exact.
LEMMA CommittedKept ==
    ASSUME CommittedExactly, revisions \subseteq revisions',
           \A p \in PreviewIds : previews'[p].status = "committed" => previews'[p] = previews[p]
    PROVE  CommittedExactly'
  BY DEF CommittedExactly

-----------------------------------------------------------------------------
(* Kinds of steps.                                                         *)

\* Rows age and perhaps some snapshots are collected.
LEMMA AgingKeeps ==
    ASSUME TypeOK, PreviewsInv, UNCHANGED revisions, Ages(previews'),
           CollectedSnapshots(previews') \subseteq snapshots'
    PROVE  PreviewsInv'
  <1>1. \A p \in PreviewIds : previews[p] \in PreviewRows /\ Aged(previews[p], previews'[p])
    BY DEF TypeOK, Ages
  <1>2. SnapshotsKept'
    BY CollectionKeeps DEF PreviewsInv, SnapshotsKept
  <1>3. ResultsGrow'
    BY <1>1, AgedColumns DEF PreviewsInv, ResultsGrow
  <1>4. \A p \in PreviewIds : previews'[p].status = "committed" => previews'[p] = previews[p]
    BY <1>1, AgedColumns DEF InTable
  <1>5. CommittedExactly'
    BY <1>4, CommittedKept DEF PreviewsInv
  <1> QED
    BY <1>2, <1>3, <1>5 DEF PreviewsInv

\* A preview is stored; its base is one of the snapshots.
LEMMA StoringKeeps ==
    ASSUME TypeOK, PreviewsInv, NEW p \in PreviewIds, NEW row, NEW rows \in [PreviewIds -> PreviewRows],
           NEW docs, StorePreview(p, row, rows, docs), Ages(rows), CollectedSnapshots(rows) \subseteq docs,
           row.status \in {"ready", "blocked"},
           row.baseSnapshot \in docs,
           row.baseSnapshot.edits \subseteq row.result.edits
    PROVE  PreviewsInv'
  <1>1. /\ revisions' = revisions /\ snapshots' = docs \cup {row.result}
        /\ previews'[p] = row /\ \A o \in PreviewIds \ {p} : previews'[o] = rows[o]
    BY DEF StorePreview
  <1>2. \A o \in PreviewIds : previews[o] \in PreviewRows /\ Aged(previews[o], rows[o])
    BY DEF TypeOK, Ages
  <1>3. SnapshotsKept'
    BY <1>1, CollectionKeeps DEF PreviewsInv, SnapshotsKept
  <1>4. ResultsGrow'
    BY <1>1, <1>2, AgedColumns DEF PreviewsInv, ResultsGrow
  <1>5. \A o \in PreviewIds : previews'[o].status = "committed" => previews'[o] = previews[o]
    BY <1>1, <1>2, AgedColumns DEF InTable
  <1>6. CommittedExactly'
    BY <1>1, <1>5, CommittedKept DEF PreviewsInv
  <1> QED
    BY <1>3, <1>4, <1>6 DEF PreviewsInv

\* A revision is written without a preview.
LEMMA WritingKeeps ==
    ASSUME PreviewsInv, NEW row, revisions' = revisions \cup {row}, UNCHANGED previews,
           snapshots' = snapshots \cup {row.document}
    PROVE  PreviewsInv'
  <1>1. SnapshotsKept'
    BY DEF PreviewsInv, SnapshotsKept
  <1>2. ResultsGrow'
    BY DEF PreviewsInv, ResultsGrow
  <1>3. CommittedExactly'
    BY CommittedKept DEF PreviewsInv
  <1> QED
    BY <1>1, <1>2, <1>3 DEF PreviewsInv

\* A preview is committed: the new revision has its result, follows the base it
\* was made from and has a fresh id.
LEMMA CommitKeeps ==
    ASSUME TypeOK, LinearHistory, PreviewsInv, NEW q \in Requests, CommitPreview(q)
    PROVE  PreviewsInv'
  <1> DEFINE p == q.preview
             row == CleanedPreviews[p]
             id == NewRevisionId
             new == [id |-> id, design |-> q.design, version |-> q.base + 1,
                     parent |-> designs[q.design].revision, document |-> row.result, by |-> q]
  <1>1. p \in PreviewIds /\ q.design \in Designs
    BY RequestFields DEF CommitPreview
  <1>2. /\ row.status = "ready" /\ MayCommit(q) /\ BaseUnchanged(q, row)
        /\ row.result \in CollectedSnapshots(CleanedPreviews)
        /\ CommitDocument(q, q.design, q.base, row.result)
        /\ snapshots' = CollectedSnapshots(CleanedPreviews)
    BY DEF CommitPreview, Committable
  <1>3. Ages(CleanedPreviews) /\ CleanedPreviews \in [PreviewIds -> PreviewRows]
    BY CleanupAges, CleanupType
  <1>4. row \in StoredPreviewRows
    BY <1>1, <1>2, <1>3, StoredPreview DEF InTable
  <1>5. /\ previews'[p] = [row EXCEPT !.status = "committed", !.committed = id]
        /\ \A o \in PreviewIds \ {p} : previews'[o] = CleanedPreviews[o]
    BY <1>1, <1>3 DEF CommitPreview
  <1>6. /\ previews'[p].status = "committed" /\ previews'[p].committed = id
        /\ previews'[p].design = row.design /\ previews'[p].result = row.result
        /\ previews'[p].baseRevision = row.baseRevision
        /\ previews'[p].baseSnapshot = row.baseSnapshot
    BY <1>4, <1>5 DEF StoredPreviewRows
  <1>7. /\ InTable(previews[p]) /\ row.design = q.design
        /\ row.baseSnapshot.edits \subseteq row.result.edits
    <2>1. InTable(row) /\ Aged(previews[p], row) /\ previews[p] \in PreviewRows
      BY <1>1, <1>2, <1>3 DEF InTable, Ages, TypeOK
    <2> QED
      BY <1>1, <1>2, <2>1, AgedColumns DEF MayCommit, PreviewsInv, ResultsGrow
  <1>8. revisions' = revisions \cup {new} /\ \A r \in revisions : r.id # id
    BY <1>2, FreshRevisionId DEF CommitDocument
  <1>9. /\ new.id = id /\ new.design = q.design /\ new.document = row.result
        /\ new.parent = designs[q.design].revision
    OBVIOUS
  <1>10. \A o \in PreviewIds \ {p} : previews'[o].status = "committed" => previews'[o] = previews[o]
    BY <1>3, <1>5, AgedColumns DEF Ages, TypeOK, InTable
  <1> HIDE DEF row, new, id
  <1>11. SnapshotsKept'
    <2>1. \A r \in revisions' : r.document \in snapshots'
      BY <1>2, <1>3, <1>8, <1>9, CollectionKeeps DEF PreviewsInv
    <2>2. ASSUME NEW o \in PreviewIds, InTable(previews'[o])
          PROVE  {previews'[o].baseSnapshot, previews'[o].result} \subseteq snapshots'
      <3>1. CASE o = p
        <4>1. InTable(row)
          BY <1>2 DEF InTable
        <4> QED
          BY <1>1, <1>2, <1>3, <1>6, <3>1, <4>1, CollectionKeeps DEF PreviewsInv, row
      <3>2. CASE o # p
        BY <1>2, <1>3, <1>5, <2>2, <3>2, CollectionKeeps DEF PreviewsInv
      <3> QED
        BY <3>1, <3>2
    <2> QED
      BY <2>1, <2>2 DEF SnapshotsKept, InTable
  <1>12. ResultsGrow'
    <2>1. ASSUME NEW o \in PreviewIds \ {p}, InTable(previews'[o])
          PROVE  previews'[o].baseSnapshot.edits \subseteq previews'[o].result.edits
      BY <1>3, <1>5, <2>1, AgedColumns DEF Ages, TypeOK, PreviewsInv, ResultsGrow
    <2> QED
      BY <1>6, <1>7, <2>1 DEF ResultsGrow, InTable
  <1>13. CommittedExactly'
    <2>1. PICK base \in revisions : /\ base.design = q.design /\ base.version = q.base
                                   /\ base.id = row.baseRevision /\ base.document = row.baseSnapshot
      BY <1>2 DEF BaseUnchanged
    <2>2. base.id = designs[q.design].revision
      BY <1>1, <1>2, <2>1 DEF BaseUnchanged, LinearHistory, HeadIsLast
    <2>3. ASSUME NEW o \in PreviewIds \ {p}, previews'[o].status = "committed"
          PROVE  previews'[o] = previews[o] /\ previews'[o].committed # id
      BY <1>8, <1>10, <2>3 DEF PreviewsInv, CommittedExactly
    <2> SUFFICES ASSUME NEW o \in PreviewIds, previews'[o].status = "committed"
                 PROVE  \E r, b \in revisions' :
                          /\ r.id = previews'[o].committed
                          /\ r.design = previews'[o].design
                          /\ r.document = previews'[o].result
                          /\ r.parent = b.id
                          /\ b.id = previews'[o].baseRevision
                          /\ b.document = previews'[o].baseSnapshot
                          /\ b.document.edits \subseteq r.document.edits
                          /\ \A other \in PreviewIds \ {o} :
                                previews'[other].status = "committed" => previews'[other].committed # r.id
      BY DEF CommittedExactly
    <2>4. CASE o = p
      <3>1. new \in revisions' /\ base \in revisions'
        BY <1>8
      <3> QED
        BY <1>6, <1>7, <1>9, <2>1, <2>2, <2>3, <2>4, <3>1
    <2>5. CASE o # p
      <3>1. PICK r \in revisions, b \in revisions :
              /\ r.id = previews[o].committed
              /\ r.design = previews[o].design
              /\ r.document = previews[o].result
              /\ r.parent = b.id
              /\ b.id = previews[o].baseRevision
              /\ b.document = previews[o].baseSnapshot
              /\ b.document.edits \subseteq r.document.edits
              /\ \A other \in PreviewIds \ {o} :
                    previews[other].status = "committed" => previews[other].committed # r.id
        BY <2>3, <2>5 DEF PreviewsInv, CommittedExactly
      <3>2. ASSUME NEW other \in PreviewIds \ {o}, previews'[other].status = "committed"
            PROVE  previews'[other].committed # r.id
        BY <1>6, <1>8, <2>3, <3>1, <3>2
      <3> QED
        BY <1>8, <2>3, <2>5, <3>1, <3>2
    <2> QED
      BY <2>4, <2>5
  <1> QED
    BY <1>11, <1>12, <1>13 DEF PreviewsInv

-----------------------------------------------------------------------------
(* The actions.                                                            *)

Aging ==
    /\ UNCHANGED revisions
    /\ Ages(previews')
    /\ CollectedSnapshots(previews') \subseteq snapshots'

\* p is stored as row, which is no older than the revision it was made from.
Stores(p, row) ==
    /\ \E rows \in [PreviewIds -> PreviewRows], docs \in SUBSET Documents :
          /\ StorePreview(p, row, rows, docs)
          /\ Ages(rows) /\ CollectedSnapshots(rows) \subseteq docs
          /\ row.baseSnapshot \in docs
    /\ row.status \in {"ready", "blocked"}
    /\ row.baseSnapshot.edits \subseteq row.result.edits

Writes ==
    /\ \E row : revisions' = revisions \cup {row} /\ snapshots' = snapshots \cup {row.document}
    /\ UNCHANGED previews

LEMMA SamePreviews ==
    ASSUME TypeOK, UNCHANGED <<revisions, previews, snapshots>>
    PROVE  Aging
  BY DEF Aging, Ages, Aged, CollectedSnapshots

LEMMA CleaningAges ==
    ASSUME TypeOK, CleanupPreviews, UNCHANGED revisions
    PROVE  Aging
  BY CleanupAges DEF CleanupPreviews, Aging, Ages, CollectedSnapshots, Referenced

\* What createPreview and createPreparedPreview store.
LEMMA FirstPreview ==
    ASSUME TypeOK, SnapshotsKept, NEW a, NEW d, NEW p \in PreviewIds, NEW r \in revisions, NEW new, NEW kind,
           NEW ok \in BOOLEAN, NEW rows \in [PreviewIds -> PreviewRows], NEW docs \in SUBSET Documents,
           StorePreview(p, PreviewRow(a, d, r.version, r.id, r.document,
                                      [revision |-> r.version + 1,
                                       edits |-> r.document.edits \cup {new}], kind, ok), rows, docs),
           Ages(rows), CollectedSnapshots(rows) \subseteq docs
    PROVE  \E row : Stores(p, row)
  <1> DEFINE row == PreviewRow(a, d, r.version, r.id, r.document,
                               [revision |-> r.version + 1,
                                edits |-> r.document.edits \cup {new}], kind, ok)
  <1>1. /\ row.status \in {"ready", "blocked"} /\ row.baseSnapshot = r.document
        /\ row.result.edits = r.document.edits \cup {new}
    BY DEF PreviewRow
  <1>2. r.document \in docs
    BY CollectionKeeps
  <1> HIDE DEF row
  <1> QED
    BY <1>1, <1>2 DEF Stores, row

LEMMA PreviewActions ==
    ASSUME TypeOK, PreviewsInv, PreviewNext
    PROVE  Aging \/ \E p \in PreviewIds : \E row : Stores(p, row)
  <1> PICK a \in Actors, p \in PreviewIds :
        \/ \E d \in Designs, new \in Edits, kind \in Kinds, ok \in BOOLEAN :
              CreatePreview(a, d, p, new, kind, ok)
        \/ \E from \in PreviewIds, new \in Edits, ok \in BOOLEAN :
              RefinePreview(a, p, from, new, ok)
        \/ \E d \in Designs, new \in Edits, ok \in BOOLEAN :
              CreatePreparedPreview(a, d, p, new, ok)
        \/ ReadPreview(a, p)
    BY DEF PreviewNext
  <1>1. /\ CleanedPreviews \in [PreviewIds -> PreviewRows] /\ Ages(CleanedPreviews)
        /\ CollectedSnapshots(CleanedPreviews) \in SUBSET Documents
        /\ previews \in [PreviewIds -> PreviewRows] /\ Ages(previews)
        /\ snapshots \in SUBSET Documents /\ CollectedSnapshots(previews) \subseteq snapshots
    BY CleanupAges, CleanupType DEF TypeOK, Ages, Aged, CollectedSnapshots
  <1>2. ASSUME NEW d \in Designs, NEW new \in Edits, NEW kind \in Kinds, NEW ok \in BOOLEAN,
               CreatePreview(a, d, p, new, kind, ok)
        PROVE  \E row : Stores(p, row)
    <2> PICK r \in revisions :
          StorePreview(p, PreviewRow(a, d, r.version, r.id, r.document,
                                     [revision |-> r.version + 1,
                                      edits |-> r.document.edits \cup {new}], kind, ok),
                       CleanedPreviews, CollectedSnapshots(CleanedPreviews))
      BY <1>2 DEF CreatePreview
    <2> QED
      BY <1>1, FirstPreview DEF PreviewsInv
  <1>3. ASSUME NEW d \in Designs, NEW new \in Edits, NEW ok \in BOOLEAN,
               CreatePreparedPreview(a, d, p, new, ok)
        PROVE  \E row : Stores(p, row)
    <2> PICK r \in revisions :
          StorePreview(p, PreviewRow(a, d, r.version, r.id, r.document,
                                     [revision |-> r.version + 1,
                                      edits |-> r.document.edits \cup {new}], "ordinary", ok),
                       previews, snapshots)
      BY <1>3 DEF CreatePreparedPreview
    <2> QED
      BY <1>1, FirstPreview DEF PreviewsInv
  <1>4. ASSUME NEW from \in PreviewIds, NEW new \in Edits, NEW ok \in BOOLEAN,
               RefinePreview(a, p, from, new, ok)
        PROVE  \E row : Stores(p, row)
    <2> DEFINE base == previews[from]
               row == PreviewRow(a, base.design, base.base, base.baseRevision, base.baseSnapshot,
                                 [base.result EXCEPT !.edits = @ \cup {new}], base.kind, ok)
    <2>1. base \in StoredPreviewRows /\ InTable(base)
      BY <1>4, StoredPreview DEF RefinePreview, InTable, TypeOK
    <2>2. base.baseSnapshot.edits \subseteq base.result.edits /\ base.result \in Documents
      BY <2>1 DEF PreviewsInv, ResultsGrow, StoredPreviewRows
    <2>3. /\ row.status \in {"ready", "blocked"} /\ row.baseSnapshot = base.baseSnapshot
          /\ row.result.edits = base.result.edits \cup {new}
      BY <2>2 DEF PreviewRow, Documents
    <2>4. StorePreview(p, row, CleanedPreviews, CollectedSnapshots(CleanedPreviews))
      BY <1>4 DEF RefinePreview
    <2>5. base.baseSnapshot \in CollectedSnapshots(CleanedPreviews)
      <3>1. CleanedPreviews[from] = base
        <4>1. base.status \in {"ready", "blocked"} /\ base.expires > clock
          BY <1>4 DEF RefinePreview
        <4>2. base.expires \in Nat /\ clock \in Nat
          BY <2>1 DEF StoredPreviewRows, TypeOK
        <4>3. ExpireDue(base) = base /\ PurgeDue(base) = base
          BY <4>1, <4>2 DEF ExpireDue, PurgeDue
        <4> QED
          BY <1>4, <4>3 DEF CleanedPreviews
      <3> QED
        BY <1>1, <2>1, <3>1, CollectionKeeps DEF PreviewsInv
    <2> QED
      BY <1>1, <2>2, <2>3, <2>4, <2>5 DEF Stores
  <1>5. CASE ReadPreview(a, p)
    <2>1. Aged(previews[p], ExpireDue(previews[p]))
      BY DEF Aged, ExpireDue
    <2>2. Ages(previews') /\ UNCHANGED <<revisions, snapshots>>
      BY <1>1, <1>5, <2>1 DEF ReadPreview, Ages
    <2> QED
      BY <2>2 DEF Aging, CollectedSnapshots
  <1> QED
    BY <1>2, <1>3, <1>4, <1>5

LEMMA RequestActions ==
    ASSUME TypeOK, NEW q \in Requests,
           \/ CreateDesign(q) \/ ApplyRevision(q) \/ RestoreRevision(q) \/ RefuseCommit(q)
           \/ ArchiveDesign(q) \/ RestoreArchivedDesign(q) \/ ReplayRequest(q)
    PROVE  Aging \/ Writes
  <1>1. CASE CreateDesign(q)
    <2> DEFINE document == [revision |-> 1, edits |-> {}]
    <2>1. PICK d \in Designs :
            revisions' = revisions \cup {[id |-> NewRevisionId, design |-> d, version |-> 1,
                                         parent |-> NoRevision, document |-> document, by |-> q]}
      BY <1>1 DEF CreateDesign
    <2> DEFINE row == [id |-> NewRevisionId, design |-> d, version |-> 1, parent |-> NoRevision,
                       document |-> document, by |-> q]
    <2>2. row.document = document
      OBVIOUS
    <2>3. snapshots' = snapshots \cup {document} /\ UNCHANGED previews
      BY <1>1 DEF CreateDesign
    <2> HIDE DEF document
    <2> QED
      BY <2>1, <2>2, <2>3 DEF Writes
  <1>2. ASSUME NEW document, CommitDocument(q, q.design, q.base, document),
               snapshots' = snapshots \cup {document}, UNCHANGED previews
        PROVE  Writes
    <2> DEFINE row == [id |-> NewRevisionId, design |-> q.design, version |-> q.base + 1,
                       parent |-> designs[q.design].revision, document |-> document, by |-> q]
    <2>1. revisions' = revisions \cup {row} /\ row.document = document
      BY <1>2 DEF CommitDocument
    <2> QED
      BY <1>2, <2>1 DEF Writes
  <1>3. CASE ApplyRevision(q)
    BY <1>2, <1>3 DEF ApplyRevision
  <1>4. CASE RestoreRevision(q)
    BY <1>2, <1>4 DEF RestoreRevision
  <1>5. CASE RefuseCommit(q)
    BY <1>5, CleaningAges DEF RefuseCommit
  <1>6. CASE ArchiveDesign(q) \/ RestoreArchivedDesign(q)
    BY <1>6, SamePreviews DEF ArchiveDesign, RestoreArchivedDesign
  <1>7. CASE ReplayRequest(q)
    BY <1>7, CleaningAges, SamePreviews DEF ReplayRequest
  <1> QED
    BY <1>1, <1>3, <1>4, <1>5, <1>6, <1>7

\* Every step is one of four kinds.
LEMMA FourKinds ==
    ASSUME TypeOK, PreviewsInv, [Next]_vars
    PROVE  \/ Aging \/ Writes
           \/ \E p \in PreviewIds : \E row : Stores(p, row)
           \/ \E q \in Requests : CommitPreview(q)
  <1>1. CASE PreviewNext
    BY <1>1, PreviewActions
  <1>2. CASE RequestNext
    BY <1>2, RequestActions DEF RequestNext
  <1>3. CASE Restart
    BY <1>3, CleaningAges DEF Restart
  <1>4. CASE Tick \/ UNCHANGED vars
    BY <1>4, SamePreviews DEF Tick, vars
  <1> QED
    BY <1>1, <1>2, <1>3, <1>4 DEF Next

LEMMA PreviewsInvAlways == Spec => []PreviewsInv
  <1>1. Init => PreviewsInv
    BY DEF Init, PreviewsInv, SnapshotsKept, ResultsGrow, CommittedExactly, InTable
  <1>2. TypeOK /\ LinearHistory /\ PreviewsInv /\ [Next]_vars => PreviewsInv'
    <2> SUFFICES ASSUME TypeOK, LinearHistory, PreviewsInv, [Next]_vars
                 PROVE  PreviewsInv'
      OBVIOUS
    <2>1. CASE Aging
      BY <2>1, AgingKeeps DEF Aging
    <2>2. CASE Writes
      BY <2>2, WritingKeeps DEF Writes
    <2>3. ASSUME NEW p \in PreviewIds, NEW row, Stores(p, row)
          PROVE  PreviewsInv'
      BY <2>3, StoringKeeps DEF Stores
    <2>4. ASSUME NEW q \in Requests, CommitPreview(q)
          PROVE  PreviewsInv'
      BY <2>4, CommitKeeps
    <2> QED
      BY <2>1, <2>2, <2>3, <2>4, FourKinds
  <1> QED
    BY <1>1, <1>2, TypeCorrect, HistoryIsLinear, PTL DEF Spec

-----------------------------------------------------------------------------
(* The life of a preview.                                                  *)

\* What PreviewLifecycle says of a step and a preview.
Lives(p) ==
    /\ previews[p].status # "committed" /\ previews'[p].status = "committed"
         => /\ previews[p].status = "ready"
            /\ previews[p].expires > clock
            /\ previews[p].engine = engine
    /\ previews[p].status = "committed" => previews'[p] = previews[p]
    /\ previews[p].status = "expired" => previews'[p].status \in {"expired", "purged"}

\* A row that ages lives as it should.
LEMMA AgedLives ==
    ASSUME TypeOK, NEW p \in PreviewIds, Aged(previews[p], previews'[p])
    PROVE  Lives(p)
  <1>1. previews[p] \in PreviewRows
    BY DEF TypeOK
  <1>2. previews'[p].status = "committed" => previews'[p] = previews[p]
    BY <1>1, AgedColumns DEF InTable
  <1>3. previews[p].status = "committed" => previews'[p] = previews[p]
    BY CommittedStays
  <1>4. previews[p].status = "expired" => previews'[p].status \in {"expired", "purged"}
    BY DEF Aged
  <1> QED
    BY <1>2, <1>3, <1>4 DEF Lives

LEMMA StoredLives ==
    ASSUME TypeOK, NEW p \in PreviewIds, NEW row, Stores(p, row), NEW o \in PreviewIds
    PROVE  Lives(o)
  <1>1. PICK rows \in [PreviewIds -> PreviewRows], docs \in SUBSET Documents :
          StorePreview(p, row, rows, docs) /\ Ages(rows)
    BY DEF Stores
  <1>2. CASE o = p
    BY <1>1, <1>2 DEF StorePreview, Stores, Lives
  <1>3. CASE o # p
    BY <1>1, <1>3, AgedLives DEF StorePreview, Ages
  <1> QED
    BY <1>2, <1>3

LEMMA CommittedLives ==
    ASSUME TypeOK, NEW q \in Requests, CommitPreview(q), NEW o \in PreviewIds
    PROVE  Lives(o)
  <1>1. q.preview \in PreviewIds
    BY RequestFields DEF CommitPreview
  <1>2. Ages(CleanedPreviews) /\ CleanedPreviews \in [PreviewIds -> PreviewRows]
    BY CleanupAges, CleanupType
  <1>3. CASE o = q.preview
    <2>1. /\ CleanedPreviews[o].status = "ready" /\ CleanedPreviews[o].expires > clock
          /\ CleanedPreviews[o].engine = engine
      BY <1>3 DEF CommitPreview, Committable
    <2>2. CleanedPreviews[o] = previews[o]
      <3>1. previews[o] \in PreviewRows /\ Aged(previews[o], CleanedPreviews[o])
        BY <1>2 DEF Ages, TypeOK
      <3>2. previews[o].status \in {"ready", "blocked"} =>
              [previews[o] EXCEPT !.status = "expired"].status # "ready"
        <4>1. previews[o].status \in {"ready", "blocked"} => previews[o] \in StoredPreviewRows
          BY <3>1, StoredPreview DEF InTable
        <4> QED
          BY <4>1 DEF StoredPreviewRows
      <3>3. [status |-> "purged"].status # "ready"
        OBVIOUS
      <3>4. ASSUME previews[o].status \in {"ready", "blocked"}
            PROVE  CleanedPreviews[o] # [previews[o] EXCEPT !.status = "expired"]
        BY <2>1, <3>2, <3>4
      <3>5. CleanedPreviews[o] # [status |-> "purged"]
        BY <2>1, <3>3
      <3> QED
        BY <3>1, <3>4, <3>5 DEF Aged
    <2> QED
      BY <2>1, <2>2 DEF Lives
  <1>4. CASE o # q.preview
    <2>1. previews'[o] = CleanedPreviews[o]
      BY <1>1, <1>2, <1>4 DEF CommitPreview
    <2> QED
      BY <1>2, <2>1, AgedLives DEF Ages
  <1> QED
    BY <1>3, <1>4

LEMMA StepLives ==
    ASSUME TypeOK, PreviewsInv, [Next]_vars, NEW o \in PreviewIds
    PROVE  Lives(o)
  <1>1. CASE Aging
    BY <1>1, AgedLives DEF Aging, Ages
  <1>2. CASE Writes
    BY <1>2, AgedLives DEF Writes, Aged
  <1> QED
    BY <1>1, <1>2, FourKinds, StoredLives, CommittedLives

-----------------------------------------------------------------------------
(* Tombstones.                                                             *)

\* A step that moves heads only of designs without a tombstone.
LEMMA HeadsKeep ==
    ASSUME TombstonesInv, tombstones' \subseteq tombstones,
           \A t \in tombstones' : designs'[t.design] = designs[t.design]
    PROVE  TombstonesInv'
  BY DEF TombstonesInv, FrozenWhileArchived, Exists

LEMMA CommitDocumentKeeps ==
    ASSUME TypeOK, TombstonesInv, NEW q, NEW d \in Designs, NEW base, NEW document, Readable(d),
           CommitDocument(q, d, base, document), UNCHANGED tombstones
    PROVE  TombstonesInv'
  <1>1. \A t \in tombstones : t.design # d /\ t.design \in Designs
    BY DEF Readable, IsDesignArchived, TypeOK, TombstoneRows
  <1>2. \A e \in Designs \ {d} : designs'[e] = designs[e]
    BY DEF CommitDocument, TypeOK
  <1> QED
    BY <1>1, <1>2, HeadsKeep

LEMMA TombstoneActions ==
    ASSUME TypeOK, TombstonesInv, NEW q \in Requests,
           \/ CreateDesign(q) \/ ApplyRevision(q) \/ RestoreRevision(q) \/ CommitPreview(q)
           \/ RefuseCommit(q) \/ ArchiveDesign(q) \/ RestoreArchivedDesign(q) \/ ReplayRequest(q)
    PROVE  TombstonesInv'
  <1>1. CASE CreateDesign(q)
    <2>1. PICK d \in Designs : ~Exists(d) /\ \A e \in Designs \ {d} : designs'[e] = designs[e]
      BY <1>1 DEF CreateDesign, TypeOK
    <2>2. \A t \in tombstones : t.design # d /\ t.design \in Designs
      BY <2>1 DEF TombstonesInv, TypeOK, TombstoneRows
    <2> QED
      BY <1>1, <2>1, <2>2, HeadsKeep DEF CreateDesign
  <1>2. CASE ApplyRevision(q)
    BY <1>2, RequestFields, CommitDocumentKeeps DEF ApplyRevision
  <1>3. CASE RestoreRevision(q)
    BY <1>3, RequestFields, CommitDocumentKeeps DEF RestoreRevision
  <1>4. CASE CommitPreview(q)
    BY <1>4, RequestFields, CommitDocumentKeeps DEF CommitPreview, MayCommit
  <1>5. CASE RefuseCommit(q) \/ ReplayRequest(q)
    BY <1>5, HeadsKeep DEF RefuseCommit, ReplayRequest
  <1>6. CASE ArchiveDesign(q)
    <2> DEFINE new == [design |-> q.design, version |-> designs[q.design].version,
                       revision |-> designs[q.design].revision, at |-> clock]
    <2>1. tombstones' = tombstones \cup {new} /\ UNCHANGED designs /\ Readable(q.design)
      BY <1>6 DEF ArchiveDesign
    <2>2. /\ new.design = q.design /\ new.version = designs[q.design].version
          /\ new.revision = designs[q.design].revision
      OBVIOUS
    <2>3. \A t \in tombstones : t.design # q.design
      BY <2>1 DEF Readable, IsDesignArchived
    <2> HIDE DEF new
    <2> QED
      BY <2>1, <2>2, <2>3 DEF TombstonesInv, FrozenWhileArchived, Readable, Exists
  <1>7. CASE RestoreArchivedDesign(q)
    BY <1>7, HeadsKeep DEF RestoreArchivedDesign
  <1> QED
    BY <1>1, <1>2, <1>3, <1>4, <1>5, <1>6, <1>7

LEMMA TombstonesInvAlways == Spec => []TombstonesInv
  <1>1. Init => TombstonesInv
    BY DEF Init, TombstonesInv, FrozenWhileArchived
  <1>2. TypeOK /\ TombstonesInv /\ [Next]_vars => TombstonesInv'
    <2> SUFFICES ASSUME TypeOK, TombstonesInv, [Next]_vars
                 PROVE  TombstonesInv'
      OBVIOUS
    <2>1. CASE PreviewNext
      <3>1. UNCHANGED <<designs, tombstones>>
        <4>1. ASSUME NEW a, NEW d, NEW p, NEW new, NEW kind, NEW ok,
                     CreatePreview(a, d, p, new, kind, ok)
              PROVE  UNCHANGED <<designs, tombstones>>
          BY <4>1 DEF CreatePreview, StorePreview
        <4>2. ASSUME NEW a, NEW p, NEW from, NEW new, NEW ok, RefinePreview(a, p, from, new, ok)
              PROVE  UNCHANGED <<designs, tombstones>>
          BY <4>2 DEF RefinePreview, StorePreview
        <4>3. ASSUME NEW a, NEW d, NEW p, NEW new, NEW ok, CreatePreparedPreview(a, d, p, new, ok)
              PROVE  UNCHANGED <<designs, tombstones>>
          BY <4>3 DEF CreatePreparedPreview, StorePreview
        <4>4. ASSUME NEW a, NEW p, ReadPreview(a, p)
              PROVE  UNCHANGED <<designs, tombstones>>
          BY <4>4 DEF ReadPreview
        <4> QED
          BY <2>1, <4>1, <4>2, <4>3, <4>4 DEF PreviewNext
      <3> QED
        BY <3>1, HeadsKeep
    <2>2. CASE RequestNext
      BY <2>2, TombstoneActions DEF RequestNext
    <2>3. CASE Restart \/ Tick \/ UNCHANGED vars
      BY <2>3, HeadsKeep DEF Restart, Tick, vars
    <2> QED
      BY <2>1, <2>2, <2>3 DEF Next
  <1> QED
    BY <1>1, <1>2, TypeCorrect, PTL DEF Spec

-----------------------------------------------------------------------------
(* The theorems.                                                           *)

\* A committed preview is one revision with exactly the document that was shown,
\* on exactly the base it was shown on (commitPreviewInTransaction).
THEOREM CommittedExactlyAlways == Spec => []CommittedExactly
  BY PreviewsInvAlways, PTL DEF PreviewsInv

\* The collection of snapshots never takes one that is referred to, and the head
\* of an archived design is the one its tombstone names.
THEOREM ReferencesKeptAlways == Spec => []ReferencesKept
  BY PreviewsInvAlways, TombstonesInvAlways, PTL DEF PreviewsInv, TombstonesInv, ReferencesKept

\* A preview is committed only unexpired, without errors and by the engine that
\* made it, and what has become of it in the end stays so.
THEOREM PreviewLifecycleAlways == Spec => PreviewLifecycle
  <1>1. TypeOK /\ PreviewsInv /\ [Next]_vars => \A p \in PreviewIds : Lives(p)
    BY StepLives
  <1> QED
    BY <1>1, TypeCorrect, PreviewsInvAlways, PTL DEF Spec, PreviewLifecycle, Lives

-------------------------------------------------------------------------------
(***************************************************************************)
(* DesignStore implements RevisionLog: each of its steps is a step of the  *)
(* log, or leaves the log as it is.                                        *)
(***************************************************************************)

\* The values the refinement gives to the variables of RevisionLog.
Contents(d) == [v \in 1..designs[d].version |-> DocumentAt(d, v).edits]
Log == [d \in Designs |-> Contents(d)]
Closed == {t.design : t \in tombstones}

\* What is assumed of the state before a step.
LogInv == TypeOK /\ LinearHistory /\ PreviewsInv /\ TombstonesInv

-----------------------------------------------------------------------------
(* The log a table of revisions stands for.                                *)

\* Of rows that are distinct, one is chosen for a design and a version.
LEMMA ChosenRow ==
    ASSUME NEW S, NEW d, NEW v, NEW r \in S, r.design = d, r.version = v,
           \A x, y \in S : x = y \/ <<x.design, x.version>> # <<y.design, y.version>>
    PROVE  (CHOOSE s \in S : s.design = d /\ s.version = v) = r
  <1> DEFINE chosen == CHOOSE s \in S : s.design = d /\ s.version = v
  <1>1. chosen \in S /\ chosen.design = d /\ chosen.version = v
    OBVIOUS
  <1> HIDE DEF chosen
  <1> QED
    BY <1>1 DEF chosen

LEMMA DocumentOf ==
    ASSUME LinearHistory, NEW r \in revisions
    PROVE  DocumentAt(r.design, r.version) = r.document
  BY ChosenRow DEF DocumentAt, LinearHistory, DistinctRevisions

\* A row that is added changes the document of no other version.
LEMMA AddedRow ==
    ASSUME LinearHistory, LinearHistory', NEW row, revisions' = revisions \cup {row}
    PROVE  /\ \A r \in revisions : DocumentAt(r.design, r.version)' = r.document
           /\ DocumentAt(row.design, row.version)' = row.document
  <1>1. \A x, y \in revisions' : x = y \/ <<x.design, x.version>> # <<y.design, y.version>>
    BY DEF LinearHistory, DistinctRevisions
  <1>2. ASSUME NEW r \in revisions'
        PROVE  DocumentAt(r.design, r.version)' = r.document
    BY <1>1, ChosenRow DEF DocumentAt
  <1> QED
    BY <1>2 DEF DocumentAt

\* Nothing of the log changes when neither table does.
LEMMA SameLog ==
    ASSUME UNCHANGED <<designs, revisions>>
    PROVE  Log' = Log
  BY DEF Log, Contents, DocumentAt

\* A commit appends its document to the log of its design.
LEMMA CommitAppends ==
    ASSUME TypeOK, LinearHistory, NEW q, NEW d \in Designs, NEW base \in Nat, NEW document,
           CommitDocument(q, d, base, document)
    PROVE  Log' = [Log EXCEPT ![d] = Append(@, document.edits)]
  <1> DEFINE id == NewRevisionId
             row == [id |-> id, design |-> d, version |-> base + 1,
                     parent |-> designs[d].revision, document |-> document, by |-> q]
  <1>1. LinearHistory'
    BY CommitDocumentLinear
  <1>2. revisions' = revisions \cup {row} /\ designs[d].version = base
    BY DEF CommitDocument
  <1>3. \A e \in Designs : designs'[e] = IF e = d
            THEN [version |-> base + 1, revision |-> id] ELSE designs[e]
    BY DEF CommitDocument, TypeOK
  <1>4. row.design = d /\ row.version = base + 1 /\ row.document = document
    OBVIOUS
  <1> HIDE DEF row, id
  <1>5. ASSUME NEW e \in Designs, NEW v \in 1..designs[e].version
        PROVE  DocumentAt(e, v)' = DocumentAt(e, v)
    <2>1. PICK r \in revisions : r.design = e /\ r.version = v
      BY DEF LinearHistory, HeadIsLast
    <2>2. DocumentAt(r.design, r.version)' = r.document
      BY <1>1, <1>2, AddedRow
    <2>3. DocumentAt(r.design, r.version) = r.document
      BY DocumentOf
    <2> QED
      BY <2>1, <2>2, <2>3
  <1>6. (DocumentAt(d, base + 1).edits)' = document.edits
    BY <1>1, <1>2, <1>4, AddedRow
  <1>7. ASSUME NEW e \in Designs, e # d
        PROVE  Contents(e)' = Contents(e)
    <2>1. designs'[e].version = designs[e].version
      BY <1>3, <1>7
    <2> QED
      BY <1>5, <2>1 DEF Contents
  <1>8. Contents(d)' = Append(Contents(d), document.edits)
    <2>1. designs'[d].version = base + 1
      BY <1>3
    <2>2. Contents(d)' = [v \in 1..(base + 1) |-> (DocumentAt(d, v).edits)']
      BY <2>1 DEF Contents
    <2>3. Contents(d) = [v \in 1..base |-> DocumentAt(d, v).edits]
      BY <1>2 DEF Contents
    <2>4. Append(Contents(d), document.edits)
            = [v \in 1..(base + 1) |-> IF v = base + 1 THEN document.edits
                                       ELSE DocumentAt(d, v).edits]
      BY <2>3
    <2>5. \A v \in 1..(base + 1) : (DocumentAt(d, v).edits)' =
             IF v = base + 1 THEN document.edits ELSE DocumentAt(d, v).edits
      BY <1>2, <1>5, <1>6
    <2> QED
      BY <2>2, <2>4, <2>5
  <1> QED
    BY <1>7, <1>8 DEF Log

-----------------------------------------------------------------------------
(* The steps.                                                              *)

\* A version that keeps what the one before it had is an extension of the log.
LEMMA CommitExtends ==
    ASSUME TypeOK, LinearHistory, NEW q, NEW d \in Designs, NEW base \in Nat, base # 0,
           NEW document \in Documents, NEW new \in SUBSET Edits,
           document.edits = DocumentAt(d, base).edits \cup new,
           Readable(d), CommitDocument(q, d, base, document), UNCHANGED tombstones
    PROVE  Abstract!Next
  <1>1. designs[d].version = base
    BY DEF CommitDocument
  <1>2. /\ Len(Contents(d)) = base
        /\ Contents(d) # <<>>
        /\ Contents(d)[Len(Contents(d))] = DocumentAt(d, base).edits
    BY <1>1 DEF Contents
  <1>3. Log[d] = Contents(d)
    BY DEF Log
  <1>4. Log' = [Log EXCEPT ![d] = Append(@, Log[d][Len(Log[d])] \cup new)]
    <2>1. Log' = [Log EXCEPT ![d] = Append(@, document.edits)]
      BY CommitAppends
    <2>2. document.edits = Log[d][Len(Log[d])] \cup new
      BY <1>2, <1>3
    <2> QED
      BY <2>1, <2>2
  <1>5. d \notin Closed /\ Closed' = Closed
    BY DEF Closed, Readable, IsDesignArchived
  <1>6. Abstract!Extend(d)
    BY <1>2, <1>3, <1>4, <1>5 DEF Abstract!Extend, Abstract!Last, Log, Contents, Closed
  <1> QED
    BY <1>6 DEF Abstract!Next

\* The version a commit starts from is at least the first.
LEMMA CommitOnVersion ==
    ASSUME LinearHistory, NEW q, NEW d \in Designs, NEW base \in Nat, NEW document,
           CommitDocument(q, d, base, document)
    PROVE  base # 0
  BY DEF CommitDocument, LinearHistory, HeadIsLast

LEMMA ApplyRevisionExtends ==
    ASSUME TypeOK, LinearHistory, NEW q \in Requests, ApplyRevision(q)
    PROVE  Abstract!Next
  <1> DEFINE document == [revision |-> q.base + 1,
                          edits |-> DocumentAt(q.design, q.base).edits \cup {q.edit}]
  <1>1. q.design \in Designs /\ q.base \in Nat /\ q.edit \in Edits
    BY RequestFields DEF ApplyRevision
  <1>2. /\ CommitDocument(q, q.design, q.base, document)
        /\ Readable(q.design) /\ UNCHANGED tombstones
    BY DEF ApplyRevision
  <1>3. q.base # 0
    BY <1>1, <1>2, CommitOnVersion
  <1>4. DocumentAt(q.design, q.base) \in Documents
    BY <1>2, DocumentAtType DEF CommitDocument
  <1>5. /\ document \in Documents
        /\ document.edits = DocumentAt(q.design, q.base).edits \cup {q.edit}
        /\ {q.edit} \in SUBSET Edits
    BY <1>1, <1>4 DEF Documents
  <1> HIDE DEF document
  <1> QED
    BY <1>1, <1>2, <1>3, <1>5, CommitExtends

LEMMA CommitPreviewExtends ==
    ASSUME LogInv, NEW q \in Requests, CommitPreview(q)
    PROVE  Abstract!Next
  <1> DEFINE row == CleanedPreviews[q.preview]
  <1>1. q.design \in Designs /\ q.base \in Nat /\ q.preview \in PreviewIds
    BY RequestFields DEF CommitPreview
  <1>2. /\ CommitDocument(q, q.design, q.base, row.result) /\ UNCHANGED tombstones
        /\ InTable(row) /\ BaseUnchanged(q, row) /\ Readable(q.design)
    BY DEF CommitPreview, MayCommit
  <1>3. q.base # 0
    BY <1>1, <1>2, CommitOnVersion DEF LogInv
  <1>4. row \in StoredPreviewRows /\ row.baseSnapshot.edits \subseteq row.result.edits
    <2>1. Aged(previews[q.preview], row) /\ row \in PreviewRows /\ previews[q.preview] \in PreviewRows
      BY <1>1, CleanupAges, CleanupType DEF LogInv, Ages, TypeOK
    <2>2. row \in StoredPreviewRows
      BY <1>2, <2>1, StoredPreview DEF LogInv
    <2> QED
      BY <1>1, <1>2, <2>1, <2>2, AgedColumns DEF LogInv, PreviewsInv, ResultsGrow
  <1>5. DocumentAt(q.design, q.base) = row.baseSnapshot
    BY <1>2, DocumentOf DEF BaseUnchanged, LogInv
  <1> HIDE DEF row
  <1>6. row.result \in Documents /\ row.result.edits \in SUBSET Edits
    BY <1>4 DEF StoredPreviewRows, Documents
  <1>7. row.result.edits = DocumentAt(q.design, q.base).edits \cup row.result.edits
    BY <1>4, <1>5
  <1> QED
    BY <1>1, <1>2, <1>3, <1>6, <1>7, CommitExtends DEF LogInv

LEMMA RestoreRevisionReverts ==
    ASSUME TypeOK, LinearHistory, NEW q \in Requests, RestoreRevision(q)
    PROVE  Abstract!Next
  <1> DEFINE restored(target) == [target.document EXCEPT !.revision = q.base + 1]
  <1>1. q.design \in Designs /\ q.base \in Nat
    BY RequestFields DEF RestoreRevision
  <1>2. PICK target \in revisions :
          /\ target.design = q.design
          /\ CommitDocument(q, q.design, q.base, restored(target))
    BY DEF RestoreRevision
  <1>3. UNCHANGED tombstones /\ Readable(q.design) /\ designs[q.design].version = q.base
    BY DEF RestoreRevision
  <1>4. target.version \in 1..q.base
    BY <1>1, <1>2, <1>3 DEF LinearHistory, HeadIsLast
  <1>5. restored(target).edits = target.document.edits
    BY DEF TypeOK, RevisionRows, Documents
  <1> HIDE DEF restored
  <1>6. Log' = [Log EXCEPT ![q.design] = Append(@, target.document.edits)]
    <2>1. Log' = [Log EXCEPT ![q.design] = Append(@, restored(target).edits)]
      BY <1>1, <1>2, CommitAppends
    <2> QED
      BY <1>5, <2>1
  <1>7. /\ Log[q.design] = Contents(q.design)
        /\ target.version \in 1..Len(Contents(q.design))
        /\ Contents(q.design)[target.version] = target.document.edits
    <2>1. DocumentAt(q.design, target.version) = target.document
      BY <1>2, DocumentOf
    <2>2. Log[q.design] = Contents(q.design)
      BY <1>1 DEF Log
    <2>3. target.version \in 1..designs[q.design].version
      BY <1>3, <1>4
    <2>4. designs[q.design].version \in Nat
      BY <1>1, <1>3
    <2>5. Len(Contents(q.design)) = designs[q.design].version
      BY <2>4 DEF Contents
    <2> QED
      BY <2>1, <2>2, <2>3, <2>5 DEF Contents
  <1>8. q.design \notin Closed /\ Closed' = Closed
    BY <1>3 DEF Closed, Readable, IsDesignArchived
  <1>9. Abstract!Revert(q.design)
    <2>1. Log' = [Log EXCEPT ![q.design] = Append(@, Log[q.design][target.version])]
      BY <1>6, <1>7
    <2>2. target.version \in 1..Len(Log[q.design])
      BY <1>7
    <2>3. Closed' = Closed /\ q.design \notin Closed
      BY <1>8
    <2>4. \E v \in 1..Len(Log[q.design]) :
             Log' = [Log EXCEPT ![q.design] = Append(@, Log[q.design][v])]
      BY ONLY <2>1, <2>2
    <2> QED
      BY ONLY <2>3, <2>4 DEF Abstract!Revert, Log, Contents, Closed
  <1> QED
    BY <1>1, <1>9 DEF Abstract!Next

LEMMA CreateDesignCreates ==
    ASSUME TypeOK, LinearHistory, NEW q, CreateDesign(q)
    PROVE  Abstract!Next
  <1> DEFINE id == NewRevisionId
             document == [revision |-> 1, edits |-> {}]
  <1> PICK d \in Designs :
        /\ ~Exists(d)
        /\ designs' = [designs EXCEPT ![d] = [version |-> 1, revision |-> id]]
        /\ revisions' = revisions \cup
              {[id |-> id, design |-> d, version |-> 1,
                parent |-> NoRevision, document |-> document, by |-> q]}
    BY DEF CreateDesign
  <1> DEFINE row == [id |-> id, design |-> d, version |-> 1,
                     parent |-> NoRevision, document |-> document, by |-> q]
  <1>1. revisions' = revisions \cup {row}
    OBVIOUS
  <1>2. row.design = d /\ row.version = 1 /\ row.document.edits = {}
    OBVIOUS
  <1>3. \A e \in Designs : designs'[e] = IF e = d THEN [version |-> 1, revision |-> id]
                                         ELSE designs[e]
    BY DEF TypeOK
  <1>4. LinearHistory'
    BY CreateDesignLinear
  <1> HIDE DEF row, id
  <1>5. ASSUME NEW e \in Designs, e # d
        PROVE  Contents(e)' = Contents(e)
    <2>1. designs'[e].version = designs[e].version
      BY <1>3, <1>5
    <2>2. ASSUME NEW v \in 1..designs[e].version
          PROVE  DocumentAt(e, v)' = DocumentAt(e, v)
      <3>1. PICK r \in revisions : r.design = e /\ r.version = v
        BY DEF LinearHistory, HeadIsLast
      <3>2. DocumentAt(r.design, r.version)' = r.document
        BY <1>1, <1>4, AddedRow
      <3> QED
        BY <3>1, <3>2, DocumentOf
    <2> QED
      BY <2>1, <2>2 DEF Contents
  <1>6. Contents(d)' = << {} >>
    <2>1. designs'[d].version = 1
      BY <1>3
    <2>2. (DocumentAt(d, 1).edits)' = {}
      BY <1>1, <1>2, <1>4, AddedRow
    <2>3. Contents(d)' = [v \in 1..1 |-> (DocumentAt(d, v).edits)']
      BY <2>1 DEF Contents
    <2>4. \A v \in 1..1 : (DocumentAt(d, v).edits)' = {}
      BY <2>2
    <2>5. << {} >> = [v \in 1..1 |-> {}]
      OBVIOUS
    <2> QED
      BY <2>3, <2>4, <2>5
  <1>7. Log[d] = <<>>
    BY DEF Log, Contents, Exists
  <1>8. Log' = [Log EXCEPT ![d] = << {} >>]
    BY <1>5, <1>6 DEF Log
  <1>9. Closed' = Closed
    BY DEF CreateDesign, Closed
  <1>10. Abstract!Create(d)
    BY <1>7, <1>8, <1>9 DEF Abstract!Create, Log, Contents, Closed
  <1> QED
    BY <1>10 DEF Abstract!Next

LEMMA ArchiveDesignCloses ==
    ASSUME TypeOK, NEW q \in Requests, ArchiveDesign(q)
    PROVE  Abstract!Next
  <1>1. q.design \in Designs /\ Exists(q.design) /\ UNCHANGED <<designs, revisions>>
    BY RequestFields DEF ArchiveDesign, Readable
  <1>2. Log' = Log
    BY <1>1, SameLog
  <1>3. Log[q.design] # <<>>
    <2>1. designs[q.design].version \in Nat \ {0}
      BY <1>1 DEF Exists, TypeOK, DesignRows
    <2>2. DOMAIN Log[q.design] = 1..designs[q.design].version
      BY <1>1 DEF Log, Contents
    <2>3. 1 \in DOMAIN Log[q.design] /\ 1 \notin DOMAIN <<>>
      BY <2>1, <2>2
    <2> QED
      BY <2>3
  <1>4. Closed' = Closed \cup {q.design}
    <2> DEFINE new == [design |-> q.design, version |-> designs[q.design].version,
                       revision |-> designs[q.design].revision, at |-> clock]
    <2>1. tombstones' = tombstones \cup {new} /\ new.design = q.design
      BY DEF ArchiveDesign
    <2> HIDE DEF new
    <2> QED
      BY <2>1 DEF Closed
  <1>5. Abstract!Close(q.design)
    BY <1>2, <1>3, <1>4 DEF Abstract!Close, Log, Contents, Closed
  <1> QED
    BY <1>1, <1>5 DEF Abstract!Next

LEMMA RestoreArchivedDesignOpens ==
    ASSUME TypeOK, TombstonesInv, NEW q \in Requests, RestoreArchivedDesign(q)
    PROVE  Abstract!Next
  <1>1. q.design \in Designs /\ UNCHANGED <<designs, revisions>>
    BY RequestFields DEF RestoreArchivedDesign
  <1>2. PICK t \in tombstones : t.design = q.design /\ tombstones' = tombstones \ {t}
    BY DEF RestoreArchivedDesign
  <1>3. Log' = Log
    BY <1>1, SameLog
  <1>4. q.design \in Closed /\ Closed' = Closed \ {q.design}
    BY <1>2 DEF Closed, TombstonesInv, FrozenWhileArchived
  <1>5. Abstract!Open(q.design)
    BY <1>3, <1>4 DEF Abstract!Open, Log, Contents, Closed
  <1> QED
    BY <1>1, <1>5 DEF Abstract!Next

\* Every other step is a stutter of the log.
LEMMA OtherStepsStutter ==
    ASSUME UNCHANGED <<designs, revisions, tombstones>>
    PROVE  UNCHANGED Abstract!vars
  BY SameLog DEF Abstract!vars, Log, Contents

LEMMA PreviewsStutter ==
    ASSUME PreviewNext
    PROVE  UNCHANGED <<designs, revisions, tombstones>>
  <1>1. ASSUME NEW a, NEW d, NEW p, NEW new, NEW kind, NEW ok,
               CreatePreview(a, d, p, new, kind, ok)
        PROVE  UNCHANGED <<designs, revisions, tombstones>>
    BY <1>1 DEF CreatePreview, StorePreview
  <1>2. ASSUME NEW a, NEW p, NEW from, NEW new, NEW ok, RefinePreview(a, p, from, new, ok)
        PROVE  UNCHANGED <<designs, revisions, tombstones>>
    BY <1>2 DEF RefinePreview, StorePreview
  <1>3. ASSUME NEW a, NEW d, NEW p, NEW new, NEW ok, CreatePreparedPreview(a, d, p, new, ok)
        PROVE  UNCHANGED <<designs, revisions, tombstones>>
    BY <1>3 DEF CreatePreparedPreview, StorePreview
  <1>4. ASSUME NEW a, NEW p, ReadPreview(a, p)
        PROVE  UNCHANGED <<designs, revisions, tombstones>>
    BY <1>4 DEF ReadPreview
  <1> QED
    BY <1>1, <1>2, <1>3, <1>4 DEF PreviewNext

LEMMA StepIsOfTheLog ==
    ASSUME LogInv, [Next]_vars
    PROVE  [Abstract!Next]_Abstract!vars
  <1>1. CASE PreviewNext
    BY <1>1, PreviewsStutter, OtherStepsStutter
  <1>2. ASSUME NEW q \in Requests,
               \/ CreateDesign(q) \/ ApplyRevision(q) \/ RestoreRevision(q) \/ CommitPreview(q)
               \/ RefuseCommit(q) \/ ArchiveDesign(q) \/ RestoreArchivedDesign(q)
               \/ ReplayRequest(q)
        PROVE  [Abstract!Next]_Abstract!vars
    <2>1. CASE CreateDesign(q) \/ ApplyRevision(q) \/ RestoreRevision(q)
      BY <2>1, CreateDesignCreates, ApplyRevisionExtends, RestoreRevisionReverts DEF LogInv
    <2>2. CASE CommitPreview(q)
      BY <2>2, CommitPreviewExtends
    <2>3. CASE ArchiveDesign(q) \/ RestoreArchivedDesign(q)
      BY <2>3, ArchiveDesignCloses, RestoreArchivedDesignOpens DEF LogInv
    <2>4. CASE RefuseCommit(q) \/ ReplayRequest(q)
      BY <2>4, OtherStepsStutter DEF RefuseCommit, ReplayRequest
    <2> QED
      BY <1>2, <2>1, <2>2, <2>3, <2>4
  <1>3. CASE Restart \/ Tick \/ UNCHANGED vars
    BY <1>3, OtherStepsStutter DEF Restart, Tick, vars
  <1> QED
    BY <1>1, <1>2, <1>3 DEF Next, RequestNext

-----------------------------------------------------------------------------
(* The theorem.                                                            *)

\* The store implements the log: what it shows of a design is a history to which
\* commits append contents that keep all the last one had, restores append an
\* earlier content, and nothing is appended while the design is archived.
THEOREM StoreImplementsLog == Spec => ImplementsRevisionLog
  <1>1. Init => Abstract!Init
    <2> SUFFICES ASSUME Init
                 PROVE  Log = [d \in Designs |-> <<>>] /\ Closed = {}
      BY DEF Abstract!Init, Log, Contents, Closed
    <2>1. ASSUME NEW d \in Designs
          PROVE  Contents(d) = <<>>
      <3>1. designs[d].version = 0
        BY DEF Init
      <3>2. [v \in 1..0 |-> DocumentAt(d, v).edits] = <<>>
        OBVIOUS
      <3> QED
        BY <3>1, <3>2 DEF Contents
    <2> QED
      BY <2>1 DEF Init, Log, Closed
  <1>2. LogInv /\ [Next]_vars => [Abstract!Next]_Abstract!vars
    BY StepIsOfTheLog
  <1>3. Spec => []LogInv
    BY TypeCorrect, HistoryIsLinear, PreviewsInvAlways, TombstonesInvAlways, PTL DEF LogInv
  <1> QED
    BY <1>1, <1>2, <1>3, PTL DEF Spec, ImplementsRevisionLog, Abstract!Spec
===============================================================================
