----------------------------- MODULE EditorStore -----------------------------
(***************************************************************************)
(* The optimistic store of the web editor (designer-store.ts) for one       *)
(* design, and the server as far as it answers it.  Edits are shown at once *)
(* and kept as pending operations until a save takes them along; every      *)
(* request is answered later, when the user has gone on editing or has left  *)
(* the design, and while others commit revisions.                           *)
(*                                                                         *)
(* A document is the sequence of the edits it is made of.  Undo and redo    *)
(* append operations like any edit and are not told apart from it.          *)
(***************************************************************************)
EXTENDS Naturals, Sequences, SequencesExt

CONSTANTS
    MaxEdits,     \* bound: edits the user makes
    Destructive,  \* those that archive layers or a page
    MaxVersion,   \* bound: revisions of the design
    MaxKeys       \* bound: idempotency keys and previews

ASSUME EditorAssumption ==
    /\ {MaxEdits, MaxVersion, MaxKeys} \subseteq Nat \ {0}
    /\ Destructive \subseteq 1..MaxEdits

Edits == 1..MaxEdits
OtherEdit == 0          \* what anyone else contributes
Versions == 1..MaxVersion
Operations == Seq(Edits)

VARIABLES
    revisions,  \* server: revisions[v], the content of version v
    replies,    \* server: replies[key], the version a key was answered with
    document,   \* the canvas; Closed: this design is not open
    baseVersion,
    pendingOperations,
    saveState,
    saving,
    loading,    \* editorLoading: a spinner instead of the editor
    archiveReview,
    conflictRecovery,
    stored,     \* the recovery in the storage of the browser
    attempt,    \* the registry of idempotency keys: the last undecided save
    nextKey,
    calls,      \* calls[c]: the request under way, see Calls
    refreshes,  \* reads after an event: the version each was started at
    left,       \* the user has left the design; what is opened next is not followed
    crossed,    \* history: a save, an approval or a restore was started in
                \* the middle of another one
    overtaken,  \* history: a read was shown over edits that were not yet saved
    made,       \* history: edits made so far
    givenUp     \* history: edits the user gave up (GivesUp), or an answer
                \* wrote over (WritesOver)

serverVars == <<revisions, replies>>
canvasVars == <<document, baseVersion, pendingOperations>>
statusVars == <<saveState, saving, loading, left>>
keptVars == <<archiveReview, conflictRecovery, stored>>
keyVars == <<attempt, nextKey>>
historyVars == <<crossed, overtaken, made, givenUp>>
storeVars == <<serverVars, canvasVars, statusVars, keptVars, keyVars, calls, refreshes, historyVars>>

Closed == <<MaxEdits + 1>>   \* no document holds that edit
Open == document # Closed
Shown == Open /\ ~loading /\ ~left

None == [base |-> 0, operations |-> <<>>, key |-> 0]

\* A request: the version it was based on or read at, what it carries, its key,
\* and the version it was answered with.
Idle == [at |-> "idle", base |-> 0, operations |-> <<>>, key |-> 0, version |-> 0]
Calls == {"save", "approve", "restore", "latest", "discard"}
Busy(c) == calls[c].at # "idle"
Start(c, base, ops, key, version) ==
    calls' = [calls EXCEPT ![c] = [at |-> "sent", base |-> base, operations |-> ops,
                                   key |-> key, version |-> version]]
Becomes(c, at, ops, version) ==
    calls' = [calls EXCEPT ![c] = [at |-> at, base |-> calls[c].base, operations |-> ops,
                                   key |-> calls[c].key, version |-> version]]
Crosses == crossed' = (crossed \/ \E c \in {"save", "approve", "restore"} : Busy(c))
End(c) == calls' = [calls EXCEPT ![c] = Idle]

Latest == Len(revisions)
Elements(s) == ToSet(s)
IsDestructive(ops) == Elements(ops) \cap Destructive # {}
GivesUp(edits) == givenUp' = givenUp \cup edits
WritesOver(edits) == givenUp' = givenUp \cup edits
StateAfter(ops) == IF ops = <<>> THEN "saved" ELSE "dirty"

-----------------------------------------------------------------------------
(* The server.                                                              *)

\* Someone else commits.
OtherCommits ==
    /\ Latest < MaxVersion
    /\ revisions' = Append(revisions, Append(revisions[Latest], OtherEdit))
    /\ UNCHANGED <<replies, canvasVars, statusVars, keptVars, keyVars, calls, refreshes, historyVars>>

Content(c) ==
    IF c = "restore" THEN revisions[calls[c].version]
    ELSE revisions[calls[c].base] \o calls[c].operations

Known(key) == IF key = 0 THEN 0 ELSE replies[key]

Remember(key, version) ==
    replies' = IF key = 0 THEN replies ELSE [replies EXCEPT ![key] = version]

\* A revision on top of the latest one, remembered by its key.
Commit(c) ==
    /\ calls[c].base = Latest
    /\ Latest < MaxVersion
    /\ revisions' = Append(revisions, Content(c))
    /\ Remember(calls[c].key, Latest + 1)

Answered(c, at, version) == Becomes(c, at, calls[c].operations, version)

\* A destructive save only asks for a preview.
WantsPreview(c) == c = "save" /\ IsDestructive(calls[c].operations)

\* The answers to a request: what its key was answered before, a revision or a
\* preview of the head, a conflict with it, or a refusal for another reason.
Serve(c) ==
    /\ calls[c].at = "sent"
    /\ c \notin {"latest", "discard"}
    /\ LET known == Known(calls[c].key)
       IN  \/ known # 0 /\ Answered(c, "done", known) /\ UNCHANGED serverVars
           \/ /\ known = 0 /\ ~WantsPreview(c)
              /\ Commit(c)
              /\ Answered(c, "done", Latest + 1)
           \/ /\ known = 0 /\ WantsPreview(c) /\ calls[c].base = Latest
              /\ Answered(c, "done", Latest)
              /\ UNCHANGED serverVars
           \/ /\ known = 0 /\ calls[c].base # Latest
              /\ Answered(c, "conflict", 0)
              /\ UNCHANGED serverVars
           \/ known = 0 /\ Answered(c, "refused", 0) /\ UNCHANGED serverVars
    /\ UNCHANGED <<canvasVars, statusVars, keptVars, keyVars, refreshes, historyVars>>

\* The connection breaks before the request arrives or before its answer does; or
\* what is pending does not apply to the revision of the answer.  The store cannot
\* tell the two apart from a request that was never served.
Lose(c) ==
    /\ calls[c].at \in {"sent", "done", "conflict", "refused"}
    /\ Answered(c, "lost", 0)
    /\ UNCHANGED <<serverVars, canvasVars, statusVars, keptVars, keyVars, refreshes, historyVars>>

-----------------------------------------------------------------------------
(* Editing and saving.                                                      *)

\* executeBatch: refused under a conflict recovery.
Edit ==
    /\ Shown
    /\ conflictRecovery = None
    /\ made < MaxEdits
    /\ made' = made + 1
    /\ document' = Append(document, made + 1)
    /\ pendingOperations' = Append(pendingOperations, made + 1)
    /\ saveState' = "dirty"
    /\ UNCHANGED <<serverVars, loading, left, baseVersion, saving, keptVars, keyVars, calls, refreshes, crossed, overtaken, givenUp>>

\* keyFor: the key of the last undecided save is used again for the same save.
SameAttempt(base, ops) == attempt.key # 0 /\ attempt.base = base /\ attempt.operations = ops

Save ==
    LET again == ~IsDestructive(pendingOperations) /\ SameAttempt(baseVersion, pendingOperations)
        key == IF again THEN attempt.key ELSE nextKey
    IN  /\ Shown
        /\ ~Busy("save")
        /\ archiveReview = None
        /\ conflictRecovery = None
        /\ saveState # "conflict"
        /\ pendingOperations # <<>>
        /\ key <= MaxKeys
        /\ Start("save", baseVersion, pendingOperations, key, 0)
        /\ nextKey' = IF again THEN nextKey ELSE nextKey + 1
        /\ attempt' = IF IsDestructive(pendingOperations) THEN attempt
                      ELSE [base |-> baseVersion, operations |-> pendingOperations, key |-> key]
        /\ saving' = TRUE
        /\ Crosses
        /\ saveState' = "saving"
        /\ pendingOperations' = <<>>
        /\ UNCHANGED <<serverVars, loading, left, document, baseVersion, keptVars, refreshes, overtaken, made, givenUp>>

\* complete: the attempt is decided.
Decided(c) == attempt' = IF attempt.key = calls[c].key THEN None ELSE attempt

\* Mutant: the answer is taken for the next version.
Rebase_Counts(version) ==
    /\ document' = revisions[version] \o pendingOperations
    /\ baseVersion' = baseVersion + 1
    /\ saveState' = StateAfter(pendingOperations)

\* The revision is there: what was edited since is put on top of it.
Rebase(version) ==
    /\ document' = revisions[version] \o pendingOperations
    /\ baseVersion' = version
    /\ saveState' = StateAfter(pendingOperations)

SaveCommitted ==
    /\ calls["save"].at = "done" /\ ~WantsPreview("save")
    /\ IF Open THEN Rebase(calls["save"].version)
               ELSE UNCHANGED <<document, baseVersion, saveState>>
    /\ saving' = FALSE
    /\ Decided("save")
    /\ End("save")
    /\ UNCHANGED <<serverVars, loading, left, pendingOperations, keptVars, nextKey, refreshes, historyVars>>

SavePreviewed ==
    /\ calls["save"].at = "done" /\ WantsPreview("save")
    /\ archiveReview' = IF Open THEN [base |-> calls["save"].base,
                                      operations |-> calls["save"].operations,
                                      key |-> calls["save"].key]
                        ELSE archiveReview
    /\ saveState' = IF Open THEN "review" ELSE saveState
    /\ saving' = FALSE
    /\ End("save")
    /\ UNCHANGED <<serverVars, loading, left, canvasVars, conflictRecovery, stored, keyVars, refreshes, historyVars>>

\* The operations go back before what was edited since.
SaveConflicts ==
    LET back == calls["save"].operations \o pendingOperations
    IN  /\ calls["save"].at = "conflict"
        /\ IF Open
           THEN /\ pendingOperations' = back
                /\ saveState' = "conflict"
                /\ Becomes("save", "capturing", back, 0)
           ELSE UNCHANGED <<pendingOperations, saveState>> /\ End("save")
        /\ saving' = FALSE
        /\ Decided("save")
        /\ UNCHANGED <<serverVars, loading, left, document, baseVersion, keptVars, nextKey, refreshes, historyVars>>

\* Mutant: what was edited since is forgotten.
SaveFails_Resets ==
    /\ calls["save"].at \in {"refused", "lost"}
    /\ IF Open
       THEN /\ pendingOperations' = calls["save"].operations
            /\ saveState' = "error"
       ELSE UNCHANGED <<pendingOperations, saveState>>
    /\ saving' = FALSE
    /\ IF calls["save"].at = "refused" THEN Decided("save") ELSE UNCHANGED attempt
    /\ End("save")
    /\ UNCHANGED <<serverVars, loading, left, document, baseVersion, keptVars, nextKey, refreshes, historyVars>>

SaveFails ==
    /\ calls["save"].at \in {"refused", "lost"}
    /\ IF Open
       THEN /\ pendingOperations' = calls["save"].operations \o pendingOperations
            /\ saveState' = "error"
       ELSE UNCHANGED <<pendingOperations, saveState>>
    /\ saving' = FALSE
    /\ IF calls["save"].at = "refused" THEN Decided("save") ELSE UNCHANGED attempt
    /\ End("save")
    /\ UNCHANGED <<serverVars, loading, left, document, baseVersion, keptVars, nextKey, refreshes, historyVars>>

\* captureConflictRecovery has hashed the operations and stored them, or could
\* not.  What it protects replaces what is pending now.  After a save it looks
\* whether the design is still open, after a review it does not.
Captured(c) ==
    LET recovery == [base |-> calls[c].base, operations |-> calls[c].operations, key |-> 0]
        shown == c = "approve" \/ Open
    IN  /\ calls[c].at = "capturing"
        /\ stored' \in {stored, recovery}
        /\ pendingOperations' = IF shown THEN recovery.operations ELSE pendingOperations
        /\ conflictRecovery' = IF shown THEN recovery ELSE conflictRecovery
        /\ saving' = IF shown THEN saving ELSE FALSE
        /\ WritesOver(IF shown THEN Elements(pendingOperations) \ Elements(recovery.operations)
                      ELSE {})
        /\ End(c)
        /\ UNCHANGED <<serverVars, loading, left, document, baseVersion, saveState, archiveReview, keyVars,
                       refreshes, crossed, overtaken, made>>

-----------------------------------------------------------------------------
(* The review of destructive operations.                                    *)

ApproveReview ==
    /\ Shown
    /\ archiveReview # None
    /\ ~saving
    /\ ~Busy("approve")
    /\ Start("approve", archiveReview.base, archiveReview.operations, archiveReview.key, 0)
    /\ saving' = TRUE
    /\ saveState' = "saving"
    /\ Crosses
    /\ UNCHANGED <<serverVars, loading, left, canvasVars, keptVars, keyVars, refreshes, overtaken, made, givenUp>>

ApproveCommitted ==
    /\ calls["approve"].at = "done"
    /\ IF Open THEN Rebase(calls["approve"].version)
               ELSE UNCHANGED <<document, baseVersion, saveState>>
    /\ archiveReview' = None
    /\ saving' = FALSE
    /\ End("approve")
    /\ UNCHANGED <<serverVars, loading, left, pendingOperations, conflictRecovery, stored, keyVars, refreshes,
                   historyVars>>

\* Whatever is open by now.
ApproveConflicts ==
    LET back == calls["approve"].operations \o pendingOperations
    IN  /\ calls["approve"].at = "conflict"
        /\ archiveReview' = None
        /\ pendingOperations' = back
        /\ saving' = FALSE
        /\ saveState' = "conflict"
        /\ Becomes("approve", "capturing", back, 0)
        /\ UNCHANGED <<serverVars, loading, left, document, baseVersion, conflictRecovery, stored, keyVars,
                       refreshes, historyVars>>

ApproveFails ==
    /\ calls["approve"].at \in {"refused", "lost"}
    /\ saving' = FALSE
    /\ saveState' = "review"
    /\ End("approve")
    /\ UNCHANGED <<serverVars, loading, left, canvasVars, keptVars, keyVars, refreshes, historyVars>>

\* The button is disabled while a request is saving.  What was edited since the
\* save is kept if it applies to the base, as an edit of a layer that the reviewed
\* batch made does not: then all of it is cleared.
DiscardReview ==
    /\ Shown
    /\ archiveReview # None
    /\ ~saving
    /\ archiveReview' = None
    /\ \/ /\ document' = revisions[archiveReview.base] \o pendingOperations
          /\ saveState' = StateAfter(pendingOperations)
          /\ GivesUp(Elements(archiveReview.operations))
          /\ UNCHANGED pendingOperations
       \/ /\ pendingOperations # <<>>
          /\ document' = revisions[archiveReview.base]
          /\ pendingOperations' = <<>>
          /\ saveState' = "saved"
          /\ WritesOver(Elements(archiveReview.operations) \cup Elements(pendingOperations))
    /\ UNCHANGED <<serverVars, loading, left, baseVersion, saving, conflictRecovery, stored,
                   keyVars, calls, refreshes, crossed, overtaken, made>>

-----------------------------------------------------------------------------
(* Restoring an older version, and the commit of a component or an agent's   *)
(* preview by another panel, which opens the design again afterwards.        *)

Restore(target) ==
    /\ Shown
    /\ pendingOperations = <<>>
    /\ ~Busy("restore")
    /\ target < Latest
    /\ Start("restore", baseVersion, <<>>, 0, target)
    /\ saving' = TRUE
    /\ Crosses
    /\ saveState' = "saving"
    /\ UNCHANGED <<serverVars, loading, left, canvasVars, keptVars, keyVars, refreshes, overtaken, made, givenUp>>

\* Without a look at what is open or pending now.
RestoreCommitted ==
    /\ calls["restore"].at = "done"
    /\ document' = revisions[calls["restore"].version]
    /\ baseVersion' = calls["restore"].version
    /\ pendingOperations' = <<>>
    /\ saving' = FALSE
    /\ saveState' = "saved"
    /\ WritesOver(Elements(pendingOperations))
    /\ End("restore")
    /\ UNCHANGED <<serverVars, loading, left, keptVars, keyVars, refreshes, crossed, overtaken, made>>

RestoreFails ==
    /\ calls["restore"].at \in {"conflict", "refused", "lost"}
    /\ saving' = FALSE
    /\ saveState' = "error"
    /\ End("restore")
    /\ UNCHANGED <<serverVars, loading, left, canvasVars, keptVars, keyVars, refreshes, historyVars>>

-----------------------------------------------------------------------------
(* Reads: opening, the latest version under a conflict, and refreshes.  One  *)
(* answers with the head of some moment since it was started.                *)

Show(version) == document' = revisions[version] /\ baseVersion' = version

\* closeDesign, and the branch of connectEvents for a design that was archived.
Cleared ==
    /\ Open /\ ~left
    /\ left' = TRUE
    /\ document' = Closed
    /\ baseVersion' = 0
    /\ pendingOperations' = <<>>
    /\ archiveReview' = None
    /\ conflictRecovery' = None
    /\ saving' = FALSE
    /\ saveState' = "idle"
    /\ UNCHANGED <<serverVars, loading, stored, keyVars, calls, refreshes, crossed, overtaken, made>>

\* hasUnsavedDesignerChanges, as far as it looks at this store.
HasUnsavedChanges ==
    \/ saving
    \/ pendingOperations # <<>>
    \/ archiveReview # None \/ conflictRecovery # None
    \/ saveState \in {"dirty", "review", "error", "conflict"}

\* The guard of the navigation asks before unsaved changes are left.
Leave == Cleared /\ GivesUp(1..made \ Elements(stored.operations))

\* Somebody archives the design and the event arrives.  If there are unsaved
\* changes the page offers the canvas with what is pending as a file, which is not
\* followed.
ArchivedElsewhere == Cleared /\ WritesOver(1..made \ Elements(stored.operations))

\* The two panels of the recovery are not busy at once.
LoadLatest ==
    /\ Shown
    /\ conflictRecovery # None
    /\ saveState = "conflict" \/ pendingOperations # <<>>
    /\ ~Busy("latest") /\ ~Busy("discard")
    /\ Start("latest", conflictRecovery.base, conflictRecovery.operations, 0, Latest)
    /\ loading' = TRUE
    /\ UNCHANGED <<serverVars, canvasVars, saveState, saving, left, keptVars, keyVars, refreshes, historyVars>>

LatestLoaded(v) ==
    /\ calls["latest"].at = "sent"
    /\ v \in calls["latest"].version..Latest
    /\ Show(v)
    /\ pendingOperations' = <<>>
    /\ saving' = FALSE
    /\ saveState' = "saved"
    /\ conflictRecovery' = [base |-> calls["latest"].base,
                            operations |-> calls["latest"].operations, key |-> 0]
    /\ loading' = FALSE
    /\ End("latest")
    /\ UNCHANGED <<serverVars, left, archiveReview, stored, keyVars, refreshes, historyVars>>

\* With a conflict on the canvas the latest version is loaded first.
DiscardRecovery ==
    /\ Shown
    /\ conflictRecovery # None
    /\ ~Busy("latest") /\ ~Busy("discard")
    /\ IF saveState = "conflict"
       THEN /\ Start("discard", conflictRecovery.base, conflictRecovery.operations, 0, Latest)
            /\ loading' = TRUE
            /\ UNCHANGED <<keptVars, givenUp>>
       ELSE /\ conflictRecovery' = None
            /\ stored' = None
            /\ GivesUp(Elements(conflictRecovery.operations))
            /\ UNCHANGED <<archiveReview, calls, loading>>
    /\ UNCHANGED <<serverVars, canvasVars, saveState, saving, left, keyVars, refreshes, crossed, overtaken, made>>

RecoveryDiscarded(v) ==
    /\ calls["discard"].at = "sent"
    /\ v \in calls["discard"].version..Latest
    /\ Show(v)
    /\ pendingOperations' = <<>>
    /\ saving' = FALSE
    /\ saveState' = "saved"
    /\ conflictRecovery' = None
    /\ stored' = None
    /\ GivesUp(Elements(calls["discard"].operations))
    /\ loading' = FALSE
    /\ End("discard")
    /\ UNCHANGED <<serverVars, left, archiveReview, keyVars, refreshes, crossed, overtaken, made>>

ReadFails ==
    \E c \in {"latest", "discard"} :
        /\ calls[c].at = "lost"
        /\ saveState' = "conflict"
        /\ loading' = FALSE
        /\ End(c)
        /\ UNCHANGED <<serverVars, canvasVars, saving, left, keptVars, keyVars, refreshes, historyVars>>

\* connectEvents: of a revision newer than the canvas, while nothing is pending.
Refresh ==
    /\ Open /\ ~left
    /\ baseVersion < Latest
    /\ pendingOperations = <<>>
    /\ ~saving
    /\ refreshes' = refreshes \cup {Latest}
    /\ UNCHANGED <<serverVars, canvasVars, statusVars, keptVars, keyVars, calls, historyVars>>

\* Whatever is pending by now stays so.
Refreshed(from, v) ==
    /\ from \in refreshes
    /\ refreshes' = refreshes \ {from}
    /\ v \in from..Latest
    /\ IF Open THEN Show(v) ELSE UNCHANGED <<document, baseVersion>>
    /\ overtaken' = (overtaken \/ (Open /\ (pendingOperations # <<>> \/ Busy("save"))))
    /\ UNCHANGED <<serverVars, pendingOperations, statusVars, keptVars, keyVars, calls, crossed, made, givenUp>>

RefreshFails(from) ==
    /\ from \in refreshes
    /\ refreshes' = refreshes \ {from}
    /\ UNCHANGED <<serverVars, canvasVars, statusVars, keptVars, keyVars, calls, historyVars>>

-----------------------------------------------------------------------------
StoreInit ==
    /\ revisions = <<<<>>>>
    /\ replies = [k \in 1..MaxKeys |-> 0]
    /\ document = <<>>
    /\ baseVersion = 1
    /\ pendingOperations = <<>>
    /\ saveState = "saved"
    /\ saving = FALSE
    /\ loading = FALSE
    /\ archiveReview = None
    /\ conflictRecovery = None
    /\ stored = None
    /\ attempt = None
    /\ nextKey = 1
    /\ calls = [c \in Calls |-> Idle]
    /\ refreshes = {}
    /\ left = FALSE
    /\ crossed = FALSE
    /\ overtaken = FALSE
    /\ made = 0
    /\ givenUp = {}

Answer ==
    \/ SaveCommitted \/ SavePreviewed \/ SaveConflicts \/ SaveFails
    \/ ApproveCommitted \/ ApproveConflicts \/ ApproveFails
    \/ RestoreCommitted \/ RestoreFails
    \/ \E c \in {"save", "approve"} : Captured(c)
    \/ \E v \in Versions : LatestLoaded(v) \/ RecoveryDiscarded(v)
    \/ ReadFails

User ==
    \/ Edit \/ Save \/ ApproveReview \/ DiscardReview \/ Leave
    \/ LoadLatest \/ DiscardRecovery
    \/ \E v \in Versions : Restore(v)

Network ==
    \/ OtherCommits \/ ArchivedElsewhere
    \/ \E c \in Calls : Serve(c) \/ Lose(c)
    \/ Refresh
    \/ \E from \in refreshes : RefreshFails(from) \/ \E v \in Versions : Refreshed(from, v)

StoreNext == Answer \/ User \/ Network

StoreSpec == StoreInit /\ [][StoreNext]_storeVars

-----------------------------------------------------------------------------
(* Properties.                                                              *)

Recoveries == [base : 0..MaxVersion, operations : Operations, key : 0..MaxKeys]
CallRows ==
    [at : {"idle", "sent", "done", "conflict", "refused", "lost", "capturing"}, base : 0..MaxVersion,
     operations : Operations, key : 0..MaxKeys, version : 0..MaxVersion]
Documents == Seq(0..MaxEdits + 1)

\* Every variable has its type, and the canvas is based on a version there is.
StoreTypeOK ==
    /\ revisions \in Seq(Documents) /\ Latest \in Versions
    /\ replies \in [1..MaxKeys -> 0..Latest]
    /\ document \in Documents
    /\ baseVersion \in 0..Latest
    /\ pendingOperations \in Operations
    /\ saveState \in {"idle", "dirty", "saving", "saved", "review", "error", "conflict"}
    /\ {saving, loading, left, crossed, overtaken} \subseteq BOOLEAN
    /\ {archiveReview, conflictRecovery, stored, attempt} \subseteq Recoveries
    /\ nextKey \in 1..MaxKeys + 1
    /\ calls \in [Calls -> CallRows]
    /\ \A c \in Calls : {calls[c].base, calls[c].version} \subseteq 0..Latest
    /\ refreshes \subseteq Versions
    /\ made \in 0..MaxEdits
    /\ givenUp \subseteq Edits

\* No edit gets lost: at every moment it is in a revision, pending, on its way, in
\* a review or in a recovery, through conflicts, errors, lost answers and edits
\* made meanwhile (save, approveArchiveReview, designer-store.ts:788-1202), or it
\* was given up by the user or written over where WritesOver says so: by a restore,
\* by a recovery captured meanwhile, by a discarded review on whose base they do not
\* apply, or because the design is archived by somebody.  A save, an approval or a
\* restore in the middle of another one can lose edits too; nothing in the store
\* keeps the user from starting it.
Held == Elements(pendingOperations) \cup Elements(archiveReview.operations)
        \cup Elements(conflictRecovery.operations) \cup Elements(stored.operations)
        \cup UNION {Elements(calls[c].operations) : c \in Calls}
Saved == UNION {Elements(revisions[v]) : v \in 1..Latest}
EditsKept == crossed \/ 1..made \subseteq Held \cup Saved \cup givenUp

\* Whenever the store tells the guard of the navigation, or the event of an
\* archived design, that nothing is unsaved (designer-store.ts:123-134, 1380), every
\* edit is in a revision or was given up or written over before.
UnsavedKnown ==
    crossed \/ left \/ HasUnsavedChanges \/ 1..made \subseteq Saved \cup givenUp

\* No revision holds an edit twice, whichever answer was lost and however the
\* save was tried again (mutation-idempotency.ts, designer-store.ts:1120-1202).
\* Not so when a restore is started during a save, nor when a late read moves the
\* version under edits that are still to be saved (designer-store.ts:1425-1442):
\* a save tried again is then another save.
AppliedOnce ==
    crossed \/ overtaken \/ \A v \in 1..Latest : \A i, j \in 1..Len(revisions[v]) :
        revisions[v][i] = revisions[v][j] /\ revisions[v][i] # OtherEdit => i = j

\* What a conflict recovery protects stays as it is until the user discards it or
\* leaves, or the design is archived (designer-store.ts:1204-1328): no late answer
\* replaces or clears it.
RecoveryKept ==
    ~crossed /\ conflictRecovery # None /\ conflictRecovery' # conflictRecovery =>
        Leave \/ ArchivedElsewhere \/ DiscardRecovery \/ \E v \in Versions : RecoveryDiscarded(v)

\* An edit is kept until it is saved, and known to be unsaved until then; it is saved
\* once, and safe in a recovery.
EditsSafe == [](EditsKept /\ UnsavedKnown /\ AppliedOnce) /\ [][RecoveryKept]_storeVars
=============================================================================
