# FormaSpec in TLA+

FormaSpec is a design tool: people edit documents in a browser, agents propose
changes over MCP, and one Node process (`apps/server`) keeps everything in a
SQLite database it drives synchronously. This directory holds TLA+ models of the
parts of the system whose correctness depends on the order of events, TLC
configurations that check them, and proofs that TLAPS checks. Paths are those of
the repository; `S/` stands for `apps/server/src/`, `W/` for `apps/web/src/` and
`C/` for `packages/core/src/`.

Contents: [inventory](#inventory) · [how the code is modelled](#how-the-code-is-modelled) ·
[modules](#modules) · [runs](#runs) · [fairness](#fairness) · [proofs](#proofs) ·
[findings](#findings) · [bounds and omissions](#bounds-and-omissions) ·
[not modelled](#not-modelled) · [plan](#plan)

## Inventory

| Component | State | Operations | What makes it correct |
|---|---|---|---|
| Design store (`S/service.ts`, `S/db/database.ts`) | designs with a head, immutable revisions, previews, snapshots by content hash, archive tombstones, idempotency rows | create, apply, restore, preview, refine, commit, archive, restore an archive, cleanups | one chain of revisions per design; a request works once; a preview commits exactly what it showed; no live snapshot is collected |
| Design systems (`S/design-system-service.ts`) | releases, pins, upgrade previews | pin, preview and commit an upgrade, migrate to schema 2 | the document's release is the pinned one; an upgrade writes what it previewed |
| Events (`S/events.ts`, `S/http-routes.ts`) | `event_outbox`, subscribers, cursors of the streams | enqueue, flush, replay, live delivery, retention | in order, at most once, nothing lost without a notice |
| Products (`S/product-service.ts`) | products, canonical designs, contexts, move previews | create, update, archive, restore, move a design | an active product points to an active design of its own; an archived one has no active design |
| Planning (`S/enterprise-service.ts`, `W/components/ProductBriefPanel.tsx`) | specifications by version, their previews, interviews; the panel's attempt | preview, commit, time out, retry; answer, complete | a save makes one version, exactly what it asked for; no answer replaces one unseen |
| Agent tasks (`S/enterprise-service.ts`, `S/preview-task-binding.ts`) | tasks, transitions, previews bound to tasks | create, claim, start, propose, approve, reject, cancel, fail, expire | one unfinished preview task; only the reviewed preview is committed |
| Agent connections (`S/enterprise-service.ts`, `S/agent-connection-replacement.ts`) | connections, pairing nonces, grants, replacement intents | create, renew, pair, replace, revoke, expire | a nonce buys one grant; what is replaced is served until its successor is active and not longer; the limit holds |
| Sessions (`S/session-auth.ts`) | the administrator, the bootstrap credential, browser sessions | bootstrap, login, use, logout, expire, restore | one live session; an ended one never comes back |
| Handoffs (`S/workspace-handoff-service.ts`) | inventories, handoffs by version, reviews, execution decisions | draft, review, approve, decide, implement, complete, map | what is built is what was approved; every decision saw the last one |
| Redesign studio (`S/redesign-studio-service.ts`) | assessments, stages, artifacts | create, revise, advance, return, approve, complete | stages in order, on one version of the design and of the repository |
| Policy and retention (`S/organization-policy-service.ts`) | policy versions, outbox rows, retention plans | update, delete | deletion of old rows leaves what is not published |
| Rendering (`S/render.ts`, `S/render-job-store.ts`, `S/renderer-ipc.ts`) | slots, waiters, job rows with leases, a socket | queue, start, succeed, fail, recover | slots come back; one final state per job, and the caller is told that one |
| Backups (`S/operations-service.ts`, `S/backup-retention.ts`) | bundles, rows, the operational lock | create, verify, prune | one a window; a prune deletes what was previewed |
| Restore (`S/backup.ts`, `S/restore-worker.ts`, `S/restore-control.ts`, `S/maintenance.ts`) | data directory, journal, operation record, marker, worker lock | set the marker, exchange, recover, roll back, reconcile, clear, abort | a crash leaves the old data or the new; the server stays out |
| HTTP routes, MCP (`S/http-routes.ts`, `S/mcp.ts`) | none | parse, call, answer; SSE; an awaited render | what spans an await |
| Web editor (`W/store/designer-store.ts`) | document, pending operations, undo and redo, a save in flight, a recovery draft | edit, undo, save, review, restore, recover, refresh, leave | no edit is lost without a notice or applied twice; undo gives back what was shown |
| Core (`C/tree.ts`, `C/applyOperations.ts`, ...) | none: pure functions on documents | operations, trees, responsive groups, validation | the result is a valid forest |
| Command line (`apps/cli/src/docker-restore.ts`) | none of its own | supervise a restore | server, worker and commands never overlap |
| Portable export and import, assets, scripts | files | | not modelled, see below |

**How they interact.** HTTP routes and MCP tools call the services. A service
runs one immediate SQLite transaction per request; events are rows of
`event_outbox` written in the same transaction and published after it by
`flushPendingEvents`. Products, tasks and design systems all write revisions
through `commitDocumentInTransaction`. Previews are shared by the editor, the
agents and the tasks; snapshots are shared by revisions, previews and
design-system upgrades, and `cleanupPreviews` collects them for all. Handoffs and
redesign assessments rest on a design version and a repository inventory that
change without them. A restore replaces the directory under all of them while
the server is down, and revokes the sessions and grants that come back with it.

**What is hard.** Requests are retried, duplicated and late, and two clients work
from the same version. A preview is made at one moment and committed at another,
with edits, archival, upgrades of the server and expiry between the two. A render
or a password hash is awaited between a check and the write it allows. Locks and
leases run out under owners that are only slow. A process may stop between any
two file operations of a restore or a prune. A browser edits on while its save is
on its way. `PROJECT.json` lists 40 hazards at their lines, each with the
properties that would catch it.

## How the code is modelled

* better-sqlite3 is synchronous and Node runs one thread, so a transaction, or a
  handler without `await`, is one action. An `await` and a crash point end an
  action.
* A request that is refused throws and its transaction is rolled back: it is the
  request whose action is not enabled. Where a refusal leaves a trace, because it
  writes before or outside the transaction, there is an action for it
  (`RefuseCommit`, `RefuseTransition`, `RefuseApproval`, `RefusePreviewWork`,
  `RefuseAttempt`, `UndoRefused`).
* The network is not a variable where late and repeated requests can be offered in
  every state instead: every request of a set may arrive any number of times, a
  superset of loss, duplication, delay and retry (`DesignStore`, `Handoff`). Where
  the client keeps what it sent, calls under way are state (`ProductPlanning`,
  `EditorStore`, `EventStream`).
* Time is a counter that an external action advances. Timestamps are compared as
  the code compares them.
* Documents are what properties need of them: a revision and a set of edits, a
  content with a schema and a release, a sequence of edits, or, in
  `DesignDocument`, a forest of nodes. A content hash is the content.
* Constants whose names begin with `Max` are bounds, and no part of the program.
* History variables are read by properties, never by the program's guards, except
  where a comment says otherwise.
* Operators named `X_Y` are mutated forms of `X`. They show of a property that a
  plausible mistake in that code breaks it; no specification uses them.

## Modules

An `MC…` module only gives constants and constraints; a `…_proofs` module only
holds proofs. `PROJECT.json` maps every definition to its lines.

**`RevisionLog`** is the abstract specification of the design store: for each
design, a log of edit sets that grows by one entry at a time, an entry keeping
every edit of the one before it unless it restores an earlier one, and not growing
while the design is closed. It can be read as the contract of the revision API.

**`DesignStore`** is `DesignerService` with its tables, which are variables of the
same names; `engine` is the triple of versions the running server compares.
`Remember`, `Found`, `Answers` and `ReplayRequest` are `withIdempotency`
(`S/service.ts:3120`), `CommitDocument` is `commitDocumentInTransaction` (2581),
`CreatePreview` and `RefinePreview` are the two branches of `createPreview`, and
`CleanupPreviews` is the retention that create, commit and the constructor run.
`ImplementsRevisionLog` is the refinement.

**`DesignSystemUpgrade`** follows one project: the documents of its history with
their schema and release, its pin, upgrade previews and ordinary previews.
`Restricted` stands for the `ON DELETE RESTRICT` keys; `CleanupBlocked` is the
DELETE that fails on them, and every operation that begins with the cleanup has
its negation as a guard.

**`EventStream`** has the outbox (`stored`, `pending`), the process (`up`), the
streams (`open`, `cursor`, `wire`) and the browsers (`lastSeen`). `Flush` publishes
and marks, `Crash` may stop in the middle of it, `Connect` and `Resume` are
`sendSse` without and with `Last-Event-ID`, `Retain` is the deletion by the
retention policy.

**`ProductCatalog`** has products, designs, editor contexts and move previews. The
database also has triggers that abort a transaction which would break the
catalogue; they are left out so that the invariants say the services do not rely
on them. **`ProductPlanning`** extends it with the specification of one design and
its planning interviews: the server's two calls (a preview, its commit) and the
brief panel that makes them, gives each thirty seconds, and tries again.

**`AgentTasks`** has the design-preview tasks of one design. Creation of a preview
and the recording of its render are separate actions, since the render is awaited
between them (`S/mcp.ts:1385`). States are materialised when a request looks, as in
`materializeDesignPreviewTaskStates` (`SettledTasks`, `SettledPreviews`).

**`AgentConnections`** has the connections of one organization. A row with its
nonce is `connections[c]`; `intents` are the `agent_connection_replacement:` rows
of `system_metadata`. `StagePending` is what creation and renewal share,
`PairAgentConnection` and `ExpirePairing` are the two commits of
`pairAgentConnection`, `Usable` is what `resolveAccess` checks of a grant. Pairing
always makes a new principal, so a grant names its connection.
**`BrowserSessions`** extends it with the password administrator: a bootstrap or a
login is an attempt that begins, waits for a hash and finishes, over restarts of
the server and restores of a backup, which `RestoreSessions` makes together with
`RestoreBackup` of the connections, as the one transaction of the worker does.
A name is an adapter with a display name; the two names the installer has given its
Codex connections are reconciled together, so that a connection of one replaces
those of the other (`ReplacementNames`, `S/enterprise-service.ts:1527-1532`).

**`RestoreExchange`** is `restoreVerifiedBackup` (`S/backup.ts`): one action is one
durable effect, and `step` is where the worker process is. **`RestoreOperation`**
extends it with the worker around it, its lock and record, the maintenance marker,
the commands that set, clear and cancel it, and the start of the server. `Fail` and
`FailOutside` are errors of any file operation, `WorkerDies` and `ControlDies` are
deaths between any two. The content of an entry is old, new or mixed: `Opened` is
what SQLite does to a database that finds a log beside it.

**`EditorStore`** is the optimistic store of the editor with as much of the server
as answers it: requests are under way in variables, answers come late. `crossed`
and `overtaken` are history: a save, approval or restore was started in the middle
of another one, and a late read was shown over edits that were not yet saved.
What was edited beside a review is put on its base when the review is discarded, or,
where it does not apply there, cleared: whether it applies is a free choice of
`DiscardReview`. An answer onto whose revision what is pending does not apply throws
and is for the store a lost answer (`Lose`). `ArchivedElsewhere` clears the store as
`Leave` does, without asking.
**`DesignDocument`** has the documents of `packages/core` as a forest with
responsive groups, component instances and links, and its operations and validation
as operators; **`EditorGestures`** extends both with the gestures of the editor,
undo and redo.

**`Handoff`** has inventories, handoffs and the decisions under which one is
approved, started and completed; a decision is asked for by somebody who read the
handoff at any earlier moment (`AsSeen`). **`RedesignStudio`** extends it with
assessments.

**`RenderQueue`** has the slots and waiters of a `PngRenderer` (`active`,
`waiters`), the job rows with their leases, and the worker behind the socket. The
promises of `render.ts` are the places a job is in; `Release` resolves the first
waiter, and `Wake` is the microtask that goes on after it.

**`BackupSchedule`** has backups with their rows and bundles, the operational lock
and prunes: `CommitPrune` is the transaction that renames bundles and deletes rows,
and a crash may leave it half way.

## Runs

Every run checks deadlock except `EditorStore`, `Handoff` and `RenderQueue`, whose
users or jobs may come to an end. Symmetry is used for safety only, over ids of
which nothing but equality is asked. Bounds end a behaviour, never a case: each is
the least at which every action of the module happens.

**`DesignStore`** — two designs, two actors, requests that reuse keys with other
input, four revisions, three instants with a "day" of one; either writes on two
designs, or previews on one with upgrades of the engine. Four revisions let one
design reach version 3 beside the other; the instants let a reply be forgotten and
its retry come after.
*`LinearHistory`*: revisions of a design are one chain to its head.
*`RequestsWorkOnce`*: a request makes one revision at most, even after its
idempotency row is gone, works once while it is there, and is answered with what it
did itself. *`CommittedExactly`*: a committed preview is one revision, the document
previewed on the base it was previewed against. *`ReferencesKept`*: no snapshot a
row names is collected, and a tombstone names the head of its design.
*`PreviewLifecycle`*: only an unexpired preview without errors, by the engine that
made it, is committed; an ended one stays ended. *`ImplementsRevisionLog`*: the
refinement.

**`DesignSystemUpgrade`** — three releases of two systems, two upgrade previews,
five versions: a migration, an edit, an upgrade and a restore of a version from
before the upgrade fit. *`UpgradeSound`*: the head names the pinned release; an
upgrade preview that can be committed still leads to what it showed; a committed
one wrote exactly that; nothing else moves a pin. **`DesignSystemUpgrade_reopen`**
is the finding.

**`EventStream`** — one reader of two of three kinds, a replay of one row, four
events, retention at any age: the reader can be more than one replay behind.
*`ToldOnce`*: no event twice, none after a younger one, and up to the id a client
resumes from it was given all it may read or told of a gap, but for rows retention
deleted. *`EventuallyTold`*: every event reaches every reader, or a gap does.

**`ProductCatalog`** — two products, two designs, two competing moves, a context; or
one panel saving twice beside an agent's proposal; or one interview of two writers.
*`CatalogueKept`*: the canonical design of a product is active and its own, an
archived product has no active design, a context can be read, and a move changes
what its preview said. *`PlanningSound`*: a save makes one version, exactly what it
asked for, whichever of its calls time out; what the panel shows is what the server
has; no answer takes the place of one its author has not seen; when a save ends, the
panel has its draft still, or names the version of the draft that the save began
with. What is added to a draft while its save runs is not promised to survive, and
does not (see *Planning* under Findings).

**`AgentConnections`** — three connections of three names, two of which are the
installer's (`Managed`), or four of those two (a chain of three stagings beside a
fourth), under a limit of 2 that may be lowered to 1, lifetimes of 2, a nonce
that lives 1; or three overlapping attempts of sessions with two bootstrap tokens
and a backup. *`PairingSound`*: a nonce buys one grant; intents name what their owner
still replaces, of its own name or, for one of the installer's, of the other.
*`Handover`*: a replaced connection is revoked in the step that activates its
successor, and a grant stops working for no other reason than that, its own
revocation, a restore, time or policy. *`AdmissionWithinLimit`*:
no staging or pairing leaves more logical connections than the limit.
*`SessionsSound`*: one live session, an account exactly when its credential was
used, and an ended session is never served again.

**`AgentTasks`** — two agents, two tasks after each other, two previews, three
versions, two engines, expiry of both kinds. *`ProposalExact`*: the design
has one unfinished task; what is proposed is a rendered preview of that task, its
claimer and its base; a completed task is one committed preview. *`TaskLifecycle`*: the
graph of states, no second claimer, no ended preview brought back.

**`RestoreOperation`** — a database, its log, a file only the old data has and one
only the backup has; errors and deaths without bound. *`ExchangeSound`*: until a
commit every old entry is live or saved; after it the old data never comes back and
the backup is never gone; the record says what the directory is. *`ServedSafely`*:
the server never has the database open beside a worker or in an unfinished
exchange, and what it acknowledged is in the safety backup.

**`EditorStore`** — two edits, one destructive, three versions, two keys, and a third
edit while no read runs, nothing crosses anything and the user is there
(`ThirdEdit`): beside a save or a review of the first two; or two gestures, two of
them undone, on four first documents of five nodes and two pages.
*`EditsSafe`*: an edit is kept until it is saved, given up knowingly, or written over
where the model says so (`WritesOver`: a restore, a captured recovery, a discarded
review on whose base it does not apply, the archival of the design by somebody);
until then the store says that something is unsaved (`UnsavedKnown`); it is applied
once, and a recovery draft is kept. It excepts what larger instances show the code
to do (see *Editor* under Findings): losses once requests were started across each
other (`crossed`), and edits applied twice after a late read (`overtaken`).
*`GesturesSound`*: every active node is drawn
once, under its ancestors; what is selected can be archived unless an instance
names it; undo and redo give back what was shown and change only what the gesture
named.

**`Handoff`** — one handoff through draft, review, approval, implementation and
completion, eight decisions one of which may be a refusal; or one assessment beside
an approved handoff; two inventories, two design versions. *`BuiltAsApproved`*: an
approved or started handoff is the version that was approved, and a completed one
had leave for the evidence at hand. *`DecidedInSight`*: every decision saw the last
one of its kind. *`RedesignSound`*: what lies behind a stage is reviewed, and a
completed redesign had one version of the design and the repository throughout.

**`RenderQueue`** — three jobs of two processes, one slot, one place in the queue, a
crash, in the process or behind the socket. *`AnsweredAsRecorded`*: a caller is told
what its row says. *`NoSlotLost`*: slots are counted exactly, the queue holds those
who wait, nobody waits beside a free slot. *`EveryJobEnds`*: every call is answered
and every row ends.

**`BackupSchedule`** — two requests, two backups, locks and windows of one tick, two
policies. *`BackupsSound`*: a row that is valid has its bundle, and a window has one
scheduled backup unless one was found invalid or outlived its lock.
*`PrunedAsPreviewed`*: rows go together, as a current preview said, leaving what the
policy keeps.

## Fairness

`EventStream`: `Flush` is weakly fair, as services call it after a transaction and
the server with every response (`S/app.ts:342`), and the health checks of a
deployment alone are requests. `Start` is weakly fair: a supervisor restarts the
process. Opening a stream and receiving from it are strongly fair for each client:
`EventSource` retries while the page is open, and a connection that is made again
and again in the end lives long enough to carry a message. A stream that is opened
without `Last-Event-ID` owes its client nothing up to the id it starts at.

`RenderQueue`: timers fire, so the tick of the leases in a live process and the
lapse of those of a dead one (`up[p] = "down" /\ Lapse(p)`) are weakly fair, and a
stopped process is started; continuations and the two limits of time (Chromium's,
the client's) run, so `Wake`, `Finish`, `Connect` and `Settle` are weakly fair for
every job. A lapse under a live owner is possible and not assumed. That `Finish` comes
rests on Chromium: its launch and the opening of a page come before the race with
the limit of the render, and are taken to return in one way or the other.

Nothing is assumed of requests, edits, retention, disconnects, errors or crashes.
`RestoreOperation` has no liveness: some crashes need an operator, see below.

## Proofs

Every theorem holds for all values of the constants that meet the module's named
assumptions (times and bounds are natural, values that stand for "none" are no ids,
sets that are counted are finite). Forty-four theorems are listed in
`PROJECT.json`; 36 of the 40 properties the passing runs check are stated by one.
Three modules hold the proofs of two unrelated components each, one after the other.
In each module the argument is the same: an inductive invariant, one lemma for each
action that disturbs it, and theorems that follow from it by temporal reasoning.

* **`DesignStore_proofs`**: `TypeCorrect`, `HistoryIsLinear`,
  `RequestsWorkOnceAlways`, `CommittedExactlyAlways`, `ReferencesKeptAlways`,
  `PreviewLifecycleAlways`, `StoreImplementsLog`. Only `CreateDesign` and
  `CommitDocument` write revisions. That a parent is an existing row needs the
  types, so linear history is proved with them. For requests the invariant
  (`RequestsInv`) adds that a revision sits on the base its request named, which is
  what makes a retry fail after its row is forgotten. For snapshots it
  (`PreviewsInv`) adds that a result has the edits of its base. The refinement maps
  revisions to logs by choosing the row of a version, which is unique by
  linearity; every step appends to one log or stutters.
* **`ConnectionsAndEditor_proofs`**, of `AgentConnections` and `BrowserSessions`:
  `PairingSoundAlways`, `HandoverAlways`,
  `AdmissionAlways`, `AccessTypeCorrect`, `SessionsSoundAlways`,
  `AccessKeepsConnections`. Types, `OneGrant` and `IntentSound` are inductive only
  together: the type of a new grant needs that there is no earlier one, that of a
  row revoked by a pairing that its intent names a row. In `PairAdmission` the
  closure of intents does the work: a connection that only the intent of a revoked
  one hid is itself revoked, so a pairing counts nothing anew. Sessions need that
  a waiting attempt's checks can be undone only in ways its finish sees
  (`WaitingSound`), and that a backup was sound when taken. That an intent stays
  within the names it may replace over chains of replacements is that names stand
  for each other in classes (`ReplacementNamesClass`).
* **`ConnectionsAndEditor_proofs`**, of `EditorStore`: `StoreInvariant`,
  `StoreTypeCorrect`, `StoreEditsSafe`; and of `EditorGestures`, which runs it
  (`EditorRunsStore`): `EditorEditsSafe`. `StoreInv` has four parts. `Well` gives types and what
  a request can be at. `KeysWell` says that a key stands for one set of operations
  on one version, whether the last attempt, a review or a request holds it, and that
  the revision it was answered with is that version with those operations: a save
  tried again is answered with its own revision. `Holding` says, while nothing was
  started across anything else, which places hold edits together: one request
  commits at a time, none beside a recovery, and a recovery protects what is pending
  and stored, so that ending any one place loses nothing; and that a request on its
  way shows as saving or carries what is pending again (`Noticed`), from which
  `UnsavedKnown` follows. `Ordered` replaces "no
  edit twice", which is not inductive: edits are numbered as they are made, every
  revision is in their order, and what is to be saved follows whatever is saved
  unless the server's head moved, and then the save can only conflict.
* **`AgentTasks_proofs`**: `TypeCorrect`, `ProposalExactAlways`,
  `TaskLifecycleAlways`. The invariant adds that proposals exist: of a row that is
  not there nothing is known. That what is proposed is not committed needs
  `CompletedExactly`, since the tasks share previews' rows.
* **`EventsAndUpgrades_proofs`**, of `EventStream`: `TypeCorrect`, `ToldOnceAlways`. The invariant speaks of
  everything between an event and its reader: what is received is below the last
  id seen, what is on the wire is ordered and above it, wire and receipts together
  leave nothing out up to the cursor, and the cursor of an open stream has passed
  every published row. That a replay can be enumerated in order is proved from the
  well-foundedness of `<` by a least counterexample (`Smallest`), where induction
  over sets is out of reach.
* **`EventsAndUpgrades_proofs`**, of `DesignSystemUpgrade`: `UpgradeTypeCorrect`,
  `UpgradeSoundAlways`. `UpgradeInv` says of a published upgrade row only what lasts:
  its two releases are of one system and in order, its version is in the history,
  and while its snapshots are there its result is that version's document under the
  new release. That base and pin are still those it names is not part of it; the
  commit compares them. The head names the pin because every other way to write a
  revision keeps the release of the head, or takes that of the pin.
* **`Handoff_proofs`**: `TypeCorrect`, `BuiltAsApprovedAlways`,
  `DecidedInSightAlways`, `StudioTypeCorrect`, `RedesignSoundAlways`,
  `StudioKeepsHandoffs`. The invariant adds what was approved last (`LastApprovals`)
  and, for assessments, that a binding which is current was never disturbed
  (`DriftTold`): versions and inventories never come back.
* **`RenderQueue_proofs`**: `TypeCorrect`, `NoSlotLostAlways`,
  `AnsweredAsRecordedAlways`. The type of a counter needs `NoSlotLost`, since a
  release subtracts from it; `RowsTell` ties a row's state to the place of its job.
* **`BackupSchedule_proofs`**: `TypeCorrect`, `BackupsSoundAlways`,
  `PrunedAsPreviewedAlways`. Who is sure of its lock excludes the others
  (`Exclusive`), and what it found due is still due when it records its row
  (`StillDue`).
* **`RestoresAndPlanning_proofs`**, of `RestoreOperation`: `TypeCorrect`,
  `ExchangeSoundAlways`, `ServedSafelyAlways`. The invariant says where every entry of the data and of the
  backup can be, relative to the base: the old data until a commit stands, the
  backup after it, and after a death in a health check nothing but that the entry is
  somewhere. It is tied to the journal and not to the worker, so that it survives
  every death: outside the moving phases the directory is whole (`AtRest`), inside
  them an original is live or saved and a candidate staged or live, with at most one
  of them in the live place (`OriginalPlaced`, `CandidatePlaced`). A run that
  recovers starts from the journal's phase alone (`StepJournalled`). The parts of
  the exchange are proved against `ExchangeInv`, which knows nothing of markers and
  servers; the rest of the invariant says which processes exclude each other.
* **`RestoresAndPlanning_proofs`**, of `ProductCatalog` and `ProductPlanning`:
  `CatalogueAlwaysKept`, `PlanningRefinesCatalogue`, `PlanningTypeCorrect`,
  `PlanningSoundAlways`. `CatalogueInv` adds to what `CatalogueKept` says that a
  previewed move joins two products: without it a move could take the canonical
  design from the product it gives it to. Every step of planning is a step of the
  catalogue or leaves it alone, so what holds of the catalogue alone holds of both.
  `SavingInv` follows a save through every place it can be: the panel's attempt, the
  calls under way with their answers, the previews, the replies that are
  remembered, and the versions. Versions and answered keys name each other
  (`VersionsAnswered`, `AnswersVersions`); a key belongs to one attempt or one
  agent's call, however often its calls are made (`CallsApart`, `AttemptsApart`); a
  preview that a call or an attempt names was made of that call's brief and base
  (`CallWell`, `PanelWell`). So a commit that comes late, or for the second time, has
  nothing to say that its first had not. `InterviewInv` says of an interview's answers
  that each names the one it replaced, and of what a writer has on the screen that it
  is the row or an older one. Lemmas say what only grows (`Later`), so that all this
  survives other steps.

Only model-checked: the liveness properties `EventuallyTold` and `EveryJobEnds`,
since neither liveness under fairness nor `ENABLED` is within the prover's reach;
and of the editor `GesturesSound` and `EditorTypeOK`, which speak of documents: what
a fold over a tree computes needs induction over data. The part of `EditorTypeOK`
about the store is `StoreTypeCorrect`.

## Findings

**The cleanup of snapshots fails over an upgrade preview of a schema-2 document**
(`S/db/database.ts:3252`; run `DesignSystemUpgrade_reopen`). The DELETE does not
exclude snapshots that `design_system_upgrade_previews` names with
`ON DELETE RESTRICT`, and those rows are never deleted. `createPreview`,
`commitPreview` and the constructor call it, so the service does not start over
such a database. `S/design-system-service.test.ts:1618` says it reopens upgrade
previews and uses a schema-1 document.

Read in the code while it was modelled, and not the subject of a run:

* *Events.* A retention gap is derived from the oldest row that is left
  (`S/service.ts:2136`); an old governance event, which is never deleted, hides the
  deletion of everything above it. `ToldOnce` excepts what retention deleted.
* *Products.* An update compares timestamps of a millisecond which the update does
  not force to advance (`S/product-service.ts:361`).
* *Connections.* One pending row may stand for several active ones and takes them
  all out of the count (`S/enterprise-service.ts:2877`); others are admitted in
  their place, and when it is given up they come back. An intent of more than 100
  connections is written (`S/agent-connection-replacement.ts:62`) and then refused
  by its parser.
* *Sessions.* A login that began before the session it would revoke fails with a
  constraint error (`S/db/database.ts:1712`); the action `Overtaken` is that case.
* *Planning.* A draft discarded by leaving while its save runs is committed all the
  same. The text area is disabled during a save, the buttons below it
  (`W/components/ProductBriefPanel.tsx:565-568, 730`) and the copy of an old version
  are not: what they add to the draft meanwhile is dropped when the commit answers
  (505-509). So it is while the panel loads (352-353), and the load runs again when
  the brief in the document changes (371). `PREVIEW_ALREADY_COMMITTED` is not among the codes that reset an
  attempt. After `VERSION_CONFLICT` the panel rebases only when asked again.
* *Redesign.* A return keeps the artifacts of later stages with their review
  status, so an earlier handoff artifact still carries the assessment over. An
  assessment whose design moved can never be bound anew.
* *Handoffs.* `push_authorization` stays valid after a diff was reviewed again and
  another commit approved; an approved validation is not tied to a diff.
* *Backups.* Verifying an old backup again makes it the newest, and a newer one is
  pruned (`S/operations-service.ts:2750-2803`). A crash between the staging of
  bundles and the commit strands them in `.prune-…`.
* *Restore.* (0) An I/O error when `cutover_committed` is written after the journal
  was removed is followed by an automatic abort, and the backup is served without
  reconciliation (`S/restore-control.ts:394-448`). (1) A crash in the health check
  leaves the candidate's log beside the old database. (2) A log both saved and live
  makes every later rollback throw. (3) A crash before the first journal is written
  needs an operator. (4) After a crash between the record `rolled_back` and the
  marker `rollback` the server refuses to start and the supervisor cannot complete.
  (5) A rollback interrupted after an original was moved back is refused at every
  later recovery, since its first loop then finds that entry live and staged. The
  theorems cover these states: no data is lost in any of them.
* *Editor.* A refresh applies its answer though edits are pending
  (`W/store/designer-store.ts:104-112, 1425-1442`), so an edit made on one version is
  committed on the next without a conflict; and if they are edits of a save whose
  answer was lost, trying again sends them under another key and applies them twice.
  While the conflict of an approval is captured `saving` is already false and an edit
  ends the state of conflict, so a save can start beside it; loading the latest
  version then clears what that save puts back
  (`W/store/designer-store.ts:832-861, 1204-1243`); a late approval clears a review
  that was opened since. The answer to a restore clears edits
  made meanwhile. A review that is discarded clears the edits made beside it when they
  do not apply on its base, and calls the state saved (890-900); `WritesOver` counts
  them. When the design is archived by somebody (1379-1424), everything is cleared and
  a file is offered that holds the canvas and what is pending, not what is in flight
  except as part of the canvas, nor a recovery that could not be stored. A save that fails after its design was left and opened again
  brings its operations back. Panels that commit on their own reopen the design and
  drop edits.
* *Gestures.* A template draws its label's id anew on every application, so an edit
  of the label before the save makes every save of that queue fail
  (`W/store/designer-store.ts:650-672`). The validator checks archived instances and
  tokens too (`C/validation.ts:385`), so a component once used cannot be archived.
  A duplicate of a frame of a responsive group is always refused. An undo that
  names an archived node is refused and blocks those below it. Batches of schema 1
  on schema-2 documents with a component of several states always throw
  (`C/compatibility-v2.ts:742-775`).
* *Rendering.* A woken waiter counts itself in a later microtask, so `active` may
  exceed the concurrency for a while; that limit is therefore no property here.

## Bounds and omissions

* `DesignStore`: the content of documents; whether a result has errors is a free
  choice. Authorization beyond who owns a preview or a key.
* `DesignSystemUpgrade`: whether a release is compatible is a free choice; authoring
  of releases.
* `EventStream`: heartbeats, the content of an event, changes of a reader's rights.
* `ProductCatalog`: the replay of idempotent operations. `ProductPlanning`: failed
  and repeated loads of the panel, agents' retries, readiness reports, history listing, archived
  designs; one client and one agent, at most two calls under way.
* `AgentTasks`: other expected outputs of tasks, archived designs, the data of
  failures.
* `AgentConnections`: `last_used_at`, the legacy token of the environment.
  `BrowserSessions`: the counters that lock logins (they only refuse), disabled
  principals, roles, header identities, eviction at capacity.
* `RestoreOperation`: offline and forensic modes; one exchange of the old data at a
  time; clearing a stale lock is one step; an error of a journal write at the
  committed phase comes before its rename, never after it.
* `EditorStore`: keyboard shortcuts while loading, several designs, duplicates of a
  draft. `DesignDocument` and `EditorGestures`: tokens, images, metadata,
  positions, duplicates of several roots, locked and hidden layers; new ids are the
  next ones and the width of a frame is its id. In the composition a review that is
  discarded does not move the canvas of the gestures: that it moves the document back
  and keeps the undo stack is not shown.
* `Handoff`: roles, payload limits, idempotent replay; a branch and its worktree
  are one. `RedesignStudio`: what artifacts hold; the policy is fixed during it.
* `RenderQueue`: what is drawn, limits of pixels and bytes, fallback browsers, the
  retention of rows, a context that never closes; errors before a slot is acquired,
  which are a job that acquires and fails; in the run the callers of a socket are all
  of one process.
* `BackupSchedule`: changes of the schedule, uploads, downloads, the format of
  archives.

## Not modelled

Portable export and import serialize and validate archives with one transaction at
the end; assets are one write and a rename; scripts build and package. The
installer, bridges and most of the command line drive processes and files of a
host. MCP tools and routes parse, authorize and shape answers, and the client's
`api.ts` is their mirror image. The second document schema with its migrations,
projections, tokens and overrides is large, pure and without state. Readiness
reports are computed and not kept. The previewed plan of audit retention is a
smaller form of the prune in `BackupSchedule`. These make up most of the lines the
map does not name.

## Plan

Done: the modules, runs and theorems above.

Not provable here and left to TLC: what recursion over a tree computes (the gestures
and the types of documents), and liveness.
