-------------------------- MODULE RestoreOperation --------------------------
(***************************************************************************)
(* A managed restore around the exchange of RestoreExchange: the worker     *)
(* with its lock and its durable operation record (restore-worker.ts,       *)
(* restore-operation-store.ts, restore-worker-lock.ts), the maintenance     *)
(* marker and the commands that set, clear and cancel it                    *)
(* (maintenance.ts, restore-control.ts), the start of the server            *)
(* (app.ts), and the supervisor that runs them (docker-restore.ts).         *)
(*                                                                         *)
(* Any file operation may fail and any process may die between two of       *)
(* them, any number of times.                                               *)
(***************************************************************************)
EXTENDS RestoreExchange

VARIABLES
    marker,     \* the phase of the maintenance marker; "none": inactive
    operation,  \* the phase of the operation record; "none": there is none
    lock,       \* who made the worker lock: "free", "worker" or "control"
    control,    \* what a control command under the lock does next
    api,        \* whether the server has the database open
    revoked,    \* the credentials that came with the backup are revoked
    safety,     \* this operation's safety backup is recorded in the database
    inFlight,   \* a request that found no marker and will write
    unsaved     \* history: a write acknowledged since the safety backup

fenceVars == <<marker, operation, lock>>
requestVars == <<inFlight, unsaved>>
restVars == <<revoked, safety, requestVars>>
vars == <<exchangeVars, fenceVars, control, api, restVars>>

\* What a step of the worker leaves alone beside its own place: everything on
\* disk, or all but the data directory.
diskState == <<diskVars, journal, goal, historyVars>>
exceptLive == <<saved, staged, journal, goal, historyVars>>

Terminal == {"reconciled", "rolled_back"}

-----------------------------------------------------------------------------
(* The worker.                                                              *)

\* Mutant: the worker is started beside the server.
StartWorker_Beside ==
    /\ step = "idle"
    /\ lock = "free"
    /\ marker # "none"
    /\ lock' = "worker"
    /\ Go("begin")
    /\ UNCHANGED <<diskState, marker, operation, control, api, restVars>>

\* The supervisor has stopped the server and runs the worker under the marker.
StartWorker ==
    /\ step = "idle"
    /\ lock = "free"
    /\ api = "down"
    /\ marker # "none"
    /\ lock' = "worker"
    /\ Go("begin")
    /\ UNCHANGED <<diskState, marker, operation, control, api, restVars>>

\* runRestoreWorkerWithLockHeld goes on where the record says.
Begin ==
    /\ step = "begin"
    /\ Go(CASE operation = "none" /\ marker = "restore" -> "open"
            [] operation = "prepared" /\ marker \in {"restore", "verification"} -> "exchange"
            [] operation = "cutover_committed" -> "reconcile"
            [] OTHER -> "release")
    /\ UNCHANGED <<diskState, fenceVars, control, api, restVars>>

OpenLive ==
    /\ step = "open"
    /\ live' = Opened(live)
    /\ Go("backup")
    /\ UNCHANGED <<exceptLive, fenceVars, control, api, restVars>>

\* createSafetyBackup: the one recorded for this operation, or a new one of what
\* the database holds now.
SafetyBackup ==
    /\ step = "backup"
    /\ safety' = TRUE
    /\ unsaved' = IF safety THEN unsaved ELSE FALSE
    /\ Go("prepare")
    /\ UNCHANGED <<diskState, fenceVars, control, api, revoked, inFlight>>

Prepare ==
    /\ step = "prepare"
    /\ operation' = "prepared"
    /\ Go("close")
    /\ UNCHANGED <<diskState, marker, lock, control, api, restVars>>

CloseLive ==
    /\ step = "close"
    /\ live' = Closed(live)
    /\ Go("exchange")
    /\ UNCHANGED <<exceptLive, fenceVars, control, api, restVars>>

\* A step of the exchange; the health check moves the marker before it opens
\* the database.
RunExchange ==
    /\ \/ Exchange /\ UNCHANGED marker
       \/ OpenCandidate /\ marker' = "verification"
    /\ UNCHANGED <<operation, lock, control, api, restVars>>

\* restoreVerifiedBackup threw: a journal that proves the rollback is audited.
Failed ==
    /\ step = "failed"
    /\ Go(IF journal.phase = "rolled-back" THEN "audit" ELSE "release")
    /\ UNCHANGED <<diskState, fenceVars, control, api, restVars>>

\* appendRollbackAudit opens the database that is live now ...
OpenForAudit ==
    /\ step = "audit"
    /\ live' = Opened(live)
    /\ Go("auditing")
    /\ UNCHANGED <<exceptLive, fenceVars, control, api, restVars>>

\* ... and wants to see the safety backup in it, which the old one has, the
\* backup has not, and a mixture may have.
Audit ==
    /\ step = "auditing"
    /\ live' = Closed(live)
    /\ \/ live[Database] \in {"old", "mixed"} /\ Go("mark")
       \/ live[Database] \in {"new", "mixed"} /\ Go("release")
    /\ UNCHANGED <<exceptLive, fenceVars, control, api, restVars>>

MarkRolledBack ==
    /\ \/ /\ step = "mark"
          /\ operation' = "rolled_back"
          /\ Go("fence")
          /\ UNCHANGED marker
       \/ /\ step = "fence"
          /\ marker' = "rollback"
          /\ Go("release")
          /\ UNCHANGED operation
    /\ UNCHANGED <<diskState, lock, control, api, restVars>>

RecordCutover ==
    /\ step = "record"
    /\ operation' = "cutover_committed"
    /\ Go("reconcile")
    /\ UNCHANGED <<diskState, marker, lock, control, api, restVars>>

\* reconcileAfterRestore: one transaction that revokes everything; a second run
\* finds its audit event.  Then the record.
Reconcile ==
    /\ \/ /\ step = "reconcile"
          /\ IF marker = "verification"
             THEN revoked' = TRUE /\ live' = Closed(Opened(live)) /\ Go("finish")
             ELSE UNCHANGED <<revoked, live>> /\ Go("release")
          /\ UNCHANGED operation
       \/ /\ step = "finish"
          /\ operation' = "reconciled"
          /\ Go("release")
          /\ UNCHANGED <<revoked, live>>
    /\ UNCHANGED <<exceptLive, marker, lock, control, api, safety, requestVars>>

\* A step outside restoreVerifiedBackup throws.
FailOutside ==
    /\ step \in {"begin", "open", "backup", "prepare", "close", "audit", "auditing", "mark", "fence",
                 "record", "reconcile", "finish"}
    /\ live' = IF step \in {"backup", "prepare", "close", "auditing"} THEN Closed(live) ELSE live
    /\ Go("release")
    /\ UNCHANGED <<exceptLive, fenceVars, control, api, restVars>>

ReleaseLock ==
    /\ step = "release"
    /\ lock' = "free"
    /\ Go("idle")
    /\ UNCHANGED <<diskState, marker, operation, control, api, restVars>>

\* The lock stays behind.
WorkerDies == Die /\ UNCHANGED <<fenceVars, control, api, restVars>>

-----------------------------------------------------------------------------
(* The control commands, under the same lock.                               *)

\* set: the record of an earlier operation is archived, then the marker written.
\* One exchange of the old data at a time is followed.  The command may die
\* before it removes its lock.
SetFence ==
    /\ lock = "free"
    /\ marker = "none"
    /\ operation \in {"none", "rolled_back"}
    /\ Whole(live, OldEntries, "old")
    /\ operation' = "none"
    /\ safety' = FALSE
    /\ \/ marker' = "restore" /\ lock' \in {"free", "control"}
       \/ marker' = marker /\ lock' = "control"
    /\ UNCHANGED <<exchangeVars, control, api, revoked, requestVars>>

\* abort: nothing or a prepared operation, no journal directory, and a live
\* database that passes the checks of its integrity and schema.
Abort ==
    /\ lock = "free" /\ control = "idle"
    /\ marker # "none"
    /\ operation \in {"none", "prepared"}
    /\ journal.phase = "none"
    /\ live[Database] # Absent
    /\ lock' = "control"
    /\ control' = IF operation = "none" THEN "unfence" ELSE "archive"
    /\ UNCHANGED <<exchangeVars, marker, operation, api, restVars>>

\* Mutant: the record gets a phase of its own.
ArchiveCancellation_InPlace ==
    /\ control = "archive"
    /\ operation' = "cancelled"
    /\ control' = "unfence"
    /\ UNCHANGED <<exchangeVars, marker, lock, api, restVars>>

ArchiveCancellation ==
    /\ control = "archive"
    /\ operation' = "none"
    /\ control' = "unfence"
    /\ UNCHANGED <<exchangeVars, marker, lock, api, restVars>>

\* clear: after completion, or after a rollback whose journal it finalizes.
Clear ==
    /\ lock = "free" /\ control = "idle"
    /\ marker # "none"
    /\ operation \in Terminal
    /\ operation = "rolled_back" =>
          \/ journal.phase \in {"none", "empty"}
          \/ journal.phase = "rolled-back" /\ OriginalsAreLive
    /\ lock' = "control"
    /\ control' = IF operation = "rolled_back" /\ journal.phase = "rolled-back"
                  THEN "staged" ELSE "unfence"
    /\ UNCHANGED <<exchangeVars, marker, operation, api, restVars>>

FinalizeJournal ==
    /\ control \in Parts
    /\ Remove(control)
    /\ control' = IF control = "root" THEN "unfence" ELSE NextPart[control]
    /\ UNCHANGED <<step, goal, fenceVars, api, restVars>>

Unfence ==
    /\ control = "unfence"
    /\ marker' = "none"
    /\ lock' \in {"free", "control"}
    /\ control' = "idle"
    /\ UNCHANGED <<exchangeVars, operation, api, restVars>>

ControlDies ==
    /\ control # "idle"
    /\ control' = "idle"
    /\ UNCHANGED <<exchangeVars, fenceVars, api, restVars>>

\* clear-stale-lock, once the supervisor has seen that the owner is gone.
ClearStaleLock ==
    /\ \/ lock = "worker" /\ step = "idle"
       \/ lock = "control" /\ control = "idle"
    /\ lock' = "free"
    /\ UNCHANGED <<exchangeVars, marker, operation, control, api, restVars>>

-----------------------------------------------------------------------------
(* The server.                                                              *)

\* The evidence buildApplication asks for before it opens the database.
MayServe ==
    LET noJournal == journal.phase \in {"none", "empty"}
    IN  \/ marker = "none" /\ operation \in Terminal \cup {"none"} /\ noJournal
        \/ marker = "verification" /\ operation = "reconciled" /\ noJournal
        \/ /\ marker \in {"rollback", "verification"}
           /\ operation = "rolled_back"
           /\ noJournal \/ journal.phase = "rolled-back"

StartApi ==
    /\ api = "down"
    /\ lock = "free"
    /\ MayServe
    /\ api' = "up"
    /\ live' = Opened(live)
    /\ UNCHANGED <<exceptLive, step, fenceVars, control, restVars>>

\* Stopped, or killed with its database open.
StopApi ==
    /\ api = "up"
    /\ api' = "down"
    /\ live' \in {live, Closed(live)}
    /\ inFlight' = FALSE
    /\ UNCHANGED <<exceptLive, step, fenceVars, control, revoked,
                   safety, unsaved>>

\* registerMaintenanceGuard lets a request pass that finds no marker; it may
\* write long after, but only while the server runs.
Admit ==
    /\ api = "up"
    /\ marker = "none"
    /\ inFlight' = TRUE
    /\ UNCHANGED <<exchangeVars, fenceVars, control, api, revoked, safety, unsaved>>

Write ==
    /\ api = "up"
    /\ inFlight
    /\ inFlight' = FALSE
    /\ unsaved' = (unsaved \/ live[Database] = "old")
    /\ UNCHANGED <<exchangeVars, fenceVars, control, api, revoked, safety>>

-----------------------------------------------------------------------------
Init ==
    /\ live = Data(OldEntries \cup {Wal}, "old")
    /\ saved = Nothing
    /\ staged = Nothing
    /\ journal = NoJournal
    /\ step = "idle"
    /\ goal = "failed"
    /\ committed = FALSE
    /\ interrupted = FALSE
    /\ marker = "none"
    /\ operation = "none"
    /\ lock = "free"
    /\ control = "idle"
    /\ api = "up"
    /\ revoked = FALSE
    /\ safety = FALSE
    /\ inFlight = FALSE
    /\ unsaved = FALSE

WorkerNext ==
    \/ StartWorker \/ Begin \/ OpenLive \/ SafetyBackup \/ Prepare \/ CloseLive \/ RunExchange
    \/ Failed \/ OpenForAudit \/ Audit \/ MarkRolledBack \/ RecordCutover \/ Reconcile
    \/ FailOutside \/ ReleaseLock \/ WorkerDies

ControlNext ==
    \/ SetFence \/ Abort \/ ArchiveCancellation \/ Clear \/ FinalizeJournal \/ Unfence
    \/ ControlDies \/ ClearStaleLock

ServerNext == StartApi \/ StopApi \/ Admit \/ Write

Next == WorkerNext \/ ControlNext \/ ServerNext

Spec == Init /\ [][Next]_vars

-----------------------------------------------------------------------------
(* Properties.                                                              *)

WorkerSteps == ExchangeSteps \cup
    {"idle", "begin", "open", "backup", "prepare", "close", "failed", "audit", "auditing", "mark",
     "fence", "record", "reconcile", "finish", "release"}

\* Every variable has its type.
TypeOK ==
    /\ live \in [Entries -> Contents]
    /\ saved \in [Entries -> Contents]
    /\ staged \in [Entries -> Contents]
    /\ journal \in [phase : Phases, started : BOOLEAN,
                    originals : SUBSET Entries, candidates : SUBSET Entries]
    /\ step \in WorkerSteps
    /\ goal \in {"verify", "failed", "record"}
    /\ committed \in BOOLEAN
    /\ interrupted \in BOOLEAN
    /\ marker \in {"none", "restore", "verification", "rollback"}
    /\ operation \in {"none", "prepared", "cutover_committed", "reconciled", "rolled_back"}
    /\ lock \in {"free", "worker", "control"}
    /\ control \in Parts \cup {"idle", "archive", "unfence"}
    /\ api \in {"down", "up"}
    /\ revoked \in BOOLEAN
    /\ safety \in BOOLEAN
    /\ inFlight \in BOOLEAN
    /\ unsaved \in BOOLEAN

\* Until a restore is committed, every entry of the old data is somewhere, in
\* one piece, whatever fails or dies: recovery has something to go back to
\* (recordedRestoreMove, rollbackRestoreCutover, backup.ts:2409-2484).  A death
\* inside the health check is excepted: the log of the candidate's database stays
\* beside the old one, which takes it in when it is opened.
OldDataKept ==
    ~committed /\ ~interrupted =>
        \A e \in OldEntries : live[e] = "old" \/ saved[e] = "old"

\* After the commit the old data never comes back: "a cleanup error must never
\* replace the healthy candidate with the old data or delete the only copy"
\* (backup.ts:3290), over the re-checks and second exchanges of later runs.
CommitStands ==
    committed =>
        /\ \A e \in Entries : live[e] \notin {"old", "mixed"}
        /\ \A e \in NewEntries : "new" \in {live[e], saved[e], staged[e]}

\* What the durable record says of the directory is so: completed is the backup,
\* entire and with its credentials revoked; rolled back is the old data.
RecordedExactly ==
    /\ operation \in {"cutover_committed", "reconciled"} => Whole(live, NewEntries, "new")
    /\ operation = "reconciled" => revoked
    /\ operation = "rolled_back" => Whole(live, OldEntries, "old") \/ interrupted

\* The server never has the database open while a worker runs, nor between the
\* runs of an unfinished exchange (the lock, the marker and the start of the
\* server, app.ts:96-152).
ServedOutsideExchange ==
    api = "up" =>
        /\ step = "idle"
        /\ operation \in Terminal \cup {"none"}
        /\ journal.phase \in {"none", "empty", "rolled-back"}

\* A write acknowledged to a client is in the safety backup before the data it
\* was made in can be replaced, requests that passed the guard before the marker
\* was set included (maintenance.ts:198, createSafetyBackup).
AcknowledgedWritesSaved ==
    ~committed /\ operation = "prepared" => ~unsaved

\* Over any number of failures and deaths the directory is what the journal and the
\* record say, and neither data is lost before the other is in its place.
ExchangeSound == OldDataKept /\ CommitStands /\ RecordedExactly

\* The server stays out of the exchange, and what it acknowledged is not lost to it.
ServedSafely == ServedOutsideExchange /\ AcknowledgedWritesSaved
=============================================================================
