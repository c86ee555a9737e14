--------------------- MODULE RestoresAndPlanning_proofs ---------------------
(***************************************************************************)
(* Proofs about RestoreOperation and the exchange it runs, for every data  *)
(* directory and every backup, and about ProductPlanning and the catalogue *)
(* it refines, for every set of products, designs, moves and replies and   *)
(* every bound.                                                            *)
(***************************************************************************)
EXTENDS RestoreOperation, ProductPlanning, SequenceTheorems, TLAPS

-----------------------------------------------------------------------------
(* Restores: the inductive invariant.                                      *)

\* The data that is replaced: the backup itself once a commit stands.  Of what a
\* death in a health check left nothing is known but where it is.
BaseContent == IF committed THEN "new" ELSE "old"
BaseEntries == IF committed THEN NewEntries ELSE OldEntries
Intact == committed \/ ~interrupted
IsBase(content) == IF Intact THEN content = BaseContent ELSE content # Absent

Quiet == {"none", "empty", "unwritten", "staging", "rolled-back"}
Moving == {"moving-originals", "moving-candidate", "health-check", "rolling-back"}

\* The worker and the commands exclude each other, and the server the worker.
Exclusive ==
    /\ step # "idle" => lock = "worker" /\ control = "idle" /\ api = "down" /\ marker # "none"
    /\ control # "idle" => lock = "control"
    /\ control \in Parts \ {"root"} => journal.phase = "rolled-back"
    /\ control = "root" => journal.phase = "empty"
    /\ api = "up" => journal.phase \in {"none", "empty", "rolled-back"}

\* The journal says where the worker is.
StepJournalled ==
    /\ step \in {"open", "backup", "prepare", "close"} => journal.phase \in {"none", "empty", "rolled-back"}
    /\ step \in {"verify", "make", "record"} => journal.phase = "none"
    /\ step = "directories" => journal.phase = "empty"
    /\ step = "write" => journal.phase = "unwritten"
    /\ step \in {"extract", "plan"} => journal.phase = "staging"
    /\ step = "originals" => journal.phase = "moving-originals"
    /\ step = "candidates" => journal.phase = "moving-candidate"
    /\ step \in {"health", "checking"} => journal.phase \in {"health-check", "committed"}
    /\ step = "commit" => journal.phase = "health-check"
    /\ step = "undo" => journal.phase \in Moving
    /\ step \in {"undo-candidates", "undo-originals"} => journal.phase = "rolling-back"
    /\ step \in Parts \ {"root"} => journal.phase \in {"unwritten", "staging", "rolled-back", "committed"}
    /\ step = "root" => journal.phase = "empty"
    /\ step \in {"audit", "auditing", "mark"} => journal.phase = "rolled-back"

\* The record says how far the operation is.
StepRecorded ==
    /\ step \in ExchangeSteps \cup {"close", "failed", "audit", "auditing", "mark", "record"}
          => operation = "prepared"
    /\ step \in {"open", "backup", "prepare"} => operation = "none"
    /\ step \in {"reconcile", "finish"} => operation = "cutover_committed"
    /\ step = "finish" => revoked
    /\ step = "mark" => ~committed

\* Nothing is saved and the data is in its place.
AtRest ==
    journal.phase \in Quiet =>
        /\ saved = Nothing
        /\ Intact => Whole(live, BaseEntries, BaseContent)

\* Where an entry of the data and an entry of the candidate can be while they
\* are exchanged or exchanged back.
OriginalPlaced(e) ==
    IF e \in journal.originals
    THEN \/ IsBase(saved[e]) /\ live[e] \in {Absent, "new"}
         \/ /\ saved[e] = Absent /\ IsBase(live[e])
            /\ e \in NewEntries => staged[e] = "new"
    ELSE saved[e] = Absent

CandidatePlaced(e) ==
    IF e \in NewEntries
    THEN \/ /\ staged[e] = "new"
            /\ live[e] = Absent \/ (e \in journal.originals /\ saved[e] = Absent)
         \/ /\ staged[e] = Absent /\ live[e] = "new"
            /\ e \in journal.originals => saved[e] # Absent
    ELSE /\ staged[e] = Absent
         /\ e \notin journal.originals \/ saved[e] # Absent =>
               \/ live[e] = Absent
               \/ /\ e = Wal /\ live[Wal] = "new"
                  /\ journal.started /\ (step = "checking" \/ committed \/ interrupted)

Exchanged ==
    journal.phase \in Moving =>
        /\ journal.candidates = NewEntries
        /\ Intact => /\ BaseEntries \subseteq journal.originals
                     /\ journal.originals \subseteq BaseEntries \cup {Wal}
        /\ \A e \in Entries : OriginalPlaced(e) /\ CandidatePlaced(e)
        /\ ~journal.started \/ step = "undo-originals" => \A e \in NewEntries : staged[e] = "new"
        /\ journal.phase = "moving-originals" => ~journal.started
        /\ journal.phase \in {"moving-candidate", "health-check"} =>
              journal.started /\ \A e \in journal.originals : saved[e] # Absent
        /\ journal.phase = "moving-candidate" =>
              \A e \in Entries \ NewEntries : live[e] = Absent
        /\ journal.phase = "health-check" => \A e \in NewEntries : staged[e] = Absent

\* The candidate is the data.
Committed ==
    /\ journal.phase = "committed" => committed /\ Whole(live, NewEntries, "new")
    /\ (step \in Parts /\ goal = "record") \/ step = "record"
          => committed /\ Whole(live, NewEntries, "new") /\ journal.phase \in {"committed", "empty", "none"}
    /\ step = "plan" => staged = Data(NewEntries, "new")
    /\ step \in {"journal", "root"} => saved = Nothing

\* What was acknowledged under the last marker was there for the safety backup.
Fenced ==
    /\ api = "down" => ~inFlight
    /\ operation \in {"prepared", "cutover_committed"} => marker # "none"
    /\ control = "unfence" => operation \in Terminal \cup {"none"}
    /\ control \in Parts => operation = "rolled_back"
    /\ control = "archive" => operation \in {"none", "prepared"} /\ journal.phase = "none"
    /\ journal.phase \notin {"none", "empty", "rolled-back"} => operation = "prepared"
    /\ operation = "prepared" \/ step = "prepare" => safety
    /\ safety /\ marker # "none" => ~unsaved /\ ~inFlight

IInv ==
    /\ TypeOK /\ Exclusive /\ StepJournalled /\ StepRecorded
    /\ AtRest /\ Exchanged /\ Committed /\ Fenced
    /\ RecordedExactly /\ ServedOutsideExchange

-----------------------------------------------------------------------------
(* Directories.                                                            *)

Directory == [Entries -> Contents]

LEMMA EntriesKnown ==
    /\ Database \in Entries /\ Wal \in Entries /\ Database # Wal
    /\ OldEntries \subseteq Entries /\ NewEntries \subseteq Entries
    /\ Database \in OldEntries /\ Database \in NewEntries
    /\ Wal \notin OldEntries /\ Wal \notin NewEntries
    /\ BaseEntries \subseteq Entries /\ Database \in BaseEntries /\ Wal \notin BaseEntries
  BY EntriesAssumption DEF BaseEntries

LEMMA WholeMeans ==
    ASSUME NEW d \in Directory, NEW names \in SUBSET Entries, Wal \notin names,
           NEW content \in Contents \ {Absent}
    PROVE  Whole(d, names, content) <=>
              /\ \A e \in names : d[e] = content
              /\ \A e \in Entries \ (names \cup {Wal}) : d[e] = Absent
              /\ d[Wal] \in {Absent, content}
  BY EntriesKnown DEF Whole, Data

LEMMA OpenedIs ==
    ASSUME NEW d \in Directory
    PROVE  /\ Opened(d) \in Directory
           /\ \A e \in Entries \ {Database, Wal} : Opened(d)[e] = d[e]
           /\ Opened(d)[Wal] = Opened(d)[Database]
           /\ d[Wal] \in {Absent, d[Database]} => Opened(d)[Database] = d[Database]
  BY EntriesKnown DEF Opened, Directory, Contents

LEMMA ClosedIs ==
    ASSUME NEW d \in Directory
    PROVE  /\ Closed(d) \in Directory
           /\ \A e \in Entries \ {Wal} : Closed(d)[e] = d[e]
           /\ Closed(d)[Wal] = Absent
  BY EntriesKnown DEF Closed, Directory, Contents, Absent

\* Opening and closing a database leaves a whole directory whole.
LEMMA WholeKept ==
    ASSUME NEW d \in Directory, NEW names \in SUBSET Entries, Wal \notin names,
           Database \in names, NEW content \in Contents \ {Absent}, Whole(d, names, content)
    PROVE  Whole(Opened(d), names, content) /\ Whole(Closed(d), names, content)
  <1>1. /\ \A e \in names : d[e] = content
        /\ \A e \in Entries \ (names \cup {Wal}) : d[e] = Absent
        /\ d[Wal] \in {Absent, content}
    BY WholeMeans
  <1>2. Whole(Opened(d), names, content)
    BY <1>1, OpenedIs, WholeMeans, EntriesKnown
  <1>3. Whole(Closed(d), names, content)
    BY <1>1, ClosedIs, WholeMeans, EntriesKnown
  <1> QED BY <1>2, <1>3


-----------------------------------------------------------------------------
(* What a step leaves alone.                                               *)

DiskUnchanged == UNCHANGED <<live, saved, staged, journal, committed, interrupted>>

\* A step that touches neither the directories nor the journal.
LEMMA DiskKept ==
    ASSUME AtRest, Exchanged, Committed, DiskUnchanged,
           step = "checking" => step' = "checking",
           step' = "undo-originals" =>
              step = "undo-originals" \/ \A e \in NewEntries : staged[e] = "new",
           step' \in {"plan", "journal", "root"} => step' = step,
           (step' \in Parts /\ goal' = "record") \/ step' = "record" =>
              (step \in Parts /\ goal = "record") \/ step = "record" \/ journal.phase = "committed"
    PROVE  AtRest' /\ Exchanged' /\ Committed'
  <1> USE DEF DiskUnchanged
  <1>1. AtRest'
    BY DEF AtRest, Whole, Intact, BaseEntries, BaseContent
  <1>2. Exchanged'
    <2>1. \A e : OriginalPlaced(e) => OriginalPlaced(e)'
      BY DEF OriginalPlaced, IsBase, Intact, BaseContent
    <2>2. \A e : CandidatePlaced(e) => CandidatePlaced(e)'
      BY DEF CandidatePlaced
    <2> QED BY <2>1, <2>2 DEF Exchanged, Intact, BaseEntries
  <1>3. Committed'
    BY DEF Committed, Whole
  <1> QED BY <1>1, <1>2, <1>3

\* A step that leaves the worker where it is, too.
LEMMA WorkerKept ==
    ASSUME IInv, UNCHANGED <<live, saved, staged, journal, committed, interrupted, step, goal>>
    PROVE  AtRest' /\ Exchanged' /\ Committed' /\ StepJournalled'
  <1>1. AtRest' /\ Exchanged' /\ Committed'
    BY DiskKept DEF IInv, DiskUnchanged
  <1> QED BY <1>1 DEF IInv, StepJournalled

-----------------------------------------------------------------------------
(* The worker around the exchange.                                         *)

LEMMA StartWorkerInvariant == IInv /\ StartWorker => IInv'
  <1> SUFFICES ASSUME IInv, StartWorker PROVE IInv'
    OBVIOUS
  <1> USE DEF IInv, StartWorker, Go, diskState, diskVars, historyVars, restVars, requestVars
  <1>1. TypeOK'
    BY DEF TypeOK, WorkerSteps
  <1>2. AtRest' /\ Exchanged' /\ Committed'
    BY DiskKept DEF DiskUnchanged, Parts
  <1>3. Exclusive' /\ StepJournalled' /\ StepRecorded'
    BY DEF TypeOK, Exclusive, StepJournalled, StepRecorded, ExchangeSteps, Parts
  <1>4. Fenced' /\ RecordedExactly' /\ ServedOutsideExchange'
    BY DEF TypeOK, Fenced, RecordedExactly, ServedOutsideExchange, Whole
  <1> QED BY <1>1, <1>2, <1>3, <1>4

LEMMA BeginInvariant == IInv /\ Begin => IInv'
  <1> SUFFICES ASSUME IInv, Begin PROVE IInv'
    OBVIOUS
  <1> USE DEF IInv, Begin, Go, diskState, diskVars, historyVars, restVars, requestVars, fenceVars
  <1>0. step' \in {"open", "exchange", "reconcile", "release"}
    OBVIOUS
  <1>1. TypeOK'
    BY <1>0 DEF TypeOK, WorkerSteps, ExchangeSteps
  <1>2. AtRest' /\ Exchanged' /\ Committed'
    BY <1>0, DiskKept DEF DiskUnchanged, Parts
  <1>3. Exclusive' /\ StepJournalled' /\ StepRecorded'
    BY DEF TypeOK, Exclusive, StepJournalled, StepRecorded, Fenced, ExchangeSteps, Parts
  <1>4. Fenced' /\ RecordedExactly' /\ ServedOutsideExchange'
    BY <1>0 DEF TypeOK, Exclusive, Fenced, RecordedExactly, ServedOutsideExchange, Whole
  <1> QED BY <1>1, <1>2, <1>3, <1>4

\* Opening or closing the database outside the exchange.
LEMMA DatabaseTouched ==
    ASSUME live \in Directory, live' \in {live, Opened(live), Closed(live), Closed(Opened(live))}
    PROVE  /\ live' \in Directory
           /\ Whole(live, NewEntries, "new") => Whole(live, NewEntries, "new")'
           /\ Whole(live, OldEntries, "old") => Whole(live, OldEntries, "old")'
  <1>1. live \in Directory
    OBVIOUS
  <1>2. Opened(live) \in Directory /\ Closed(live) \in Directory
    BY <1>1, OpenedIs, ClosedIs
  <1>3. live' \in Directory
    BY <1>1, <1>2, ClosedIs
  <1>4. ASSUME NEW names \in {OldEntries, NewEntries}, NEW content \in {"old", "new"},
               Whole(live, names, content)
        PROVE  Whole(live', names, content)
    <2>1. /\ names \in SUBSET Entries /\ Wal \notin names /\ Database \in names
          /\ content \in Contents \ {Absent}
      BY EntriesKnown DEF Contents, Absent
    <2>2. Whole(Opened(live), names, content) /\ Whole(Closed(live), names, content)
      BY <1>1, <1>4, <2>1, WholeKept
    <2>3. Whole(Closed(Opened(live)), names, content)
      BY <1>2, <2>1, <2>2, WholeKept
    <2> QED BY <1>4, <2>2, <2>3
  <1>5. ASSUME NEW names, NEW content PROVE Whole(live', names, content) <=> Whole(live, names, content)'
    BY <1>5 DEF Whole, Data
  <1> QED BY <1>3, <1>4, <1>5

LEMMA DatabaseKept ==
    ASSUME IInv, live' \in {live, Opened(live), Closed(live), Closed(Opened(live))},
           UNCHANGED exceptLive, journal.phase \in Quiet \cup {"committed"},
           step' \notin {"plan", "journal", "root"},
           (step' \in Parts /\ goal' = "record") \/ step' = "record" =>
              (step \in Parts /\ goal = "record") \/ step = "record" \/ journal.phase = "committed"
    PROVE  live' \in Directory /\ AtRest' /\ Exchanged' /\ Committed'
  <1> USE DatabaseTouched DEF IInv, TypeOK, Directory, exceptLive, historyVars
  <1>1. AtRest'
    BY DEF AtRest, Intact, BaseEntries, BaseContent
  <1>2. Exchanged'
    BY DEF Exchanged, Quiet, Moving
  <1>3. Committed'
    BY DEF Committed
  <1> QED BY <1>1, <1>2, <1>3

LEMMA OpenLiveInvariant == IInv /\ OpenLive => IInv'
  <1> SUFFICES ASSUME IInv, OpenLive PROVE IInv'
    OBVIOUS
  <1> USE DEF IInv, OpenLive, Go, exceptLive, historyVars, restVars, requestVars, fenceVars
  <1>1. live' \in Directory /\ AtRest' /\ Exchanged' /\ Committed'
    BY DatabaseKept DEF StepJournalled, Quiet, Parts
  <1>2. TypeOK'
    BY <1>1 DEF TypeOK, Directory, WorkerSteps
  <1>3. Exclusive' /\ StepJournalled' /\ StepRecorded'
    BY DEF TypeOK, Exclusive, StepJournalled, StepRecorded, ExchangeSteps, Parts
  <1>4. Fenced' /\ RecordedExactly' /\ ServedOutsideExchange'
    BY DatabaseTouched DEF TypeOK, Directory, Exclusive, StepRecorded, Fenced, RecordedExactly, ServedOutsideExchange
  <1> QED BY <1>1, <1>2, <1>3, <1>4

LEMMA SafetyBackupInvariant == IInv /\ SafetyBackup => IInv'
  <1> SUFFICES ASSUME IInv, SafetyBackup PROVE IInv'
    OBVIOUS
  <1>0. /\ UNCHANGED <<live, saved, staged, journal, goal, committed, interrupted, marker, operation,
                       lock, control, api, revoked, inFlight>>
        /\ step = "backup" /\ step' = "prepare"
        /\ safety' = TRUE /\ unsaved' \in BOOLEAN /\ (safety => unsaved' = unsaved)
        /\ ~safety => ~unsaved'
    BY DEF IInv, TypeOK, SafetyBackup, Go, diskState, diskVars, historyVars, requestVars, fenceVars
  <1> USE <1>0 DEF IInv
  <1>1. TypeOK'
    BY DEF TypeOK, WorkerSteps
  <1>2. AtRest' /\ Exchanged' /\ Committed'
    BY DiskKept DEF DiskUnchanged, Parts
  <1>3. Exclusive' /\ StepJournalled' /\ StepRecorded'
    BY DEF TypeOK, Exclusive, StepJournalled, StepRecorded, ExchangeSteps, Parts
  <1>4. Fenced' /\ RecordedExactly' /\ ServedOutsideExchange'
    BY DEF TypeOK, Exclusive, Fenced, RecordedExactly, ServedOutsideExchange, Whole
  <1> QED BY <1>1, <1>2, <1>3, <1>4

LEMMA PrepareInvariant == IInv /\ Prepare => IInv'
  <1> SUFFICES ASSUME IInv, Prepare PROVE IInv'
    OBVIOUS
  <1> USE DEF IInv, Prepare, Go, diskState, diskVars, historyVars, restVars, requestVars
  <1>1. TypeOK'
    BY DEF TypeOK, WorkerSteps
  <1>2. AtRest' /\ Exchanged' /\ Committed'
    BY DiskKept DEF DiskUnchanged, Parts
  <1>3. Exclusive' /\ StepJournalled' /\ StepRecorded'
    BY DEF TypeOK, Exclusive, StepJournalled, StepRecorded, ExchangeSteps, Parts
  <1>4. Fenced' /\ RecordedExactly' /\ ServedOutsideExchange'
    BY DEF TypeOK, Exclusive, StepRecorded, Fenced, RecordedExactly, ServedOutsideExchange, Whole, Parts
  <1> QED BY <1>1, <1>2, <1>3, <1>4

LEMMA CloseLiveInvariant == IInv /\ CloseLive => IInv'
  <1> SUFFICES ASSUME IInv, CloseLive PROVE IInv'
    OBVIOUS
  <1> USE DEF IInv, CloseLive, Go, exceptLive, historyVars, restVars, requestVars, fenceVars
  <1>1. live' \in Directory /\ AtRest' /\ Exchanged' /\ Committed'
    BY DatabaseKept DEF StepJournalled, Quiet, Parts
  <1>2. TypeOK'
    BY <1>1 DEF TypeOK, Directory, WorkerSteps, ExchangeSteps
  <1>3. Exclusive' /\ StepJournalled' /\ StepRecorded'
    BY DEF TypeOK, Exclusive, StepJournalled, StepRecorded, ExchangeSteps, Parts
  <1>4. Fenced' /\ RecordedExactly' /\ ServedOutsideExchange'
    BY DatabaseTouched DEF TypeOK, Directory, Exclusive, StepRecorded, Fenced, RecordedExactly, ServedOutsideExchange
  <1> QED BY <1>1, <1>2, <1>3, <1>4

LEMMA FailedInvariant == IInv /\ Failed => IInv'
  <1> SUFFICES ASSUME IInv, Failed PROVE IInv'
    OBVIOUS
  <1> USE DEF IInv, Failed, Go, diskState, diskVars, historyVars, restVars, requestVars, fenceVars
  <1>0. step' \in {"audit", "release"}
    OBVIOUS
  <1>1. TypeOK'
    BY <1>0 DEF TypeOK, WorkerSteps
  <1>2. AtRest' /\ Exchanged' /\ Committed'
    BY <1>0, DiskKept DEF DiskUnchanged, Parts
  <1>3. Exclusive' /\ StepJournalled' /\ StepRecorded'
    BY DEF TypeOK, Exclusive, StepJournalled, StepRecorded, ExchangeSteps, Parts
  <1>4. Fenced' /\ RecordedExactly' /\ ServedOutsideExchange'
    BY <1>0 DEF TypeOK, Exclusive, Fenced, RecordedExactly, ServedOutsideExchange, Whole
  <1> QED BY <1>1, <1>2, <1>3, <1>4

LEMMA OpenForAuditInvariant == IInv /\ OpenForAudit => IInv'
  <1> SUFFICES ASSUME IInv, OpenForAudit PROVE IInv'
    OBVIOUS
  <1> USE DEF IInv, OpenForAudit, Go, exceptLive, historyVars, restVars, requestVars, fenceVars
  <1>1. live' \in Directory /\ AtRest' /\ Exchanged' /\ Committed'
    BY DatabaseKept DEF StepJournalled, Quiet, Parts
  <1>2. TypeOK'
    BY <1>1 DEF TypeOK, Directory, WorkerSteps
  <1>3. Exclusive' /\ StepJournalled' /\ StepRecorded'
    BY DEF TypeOK, Exclusive, StepJournalled, StepRecorded, ExchangeSteps, Parts
  <1>4. Fenced' /\ RecordedExactly' /\ ServedOutsideExchange'
    BY DatabaseTouched DEF TypeOK, Directory, Exclusive, StepRecorded, Fenced, RecordedExactly, ServedOutsideExchange
  <1> QED BY <1>1, <1>2, <1>3, <1>4

LEMMA AuditInvariant == IInv /\ Audit => IInv'
  <1> SUFFICES ASSUME IInv, Audit PROVE IInv'
    OBVIOUS
  <1> USE DEF IInv, Audit, Go, exceptLive, historyVars, restVars, requestVars, fenceVars
  <1>0. step' \in {"mark", "release"}
    OBVIOUS
  <1>1. live' \in Directory /\ AtRest' /\ Exchanged' /\ Committed'
    BY <1>0, DatabaseKept DEF StepJournalled, Quiet, Parts
  <1>2. TypeOK'
    BY <1>0, <1>1 DEF TypeOK, Directory, WorkerSteps
  <1>3. step' = "mark" => ~committed
    <2> SUFFICES ASSUME step' = "mark", committed PROVE FALSE
      OBVIOUS
    <2>1. Whole(live, NewEntries, "new")
      BY DEF AtRest, Quiet, StepJournalled, Intact, BaseEntries, BaseContent
    <2>2. live[Database] = "new"
      BY <2>1, EntriesKnown DEF Whole, Data
    <2> QED BY <2>2
  <1>4. Exclusive' /\ StepJournalled' /\ StepRecorded'
    BY <1>0, <1>3 DEF TypeOK, Exclusive, StepJournalled, StepRecorded, ExchangeSteps, Parts
  <1>5. Fenced' /\ RecordedExactly' /\ ServedOutsideExchange'
    BY <1>0, DatabaseTouched
       DEF TypeOK, Directory, Exclusive, StepRecorded, Fenced, RecordedExactly, ServedOutsideExchange
  <1> QED BY <1>1, <1>2, <1>4, <1>5

LEMMA MarkRolledBackInvariant == IInv /\ MarkRolledBack => IInv'
  <1> SUFFICES ASSUME IInv, MarkRolledBack PROVE IInv'
    OBVIOUS
  <1> USE DEF IInv, MarkRolledBack, Go, diskState, diskVars, historyVars, restVars, requestVars
  <1>0. step' \in {"fence", "release"}
    OBVIOUS
  <1>1. TypeOK'
    BY <1>0 DEF TypeOK, WorkerSteps
  <1>2. AtRest' /\ Exchanged' /\ Committed'
    BY <1>0, DiskKept DEF DiskUnchanged, Parts
  <1>3. Exclusive' /\ StepJournalled' /\ StepRecorded'
    BY <1>0 DEF TypeOK, Exclusive, StepJournalled, StepRecorded, ExchangeSteps, Parts
  <1>4. step = "mark" => Whole(live, OldEntries, "old") \/ interrupted
    BY DEF AtRest, Quiet, StepJournalled, StepRecorded, Intact, BaseEntries, BaseContent
  <1>5. RecordedExactly'
    BY <1>4 DEF TypeOK, RecordedExactly, Whole
  <1>6. Fenced' /\ ServedOutsideExchange'
    BY <1>0 DEF TypeOK, Exclusive, StepJournalled, Fenced, ServedOutsideExchange, Parts
  <1> QED BY <1>1, <1>2, <1>3, <1>5, <1>6

LEMMA RecordCutoverInvariant == IInv /\ RecordCutover => IInv'
  <1> SUFFICES ASSUME IInv, RecordCutover PROVE IInv'
    OBVIOUS
  <1> USE DEF IInv, RecordCutover, Go, diskState, diskVars, historyVars, restVars, requestVars
  <1>1. TypeOK'
    BY DEF TypeOK, WorkerSteps
  <1>2. AtRest' /\ Exchanged' /\ Committed'
    BY DiskKept DEF DiskUnchanged, Parts
  <1>3. Exclusive' /\ StepJournalled' /\ StepRecorded'
    BY DEF TypeOK, Exclusive, StepJournalled, StepRecorded, ExchangeSteps, Parts
  <1>4. RecordedExactly'
    BY DEF TypeOK, RecordedExactly, Whole, Committed
  <1>5. Fenced' /\ ServedOutsideExchange'
    BY DEF TypeOK, Exclusive, StepJournalled, Fenced, ServedOutsideExchange, Parts
  <1> QED BY <1>1, <1>2, <1>3, <1>4, <1>5

LEMMA ReconcileInvariant == IInv /\ Reconcile => IInv'
  <1> SUFFICES ASSUME IInv, Reconcile PROVE IInv'
    OBVIOUS
  <1> USE DEF IInv, Reconcile, Go, exceptLive, historyVars, restVars, requestVars
  <1>0. /\ step' \in {"finish", "release"}
        /\ live' \in {live, Closed(Opened(live))}
        /\ operation = "cutover_committed" /\ operation' \in {"cutover_committed", "reconciled"}
        /\ operation' = "reconciled" \/ step' = "finish" => revoked'
        /\ operation' = "reconciled" => step' = "release"
        /\ revoked' \in BOOLEAN
    BY DEF TypeOK, StepRecorded
  <1>1. live' \in Directory /\ AtRest' /\ Exchanged' /\ Committed'
    BY <1>0, DatabaseKept DEF Fenced, Quiet, Parts
  <1>2. TypeOK'
    BY <1>0, <1>1 DEF TypeOK, Directory, WorkerSteps
  <1>3. Exclusive' /\ StepJournalled' /\ StepRecorded'
    BY <1>0 DEF TypeOK, Exclusive, StepJournalled, StepRecorded, ExchangeSteps, Parts
  <1>4. RecordedExactly'
    BY <1>0, DatabaseTouched DEF TypeOK, Directory, RecordedExactly
  <1>5. Fenced' /\ ServedOutsideExchange'
    BY <1>0 DEF TypeOK, Exclusive, Fenced, ServedOutsideExchange, Parts
  <1> QED BY <1>1, <1>2, <1>3, <1>4, <1>5

LEMMA FailOutsideInvariant == IInv /\ FailOutside => IInv'
  <1> SUFFICES ASSUME IInv, FailOutside PROVE IInv'
    OBVIOUS
  <1> USE DEF IInv, FailOutside, Go, exceptLive, historyVars, restVars, requestVars, fenceVars
  <1>1. live' \in Directory /\ AtRest' /\ Exchanged' /\ Committed'
    <2>1. CASE step \in {"backup", "prepare", "close", "auditing"}
      BY <2>1, DatabaseKept DEF StepJournalled, Quiet, Parts
    <2>2. CASE step \notin {"backup", "prepare", "close", "auditing"}
      BY <2>2, DiskKept DEF DiskUnchanged, Parts, TypeOK, Directory
    <2> QED BY <2>1, <2>2
  <1>2. TypeOK'
    BY <1>1 DEF TypeOK, Directory, WorkerSteps
  <1>3. Exclusive' /\ StepJournalled' /\ StepRecorded'
    BY DEF TypeOK, Exclusive, StepJournalled, StepRecorded, ExchangeSteps, Parts
  <1>4. Fenced' /\ RecordedExactly' /\ ServedOutsideExchange'
    BY DatabaseTouched DEF TypeOK, Directory, Exclusive, Fenced, RecordedExactly, ServedOutsideExchange
  <1> QED BY <1>1, <1>2, <1>3, <1>4

LEMMA ReleaseLockInvariant == IInv /\ ReleaseLock => IInv'
  <1> SUFFICES ASSUME IInv, ReleaseLock PROVE IInv'
    OBVIOUS
  <1> USE DEF IInv, ReleaseLock, Go, diskState, diskVars, historyVars, restVars, requestVars
  <1>1. TypeOK'
    BY DEF TypeOK, WorkerSteps
  <1>2. AtRest' /\ Exchanged' /\ Committed'
    BY DiskKept DEF DiskUnchanged, Parts
  <1>3. Exclusive' /\ StepJournalled' /\ StepRecorded'
    BY DEF TypeOK, Exclusive, StepJournalled, StepRecorded, ExchangeSteps, Parts
  <1>4. Fenced' /\ RecordedExactly' /\ ServedOutsideExchange'
    BY DEF TypeOK, Exclusive, Fenced, RecordedExactly, ServedOutsideExchange, Whole
  <1> QED BY <1>1, <1>2, <1>3, <1>4

\* Of what a death in a health check leaves, less is known.
LEMMA WorkerDiesInvariant == IInv /\ WorkerDies => IInv'
  <1> SUFFICES ASSUME IInv, WorkerDies PROVE IInv'
    OBVIOUS
  <1> USE DEF IInv, WorkerDies, Die, Go, diskVars, restVars, requestVars, fenceVars
  <1>0. Intact' => Intact
    BY DEF TypeOK, Intact
  <1>1. TypeOK'
    BY DEF TypeOK, WorkerSteps
  <1>2. AtRest'
    BY <1>0 DEF AtRest, BaseEntries, BaseContent, Whole
  <1>3. Exchanged'
    <2> SUFFICES ASSUME journal.phase \in Moving PROVE Exchanged'
      BY DEF Exchanged
    <2>1. \A content : IsBase(content) => IsBase(content)'
      BY <1>0 DEF IsBase, BaseContent, Absent
    <2>2. \A e : OriginalPlaced(e) => OriginalPlaced(e)'
      BY <2>1 DEF OriginalPlaced
    <2>3. step = "checking" => interrupted'
      BY DEF StepJournalled, Moving
    <2>4. \A e : CandidatePlaced(e) => CandidatePlaced(e)'
      BY <2>3 DEF CandidatePlaced
    <2>5. BaseEntries' = BaseEntries
      BY DEF BaseEntries
    <2> QED BY <1>0, <2>2, <2>4, <2>5 DEF Exchanged
  <1>4. Committed'
    BY DEF Committed, Parts, Whole
  <1>5. Exclusive' /\ StepJournalled' /\ StepRecorded'
    BY DEF TypeOK, Exclusive, StepJournalled, StepRecorded, ExchangeSteps, Parts
  <1>6. Fenced' /\ RecordedExactly' /\ ServedOutsideExchange'
    BY DEF TypeOK, Exclusive, Fenced, RecordedExactly, ServedOutsideExchange, Whole
  <1> QED BY <1>1, <1>2, <1>3, <1>4, <1>5, <1>6

-----------------------------------------------------------------------------
(* The control commands.                                                   *)

LEMMA SetFenceInvariant == IInv /\ SetFence => IInv'
  <1> SUFFICES ASSUME IInv, SetFence PROVE IInv'
    OBVIOUS
  <1> USE DEF IInv, SetFence, exchangeVars, diskVars, restVars, requestVars
  <1>0. /\ UNCHANGED <<live, saved, staged, journal, step, goal, committed, interrupted,
                       control, api, revoked, inFlight, unsaved>>
        /\ operation' = "none" /\ safety' \in BOOLEAN
        /\ marker' \in {"none", "restore"} /\ lock' \in {"free", "control"}
    OBVIOUS
  <1>1. TypeOK'
    BY ONLY TypeOK, <1>0 DEF TypeOK
  <1>2. AtRest' /\ Exchanged' /\ Committed' /\ StepJournalled'
    BY WorkerKept
  <1>3. Exclusive' /\ StepRecorded'
    BY DEF TypeOK, Exclusive, StepRecorded, ExchangeSteps, Parts
  <1>4. Fenced' /\ RecordedExactly' /\ ServedOutsideExchange'
    BY DEF TypeOK, Exclusive, Fenced, RecordedExactly, ServedOutsideExchange, Whole, Parts, Terminal
  <1> QED BY <1>1, <1>2, <1>3, <1>4

LEMMA AbortInvariant == IInv /\ Abort => IInv'
  <1> SUFFICES ASSUME IInv, Abort PROVE IInv'
    OBVIOUS
  <1> USE DEF IInv, Abort, exchangeVars, diskVars, restVars, requestVars
  <1>1. TypeOK'
    BY DEF TypeOK
  <1>2. AtRest' /\ Exchanged' /\ Committed' /\ StepJournalled'
    BY WorkerKept
  <1>3. Exclusive' /\ StepRecorded'
    BY DEF TypeOK, Exclusive, StepRecorded, ExchangeSteps, Parts
  <1>4. Fenced' /\ RecordedExactly' /\ ServedOutsideExchange'
    BY DEF TypeOK, Exclusive, Fenced, RecordedExactly, ServedOutsideExchange, Whole, Parts, Terminal
  <1> QED BY <1>1, <1>2, <1>3, <1>4

LEMMA ArchiveCancellationInvariant == IInv /\ ArchiveCancellation => IInv'
  <1> SUFFICES ASSUME IInv, ArchiveCancellation PROVE IInv'
    OBVIOUS
  <1> USE DEF IInv, ArchiveCancellation, exchangeVars, diskVars, restVars, requestVars
  <1>1. TypeOK'
    BY DEF TypeOK
  <1>2. AtRest' /\ Exchanged' /\ Committed' /\ StepJournalled'
    BY WorkerKept
  <1>3. Exclusive' /\ StepRecorded'
    BY DEF TypeOK, Exclusive, StepRecorded, ExchangeSteps, Parts
  <1>4. Fenced' /\ RecordedExactly' /\ ServedOutsideExchange'
    BY DEF TypeOK, Exclusive, Fenced, RecordedExactly, ServedOutsideExchange, Whole, Parts, Terminal
  <1> QED BY <1>1, <1>2, <1>3, <1>4

LEMMA ClearInvariant == IInv /\ Clear => IInv'
  <1> SUFFICES ASSUME IInv, Clear PROVE IInv'
    OBVIOUS
  <1> USE DEF IInv, Clear, exchangeVars, diskVars, restVars, requestVars
  <1>0. /\ UNCHANGED <<live, saved, staged, journal, step, goal, committed, interrupted,
                       marker, operation, api, revoked, safety, inFlight, unsaved>>
        /\ lock' = "control" /\ control' \in {"staged", "unfence"}
    OBVIOUS
  <1>1. TypeOK'
    BY ONLY TypeOK, <1>0 DEF TypeOK, Parts
  <1>2. AtRest' /\ Exchanged' /\ Committed' /\ StepJournalled'
    BY WorkerKept
  <1>3. Exclusive' /\ StepRecorded'
    BY DEF TypeOK, Exclusive, StepRecorded, ExchangeSteps, Parts
  <1>4. Fenced' /\ RecordedExactly' /\ ServedOutsideExchange'
    BY DEF TypeOK, Exclusive, Fenced, RecordedExactly, ServedOutsideExchange, Whole, Parts, Terminal
  <1> QED BY <1>1, <1>2, <1>3, <1>4

LEMMA FinalizeJournalInvariant == IInv /\ FinalizeJournal => IInv'
  <1> SUFFICES ASSUME IInv, FinalizeJournal PROVE IInv'
    OBVIOUS
  <1>0. /\ control \in Parts /\ lock = "control" /\ step = "idle" /\ operation = "rolled_back" /\ api \in {"up", "down"}
        /\ UNCHANGED <<live, committed, interrupted, step, goal, marker, operation, lock, api, revoked,
                       safety, inFlight, unsaved>>
        /\ control' \in {"saved", "journal", "root", "unfence"}
        /\ control' = "saved" => control = "staged"
        /\ control' = "journal" => control = "saved"
        /\ control' = "root" => control = "journal"
    BY DEF IInv, TypeOK, Exclusive, Fenced, FinalizeJournal, Remove, NextPart, Parts, fenceVars,
           restVars, requestVars
  <1>1. /\ saved \in Directory /\ staged \in Directory /\ Nothing \in Directory /\ saved = Nothing
        /\ journal.phase \in {"rolled-back", "empty"} /\ (journal.phase = "empty" => control = "root")
    BY <1>0 DEF IInv, TypeOK, Directory, Nothing, Contents, Absent, AtRest, Exclusive, Quiet, Parts
  <1>2. /\ saved' = Nothing /\ staged' \in Directory
        /\ \/ journal' = journal /\ control' \in {"saved", "journal"}
           \/ /\ journal'.phase = "empty" /\ control' = "root"
              /\ journal' = [NoJournal EXCEPT !.phase = "empty"]
           \/ journal' = NoJournal /\ journal'.phase = "none" /\ control' = "unfence"
    BY <1>0, <1>1 DEF FinalizeJournal, Remove, NoJournal, NextPart, Parts
  <1>3. TypeOK'
    <2>1. journal' \in [phase : Phases, started : BOOLEAN,
                        originals : SUBSET Entries, candidates : SUBSET Entries]
      <3> DEFINE J == [phase : Phases, started : BOOLEAN,
                       originals : SUBSET Entries, candidates : SUBSET Entries]
      <3>1. journal \in J
        BY DEF IInv, TypeOK
      <3>2. NoJournal \in J /\ [NoJournal EXCEPT !.phase = "empty"] \in J
        BY DEF NoJournal, Phases
      <3> HIDE DEF J
      <3>3. journal' \in J
        BY <1>2, <3>1, <3>2
      <3> QED BY <3>3 DEF J
    <2> QED BY <1>0, <1>1, <1>2, <2>1 DEF IInv, TypeOK, Directory, Parts
  <1>4. journal'.phase \in {"rolled-back", "empty", "none"}
    BY <1>1, <1>2
  <1>5. AtRest' /\ Exchanged' /\ Committed'
    BY <1>0, <1>1, <1>2, <1>4
       DEF IInv, AtRest, Exchanged, Committed, Intact, BaseEntries, BaseContent, Whole, Quiet, Moving, Parts,
           Nothing
  <1>6. Exclusive' /\ StepJournalled' /\ StepRecorded'
    BY <1>0, <1>1, <1>2, <1>4
       DEF IInv, TypeOK, Exclusive, StepJournalled, StepRecorded, ExchangeSteps, Parts
  <1>7. Fenced' /\ RecordedExactly' /\ ServedOutsideExchange'
    BY <1>0, <1>1, <1>2, <1>4
       DEF IInv, TypeOK, Fenced, RecordedExactly, ServedOutsideExchange, Whole, Parts, Terminal
  <1> QED BY <1>3, <1>5, <1>6, <1>7 DEF IInv

LEMMA UnfenceInvariant == IInv /\ Unfence => IInv'
  <1> SUFFICES ASSUME IInv, Unfence PROVE IInv'
    OBVIOUS
  <1> USE DEF IInv, Unfence, exchangeVars, diskVars, restVars, requestVars
  <1>1. TypeOK'
    BY DEF TypeOK
  <1>2. AtRest' /\ Exchanged' /\ Committed' /\ StepJournalled'
    BY WorkerKept
  <1>3. Exclusive' /\ StepRecorded'
    BY DEF TypeOK, Exclusive, StepRecorded, ExchangeSteps, Parts
  <1>4. Fenced' /\ RecordedExactly' /\ ServedOutsideExchange'
    BY DEF TypeOK, Exclusive, Fenced, RecordedExactly, ServedOutsideExchange, Whole, Parts, Terminal
  <1> QED BY <1>1, <1>2, <1>3, <1>4

LEMMA ControlDiesInvariant == IInv /\ ControlDies => IInv'
  <1> SUFFICES ASSUME IInv, ControlDies PROVE IInv'
    OBVIOUS
  <1> USE DEF IInv, ControlDies, exchangeVars, diskVars, restVars, requestVars, fenceVars
  <1>1. TypeOK'
    BY DEF TypeOK
  <1>2. AtRest' /\ Exchanged' /\ Committed' /\ StepJournalled'
    BY WorkerKept
  <1>3. Exclusive' /\ StepRecorded'
    BY DEF TypeOK, Exclusive, StepRecorded, ExchangeSteps, Parts
  <1>4. Fenced' /\ RecordedExactly' /\ ServedOutsideExchange'
    BY DEF TypeOK, Exclusive, Fenced, RecordedExactly, ServedOutsideExchange, Whole, Parts, Terminal
  <1> QED BY <1>1, <1>2, <1>3, <1>4

LEMMA ClearStaleLockInvariant == IInv /\ ClearStaleLock => IInv'
  <1> SUFFICES ASSUME IInv, ClearStaleLock PROVE IInv'
    OBVIOUS
  <1> USE DEF IInv, ClearStaleLock, exchangeVars, diskVars, restVars, requestVars
  <1>1. TypeOK'
    BY DEF TypeOK
  <1>2. AtRest' /\ Exchanged' /\ Committed' /\ StepJournalled'
    BY WorkerKept
  <1>3. Exclusive' /\ StepRecorded'
    BY DEF TypeOK, Exclusive, StepRecorded, ExchangeSteps, Parts
  <1>4. Fenced' /\ RecordedExactly' /\ ServedOutsideExchange'
    BY DEF TypeOK, Exclusive, Fenced, RecordedExactly, ServedOutsideExchange, Whole, Parts, Terminal
  <1> QED BY <1>1, <1>2, <1>3, <1>4

-----------------------------------------------------------------------------
(* The server.                                                             *)

LEMMA StartApiInvariant == IInv /\ StartApi => IInv'
  <1> SUFFICES ASSUME IInv, StartApi PROVE IInv'
    OBVIOUS
  <1> USE DEF IInv, StartApi, exceptLive, historyVars, restVars, requestVars, fenceVars
  <1>0. step = "idle" /\ journal.phase \in {"none", "empty", "rolled-back"} /\ operation \in Terminal \cup {"none"}
    BY DEF MayServe, Exclusive, Terminal
  <1>1. live' \in Directory /\ AtRest' /\ Exchanged' /\ Committed'
    BY <1>0, DatabaseKept DEF Quiet, Parts
  <1>2. TypeOK'
    BY <1>1 DEF TypeOK, Directory
  <1>3. Exclusive' /\ StepJournalled' /\ StepRecorded'
    BY <1>0 DEF TypeOK, Exclusive, StepJournalled, StepRecorded, ExchangeSteps, Parts
  <1>4. Fenced' /\ RecordedExactly' /\ ServedOutsideExchange'
    BY <1>0, DatabaseTouched DEF TypeOK, Directory, Exclusive, Fenced, RecordedExactly, ServedOutsideExchange
  <1> QED BY <1>1, <1>2, <1>3, <1>4

LEMMA StopApiInvariant == IInv /\ StopApi => IInv'
  <1> SUFFICES ASSUME IInv, StopApi PROVE IInv'
    OBVIOUS
  <1> USE DEF IInv, StopApi, exceptLive, historyVars, fenceVars
  <1>0. step = "idle" /\ journal.phase \in {"none", "empty", "rolled-back"}
    BY DEF ServedOutsideExchange
  <1>1. live' \in Directory /\ AtRest' /\ Exchanged' /\ Committed'
    BY <1>0, DatabaseKept DEF Quiet, Parts
  <1>2. TypeOK'
    <2>1. /\ UNCHANGED <<saved, staged, journal, step, goal, committed, interrupted, marker, operation,
                         lock, control, revoked, safety, unsaved>>
          /\ live' \in Directory /\ api' = "down" /\ inFlight' \in BOOLEAN
      BY <1>1
    <2> QED BY ONLY TypeOK, <2>1 DEF TypeOK, Directory
  <1>3. Exclusive' /\ StepJournalled' /\ StepRecorded'
    BY <1>0 DEF TypeOK, Exclusive, StepJournalled, StepRecorded, ExchangeSteps, Parts
  <1>4. Fenced' /\ RecordedExactly' /\ ServedOutsideExchange'
    BY <1>0, DatabaseTouched DEF TypeOK, Directory, Exclusive, Fenced, RecordedExactly, ServedOutsideExchange
  <1> QED BY <1>1, <1>2, <1>3, <1>4

LEMMA AdmitInvariant == IInv /\ Admit => IInv'
  <1> SUFFICES ASSUME IInv, Admit PROVE IInv'
    OBVIOUS
  <1> USE DEF IInv, Admit, exchangeVars, diskVars, fenceVars
  <1>1. TypeOK'
    BY DEF TypeOK
  <1>2. AtRest' /\ Exchanged' /\ Committed' /\ StepJournalled'
    BY WorkerKept
  <1>3. Exclusive' /\ StepRecorded'
    BY DEF TypeOK, Exclusive, StepRecorded, ExchangeSteps, Parts
  <1>4. Fenced' /\ RecordedExactly' /\ ServedOutsideExchange'
    BY DEF TypeOK, Exclusive, Fenced, RecordedExactly, ServedOutsideExchange, Whole, Parts, Terminal
  <1> QED BY <1>1, <1>2, <1>3, <1>4

LEMMA WriteInvariant == IInv /\ Write => IInv'
  <1> SUFFICES ASSUME IInv, Write PROVE IInv'
    OBVIOUS
  <1> USE DEF IInv, Write, exchangeVars, diskVars, fenceVars
  <1>0. /\ UNCHANGED <<live, saved, staged, journal, step, goal, committed, interrupted,
                       marker, operation, lock, control, api, revoked, safety>>
        /\ inFlight' \in BOOLEAN /\ unsaved' \in BOOLEAN
    BY DEF TypeOK
  <1>1. TypeOK'
    BY ONLY TypeOK, <1>0 DEF TypeOK
  <1>2. AtRest' /\ Exchanged' /\ Committed' /\ StepJournalled'
    BY WorkerKept
  <1>3. Exclusive' /\ StepRecorded'
    BY DEF TypeOK, Exclusive, StepRecorded, ExchangeSteps, Parts
  <1>4. Fenced' /\ RecordedExactly' /\ ServedOutsideExchange'
    BY DEF TypeOK, Exclusive, Fenced, RecordedExactly, ServedOutsideExchange, Whole, Parts, Terminal
  <1> QED BY <1>1, <1>2, <1>3, <1>4

-----------------------------------------------------------------------------
(* The exchange.                                                           *)

Journals == [phase : Phases, started : BOOLEAN, originals : SUBSET Entries, candidates : SUBSET Entries]

ExchangeTypes ==
    /\ live \in Directory /\ saved \in Directory /\ staged \in Directory
    /\ journal \in Journals
    /\ step \in ExchangeSteps \cup {"failed", "record"}
    /\ goal \in {"verify", "failed", "record"}
    /\ committed \in BOOLEAN /\ interrupted \in BOOLEAN

\* What the exchange has to keep: the rest of the invariant is not about it.
ExchangeInv == ExchangeTypes /\ StepJournalled /\ AtRest /\ Exchanged /\ Committed

LEMMA ExchangeInvFollows == IInv /\ step \in ExchangeSteps => ExchangeInv
  BY DEF IInv, TypeOK, ExchangeInv, ExchangeTypes, Directory, Journals

LEMMA ExchangeInvSuffices ==
    ASSUME IInv, step \in ExchangeSteps, ExchangeInv', marker' \in {marker, "verification"},
           UNCHANGED <<operation, lock, control, api, restVars>>
    PROVE  IInv'
  <1> USE DEF restVars, requestVars, ExchangeInv
  <1>0. /\ operation = "prepared" /\ lock = "worker" /\ control = "idle" /\ api = "down" /\ marker # "none"
        /\ step' \in ExchangeSteps \cup {"failed", "record"} /\ marker' # "none"
        /\ marker' \in {"restore", "verification", "rollback"}
    BY DEF IInv, TypeOK, StepRecorded, Exclusive, ExchangeTypes, ExchangeSteps, Parts
  <1>1. TypeOK'
    <2>1. step' \in WorkerSteps
      BY <1>0 DEF WorkerSteps
    <2>2. TypeOK /\ ExchangeTypes'
      BY DEF IInv
    <2> QED BY ONLY <1>0, <2>1, <2>2, UNCHANGED <<operation, lock, control, api, restVars>>
        DEF TypeOK, ExchangeTypes, Directory, Journals, restVars, requestVars
  <1>2. Exclusive' /\ StepRecorded'
    BY <1>0 DEF Exclusive, StepRecorded, ExchangeSteps, Parts
  <1>3. Fenced' /\ RecordedExactly' /\ ServedOutsideExchange'
    BY <1>0 DEF IInv, TypeOK, Fenced, RecordedExactly, ServedOutsideExchange, ExchangeSteps, Parts
  <1> QED BY <1>1, <1>2, <1>3 DEF IInv

\* An entry that a step does not touch.
LEMMA PlacedElsewhere ==
    ASSUME NEW e, OriginalPlaced(e), CandidatePlaced(e),
           live'[e] = live[e], saved'[e] = saved[e], staged'[e] = staged[e],
           UNCHANGED <<committed, interrupted>>, journal'.originals = journal.originals,
           journal.started => journal'.started, step # "checking"
    PROVE  OriginalPlaced(e)' /\ CandidatePlaced(e)'
  <1>1. OriginalPlaced(e)'
    BY DEF OriginalPlaced, IsBase, Intact, BaseContent
  <1>2. CandidatePlaced(e)'
    BY DEF CandidatePlaced
  <1> QED BY <1>1, <1>2

LEMMA BasePresent == \A content : IsBase(content) => content # Absent
  BY DEF IsBase, BaseContent, Absent

LEMMA VerifyBundleExchange == ExchangeInv /\ VerifyBundle => ExchangeInv'
  <1> SUFFICES ASSUME ExchangeInv, VerifyBundle PROVE ExchangeInv'
    OBVIOUS
  <1> USE DEF ExchangeInv, VerifyBundle, Go, diskVars, historyVars
  <1>1. ExchangeTypes'
    BY DEF ExchangeTypes, ExchangeSteps
  <1>2. AtRest' /\ Exchanged' /\ Committed'
    BY DiskKept DEF DiskUnchanged, Parts
  <1>3. StepJournalled'
    BY DEF StepJournalled, Parts
  <1> QED BY <1>1, <1>2, <1>3

LEMMA UndoRefusedExchange == ExchangeInv /\ UndoRefused => ExchangeInv'
  <1> SUFFICES ASSUME ExchangeInv, UndoRefused PROVE ExchangeInv'
    OBVIOUS
  <1> USE DEF ExchangeInv, UndoRefused, Go, diskVars, historyVars
  <1>1. ExchangeTypes'
    BY DEF ExchangeTypes, ExchangeSteps
  <1>2. AtRest' /\ Exchanged' /\ Committed'
    BY DiskKept DEF DiskUnchanged, Parts
  <1>3. StepJournalled'
    BY DEF StepJournalled, Parts
  <1> QED BY <1>1, <1>2, <1>3

LEMMA CandidatesUndoneExchange == ExchangeInv /\ CandidatesUndone => ExchangeInv'
  <1> SUFFICES ASSUME ExchangeInv, CandidatesUndone PROVE ExchangeInv'
    OBVIOUS
  <1> USE DEF ExchangeInv, CandidatesUndone, Go, diskVars, historyVars
  <1>1. ExchangeTypes'
    BY DEF ExchangeTypes, ExchangeSteps
  <1>2. \A e \in NewEntries : staged[e] = "new"
    BY EntriesKnown DEF StepJournalled, Exchanged, Moving, CandidatePlaced, Absent
  <1>3. AtRest' /\ Exchanged' /\ Committed'
    BY <1>2, DiskKept DEF DiskUnchanged, Parts
  <1>4. StepJournalled'
    BY DEF StepJournalled, Parts
  <1> QED BY <1>1, <1>3, <1>4

LEMMA PhaseWritten ==
    ASSUME journal \in Journals, NEW phase \in Phases, WritePhase(phase)
    PROVE  /\ journal' \in Journals /\ journal'.phase = phase
           /\ journal'.started = journal.started /\ journal'.originals = journal.originals
           /\ journal'.candidates = journal.candidates
  BY DEF Journals, WritePhase

LEMMA NoJournalTyped ==
    /\ NoJournal \in Journals /\ NoJournal.phase = "none"
    /\ [NoJournal EXCEPT !.phase = "empty"] \in Journals
    /\ [NoJournal EXCEPT !.phase = "empty"].phase = "empty"
  BY DEF NoJournal, Journals, Phases

LEMMA NothingTyped == Nothing \in Directory /\ \A e \in Entries : Nothing[e] = Absent
  BY DEF Nothing, Directory, Contents, Absent

LEMMA CleanUpExchange == ExchangeInv /\ CleanUp => ExchangeInv'
  <1> SUFFICES ASSUME ExchangeInv, CleanUp PROVE ExchangeInv'
    OBVIOUS
  <1>0. /\ UNCHANGED <<live, committed, interrupted, goal>>
        /\ \/ step = "staged" /\ step' = "saved" /\ saved' = saved /\ staged' = Nothing /\ journal' = journal
           \/ step = "saved" /\ step' = "journal" /\ saved' = Nothing /\ staged' = staged /\ journal' = journal
           \/ /\ step = "journal" /\ step' = "root" /\ saved' = saved /\ staged' = staged
              /\ journal' = [NoJournal EXCEPT !.phase = "empty"]
           \/ step = "root" /\ step' = goal /\ saved' = saved /\ staged' = staged /\ journal' = NoJournal
    BY DEF CleanUp, Remove, Parts, NextPart, Go
  <1> USE DEF ExchangeInv
  <1>1. ExchangeTypes'
    <2>1. step' \in ExchangeSteps \cup {"failed", "record"}
      BY <1>0 DEF ExchangeTypes, ExchangeSteps, Parts
    <2> QED BY <1>0, <2>1, NoJournalTyped, NothingTyped DEF ExchangeTypes
  <1>2. goal \in {"verify", "failed", "record"}
    BY DEF ExchangeTypes
  <1>3. journal'.phase \in {journal.phase, "empty", "none"}
    BY <1>0, NoJournalTyped
  <1>4. StepJournalled'
    BY <1>0, <1>2, NoJournalTyped DEF StepJournalled, Parts
  <1>5. journal.phase \in Quiet \cup {"committed"}
    BY <1>0 DEF StepJournalled, Parts, Quiet
  <1>6. journal.phase = "committed" => committed /\ Whole(live, NewEntries, "new")
    BY DEF Committed
  <1>7. journal'.phase # journal.phase => saved' = Nothing
    BY <1>0 DEF Committed
  <1>8. AtRest'
    <2> SUFFICES ASSUME journal'.phase \in Quiet PROVE AtRest'
      BY DEF AtRest
    <2>1. saved' = Nothing
      BY <1>0, <1>7 DEF AtRest
    <2>2. Intact => Whole(live, BaseEntries, BaseContent)
      BY <1>5, <1>6 DEF AtRest, BaseEntries, BaseContent
    <2>3. (Intact => Whole(live, BaseEntries, BaseContent))'
      BY <1>0, <2>2 DEF Intact, BaseEntries, BaseContent, Whole
    <2>4. Nothing' = Nothing
      BY DEF Nothing
    <2> QED BY <2>1, <2>3, <2>4 DEF AtRest
  <1>9. Exchanged'
    BY <1>3, <1>5 DEF Exchanged, Moving, Quiet
  <1>10. Committed'
    <2>1. Nothing' = Nothing /\ Whole(live, NewEntries, "new")' = Whole(live, NewEntries, "new")
      BY <1>0 DEF Nothing, Whole
    <2>2. journal'.phase = "committed" => (committed /\ Whole(live, NewEntries, "new"))'
      BY <1>0, <1>3, <1>6, <2>1
    <2>3. (step' \in Parts /\ goal' = "record") \/ step' = "record"
             => step \in Parts /\ goal = "record"
      BY <1>0, <1>2 DEF Parts
    <2>4. (step' \in Parts /\ goal' = "record") \/ step' = "record"
             => (committed /\ Whole(live, NewEntries, "new") /\ journal.phase \in {"committed", "empty", "none"})'
      BY <1>0, <1>3, <2>1, <2>3 DEF Committed
    <2>5. step' \in {"journal", "root"} => saved' = Nothing
      BY <1>0, <1>2 DEF Committed
    <2> QED BY <1>0, <1>2, <2>1, <2>2, <2>4, <2>5 DEF Committed
  <1> QED BY <1>1, <1>4, <1>8, <1>9, <1>10

LEMMA RecoverExchange == ExchangeInv /\ Recover => ExchangeInv'
  <1> SUFFICES ASSUME ExchangeInv, Recover PROVE ExchangeInv'
    OBVIOUS
  <1> USE DEF ExchangeInv
  <1>0. /\ UNCHANGED <<live, saved, staged, committed, interrupted>>
        /\ goal' = "verify" /\ step' = Recovery(journal.phase) /\ journal.phase \in Phases
        /\ \/ journal.phase = "empty" /\ journal' = NoJournal /\ journal'.phase = "none"
           \/ journal.phase # "empty" /\ journal' = journal
    BY NoJournalTyped DEF Recover, Go, diskVars, historyVars, ExchangeTypes, Journals
  <1>1. /\ step' \in {"verify", "failed", "health", "staged", "undo"}
        /\ step' = "verify" => journal.phase \in {"none", "empty"}
        /\ step' = "health" => journal.phase = "committed"
        /\ step' = "staged" => journal.phase \in {"staging", "rolled-back"}
        /\ step' = "undo" => journal.phase \in Moving
    BY <1>0 DEF Recovery, Phases, Moving
  <1>2. ExchangeTypes'
    BY <1>0, <1>1, NoJournalTyped DEF ExchangeTypes, ExchangeSteps, Parts
  <1>3. StepJournalled'
    <2>1. journal.phase # "empty" => journal'.phase = journal.phase
      BY <1>0
    <2> QED BY <1>0, <1>1, <2>1 DEF StepJournalled, Parts, Moving
  <1>4. CASE journal' = journal
    <2>1. AtRest' /\ Exchanged' /\ Committed'
      BY <1>0, <1>1, <1>4, DiskKept DEF DiskUnchanged, Parts, Recover
    <2> QED BY <1>2, <1>3, <2>1
  <1>5. CASE journal.phase = "empty" /\ journal'.phase = "none"
    <2>1. AtRest' /\ Exchanged' /\ Committed'
      BY <1>0, <1>1, <1>5
         DEF AtRest, Exchanged, Committed, Intact, BaseEntries, BaseContent, Whole, Quiet, Moving, Parts, Nothing
    <2> QED BY <1>2, <1>3, <2>1
  <1> QED BY <1>0, <1>4, <1>5

LEMMA MakeJournalExchange == ExchangeInv /\ MakeJournal => ExchangeInv'
  <1> SUFFICES ASSUME ExchangeInv, MakeJournal PROVE ExchangeInv'
    OBVIOUS
  <1> USE DEF ExchangeInv
  <1>0. /\ UNCHANGED <<live, saved, staged, committed, interrupted, goal>> /\ journal' \in Journals
        /\ \/ step = "make" /\ step' = "directories" /\ journal'.phase = "empty"
           \/ step = "directories" /\ step' = "write" /\ journal'.phase = "unwritten"
           \/ step = "write" /\ step' = "extract" /\ journal'.phase = "staging"
    BY PhaseWritten DEF MakeJournal, Go, diskVars, historyVars, ExchangeTypes, Phases
  <1>1. ExchangeTypes'
    BY <1>0 DEF ExchangeTypes, ExchangeSteps, Parts
  <1>2. journal.phase \in Quiet
    BY <1>0 DEF StepJournalled, Quiet
  <1>3. StepJournalled' /\ AtRest' /\ Exchanged' /\ Committed'
    BY <1>0, <1>2 DEF StepJournalled, AtRest, Exchanged, Committed, Intact, BaseEntries, BaseContent, Whole,
                      Quiet, Moving, Parts, Nothing
  <1> QED BY <1>1, <1>3

LEMMA ExtractExchange == ExchangeInv /\ Extract => ExchangeInv'
  <1> SUFFICES ASSUME ExchangeInv, Extract PROVE ExchangeInv'
    OBVIOUS
  <1> USE DEF ExchangeInv, Extract, Go, historyVars
  <1>1. Data(NewEntries, "new") \in Directory
    BY DEF Data, Directory, Contents
  <1>2. ExchangeTypes'
    BY <1>1 DEF ExchangeTypes, ExchangeSteps, Parts
  <1>3. journal.phase = "staging"
    BY DEF StepJournalled
  <1>4. StepJournalled' /\ AtRest' /\ Exchanged' /\ Committed'
    BY <1>3 DEF StepJournalled, AtRest, Exchanged, Committed, Intact, BaseEntries, BaseContent, Whole,
                Quiet, Moving, Parts, Nothing, Data
  <1> QED BY <1>2, <1>4

LEMMA BaseWhole ==
    ASSUME live \in Directory, Whole(live, BaseEntries, BaseContent)
    PROVE  /\ \A e \in BaseEntries : live[e] = BaseContent
           /\ \A e \in Entries \ (BaseEntries \cup {Wal}) : live[e] = Absent
           /\ live[Wal] \in {Absent, BaseContent}
  <1>1. /\ BaseContent \in Contents \ {Absent}
        /\ BaseEntries \in SUBSET Entries /\ Wal \notin BaseEntries
    BY EntriesKnown DEF BaseContent, Contents, Absent
  <1> QED BY <1>1, WholeMeans

\* The exchange begins: nothing has been moved.
LEMMA PlanMovesExchange == ExchangeInv /\ PlanMoves => ExchangeInv'
  <1> SUFFICES ASSUME ExchangeInv, PlanMoves PROVE ExchangeInv'
    OBVIOUS
  <1> USE DEF ExchangeInv
  <1>0. /\ UNCHANGED <<live, saved, staged, committed, interrupted, goal>>
        /\ step = "plan" /\ step' = "originals"
        /\ journal' = [phase |-> "moving-originals", started |-> FALSE,
                       originals |-> Present(live), candidates |-> Present(staged)]
        /\ journal.phase = "staging" /\ staged = Data(NewEntries, "new") /\ saved = Nothing
        /\ live \in Directory
        /\ Intact => Whole(live, BaseEntries, BaseContent)
    BY DEF PlanMoves, Go, diskVars, historyVars, StepJournalled, AtRest, Committed, ExchangeTypes, Quiet
  <1>1. /\ \A e \in Entries : staged[e] = IF e \in NewEntries THEN "new" ELSE Absent
        /\ \A e \in Entries : saved[e] = Absent
    BY <1>0, NothingTyped DEF Data
  <1>2. /\ journal'.phase = "moving-originals" /\ ~journal'.started /\ journal'.candidates = NewEntries
        /\ journal'.originals = Present(live) /\ journal' \in Journals
    BY <1>0, <1>1, EntriesKnown DEF Journals, Phases, Present, Absent
  <1>3. ExchangeTypes'
    BY <1>0, <1>2 DEF ExchangeTypes, ExchangeSteps, Parts
  <1>4. Intact => /\ \A e \in BaseEntries : live[e] = BaseContent
                  /\ \A e \in Entries \ (BaseEntries \cup {Wal}) : live[e] = Absent
                  /\ live[Wal] \in {Absent, BaseContent}
    BY <1>0, BaseWhole
  <1>5. \A e \in Present(live) : IsBase(live[e])
    BY <1>4 DEF IsBase, Present
  <1>6. Intact => BaseEntries \subseteq Present(live) /\ Present(live) \subseteq BaseEntries \cup {Wal}
    BY <1>4, EntriesKnown DEF Present, BaseContent, Absent
  <1>7. \A e \in Entries : OriginalPlaced(e)' /\ CandidatePlaced(e)'
    <2> SUFFICES ASSUME NEW e \in Entries PROVE OriginalPlaced(e)' /\ CandidatePlaced(e)'
      OBVIOUS
    <2>1. OriginalPlaced(e)'
      BY <1>0, <1>1, <1>2, <1>5 DEF OriginalPlaced, IsBase, Intact, BaseContent
    <2>2. CandidatePlaced(e)'
      BY <1>0, <1>1, <1>2 DEF CandidatePlaced, Present, Absent
    <2> QED BY <2>1, <2>2
  <1>8. Exchanged'
    BY <1>0, <1>1, <1>2, <1>6, <1>7, EntriesKnown DEF Exchanged, Intact, BaseEntries
  <1>9. StepJournalled' /\ AtRest' /\ Committed'
    BY <1>0, <1>2 DEF StepJournalled, AtRest, Committed, Quiet, Parts
  <1> QED BY <1>3, <1>8, <1>9

\* What holds of the entries while they are exchanged.
LEMMA WhileMoving ==
    ASSUME ExchangeInv, journal.phase \in Moving
    PROVE  /\ journal.candidates = NewEntries
           /\ Intact => BaseEntries \subseteq journal.originals /\ journal.originals \subseteq BaseEntries \cup {Wal}
           /\ \A e \in Entries : OriginalPlaced(e) /\ CandidatePlaced(e)
           /\ ~journal.started \/ step = "undo-originals" => \A e \in NewEntries : staged[e] = "new"
           /\ journal.originals \subseteq Entries
           /\ journal.phase \in {"moving-candidate", "health-check"} =>
                 journal.started /\ \A e \in journal.originals : saved[e] # Absent
           /\ journal.phase = "moving-candidate" => \A e \in Entries \ NewEntries : live[e] = Absent
           /\ journal.phase = "health-check" => \A e \in NewEntries : staged[e] = Absent
           /\ journal.phase = "moving-originals" => ~journal.started
  BY DEF ExchangeInv, Exchanged, ExchangeTypes, Journals

\* One entry is moved, and nothing else.
LEMMA OneMoved ==
    ASSUME ExchangeInv, journal.phase \in Moving, UNCHANGED <<journal, step, goal, historyVars>>,
           step \in {"originals", "candidates", "undo-candidates", "undo-originals"},
           NEW e \in Entries,
           \A f \in Entries \ {e} : live'[f] = live[f] /\ saved'[f] = saved[f] /\ staged'[f] = staged[f],
           live' \in Directory, saved' \in Directory, staged' \in Directory,
           OriginalPlaced(e)', CandidatePlaced(e)',
           (~journal.started \/ step = "undo-originals") /\ e \in NewEntries => staged'[e] = "new",
           journal.phase \in {"moving-candidate", "health-check"} /\ e \in journal.originals
              => saved'[e] # Absent,
           journal.phase = "moving-candidate" /\ e \notin NewEntries => live'[e] = Absent,
           journal.phase # "health-check"
    PROVE  ExchangeInv'
  <1> USE DEF ExchangeInv, historyVars
  <1>1. ExchangeTypes'
    BY DEF ExchangeTypes
  <1>2. StepJournalled' /\ AtRest' /\ Committed'
    BY DEF StepJournalled, AtRest, Committed, Quiet, Moving, Parts
  <1>3. \A f \in Entries : OriginalPlaced(f)' /\ CandidatePlaced(f)'
    BY WhileMoving, PlacedElsewhere
  <1>4. Exchanged'
    BY <1>3, WhileMoving, EntriesKnown DEF Exchanged, Intact, BaseEntries
  <1> QED BY <1>1, <1>2, <1>4

LEMMA MoveOriginalExchange == \A e \in Entries : ExchangeInv /\ MoveOriginal(e) => ExchangeInv'
  <1> SUFFICES ASSUME NEW e \in Entries, ExchangeInv, MoveOriginal(e) PROVE ExchangeInv'
    OBVIOUS
  <1>0. /\ step = "originals" /\ journal.phase = "moving-originals" /\ journal.phase \in Moving
        /\ UNCHANGED <<staged, journal, step, goal, historyVars>>
        /\ e \in journal.originals /\ live[e] # Absent /\ saved[e] = Absent
        /\ saved' \in Directory /\ live' \in Directory /\ staged' \in Directory
        /\ saved'[e] = live[e] /\ live'[e] = Absent
        /\ \A f \in Entries \ {e} : live'[f] = live[f] /\ saved'[f] = saved[f] /\ staged'[f] = staged[f]
    BY DEF MoveOriginal, CanMove, With, Without, ExchangeInv, ExchangeTypes, StepJournalled, Moving, Directory,
           Contents, Absent
  <1>1. OriginalPlaced(e) /\ CandidatePlaced(e) /\ ~journal.started
    BY <1>0, WhileMoving
  <1>2. IsBase(live[e]) /\ (e \in NewEntries => staged[e] = "new")
    BY <1>0, <1>1, BasePresent DEF OriginalPlaced
  <1>3. OriginalPlaced(e)'
    BY <1>0, <1>2 DEF OriginalPlaced, IsBase, Intact, BaseContent, historyVars
  <1>4. CandidatePlaced(e)'
    BY <1>0, <1>1, <1>2 DEF CandidatePlaced
  <1> QED BY <1>0, <1>1, <1>2, <1>3, <1>4, OneMoved

LEMMA MoveCandidateExchange == \A e \in Entries : ExchangeInv /\ MoveCandidate(e) => ExchangeInv'
  <1> SUFFICES ASSUME NEW e \in Entries, ExchangeInv, MoveCandidate(e) PROVE ExchangeInv'
    OBVIOUS
  <1>0. /\ step = "candidates" /\ journal.phase = "moving-candidate" /\ journal.phase \in Moving
        /\ UNCHANGED <<saved, journal, step, goal, historyVars>>
        /\ e \in journal.candidates /\ staged[e] # Absent /\ live[e] = Absent
        /\ saved' \in Directory /\ live' \in Directory /\ staged' \in Directory
        /\ live'[e] = staged[e] /\ staged'[e] = Absent /\ saved'[e] = saved[e]
        /\ \A f \in Entries \ {e} : live'[f] = live[f] /\ saved'[f] = saved[f] /\ staged'[f] = staged[f]
    BY DEF MoveCandidate, CanMove, With, Without, ExchangeInv, ExchangeTypes, StepJournalled, Moving, Directory,
           Contents, Absent
  <1>1. /\ OriginalPlaced(e) /\ CandidatePlaced(e) /\ journal.started /\ e \in NewEntries
        /\ e \in journal.originals => saved[e] # Absent
    BY <1>0, WhileMoving
  <1>2. staged[e] = "new" /\ live'[e] = "new"
    BY <1>0, <1>1 DEF CandidatePlaced
  <1>3. OriginalPlaced(e)'
    BY <1>0, <1>1, <1>2 DEF OriginalPlaced, IsBase, Intact, BaseContent, historyVars
  <1>4. CandidatePlaced(e)'
    BY <1>0, <1>1, <1>2 DEF CandidatePlaced
  <1> QED BY <1>0, <1>1, <1>3, <1>4, OneMoved

LEMMA UndoCandidateExchange == \A e \in Entries : ExchangeInv /\ UndoCandidate(e) => ExchangeInv'
  <1> SUFFICES ASSUME NEW e \in Entries, ExchangeInv, UndoCandidate(e) PROVE ExchangeInv'
    OBVIOUS
  <1>0. /\ step = "undo-candidates" /\ journal.phase = "rolling-back" /\ journal.phase \in Moving
        /\ UNCHANGED <<saved, journal, step, goal, historyVars>>
        /\ e \in journal.candidates /\ live[e] # Absent /\ staged[e] = Absent
        /\ saved' \in Directory /\ live' \in Directory /\ staged' \in Directory
        /\ staged'[e] = live[e] /\ live'[e] = Absent /\ saved'[e] = saved[e]
        /\ \A f \in Entries \ {e} : live'[f] = live[f] /\ saved'[f] = saved[f] /\ staged'[f] = staged[f]
    BY DEF UndoCandidate, CanMove, With, Without, ExchangeInv, ExchangeTypes, StepJournalled, Moving, Directory,
           Contents, Absent
  <1>1. OriginalPlaced(e) /\ CandidatePlaced(e) /\ e \in NewEntries
    BY <1>0, WhileMoving
  <1>2. live[e] = "new" /\ staged'[e] = "new" /\ (e \in journal.originals => saved[e] # Absent)
    BY <1>0, <1>1 DEF CandidatePlaced, Absent
  <1>3. OriginalPlaced(e)'
    BY <1>0, <1>1, <1>2 DEF OriginalPlaced, IsBase, Intact, BaseContent, historyVars
  <1>4. CandidatePlaced(e)'
    BY <1>0, <1>1, <1>2 DEF CandidatePlaced
  <1> QED BY <1>0, <1>2, <1>3, <1>4, OneMoved

LEMMA UndoOriginalExchange == \A e \in Entries : ExchangeInv /\ UndoOriginal(e) => ExchangeInv'
  <1> SUFFICES ASSUME NEW e \in Entries, ExchangeInv, UndoOriginal(e) PROVE ExchangeInv'
    OBVIOUS
  <1>0. /\ step = "undo-originals" /\ journal.phase = "rolling-back" /\ journal.phase \in Moving
        /\ UNCHANGED <<staged, journal, step, goal, historyVars>>
        /\ e \in journal.originals /\ saved[e] # Absent /\ live[e] = Absent
        /\ saved' \in Directory /\ live' \in Directory /\ staged' \in Directory
        /\ live'[e] = saved[e] /\ saved'[e] = Absent
        /\ \A f \in Entries \ {e} : live'[f] = live[f] /\ saved'[f] = saved[f] /\ staged'[f] = staged[f]
    BY DEF UndoOriginal, CanMove, With, Without, ExchangeInv, ExchangeTypes, StepJournalled, Moving, Directory,
           Contents, Absent
  <1>1. OriginalPlaced(e) /\ CandidatePlaced(e) /\ (e \in NewEntries => staged[e] = "new")
    BY <1>0, WhileMoving
  <1>2. IsBase(saved[e])
    BY <1>0, <1>1 DEF OriginalPlaced
  <1>3. OriginalPlaced(e)'
    BY <1>0, <1>1, <1>2 DEF OriginalPlaced, IsBase, Intact, BaseContent, historyVars
  <1>4. CandidatePlaced(e)'
    BY <1>0, <1>1, <1>2 DEF CandidatePlaced
  <1> QED BY <1>0, <1>1, <1>3, <1>4, OneMoved

\* The journal is rewritten in the exchange, and nothing moved.
LEMMA PhaseMoved ==
    ASSUME ExchangeInv, journal.phase \in Moving, NEW phase \in Moving, journal'.phase = phase,
           UNCHANGED <<live, saved, staged, committed, interrupted>>, step # "checking",
           journal'.originals = journal.originals, journal'.candidates = journal.candidates,
           journal.started => journal'.started, step' # "undo-originals" \/ ~journal.started,
           journal'.started = journal.started \/ phase # "moving-originals",
           phase # "moving-originals",
           phase \in {"moving-candidate", "health-check"} =>
              journal'.started /\ \A e \in journal.originals : saved[e] # Absent,
           phase = "moving-candidate" => \A e \in Entries \ NewEntries : live[e] = Absent,
           phase = "health-check" => \A e \in NewEntries : staged[e] = Absent
    PROVE  AtRest' /\ Exchanged'
  <1>1. AtRest'
    BY DEF AtRest, Quiet, Moving
  <1>2. \A f \in Entries : OriginalPlaced(f)' /\ CandidatePlaced(f)'
    BY WhileMoving, PlacedElsewhere
  <1>3. ~journal.started => \A e \in NewEntries : staged[e] = "new"
    BY WhileMoving
  <1>4. BaseEntries' = BaseEntries /\ Intact' = Intact
    BY DEF BaseEntries, Intact
  <1>5. Exchanged'
    BY <1>2, <1>3, <1>4, WhileMoving DEF Exchanged
  <1> QED BY <1>1, <1>5

LEMMA OriginalsMovedExchange == ExchangeInv /\ OriginalsMoved => ExchangeInv'
  <1> SUFFICES ASSUME ExchangeInv, OriginalsMoved PROVE ExchangeInv'
    OBVIOUS
  <1>0. /\ step = "originals" /\ step' = "candidates" /\ journal.phase = "moving-originals"
        /\ journal.phase \in Moving
        /\ UNCHANGED <<live, saved, staged, goal, committed, interrupted>>
        /\ \A e \in journal.originals : live[e] = Absent
        /\ journal' = [journal EXCEPT !.phase = "moving-candidate", !.started = TRUE]
    BY DEF OriginalsMoved, Go, diskVars, historyVars, ExchangeInv, StepJournalled, Moving
  <1>1. /\ journal' \in Journals /\ journal'.phase = "moving-candidate" /\ journal'.started
        /\ journal'.originals = journal.originals /\ journal'.candidates = journal.candidates
    BY <1>0 DEF ExchangeInv, ExchangeTypes, Journals, Phases
  <1>2. \A e \in journal.originals : saved[e] # Absent
    BY <1>0, WhileMoving, BasePresent DEF OriginalPlaced
  <1>3. \A e \in Entries \ NewEntries : live[e] = Absent
    BY <1>0, WhileMoving DEF CandidatePlaced
  <1>4. AtRest' /\ Exchanged'
    BY <1>0, <1>1, <1>2, <1>3, PhaseMoved DEF Moving
  <1>5. ExchangeTypes' /\ StepJournalled' /\ Committed'
    BY <1>0, <1>1 DEF ExchangeInv, ExchangeTypes, ExchangeSteps, StepJournalled, Committed, Parts
  <1> QED BY <1>4, <1>5 DEF ExchangeInv

LEMMA CandidatesMovedExchange == ExchangeInv /\ CandidatesMoved => ExchangeInv'
  <1> SUFFICES ASSUME ExchangeInv, CandidatesMoved PROVE ExchangeInv'
    OBVIOUS
  <1>0. /\ step = "candidates" /\ step' = "health" /\ journal.phase = "moving-candidate"
        /\ journal.phase \in Moving
        /\ UNCHANGED <<live, saved, staged, goal, committed, interrupted>>
        /\ \A e \in journal.candidates : staged[e] = Absent
        /\ WritePhase("health-check") /\ "health-check" \in Phases \cap Moving
    BY DEF CandidatesMoved, Go, diskVars, historyVars, ExchangeInv, StepJournalled, Moving, Phases
  <1>1. /\ journal' \in Journals /\ journal'.phase = "health-check" /\ journal'.started = journal.started
        /\ journal'.originals = journal.originals /\ journal'.candidates = journal.candidates
    BY <1>0, PhaseWritten DEF ExchangeInv, ExchangeTypes
  <1>2. AtRest' /\ Exchanged'
    BY <1>0, <1>1, WhileMoving, PhaseMoved
  <1>3. ExchangeTypes' /\ StepJournalled' /\ Committed'
    BY <1>0, <1>1 DEF ExchangeInv, ExchangeTypes, ExchangeSteps, StepJournalled, Committed, Parts
  <1> QED BY <1>2, <1>3 DEF ExchangeInv

LEMMA StartUndoExchange == ExchangeInv /\ StartUndo => ExchangeInv'
  <1> SUFFICES ASSUME ExchangeInv, StartUndo PROVE ExchangeInv'
    OBVIOUS
  <1>0. /\ step = "undo" /\ journal.phase \in Moving
        /\ step' = IF journal.started THEN "undo-candidates" ELSE "undo-originals"
        /\ UNCHANGED <<live, saved, staged, goal, committed, interrupted>>
        /\ WritePhase("rolling-back") /\ "rolling-back" \in Phases \cap Moving
    BY DEF StartUndo, Go, diskVars, historyVars, ExchangeInv, StepJournalled, Moving, Phases
  <1>1. /\ journal' \in Journals /\ journal'.phase = "rolling-back" /\ journal'.started = journal.started
        /\ journal'.originals = journal.originals /\ journal'.candidates = journal.candidates
    BY <1>0, PhaseWritten DEF ExchangeInv, ExchangeTypes
  <1>2. AtRest' /\ Exchanged'
    BY <1>0, <1>1, PhaseMoved
  <1>3. ExchangeTypes' /\ StepJournalled' /\ Committed'
    BY <1>0, <1>1 DEF ExchangeInv, ExchangeTypes, ExchangeSteps, StepJournalled, Committed, Parts
  <1> QED BY <1>2, <1>3 DEF ExchangeInv

\* All is moved: what is live is the candidate, and its log when it is open.
LEMMA CandidateIsLive ==
    ASSUME ExchangeInv, journal.phase = "health-check"
    PROVE  /\ \A e \in NewEntries : live[e] = "new"
           /\ \A e \in Entries \ (NewEntries \cup {Wal}) : live[e] = Absent
           /\ live[Wal] \in {Absent, "new"}
           /\ Whole(live, NewEntries, "new")
           /\ journal.started /\ Wal \in journal.originals => saved[Wal] # Absent
  <1>1. journal.phase \in Moving
    BY DEF Moving
  <1>2. \A e \in NewEntries : live[e] = "new"
    BY <1>1, WhileMoving, EntriesKnown DEF CandidatePlaced, Absent
  <1>3. \A e \in Entries \ (NewEntries \cup {Wal}) : live[e] = Absent
    BY <1>1, WhileMoving DEF CandidatePlaced
  <1>4. live[Wal] \in {Absent, "new"}
    BY <1>1, WhileMoving, EntriesKnown DEF CandidatePlaced
  <1>5. Whole(live, NewEntries, "new")
    BY <1>2, <1>3, <1>4, EntriesKnown DEF Whole, Data
  <1> QED BY <1>1, <1>2, <1>3, <1>4, <1>5, WhileMoving

\* The database is opened or closed while the candidate is checked.
LEMMA CandidateTouched ==
    ASSUME ExchangeInv, journal.phase = "health-check",
           UNCHANGED <<saved, staged, journal, committed, interrupted>>,
           \/ live' = Opened(live) /\ step' = "checking"
           \/ live' = Closed(live),
           step' # "undo-originals"
    PROVE  live' \in Directory /\ AtRest' /\ Exchanged'
  <1>0. live \in Directory /\ journal.phase \in Moving
    BY DEF ExchangeInv, ExchangeTypes, Moving
  <1>1. /\ live' \in Directory
        /\ \A e \in Entries \ {Wal} : live'[e] = live[e]
        /\ live'[Wal] = Absent \/ (live'[Wal] = "new" /\ step' = "checking")
    BY <1>0, CandidateIsLive, OpenedIs, ClosedIs, EntriesKnown
  <1>2. \A e \in Entries \ {Wal} : OriginalPlaced(e)' /\ CandidatePlaced(e)'
    <2> SUFFICES ASSUME NEW e \in Entries \ {Wal} PROVE OriginalPlaced(e)' /\ CandidatePlaced(e)'
      OBVIOUS
    <2>1. OriginalPlaced(e) /\ CandidatePlaced(e)
      BY <1>0, WhileMoving
    <2> QED BY <1>1, <2>1 DEF OriginalPlaced, CandidatePlaced, IsBase, Intact, BaseContent
  <1>3. OriginalPlaced(Wal) /\ CandidatePlaced(Wal) /\ journal.started
        /\ (Wal \in journal.originals => saved[Wal] # Absent)
    BY <1>0, WhileMoving, EntriesKnown
  <1>4. live'[Wal] \in {Absent, "new"}
    BY <1>1, CandidateIsLive
  <1>5. OriginalPlaced(Wal)'
    BY <1>3, <1>4 DEF OriginalPlaced, IsBase, Intact, BaseContent
  <1>6. CandidatePlaced(Wal)'
    BY <1>1, <1>3, <1>4, EntriesKnown DEF CandidatePlaced, Absent
  <1>7. \A e \in Entries : OriginalPlaced(e)' /\ CandidatePlaced(e)'
    BY <1>2, <1>5, <1>6
  <1>8. BaseEntries' = BaseEntries /\ Intact' = Intact
    BY DEF BaseEntries, Intact
  <1>9. Exchanged'
    BY <1>0, <1>7, <1>8, WhileMoving DEF Exchanged
  <1>10. AtRest'
    BY DEF AtRest, Quiet
  <1> QED BY <1>1, <1>9, <1>10

\* The same once the commit stands.
LEMMA CommittedTouched ==
    ASSUME ExchangeInv, journal.phase = "committed",
           UNCHANGED <<saved, staged, journal, committed, interrupted>>,
           live' \in {live, Opened(live), Closed(live)}
    PROVE  live' \in Directory /\ AtRest' /\ Exchanged' /\ committed' /\ Whole(live, NewEntries, "new")'
  <1>1. live \in Directory /\ committed /\ Whole(live, NewEntries, "new")
    BY DEF ExchangeInv, ExchangeTypes, Committed
  <1>2. live' \in Directory /\ Whole(live, NewEntries, "new")'
    BY <1>1, DatabaseTouched
  <1> QED BY <1>1, <1>2 DEF AtRest, Exchanged, Quiet, Moving

LEMMA OpenCandidateExchange == ExchangeInv /\ OpenCandidate => ExchangeInv'
  <1> SUFFICES ASSUME ExchangeInv, OpenCandidate PROVE ExchangeInv'
    OBVIOUS
  <1>0. /\ step = "health" /\ step' = "checking" /\ live' = Opened(live) /\ UNCHANGED exceptLive
        /\ journal.phase \in {"health-check", "committed"} /\ journal' = journal /\ goal' = goal
        /\ UNCHANGED <<saved, staged, committed, interrupted>>
    BY DEF OpenCandidate, Go, exceptLive, historyVars, ExchangeInv, StepJournalled
  <1>1. live' \in Directory /\ AtRest' /\ Exchanged'
    BY <1>0, CandidateTouched, CommittedTouched
  <1>2. journal.phase = "committed" => (committed /\ Whole(live, NewEntries, "new"))'
    BY <1>0, CommittedTouched
  <1>3. ExchangeTypes' /\ StepJournalled' /\ Committed'
    BY <1>0, <1>1, <1>2 DEF ExchangeInv, ExchangeTypes, ExchangeSteps, StepJournalled, Committed, Parts
  <1> QED BY <1>1, <1>3 DEF ExchangeInv

LEMMA CheckPassedExchange == ExchangeInv /\ CheckPassed => ExchangeInv'
  <1> SUFFICES ASSUME ExchangeInv, CheckPassed PROVE ExchangeInv'
    OBVIOUS
  <1>0. /\ step = "checking" /\ live' = Closed(live) /\ journal' = journal
        /\ journal.phase \in {"health-check", "committed"}
        /\ UNCHANGED <<saved, staged, committed, interrupted>>
        /\ journal.phase = "committed" => step' = "staged" /\ goal' = "record"
        /\ journal.phase = "health-check" => step' = "commit" /\ goal' = goal
    BY DEF CheckPassed, Go, historyVars, ExchangeInv, StepJournalled
  <1>1. CASE journal.phase = "health-check"
    <2>1. live' \in Directory /\ AtRest' /\ Exchanged'
      BY <1>0, <1>1, CandidateTouched
    <2>2. ExchangeTypes' /\ StepJournalled' /\ Committed'
      BY <1>0, <1>1, <2>1 DEF ExchangeInv, ExchangeTypes, ExchangeSteps, StepJournalled, Committed, Parts
    <2> QED BY <2>1, <2>2 DEF ExchangeInv
  <1>2. CASE journal.phase = "committed"
    <2>1. live' \in Directory /\ AtRest' /\ Exchanged' /\ committed' /\ Whole(live, NewEntries, "new")'
      BY <1>0, <1>2, CommittedTouched
    <2>2. ExchangeTypes' /\ StepJournalled' /\ Committed'
      BY <1>0, <1>2, <2>1
         DEF ExchangeInv, ExchangeTypes, ExchangeSteps, StepJournalled, Committed, Parts
    <2> QED BY <2>1, <2>2 DEF ExchangeInv
  <1> QED BY <1>0, <1>1, <1>2

LEMMA CommitExchange == ExchangeInv /\ Commit => ExchangeInv'
  <1> SUFFICES ASSUME ExchangeInv, Commit PROVE ExchangeInv'
    OBVIOUS
  <1>0. /\ step = "commit" /\ step' = "staged" /\ goal' = "record" /\ committed' = TRUE
        /\ journal.phase = "health-check" /\ WritePhase("committed") /\ "committed" \in Phases
        /\ UNCHANGED <<live, saved, staged, interrupted>>
    BY DEF Commit, Go, diskVars, ExchangeInv, StepJournalled, Phases
  <1>1. journal' \in Journals /\ journal'.phase = "committed"
    BY <1>0, PhaseWritten DEF ExchangeInv, ExchangeTypes
  <1>2. Whole(live, NewEntries, "new")'
    BY <1>0, CandidateIsLive DEF Whole
  <1>3. ExchangeTypes' /\ StepJournalled' /\ Committed'
    BY <1>0, <1>1, <1>2 DEF ExchangeInv, ExchangeTypes, ExchangeSteps, StepJournalled, Committed, Parts
  <1>4. AtRest' /\ Exchanged'
    BY <1>1 DEF AtRest, Exchanged, Quiet, Moving
  <1> QED BY <1>3, <1>4 DEF ExchangeInv

\* All is moved back: the data is what it was.
LEMMA OriginalsUndoneExchange == ExchangeInv /\ OriginalsUndone => ExchangeInv'
  <1> SUFFICES ASSUME ExchangeInv, OriginalsUndone PROVE ExchangeInv'
    OBVIOUS
  <1>0. /\ step = "undo-originals" /\ step' = IF goal = "verify" THEN "staged" ELSE "failed"
        /\ journal.phase \in Moving /\ OriginalsAreLive
        /\ WritePhase("rolled-back") /\ "rolled-back" \in Phases
        /\ UNCHANGED <<live, saved, staged, goal, committed, interrupted>>
    BY DEF OriginalsUndone, Go, diskVars, historyVars, ExchangeInv, StepJournalled, Moving, Phases
  <1>1. journal' \in Journals /\ journal'.phase = "rolled-back"
    BY <1>0, PhaseWritten DEF ExchangeInv, ExchangeTypes
  <1>2. \A e \in Entries : saved[e] = Absent
    BY <1>0, WhileMoving DEF OriginalPlaced, OriginalsAreLive
  <1>3. saved = Nothing
    BY <1>2, NothingTyped DEF ExchangeInv, ExchangeTypes, Directory
  <1>4. Intact => Whole(live, BaseEntries, BaseContent)
    <2> SUFFICES ASSUME Intact PROVE Whole(live, BaseEntries, BaseContent)
      OBVIOUS
    <2>1. \A e \in journal.originals : live[e] = BaseContent
      BY <1>0, <1>2, WhileMoving, BasePresent DEF OriginalPlaced, IsBase, Absent
    <2>2. BaseEntries \subseteq journal.originals /\ journal.originals \subseteq BaseEntries \cup {Wal}
      BY <1>0, WhileMoving
    <2>3. \A e \in Entries \ (BaseEntries \cup {Wal}) : live[e] = Absent
      <3> SUFFICES ASSUME NEW e \in Entries \ (BaseEntries \cup {Wal}) PROVE live[e] = Absent
        OBVIOUS
      <3>1. e \notin journal.originals /\ CandidatePlaced(e) /\ (e \in NewEntries => staged[e] = "new")
        BY <1>0, <2>2, WhileMoving
      <3> QED BY <3>1 DEF CandidatePlaced, Absent
    <2>4. live[Wal] \in {Absent, BaseContent}
      <3>1. CandidatePlaced(Wal) /\ Wal \notin NewEntries
        BY <1>0, WhileMoving, EntriesKnown
      <3>2. Wal \notin journal.originals => live[Wal] = Absent \/ (live[Wal] = "new" /\ committed)
        BY <1>0, <3>1 DEF CandidatePlaced, Intact
      <3> QED BY <2>1, <3>2 DEF BaseContent
    <2>5. /\ BaseContent \in Contents \ {Absent}
          /\ BaseEntries \in SUBSET Entries /\ Wal \notin BaseEntries
      BY EntriesKnown DEF BaseContent, Contents, Absent
    <2>6. live \in Directory
      BY DEF ExchangeInv, ExchangeTypes
    <2> QED BY <2>1, <2>2, <2>3, <2>4, <2>5, <2>6, WholeMeans
  <1>5. AtRest'
    BY <1>0, <1>3, <1>4 DEF AtRest, Intact, BaseEntries, BaseContent, Whole, Nothing
  <1>6. ExchangeTypes' /\ StepJournalled' /\ Committed'
    BY <1>0, <1>1 DEF ExchangeInv, ExchangeTypes, ExchangeSteps, StepJournalled, Committed, Parts
  <1>7. Exchanged'
    BY <1>1 DEF Exchanged, Moving
  <1> QED BY <1>5, <1>6, <1>7 DEF ExchangeInv

LEMMA FailExchange == ExchangeInv /\ Fail => ExchangeInv'
  <1> SUFFICES ASSUME ExchangeInv, Fail PROVE ExchangeInv'
    OBVIOUS
  <1>0. /\ step \in ExchangeSteps /\ step' = AfterError(step) /\ goal' = "failed"
        /\ UNCHANGED <<saved, staged, journal, committed, interrupted>>
        /\ live' = IF step = "checking" THEN Closed(live) ELSE live
    BY DEF Fail, Go, historyVars
  <1>1. /\ step' \in {"staged", "undo", "failed"}
        /\ step' = "staged" => step \in {"write", "extract", "plan"}
        /\ step' = "undo" => \/ step \in {"originals", "candidates", "commit"}
                             \/ journal.phase = "health-check"
    BY <1>0 DEF AfterError
  <1>2. StepJournalled'
    BY <1>0, <1>1 DEF ExchangeInv, StepJournalled, Moving, Parts
  <1>3. live' \in Directory /\ AtRest' /\ Exchanged' /\ Committed'
    <2>1. CASE step # "checking"
      BY <1>0, <1>1, <2>1, DiskKept DEF ExchangeInv, ExchangeTypes, DiskUnchanged, Parts
    <2>2. CASE step = "checking" /\ journal.phase = "health-check"
      <3>1. live' \in Directory /\ AtRest' /\ Exchanged'
        BY <1>0, <1>1, <2>2, CandidateTouched
      <3>2. Committed'
        BY <1>0, <1>1, <2>2 DEF Committed, Parts
      <3> QED BY <3>1, <3>2
    <2>3. CASE step = "checking" /\ journal.phase = "committed"
      <3>1. live' \in Directory /\ AtRest' /\ Exchanged' /\ committed' /\ Whole(live, NewEntries, "new")'
        BY <1>0, <2>3, CommittedTouched
      <3>2. Committed'
        BY <1>0, <1>1, <2>3, <3>1 DEF Committed, Parts
      <3> QED BY <3>1, <3>2
    <2> QED BY <2>1, <2>2, <2>3 DEF ExchangeInv, StepJournalled
  <1>4. ExchangeTypes'
    BY <1>0, <1>1, <1>3 DEF ExchangeInv, ExchangeTypes, ExchangeSteps, Parts
  <1> QED BY <1>2, <1>3, <1>4 DEF ExchangeInv

LEMMA RunExchangeInvariant == IInv /\ RunExchange => IInv'
  <1> SUFFICES ASSUME IInv, RunExchange PROVE IInv'
    OBVIOUS
  <1>1. /\ Exchange \/ OpenCandidate
        /\ marker' \in {marker, "verification"}
        /\ UNCHANGED <<operation, lock, control, api, restVars>>
    BY DEF RunExchange
  <1>2. step \in ExchangeSteps
    BY <1>1
       DEF Exchange, CleanUp, Recover, VerifyBundle, MakeJournal, Extract, PlanMoves, MoveOriginal,
           MoveCandidate, UndoCandidate, UndoOriginal, OriginalsMoved, CandidatesMoved, OpenCandidate,
           CheckPassed, Commit, StartUndo, CandidatesUndone, OriginalsUndone, UndoRefused, Fail,
           ExchangeSteps, Parts
  <1>3. ExchangeInv
    BY <1>2, ExchangeInvFollows
  <1>4. ExchangeInv'
    BY <1>1, <1>3, CleanUpExchange, RecoverExchange, VerifyBundleExchange, MakeJournalExchange,
       ExtractExchange, PlanMovesExchange, MoveOriginalExchange, MoveCandidateExchange,
       UndoCandidateExchange, UndoOriginalExchange, OriginalsMovedExchange, CandidatesMovedExchange,
       OpenCandidateExchange, CheckPassedExchange, CommitExchange, StartUndoExchange,
       CandidatesUndoneExchange, OriginalsUndoneExchange, UndoRefusedExchange, FailExchange
       DEF Exchange
  <1> QED BY <1>1, <1>2, <1>4, ExchangeInvSuffices

-----------------------------------------------------------------------------
(* All steps, and the theorems.                                            *)

LEMMA InitInvariant == Init => IInv
  <1> SUFFICES ASSUME Init PROVE IInv
    OBVIOUS
  <1> USE DEF Init
  <1>1. live \in Directory /\ saved \in Directory /\ staged \in Directory
    BY NothingTyped DEF Data, Directory, Contents, Absent
  <1>2. journal \in Journals /\ journal.phase = "none"
    BY NoJournalTyped
  <1>3. TypeOK
    BY <1>1, <1>2 DEF TypeOK, Directory, Journals, WorkerSteps
  <1>4. Whole(live, OldEntries, "old")
    BY EntriesKnown DEF Whole, Data
  <1>5. AtRest
    BY <1>4 DEF AtRest, Intact, BaseEntries, BaseContent
  <1>6. Exclusive /\ StepJournalled /\ StepRecorded /\ Exchanged /\ Committed
    BY <1>2
       DEF Exclusive, StepJournalled, StepRecorded, Exchanged, Committed, ExchangeSteps, Parts, Moving
  <1>7. Fenced /\ RecordedExactly /\ ServedOutsideExchange
    BY <1>2 DEF Fenced, RecordedExactly, ServedOutsideExchange, Parts
  <1> QED BY <1>3, <1>5, <1>6, <1>7 DEF IInv

LEMMA StepInvariant == IInv /\ [Next]_vars => IInv'
  <1> SUFFICES ASSUME IInv, [Next]_vars PROVE IInv'
    OBVIOUS
  <1>1. CASE WorkerNext
    BY <1>1, StartWorkerInvariant, BeginInvariant, OpenLiveInvariant, SafetyBackupInvariant,
       PrepareInvariant, CloseLiveInvariant, RunExchangeInvariant, FailedInvariant,
       OpenForAuditInvariant, AuditInvariant, MarkRolledBackInvariant, RecordCutoverInvariant,
       ReconcileInvariant, FailOutsideInvariant, ReleaseLockInvariant, WorkerDiesInvariant
       DEF WorkerNext
  <1>2. CASE ControlNext
    BY <1>2, SetFenceInvariant, AbortInvariant, ArchiveCancellationInvariant, ClearInvariant,
       FinalizeJournalInvariant, UnfenceInvariant, ControlDiesInvariant, ClearStaleLockInvariant
       DEF ControlNext
  <1>3. CASE ServerNext
    BY <1>3, StartApiInvariant, StopApiInvariant, AdmitInvariant, WriteInvariant DEF ServerNext
  <1>4. CASE UNCHANGED vars
    <2> USE <1>4 DEF IInv, vars, exchangeVars, diskVars, fenceVars, restVars, requestVars
    <2>1. AtRest' /\ Exchanged' /\ Committed' /\ StepJournalled'
      BY WorkerKept
    <2>2. TypeOK' /\ Exclusive' /\ StepRecorded'
      BY DEF TypeOK, Exclusive, StepRecorded
    <2>3. Fenced' /\ RecordedExactly' /\ ServedOutsideExchange'
      BY DEF Fenced, RecordedExactly, ServedOutsideExchange, Whole
    <2> QED BY <2>1, <2>2, <2>3
  <1> QED BY <1>1, <1>2, <1>3, <1>4 DEF Next

\* The inductive invariant holds of every state the worker, the commands and the
\* server reach, whatever fails and whoever dies.
THEOREM IInvAlways == Spec => []IInv
  <1> QED BY InitInvariant, StepInvariant, PTL DEF Spec

\* Every variable keeps its type: of a directory, a journal, a record and a marker.
THEOREM TypeCorrect == Spec => []TypeOK
  <1>1. IInv => TypeOK
    BY DEF IInv
  <1> QED BY <1>1, IInvAlways, PTL

\* From where the entries can be it follows that no data is lost: the old one
\* before a commit, the backup after it.
LEMMA NoDataLost == IInv => OldDataKept /\ CommitStands
  <1> SUFFICES ASSUME IInv PROVE OldDataKept /\ CommitStands
    OBVIOUS
  <1>0. /\ live \in Directory /\ saved \in Directory /\ journal.phase \in Phases
        /\ committed \in BOOLEAN /\ interrupted \in BOOLEAN
    BY DEF IInv, TypeOK, Directory
  <1>1. CASE journal.phase \in Quiet
    <2>1. Intact => /\ \A e \in BaseEntries : live[e] = BaseContent
                    /\ \A e \in Entries \ (BaseEntries \cup {Wal}) : live[e] = Absent
                    /\ live[Wal] \in {Absent, BaseContent}
      BY <1>0, <1>1, BaseWhole DEF IInv, AtRest
    <2> QED BY <2>1 DEF OldDataKept, CommitStands, Intact, BaseEntries, BaseContent, Absent
  <1>2. CASE journal.phase \in Moving
    <2>1. /\ Intact => BaseEntries \subseteq journal.originals
          /\ \A e \in Entries : OriginalPlaced(e) /\ CandidatePlaced(e)
          /\ journal.originals \subseteq Entries
      BY <1>2 DEF IInv, Exchanged, TypeOK
    <2>2. OldDataKept
      BY <2>1, EntriesKnown DEF OldDataKept, OriginalPlaced, IsBase, Intact, BaseEntries, BaseContent
    <2>3. ASSUME committed, NEW e \in Entries
          PROVE  live[e] \notin {"old", "mixed"}
      <3>1. e \in journal.originals => live[e] \in {Absent, "new"}
        BY <2>1, <2>3 DEF OriginalPlaced, IsBase, Intact, BaseContent
      <3>2. e \notin journal.originals => live[e] \in {Absent, "new"}
        BY <2>1, <2>3 DEF CandidatePlaced
      <3> QED BY <3>1, <3>2 DEF Absent
    <2>4. ASSUME committed, NEW e \in NewEntries
          PROVE  "new" \in {live[e], saved[e], staged[e]}
      BY <2>1, <2>4, EntriesKnown DEF OriginalPlaced, IsBase, Intact, BaseEntries, BaseContent
    <2> QED BY <2>2, <2>3, <2>4 DEF CommitStands
  <1>3. CASE journal.phase = "committed"
    <2>1. committed /\ Whole(live, NewEntries, "new")
      BY <1>3 DEF IInv, Committed
    <2>2. /\ \A e \in NewEntries : live[e] = "new"
          /\ \A e \in Entries \ (NewEntries \cup {Wal}) : live[e] = Absent
          /\ live[Wal] \in {Absent, "new"}
      BY <1>0, <2>1, WholeMeans, EntriesKnown DEF Contents, Absent
    <2> QED BY <2>1, <2>2 DEF OldDataKept, CommitStands, Absent
  <1> QED BY <1>0, <1>1, <1>2, <1>3 DEF Phases, Quiet, Moving

\* Whatever fails or dies, and however often: until a commit every entry of the old
\* data is live or saved, after it the old data never comes back and the backup is
\* never gone, and what the operation's record says of the directory is so.
THEOREM ExchangeSoundAlways == Spec => []ExchangeSound
  <1>1. IInv => ExchangeSound
    BY NoDataLost DEF IInv, ExchangeSound
  <1> QED BY <1>1, IInvAlways, PTL

\* The server never has the database open beside a worker or in an unfinished
\* exchange, and no write it acknowledged is missing from the safety backup when the
\* data it was made in is replaced.
THEOREM ServedSafelyAlways == Spec => []ServedSafely
  <1>1. IInv => AcknowledgedWritesSaved
    BY DEF IInv, Fenced, AcknowledgedWritesSaved
  <1>2. IInv => ServedSafely
    BY <1>1 DEF IInv, ServedSafely
  <1> QED BY <1>2, IInvAlways, PTL

-----------------------------------------------------------------------------
(* The catalogue.                                                          *)

\* The catalogue's invariant.  What it adds to the properties: a move previewed
\* is one between two products.
MoveWell(m) == moves[m].status = "ready" => moves[m].source # moves[m].target

CatalogueInv ==
    /\ CatalogueTypeOK
    /\ CanonicalIntegrity
    /\ ArchivedProductEmpty
    /\ ContextsReadable
    /\ \A m \in Moves : MoveWell(m)

\* What a step of the catalogue does to the designs that were there.
MovesOnlyAsPreviewed ==
    /\ \A d \in Designs :
          designs[d].status # "unused" /\ designs'[d].product # designs[d].product
            => \E m \in Moves :
                  /\ moves[m].status = "ready"
                  /\ moves'[m].status = "committed"
                  /\ moves[m].expires > clock
                  /\ moves[m].design = d
                  /\ moves[m].source = designs[d].product
                  /\ moves[m].target = designs'[d].product
                  /\ moves[m].version = designs[d].version
    /\ \A m \in Moves : moves[m].status \in {"expired", "committed"} => moves'[m] = moves[m]

LEMMA CatalogueTyped ==
    ASSUME CatalogueInv
    PROVE  /\ products \in [Products -> ProductRows] /\ designs \in [Designs -> DesignRows]
           /\ contexts \in [Contexts -> Designs \cup {None}] /\ moves \in [Moves -> MoveRows]
           /\ seen \in [Clients -> {None} \cup [product : Products, row : ProductRows]]
           /\ clock \in Nat
  BY DEF CatalogueInv, CatalogueTypeOK

\* What the rows say.
LEMMA ActiveRow ==
    ASSUME CatalogueInv, NEW p \in Products, IsActive(p)
    PROVE  products[p] \in [status : {"active"}, name : Names, canonical : Designs \cup {None},
                            updated : Nat, archivedAt : {None}]
  BY CatalogueTyped DEF IsActive, ProductRows

LEMMA DesignRow ==
    ASSUME CatalogueInv, NEW d \in Designs, designs[d].status # "unused"
    PROVE  designs[d] \in [status : {"active", "archived"}, product : Products, version : Nat]
  BY CatalogueTyped DEF DesignRows

LEMMA MoveRow ==
    ASSUME CatalogueInv, NEW m \in Moves, moves[m].status # "unused"
    PROVE  moves[m] \in [status : {"ready", "expired", "committed"}, design : Designs,
                         source : Products, target : Products, version : Nat, expires : Nat]
  BY CatalogueTyped DEF MoveRows

LEMMA SeenRow ==
    ASSUME CatalogueInv, NEW c \in Clients, Current(c)
    PROVE  seen[c].product \in Products
  BY CatalogueTyped DEF Current

\* A row of a product that is replaced.
LEMMA OneProduct ==
    ASSUME NEW f, NEW g, f \in [Products -> ProductRows], NEW p \in Products, NEW row \in ProductRows,
           g = [f EXCEPT ![p] = row]
    PROVE  /\ g \in [Products -> ProductRows] /\ g[p] = row
           /\ \A q \in Products \ {p} : g[q] = f[q]
  OBVIOUS

\* A new state of the products in which no design has changed.
LEMMA ProductsStep ==
    ASSUME CatalogueInv, NEW p \in Products, NEW row \in ProductRows,
           products' = [products EXCEPT ![p] = row],
           UNCHANGED <<designs, contexts, moves, clock>>,
           seen' \in [Clients -> {None} \cup [product : Products, row : ProductRows]],
           row.status # "unused" /\ row.canonical # None
              => row.status = "active" /\ row.canonical \in ActiveDesigns(p),
           ActiveDesigns(p) # {} => row.status = "active"
    PROVE  CatalogueInv' /\ MovesOnlyAsPreviewed
  <1>1. /\ products' \in [Products -> ProductRows] /\ products'[p] = row
        /\ \A q \in Products \ {p} : products'[q] = products[q]
    BY CatalogueTyped, OneProduct
  <1>2. CatalogueTypeOK'
    BY <1>1 DEF CatalogueInv, CatalogueTypeOK
  <1>3. \A q \in Products : ActiveDesigns(q)' = ActiveDesigns(q)
    BY DEF ActiveDesigns, IsReadable
  <1>4. CanonicalIntegrity'
    <2> SUFFICES ASSUME NEW q \in Products,
                        products'[q].status # "unused", products'[q].canonical # None
                 PROVE  products'[q].status = "active" /\ products'[q].canonical \in ActiveDesigns(q)
      BY <1>3 DEF CanonicalIntegrity, IsActive
    <2> QED
      BY <1>1 DEF CatalogueInv, CanonicalIntegrity, IsActive
  <1>5. ArchivedProductEmpty'
    <2> SUFFICES ASSUME NEW d \in Designs, designs[d].status = "active"
                 PROVE  products'[designs[d].product].status = "active"
      BY DEF ArchivedProductEmpty, IsReadable, IsActive
    <2>1. designs[d].product \in Products /\ d \in ActiveDesigns(designs[d].product)
      BY DesignRow DEF ActiveDesigns, IsReadable
    <2>2. products[designs[d].product].status = "active"
      BY DEF CatalogueInv, ArchivedProductEmpty, IsReadable, IsActive
    <2> QED
      BY <1>1, <2>1, <2>2
  <1>6. ContextsReadable' /\ \A m \in Moves : MoveWell(m)'
    BY DEF CatalogueInv, ContextsReadable, IsReadable, MoveWell
  <1>7. MovesOnlyAsPreviewed
    BY DEF MovesOnlyAsPreviewed
  <1> QED
    BY <1>2, <1>4, <1>5, <1>6, <1>7 DEF CatalogueInv

LEMMA ReadProductKeeps ==
    ASSUME CatalogueInv, NEW c \in Clients, NEW p \in Products, ReadProduct(c, p)
    PROVE  CatalogueInv' /\ MovesOnlyAsPreviewed
  <1>1. /\ seen' = [seen EXCEPT ![c] = [product |-> p, row |-> products[p]]]
        /\ UNCHANGED <<products, designs, contexts, moves, clock>>
    BY DEF ReadProduct
  <1>2. CatalogueTypeOK'
    BY <1>1 DEF CatalogueInv, CatalogueTypeOK
  <1>3. /\ CanonicalIntegrity' /\ ArchivedProductEmpty' /\ ContextsReadable'
        /\ \A m \in Moves : MoveWell(m)'
    BY <1>1 DEF CatalogueInv, CanonicalIntegrity, ArchivedProductEmpty, ContextsReadable, MoveWell,
                IsActive, IsReadable, ActiveDesigns
  <1> QED
    BY <1>1, <1>2, <1>3 DEF CatalogueInv, MovesOnlyAsPreviewed

LEMMA CreateProductKeeps ==
    ASSUME CatalogueInv, NEW p \in Products, NEW name \in Names, CreateProduct(p, name)
    PROVE  CatalogueInv' /\ MovesOnlyAsPreviewed
  <1> DEFINE row == NewProduct(name, None)
  <1>1. row \in ProductRows /\ row.status = "active" /\ row.canonical = None
    BY CatalogueTyped DEF NewProduct, ProductRows
  <1>2. products' = [products EXCEPT ![p] = row] /\ UNCHANGED <<designs, contexts, moves, seen, clock>>
    BY DEF CreateProduct
  <1> HIDE DEF row
  <1> QED
    BY <1>1, <1>2, CatalogueTyped, ProductsStep

LEMMA UpdateProductKeeps ==
    ASSUME CatalogueInv, NEW c \in Clients, NEW name \in Names, UpdateProduct(c, name)
    PROVE  CatalogueInv' /\ MovesOnlyAsPreviewed
  <1>p. PICK p : p = seen[c].product
    OBVIOUS
  <1>1. p \in Products /\ IsActive(p)
    BY <1>p, SeenRow DEF UpdateProduct
  <1>2. PICK canonical \in ActiveDesigns(p) \cup {None} :
           products' = [products EXCEPT ![p].name = name, ![p].canonical = canonical,
                                        ![p].updated = clock]
    BY <1>p DEF UpdateProduct
  <1>r. PICK row : row = [products[p] EXCEPT !.name = name, !.canonical = canonical, !.updated = clock]
    OBVIOUS
  <1>3. row \in ProductRows /\ row.status = "active" /\ row.canonical = canonical
    <2>1. products[p] \in [status : {"active"}, name : Names, canonical : Designs \cup {None},
                            updated : Nat, archivedAt : {None}]
      BY <1>1, ActiveRow
    <2>2. clock \in Nat /\ canonical \in Designs \cup {None}
      BY CatalogueTyped DEF ActiveDesigns
    <2> QED
      BY <1>r, <2>1, <2>2 DEF ProductRows
  <1>4. products' = [products EXCEPT ![p] = row]
    BY <1>1, <1>2, <1>r, CatalogueTyped
  <1>5. UNCHANGED <<designs, contexts, moves, seen, clock>>
    BY DEF UpdateProduct
  <1>6. /\ row.status # "unused" /\ row.canonical # None
              => row.status = "active" /\ row.canonical \in ActiveDesigns(p)
        /\ ActiveDesigns(p) # {} => row.status = "active"
    BY <1>2, <1>3
  <1>7. seen' \in [Clients -> {None} \cup [product : Products, row : ProductRows]]
    BY <1>5, CatalogueTyped
  <1>8. UNCHANGED <<designs, contexts, moves, clock>>
    BY <1>5
  <1> QED
    BY ONLY CatalogueInv, <1>1, <1>3, <1>4, <1>6, <1>7, <1>8, ProductsStep

LEMMA ArchiveProductKeeps ==
    ASSUME CatalogueInv, NEW c \in Clients, ArchiveProduct(c)
    PROVE  CatalogueInv' /\ MovesOnlyAsPreviewed
  <1> DEFINE p == seen[c].product
             row == [products[p] EXCEPT !.status = "archived", !.archivedAt = clock, !.updated = clock]
  <1>1. p \in Products /\ IsActive(p) /\ ActiveDesigns(p) = {}
    BY SeenRow DEF ArchiveProduct
  <1>2. products[p].canonical = None
    BY <1>1 DEF CatalogueInv, CanonicalIntegrity, IsActive
  <1>3. row \in ProductRows /\ row.status = "archived" /\ row.canonical = None
    <2>1. products[p] \in [status : {"active"}, name : Names, canonical : Designs \cup {None},
                            updated : Nat, archivedAt : {None}]
      BY <1>1, ActiveRow
    <2>2. clock \in Nat
      BY CatalogueTyped
    <2> HIDE DEF p
    <2> QED
      BY <1>2, <2>1, <2>2 DEF ProductRows
  <1>4. products' = [products EXCEPT ![p] = row]
    BY <1>1, CatalogueTyped DEF ArchiveProduct
  <1>5. UNCHANGED <<designs, contexts, moves, seen, clock>>
    BY DEF ArchiveProduct
  <1> HIDE DEF row, p
  <1> QED
    BY <1>1, <1>3, <1>4, <1>5, CatalogueTyped, ProductsStep

LEMMA RestoreProductKeeps ==
    ASSUME CatalogueInv, NEW c \in Clients, RestoreProduct(c)
    PROVE  CatalogueInv' /\ MovesOnlyAsPreviewed
  <1> DEFINE p == seen[c].product
             row == [products[p] EXCEPT !.status = "active", !.archivedAt = None, !.updated = clock]
  <1>1. p \in Products /\ products[p].status = "archived"
    BY SeenRow DEF RestoreProduct
  <1>2. products[p].canonical = None
    BY <1>1 DEF CatalogueInv, CanonicalIntegrity, IsActive
  <1>3. row \in ProductRows /\ row.status = "active" /\ row.canonical = None
    <2>1. products[p] \in [status : {"archived"}, name : Names, canonical : Designs \cup {None},
                           updated : Nat, archivedAt : Nat]
      BY <1>1, CatalogueTyped DEF ProductRows
    <2> QED
      BY <1>2, <2>1, CatalogueTyped DEF ProductRows
  <1>4. products' = [products EXCEPT ![p] = row]
    BY <1>1, CatalogueTyped DEF RestoreProduct
  <1>5. UNCHANGED <<designs, contexts, moves, seen, clock>>
    BY DEF RestoreProduct
  <1> HIDE DEF row, p
  <1> QED
    BY <1>1, <1>3, <1>4, <1>5, CatalogueTyped, ProductsStep

\* The active designs of a product when the row of design d becomes row.
DesignsAfter(q, d, row) ==
    (ActiveDesigns(q) \ {d}) \cup IF row.status = "active" /\ row.product = q THEN {d} ELSE {}

\* A step that replaces the row of one design, and may replace rows of products.
LEMMA DesignsStep ==
    ASSUME CatalogueInv, NEW d \in Designs, NEW row \in DesignRows, row.status # "unused",
           designs' = [designs EXCEPT ![d] = row],
           products' \in [Products -> ProductRows],
           contexts' \in [Contexts -> Designs \cup {None}],
           moves' \in [Moves -> MoveRows], UNCHANGED <<seen, clock>>,
           \A q \in Products :
              /\ products'[q].status # "unused" /\ products'[q].canonical # None
                    => products'[q].status = "active" /\ products'[q].canonical \in DesignsAfter(q, d, row)
              /\ DesignsAfter(q, d, row) # {} => products'[q].status = "active",
           \A x \in Contexts :
              contexts'[x] # None => \/ contexts'[x] = d /\ row.status = "active"
                                     \/ contexts'[x] # d /\ contexts'[x] = contexts[x],
           \A m \in Moves : MoveWell(m)'
    PROVE  CatalogueInv'
  <1>1. /\ designs' \in [Designs -> DesignRows] /\ designs'[d] = row
        /\ \A e \in Designs \ {d} : designs'[e] = designs[e]
    BY CatalogueTyped
  <1>2. CatalogueTypeOK'
    BY <1>1 DEF CatalogueInv, CatalogueTypeOK
  <1>3. \A q \in Products : ActiveDesigns(q)' = DesignsAfter(q, d, row)
    BY <1>1 DEF ActiveDesigns, IsReadable, DesignsAfter
  <1>4. CanonicalIntegrity'
    BY <1>3 DEF CanonicalIntegrity, IsActive
  <1>5. ArchivedProductEmpty'
    <2> SUFFICES ASSUME NEW e \in Designs, designs'[e].status = "active",
                        NEW q, q = designs'[e].product
                 PROVE  products'[q].status = "active"
      BY DEF ArchivedProductEmpty, IsReadable, IsActive
    <2>1. designs'[e] \in DesignRows
      BY <1>1
    <2>2. q \in Products
      BY <2>1 DEF DesignRows
    <2>3. e \in ActiveDesigns(q)'
      BY DEF ActiveDesigns, IsReadable
    <2> QED
      BY <1>3, <2>2, <2>3
  <1>6. ContextsReadable'
    <2> SUFFICES ASSUME NEW x \in Contexts, contexts'[x] # None
                 PROVE  designs'[contexts'[x]].status = "active"
      BY DEF ContextsReadable, IsReadable
    <2>1. CASE contexts'[x] = d /\ row.status = "active"
      BY <1>1, <2>1
    <2>2. CASE contexts'[x] # d /\ contexts'[x] = contexts[x]
      BY <1>1, <2>2, CatalogueTyped DEF CatalogueInv, ContextsReadable, IsReadable
    <2> QED
      BY <2>1, <2>2
  <1> QED
    BY <1>2, <1>4, <1>5, <1>6 DEF CatalogueInv

\* What holds of the products and of the contexts before the step.
LEMMA CatalogueFacts ==
    ASSUME CatalogueInv
    PROVE  /\ \A q \in Products :
                 /\ products[q].status # "unused" /\ products[q].canonical # None
                       => products[q].status = "active" /\ products[q].canonical \in ActiveDesigns(q)
                 /\ ActiveDesigns(q) # {} => products[q].status = "active"
           /\ \A x \in Contexts : contexts[x] # None => designs[contexts[x]].status = "active"
           /\ \A m \in Moves : MoveWell(m)
  BY DEF CatalogueInv, CanonicalIntegrity, ArchivedProductEmpty, ContextsReadable,
         IsActive, IsReadable, ActiveDesigns

\* No move is made, and no design changes its product.
LEMMA NothingMoved ==
    ASSUME UNCHANGED moves,
           \A d \in Designs : designs[d].status # "unused" => designs'[d].product = designs[d].product
    PROVE  MovesOnlyAsPreviewed
  BY DEF MovesOnlyAsPreviewed

LEMMA MovesStay ==
    ASSUME CatalogueInv, UNCHANGED moves
    PROVE  moves' \in [Moves -> MoveRows] /\ \A m \in Moves : MoveWell(m)'
  BY CatalogueTyped, CatalogueFacts DEF MoveWell

LEMMA CreateDesignKeeps ==
    ASSUME CatalogueInv, NEW d \in Designs, NEW p \in Products, CreateDesign(d, p)
    PROVE  CatalogueInv' /\ MovesOnlyAsPreviewed
  <1> DEFINE row == [status |-> "active", product |-> p, version |-> 1]
             new == [products[p] EXCEPT !.canonical = IF @ = None THEN d ELSE @, !.updated = clock]
  <1>1. /\ designs[d].status = "unused" /\ IsActive(p) /\ designs' = [designs EXCEPT ![d] = row]
        /\ UNCHANGED <<contexts, moves, seen, clock>>
    BY DEF CreateDesign
  <1>2. row \in DesignRows /\ row.status = "active" /\ row.product = p
    BY DEF DesignRows
  <1>3. /\ new \in ProductRows /\ new.status = "active"
        /\ new.canonical = IF products[p].canonical = None THEN d ELSE products[p].canonical
    BY <1>1, ActiveRow, CatalogueTyped DEF ProductRows
  <1>4. products' = [products EXCEPT ![p] = new]
    BY <1>1, CatalogueTyped DEF CreateDesign
  <1> HIDE DEF row, new
  <1>5. /\ products' \in [Products -> ProductRows] /\ products'[p] = new
        /\ \A q \in Products \ {p} : products'[q] = products[q]
    BY <1>3, <1>4, CatalogueTyped, OneProduct
  <1>6. \A q \in Products : d \notin ActiveDesigns(q)
    BY <1>1 DEF ActiveDesigns, IsReadable
  <1>7. \A q \in Products :
           /\ products'[q].status # "unused" /\ products'[q].canonical # None
                 => products'[q].status = "active" /\ products'[q].canonical \in DesignsAfter(q, d, row)
           /\ DesignsAfter(q, d, row) # {} => products'[q].status = "active"
    <2> TAKE q \in Products
    <2>1. CASE q = p
      BY <1>1, <1>2, <1>3, <1>5, <1>6, <2>1, CatalogueFacts DEF DesignsAfter, IsActive
    <2>2. CASE q # p
      BY <1>2, <1>5, <1>6, <2>2, CatalogueFacts DEF DesignsAfter
    <2> QED
      BY <2>1, <2>2
  <1>8. \A x \in Contexts : contexts'[x] # None =>
           (contexts'[x] = d /\ row.status = "active") \/ (contexts'[x] # d /\ contexts'[x] = contexts[x])
    BY <1>1, <1>2
  <1>9. CatalogueInv'
    BY <1>1, <1>2, <1>5, <1>7, <1>8, CatalogueTyped, MovesStay, DesignsStep
  <1>10. MovesOnlyAsPreviewed
    BY <1>1, CatalogueTyped, NothingMoved
  <1> QED
    BY <1>9, <1>10

LEMMA CreateDesignAndProductKeeps ==
    ASSUME CatalogueInv, NEW d \in Designs, NEW p \in Products, NEW name \in Names,
           CreateDesignAndProduct(d, p, name)
    PROVE  CatalogueInv' /\ MovesOnlyAsPreviewed
  <1> DEFINE row == [status |-> "active", product |-> p, version |-> 1]
             new == NewProduct(name, d)
  <1>1. /\ designs[d].status = "unused" /\ products[p].status = "unused"
        /\ designs' = [designs EXCEPT ![d] = row] /\ products' = [products EXCEPT ![p] = new]
        /\ UNCHANGED <<contexts, moves, seen, clock>>
    BY DEF CreateDesignAndProduct
  <1>2. row \in DesignRows /\ row.status = "active" /\ row.product = p
    BY DEF DesignRows
  <1>3. new \in ProductRows /\ new.status = "active" /\ new.canonical = d
    BY CatalogueTyped DEF NewProduct, ProductRows
  <1> HIDE DEF row, new
  <1>4. /\ products' \in [Products -> ProductRows] /\ products'[p] = new
        /\ \A q \in Products \ {p} : products'[q] = products[q]
    BY <1>1, <1>3, CatalogueTyped, OneProduct
  <1>5. \A q \in Products : d \notin ActiveDesigns(q)
    BY <1>1 DEF ActiveDesigns, IsReadable
  <1>6. \A q \in Products :
           /\ products'[q].status # "unused" /\ products'[q].canonical # None
                 => products'[q].status = "active" /\ products'[q].canonical \in DesignsAfter(q, d, row)
           /\ DesignsAfter(q, d, row) # {} => products'[q].status = "active"
    <2> TAKE q \in Products
    <2>1. CASE q = p
      BY <1>2, <1>3, <1>4, <2>1 DEF DesignsAfter
    <2>2. CASE q # p
      BY <1>2, <1>4, <1>5, <2>2, CatalogueFacts DEF DesignsAfter
    <2> QED
      BY <2>1, <2>2
  <1>7. \A x \in Contexts : contexts'[x] # None =>
           (contexts'[x] = d /\ row.status = "active") \/ (contexts'[x] # d /\ contexts'[x] = contexts[x])
    BY <1>1, <1>2
  <1>8. CatalogueInv'
    <2>1. contexts' \in [Contexts -> Designs \cup {None}] /\ UNCHANGED <<seen, clock>>
      BY <1>1, CatalogueTyped
    <2>2. moves' \in [Moves -> MoveRows] /\ \A m \in Moves : MoveWell(m)'
      BY <1>1, MovesStay
    <2>3. designs' = [designs EXCEPT ![d] = row] /\ row.status # "unused"
      BY <1>1, <1>2
    <2> QED
      BY <1>2, <1>4, <1>6, <1>7, <2>1, <2>2, <2>3, DesignsStep
  <1>9. MovesOnlyAsPreviewed
    BY <1>1, CatalogueTyped, NothingMoved
  <1> QED
    BY <1>8, <1>9

LEMMA CommitRevisionKeeps ==
    ASSUME CatalogueInv, NEW d \in Designs, CommitRevision(d)
    PROVE  CatalogueInv' /\ MovesOnlyAsPreviewed
  <1> DEFINE row == [designs[d] EXCEPT !.version = @ + 1]
  <1>1. /\ designs[d].status = "active" /\ UNCHANGED <<products, contexts, moves, seen, clock>>
    BY DEF CommitRevision, IsReadable
  <1>2. /\ row \in DesignRows /\ row.status = "active" /\ row.product = designs[d].product
    BY <1>1, DesignRow DEF DesignRows
  <1>3. designs' = [designs EXCEPT ![d] = row]
    BY CatalogueTyped DEF CommitRevision
  <1> HIDE DEF row
  <1>4. \A q \in Products : DesignsAfter(q, d, row) = ActiveDesigns(q)
    BY <1>1, <1>2 DEF DesignsAfter, ActiveDesigns, IsReadable
  <1>5. \A x \in Contexts : contexts'[x] # None =>
           (contexts'[x] = d /\ row.status = "active") \/ (contexts'[x] # d /\ contexts'[x] = contexts[x])
    BY <1>1, <1>2
  <1>6. CatalogueInv'
    <2>1. products' \in [Products -> ProductRows] /\ contexts' \in [Contexts -> Designs \cup {None}]
      BY <1>1, CatalogueTyped
    <2>2. moves' \in [Moves -> MoveRows] /\ \A m \in Moves : MoveWell(m)'
      BY <1>1, MovesStay
    <2>3. \A q \in Products :
             /\ products'[q].status # "unused" /\ products'[q].canonical # None
                   => products'[q].status = "active" /\ products'[q].canonical \in DesignsAfter(q, d, row)
             /\ DesignsAfter(q, d, row) # {} => products'[q].status = "active"
      BY <1>1, <1>4, CatalogueFacts
    <2> QED
      BY <1>1, <1>2, <1>3, <1>5, <2>1, <2>2, <2>3, DesignsStep
  <1>7. MovesOnlyAsPreviewed
    BY <1>1, <1>2, <1>3, CatalogueTyped, NothingMoved
  <1> QED
    BY <1>6, <1>7

LEMMA ArchiveDesignKeeps ==
    ASSUME CatalogueInv, NEW d \in Designs, ArchiveDesign(d)
    PROVE  CatalogueInv' /\ MovesOnlyAsPreviewed
  <1> DEFINE p == designs[d].product
             row == [designs[d] EXCEPT !.status = "archived"]
  <1>1. /\ designs[d].status = "active" /\ UNCHANGED <<moves, seen, clock>>
        /\ contexts' = [x \in Contexts |-> IF contexts[x] = d THEN None ELSE contexts[x]]
    BY DEF ArchiveDesign, IsReadable
  <1>2. /\ row \in DesignRows /\ row.status = "archived" /\ row.product = p /\ p \in Products
    BY <1>1, DesignRow DEF DesignRows
  <1>3. designs' = [designs EXCEPT ![d] = row]
    BY CatalogueTyped DEF ArchiveDesign
  <1>4. d \in ActiveDesigns(p) /\ IsActive(p)
    BY <1>1, <1>2, CatalogueFacts DEF ActiveDesigns, IsReadable, IsActive
  <1>5. \A q \in Products : DesignsAfter(q, d, row) = ActiveDesigns(q) \ {d}
    BY <1>2 DEF DesignsAfter
  <1>6. /\ products' \in [Products -> ProductRows]
        /\ \A q \in Products \ {p} : products'[q] = products[q]
        /\ products'[p].status = "active"
        /\ products'[p].canonical \in (ActiveDesigns(p) \ {d}) \cup {None}
    <2>1. CASE products[p].canonical = d
      <3>1. PICK replacement \in Replacements(p, d) :
               products' = [products EXCEPT ![p].canonical = replacement, ![p].updated = clock]
        BY <2>1 DEF ArchiveDesign
      <3> DEFINE new == [products[p] EXCEPT !.canonical = replacement, !.updated = clock]
      <3>2. replacement \in (ActiveDesigns(p) \ {d}) \cup {None} /\ replacement \in Designs \cup {None}
        BY <3>1 DEF Replacements, ActiveDesigns
      <3>3. new \in ProductRows /\ new.status = "active" /\ new.canonical = replacement
        BY <1>2, <1>4, <3>2, ActiveRow, CatalogueTyped DEF ProductRows
      <3>4. products' = [products EXCEPT ![p] = new]
        BY <1>2, <3>1, CatalogueTyped
      <3> HIDE DEF new, p, row
      <3> QED
        BY <1>2, <3>2, <3>3, <3>4, CatalogueTyped, OneProduct
    <2>2. CASE products[p].canonical # d
      BY <1>2, <1>4, <2>2, CatalogueTyped, CatalogueFacts DEF ArchiveDesign, IsActive
    <2> QED
      BY <2>1, <2>2
  <1>7. \A q \in Products : q # p => d \notin ActiveDesigns(q)
    BY DEF ActiveDesigns
  <1> HIDE DEF row, p
  <1>8. \A q \in Products :
           /\ products'[q].status # "unused" /\ products'[q].canonical # None
                 => products'[q].status = "active" /\ products'[q].canonical \in DesignsAfter(q, d, row)
           /\ DesignsAfter(q, d, row) # {} => products'[q].status = "active"
    <2> TAKE q \in Products
    <2>1. CASE q = p
      BY <1>5, <1>6, <2>1
    <2>2. CASE q # p
      BY <1>5, <1>6, <1>7, <2>2, CatalogueFacts
    <2> QED
      BY <2>1, <2>2
  <1>9. /\ contexts' \in [Contexts -> Designs \cup {None}]
        /\ \A x \in Contexts : contexts'[x] # None =>
             (contexts'[x] = d /\ row.status = "active") \/ (contexts'[x] # d /\ contexts'[x] = contexts[x])
    BY <1>1, CatalogueTyped
  <1>10. CatalogueInv'
    BY <1>1, <1>2, <1>3, <1>6, <1>8, <1>9, CatalogueTyped, MovesStay, DesignsStep
  <1>11. MovesOnlyAsPreviewed
    BY <1>1, <1>2, <1>3, CatalogueTyped, NothingMoved DEF p
  <1> QED
    BY <1>10, <1>11

LEMMA RestoreArchivedDesignKeeps ==
    ASSUME CatalogueInv, NEW d \in Designs, RestoreArchivedDesign(d)
    PROVE  CatalogueInv' /\ MovesOnlyAsPreviewed
  <1> DEFINE p == designs[d].product
             row == [designs[d] EXCEPT !.status = "active"]
  <1>1. designs[d].status = "archived" /\ IsActive(p) /\ UNCHANGED <<contexts, moves, seen, clock>>
    BY DEF RestoreArchivedDesign
  <1>2. row \in DesignRows /\ row.status = "active" /\ row.product = p /\ p \in Products
    BY <1>1, DesignRow DEF DesignRows
  <1>3. designs' = [designs EXCEPT ![d] = row]
    BY CatalogueTyped DEF RestoreArchivedDesign
  <1>4. \A q \in Products : d \notin ActiveDesigns(q)
    BY <1>1 DEF ActiveDesigns, IsReadable
  <1>5. /\ products' \in [Products -> ProductRows]
        /\ \A q \in Products \ {p} : products'[q] = products[q]
        /\ products'[p].status = "active"
        /\ products'[p].canonical = IF products[p].canonical = None THEN d ELSE products[p].canonical
    <2>1. CASE products[p].canonical = None
      <3> DEFINE new == [products[p] EXCEPT !.canonical = d, !.updated = clock]
      <3>1. new \in ProductRows /\ new.status = "active" /\ new.canonical = d
        BY <1>1, <1>2, ActiveRow, CatalogueTyped DEF ProductRows
      <3>2. products' = [products EXCEPT ![p] = new]
        BY <1>2, <2>1, CatalogueTyped DEF RestoreArchivedDesign
      <3> HIDE DEF new, p, row
      <3> QED
        BY <1>2, <2>1, <3>1, <3>2, CatalogueTyped, OneProduct
    <2>2. CASE products[p].canonical # None
      BY <1>1, <2>2, CatalogueTyped DEF RestoreArchivedDesign, IsActive
    <2> QED
      BY <2>1, <2>2
  <1> HIDE DEF row, p
  <1>6. \A q \in Products :
           /\ products'[q].status # "unused" /\ products'[q].canonical # None
                 => products'[q].status = "active" /\ products'[q].canonical \in DesignsAfter(q, d, row)
           /\ DesignsAfter(q, d, row) # {} => products'[q].status = "active"
    <2> TAKE q \in Products
    <2>1. CASE q = p
      BY <1>1, <1>2, <1>4, <1>5, <2>1, CatalogueFacts DEF DesignsAfter, IsActive
    <2>2. CASE q # p
      BY <1>2, <1>4, <1>5, <2>2, CatalogueFacts DEF DesignsAfter
    <2> QED
      BY <2>1, <2>2
  <1>7. \A x \in Contexts : contexts'[x] # None =>
           (contexts'[x] = d /\ row.status = "active") \/ (contexts'[x] # d /\ contexts'[x] = contexts[x])
    BY <1>1, <1>2
  <1>8. CatalogueInv'
    BY <1>1, <1>2, <1>3, <1>5, <1>6, <1>7, CatalogueTyped, MovesStay, DesignsStep
  <1>9. MovesOnlyAsPreviewed
    BY <1>1, <1>2, <1>3, CatalogueTyped, NothingMoved DEF p
  <1> QED
    BY <1>8, <1>9

\* A step that leaves the products and the designs alone.
LEMMA CatalogueRests ==
    ASSUME CatalogueInv, UNCHANGED <<products, designs, seen>>, clock' \in Nat,
           contexts' \in [Contexts -> Designs \cup {None}], moves' \in [Moves -> MoveRows],
           \A x \in Contexts : contexts'[x] # None => IsReadable(contexts'[x]),
           \A m \in Moves : MoveWell(m)'
    PROVE  CatalogueInv'
  <1>1. CatalogueTypeOK'
    BY DEF CatalogueInv, CatalogueTypeOK
  <1>2. CanonicalIntegrity' /\ ArchivedProductEmpty' /\ ContextsReadable'
    BY DEF CatalogueInv, CanonicalIntegrity, ArchivedProductEmpty, ContextsReadable,
           IsActive, IsReadable, ActiveDesigns
  <1> QED
    BY <1>1, <1>2 DEF CatalogueInv

LEMMA ContextKeeps ==
    ASSUME CatalogueInv, NEW x \in Contexts, NEW d \in Designs \cup {None},
           d # None => IsReadable(d),
           contexts' = [contexts EXCEPT ![x] = d], UNCHANGED <<products, designs, moves, seen, clock>>
    PROVE  CatalogueInv' /\ MovesOnlyAsPreviewed
  <1>1. /\ contexts' \in [Contexts -> Designs \cup {None}] /\ clock' \in Nat
        /\ \A y \in Contexts : contexts'[y] # None => IsReadable(contexts'[y])
    BY CatalogueTyped DEF CatalogueInv, ContextsReadable
  <1> QED
    BY <1>1, MovesStay, CatalogueRests, NothingMoved

LEMMA TimePassesKeeps ==
    ASSUME CatalogueInv, UNCHANGED <<products, designs, contexts, moves, seen>>, clock' \in Nat
    PROVE  CatalogueInv' /\ MovesOnlyAsPreviewed
  <1>1. /\ contexts' \in [Contexts -> Designs \cup {None}]
        /\ \A y \in Contexts : contexts'[y] # None => IsReadable(contexts'[y])
    BY CatalogueTyped DEF CatalogueInv, ContextsReadable
  <1> QED
    BY <1>1, MovesStay, CatalogueRests, NothingMoved

LEMMA PreviewDesignMoveKeeps ==
    ASSUME CatalogueInv, NEW m \in Moves, NEW d \in Designs, NEW target \in Products,
           PreviewDesignMove(m, d, target)
    PROVE  CatalogueInv' /\ MovesOnlyAsPreviewed
  <1> DEFINE move == [status |-> "ready", design |-> d, source |-> designs[d].product,
                      target |-> target, version |-> designs[d].version,
                      expires |-> clock + MoveTTL]
  <1>1. /\ moves[m].status = "unused" /\ designs[d].status = "active"
        /\ designs[d].product # target /\ moves' = [moves EXCEPT ![m] = move]
        /\ UNCHANGED <<products, designs, contexts, seen, clock>>
    BY DEF PreviewDesignMove, IsReadable
  <1>2. move \in MoveRows /\ move.status = "ready" /\ move.source # move.target
    <2>1. clock + MoveTTL \in Nat
      BY CatalogueTyped, NoneAssumption
    <2> QED
      BY <1>1, <2>1, DesignRow DEF MoveRows
  <1> HIDE DEF move
  <1>3. moves' \in [Moves -> MoveRows] /\ moves'[m] = move /\ \A n \in Moves \ {m} : moves'[n] = moves[n]
    BY <1>1, <1>2, CatalogueTyped
  <1>4. \A n \in Moves : MoveWell(n)'
    BY <1>2, <1>3, CatalogueFacts DEF MoveWell
  <1>5. /\ contexts' \in [Contexts -> Designs \cup {None}] /\ clock' \in Nat
        /\ \A y \in Contexts : contexts'[y] # None => IsReadable(contexts'[y])
    BY <1>1, CatalogueTyped DEF CatalogueInv, ContextsReadable
  <1>6. CatalogueInv'
    BY <1>1, <1>3, <1>4, <1>5, CatalogueRests
  <1>7. MovesOnlyAsPreviewed
    BY <1>1, <1>3 DEF MovesOnlyAsPreviewed
  <1> QED
    BY <1>6, <1>7

LEMMA ReadDesignMovePreviewKeeps ==
    ASSUME CatalogueInv, NEW m \in Moves, ReadDesignMovePreview(m)
    PROVE  CatalogueInv' /\ MovesOnlyAsPreviewed
  <1> DEFINE move == [moves[m] EXCEPT !.status = "expired"]
  <1>1. /\ moves[m].status = "ready" /\ UNCHANGED <<products, designs, contexts, seen, clock>>
    BY DEF ReadDesignMovePreview
  <1>2. move \in MoveRows /\ move.status = "expired"
    BY <1>1, MoveRow DEF MoveRows
  <1>3. moves' = [moves EXCEPT ![m] = move]
    BY CatalogueTyped DEF ReadDesignMovePreview
  <1> HIDE DEF move
  <1>4. moves' \in [Moves -> MoveRows] /\ moves'[m] = move /\ \A n \in Moves \ {m} : moves'[n] = moves[n]
    BY <1>2, <1>3, CatalogueTyped
  <1>5. \A n \in Moves : MoveWell(n)'
    BY <1>2, <1>4, CatalogueFacts DEF MoveWell
  <1>6. /\ contexts' \in [Contexts -> Designs \cup {None}] /\ clock' \in Nat
        /\ \A y \in Contexts : contexts'[y] # None => IsReadable(contexts'[y])
    BY <1>1, CatalogueTyped DEF CatalogueInv, ContextsReadable
  <1>7. CatalogueInv'
    BY <1>1, <1>4, <1>5, <1>6, CatalogueRests
  <1>8. MovesOnlyAsPreviewed
    BY <1>1, <1>4 DEF MovesOnlyAsPreviewed
  <1> QED
    BY <1>7, <1>8

LEMMA CommitDesignMovePreviewKeeps ==
    ASSUME CatalogueInv, NEW m \in Moves, CommitDesignMovePreview(m)
    PROVE  CatalogueInv' /\ MovesOnlyAsPreviewed
  <1> DEFINE move == moves[m]
             d == move.design
             source == move.source
             target == move.target
             row == [designs[d] EXCEPT !.product = target]
  <1>1. /\ move.status = "ready" /\ move.expires > clock /\ IsActive(target) /\ IsActive(source)
        /\ IsReadable(d) /\ designs[d].product = source /\ designs[d].version = move.version
    BY DEF CommitDesignMovePreview, MoveCommittable
  <1>2. d \in Designs /\ source \in Products /\ target \in Products /\ source # target
    BY <1>1, MoveRow, CatalogueFacts DEF MoveWell
  <1>3. row \in DesignRows /\ row.status = "active" /\ row.product = target
    BY <1>1, <1>2, DesignRow DEF DesignRows, IsReadable
  <1>4. /\ designs' = [designs EXCEPT ![d] = row] /\ UNCHANGED <<contexts, seen, clock>>
    BY <1>2, CatalogueTyped DEF CommitDesignMovePreview
  <1>5. PICK left \in IF products[source].canonical = d THEN Replacements(source, d)
                      ELSE {products[source].canonical} :
           products' = [products EXCEPT
               ![source].canonical = left, ![source].updated = clock,
               ![target].canonical = IF @ = None THEN d ELSE @, ![target].updated = clock]
    BY DEF CommitDesignMovePreview
  <1>6. left \in (ActiveDesigns(source) \ {d}) \cup {None}
    <2>1. CASE products[source].canonical = d
      <3>1. left \in Replacements(source, d)
        BY <1>5, <2>1
      <3> QED
        BY <3>1 DEF Replacements
    <2>2. CASE products[source].canonical # d
      <3>1. left = products[source].canonical
        BY <1>5, <2>2
      <3>2. left # None => left \in ActiveDesigns(source)
        BY <1>1, <1>2, <3>1, CatalogueFacts DEF IsActive
      <3> QED
        BY <2>2, <3>1, <3>2
    <2> QED
      BY <2>1, <2>2
  <1>7. left \in Designs \cup {None}
    BY <1>6 DEF ActiveDesigns
  <1> DEFINE given == [products[source] EXCEPT !.canonical = left, !.updated = clock]
             taken == [products[target] EXCEPT !.canonical = IF @ = None THEN d ELSE @, !.updated = clock]
  <1>8. given \in ProductRows /\ given.status = "active" /\ given.canonical = left
    <2>1. products[source] \in [status : {"active"}, name : Names, canonical : Designs \cup {None},
                                 updated : Nat, archivedAt : {None}]
      BY <1>1, <1>2, ActiveRow
    <2>2. clock \in Nat
      BY CatalogueTyped
    <2> HIDE DEF source
    <2> QED
      BY <1>7, <2>1, <2>2 DEF ProductRows
  <1>9. /\ taken \in ProductRows /\ taken.status = "active"
        /\ taken.canonical = IF products[target].canonical = None THEN d ELSE products[target].canonical
    <2>1. products[target] \in [status : {"active"}, name : Names, canonical : Designs \cup {None},
                                 updated : Nat, archivedAt : {None}]
      BY <1>1, <1>2, ActiveRow
    <2>2. clock \in Nat
      BY CatalogueTyped
    <2> HIDE DEF target, d
    <2> QED
      BY <1>2, <2>1, <2>2 DEF ProductRows
  <1>10. products' = [[products EXCEPT ![source] = given] EXCEPT ![target] = taken]
    BY <1>2, <1>5, CatalogueTyped
  <1> HIDE DEF given, taken, row
  <1>11. /\ products' \in [Products -> ProductRows] /\ products'[source] = given /\ products'[target] = taken
         /\ \A q \in Products \ {source, target} : products'[q] = products[q]
    <2> DEFINE half == [products EXCEPT ![source] = given]
    <2>1. /\ half \in [Products -> ProductRows] /\ half[source] = given
          /\ \A q \in Products \ {source} : half[q] = products[q]
      BY <1>2, <1>8, CatalogueTyped, OneProduct
    <2>2. products' = [half EXCEPT ![target] = taken]
      BY <1>10
    <2> HIDE DEF half
    <2> QED
      BY <1>2, <1>9, <2>1, <2>2
  <1>12. \A q \in Products : q # source => d \notin ActiveDesigns(q)
    BY <1>1 DEF ActiveDesigns
  <1>13. \A q \in Products :
           /\ products'[q].status # "unused" /\ products'[q].canonical # None
                 => products'[q].status = "active" /\ products'[q].canonical \in DesignsAfter(q, d, row)
           /\ DesignsAfter(q, d, row) # {} => products'[q].status = "active"
    <2> TAKE q \in Products
    <2> HIDE DEF d, source, target, move
    <2>1. CASE q = source
      BY <1>2, <1>3, <1>6, <1>8, <1>11, <2>1 DEF DesignsAfter
    <2>2. CASE q = target
      BY <1>1, <1>2, <1>3, <1>9, <1>11, <1>12, <2>2, CatalogueFacts DEF DesignsAfter, IsActive
    <2>3. CASE q \notin {source, target}
      BY <1>3, <1>11, <1>12, <2>3, CatalogueFacts DEF DesignsAfter
    <2> QED
      BY <2>1, <2>2, <2>3
  <1> DEFINE done == [move EXCEPT !.status = "committed"]
  <1>14. done \in MoveRows /\ done.status = "committed"
    BY <1>1, MoveRow DEF MoveRows
  <1>15. moves' = [moves EXCEPT ![m] = done]
    BY CatalogueTyped DEF CommitDesignMovePreview
  <1> HIDE DEF done
  <1>16. moves' \in [Moves -> MoveRows] /\ moves'[m] = done /\ \A n \in Moves \ {m} : moves'[n] = moves[n]
    BY <1>14, <1>15, CatalogueTyped
  <1>17. \A n \in Moves : MoveWell(n)'
    BY <1>14, <1>16, CatalogueFacts DEF MoveWell
  <1>18. \A x \in Contexts : contexts'[x] # None =>
           (contexts'[x] = d /\ row.status = "active") \/ (contexts'[x] # d /\ contexts'[x] = contexts[x])
    BY <1>3, <1>4
  <1>19. contexts' \in [Contexts -> Designs \cup {None}]
    BY <1>4, CatalogueTyped
  <1>20. designs'[d].product = target /\ \A e \in Designs \ {d} : designs'[e] = designs[e]
    BY <1>2, <1>3, <1>4, CatalogueTyped
  <1>21. MovesOnlyAsPreviewed
    <2>1. ASSUME NEW e \in Designs, designs'[e].product # designs[e].product
          PROVE  \E n \in Moves :
                  /\ moves[n].status = "ready" /\ moves'[n].status = "committed"
                  /\ moves[n].expires > clock /\ moves[n].design = e
                  /\ moves[n].source = designs[e].product /\ moves[n].target = designs'[e].product
                  /\ moves[n].version = designs[e].version
      <3>1. e = d
        BY <1>20, <2>1
      <3> QED
        BY <1>1, <1>14, <1>16, <1>20, <3>1
    <2>2. ASSUME NEW n \in Moves, moves[n].status \in {"expired", "committed"}
          PROVE  moves'[n] = moves[n]
      BY <1>1, <1>16, <2>2
    <2> QED
      BY <2>1, <2>2 DEF MovesOnlyAsPreviewed
  <1>22. CatalogueInv'
    <2> HIDE DEF d, source, target, move
    <2> QED
      BY <1>2, <1>3, <1>4, <1>11, <1>13, <1>16, <1>17, <1>18, <1>19, DesignsStep
  <1> QED
    BY <1>21, <1>22

LEMMA CatalogueStarts ==
    ASSUME CatalogueInit
    PROVE  CatalogueInv
  <1>1. CatalogueTypeOK
    BY DEF CatalogueInit, CatalogueTypeOK, ProductRows, DesignRows, MoveRows
  <1> QED
    BY <1>1 DEF CatalogueInit, CatalogueInv, CanonicalIntegrity, ArchivedProductEmpty,
                ContextsReadable, MoveWell, IsReadable

LEMMA CatalogueStep ==
    ASSUME CatalogueInv, [CatalogueNext]_catalogueVars
    PROVE  CatalogueInv' /\ MovesOnlyAsPreviewed
  <1>1. CASE ProductNext
    BY <1>1, CreateProductKeeps, ReadProductKeeps, UpdateProductKeeps, ArchiveProductKeeps,
       RestoreProductKeeps DEF ProductNext
  <1>2. CASE DesignNext
    <2>1. ASSUME NEW d \in Designs, NEW x \in Contexts, SetContext(x, d)
          PROVE  CatalogueInv' /\ MovesOnlyAsPreviewed
      BY <2>1, ContextKeeps DEF SetContext
    <2> QED
      BY <1>2, <2>1, CreateDesignKeeps, CreateDesignAndProductKeeps, CommitRevisionKeeps,
         ArchiveDesignKeeps, RestoreArchivedDesignKeeps DEF DesignNext
  <1>3. CASE MoveNext
    BY <1>3, PreviewDesignMoveKeeps, ReadDesignMovePreviewKeeps, CommitDesignMovePreviewKeeps
       DEF MoveNext
  <1>4. ASSUME NEW x \in Contexts, ClearContext(x)
        PROVE  CatalogueInv' /\ MovesOnlyAsPreviewed
    BY <1>4, ContextKeeps DEF ClearContext
  <1>5. CASE TimePasses
    BY <1>5, CatalogueTyped, TimePassesKeeps DEF TimePasses
  <1>6. CASE UNCHANGED catalogueVars
    BY <1>6, CatalogueTyped, TimePassesKeeps DEF catalogueVars
  <1> QED
    BY <1>1, <1>2, <1>3, <1>4, <1>5, <1>6 DEF CatalogueNext

\* Beside the specifications and the interviews the catalogue goes its own way.
THEOREM PlanningRefinesCatalogue == PlanningSpec => CatalogueSpec
  <1>1. PlanningInit => CatalogueInit
    BY DEF PlanningInit
  <1>2. [PlanningNext]_allVars => [CatalogueNext]_catalogueVars
    BY DEF PlanningNext, PlanningStep, allVars
  <1> QED
    BY <1>1, <1>2, PTL DEF PlanningSpec, CatalogueSpec

\* However products and designs are created, archived, restored, committed and
\* moved, with other clients in between: the canonical design of a product is an
\* active one of its own, an archived product owns no active design, no editor
\* has an archived design open, and a design changes its product only by a move
\* in time that found it where and as it was previewed.
THEOREM CatalogueAlwaysKept == PlanningSpec => CatalogueKept
  <1>1. CatalogueInit => CatalogueInv
    BY CatalogueStarts
  <1>2. CatalogueInv /\ [CatalogueNext]_catalogueVars => CatalogueInv'
    BY CatalogueStep
  <1>3. CatalogueInv => CanonicalIntegrity /\ ArchivedProductEmpty /\ ContextsReadable
    BY DEF CatalogueInv
  <1>4. CatalogueInv /\ [CatalogueNext]_catalogueVars => [MovesOnlyAsPreviewed]_catalogueVars
    BY CatalogueStep
  <1>5. CatalogueSpec => [](CanonicalIntegrity /\ ArchivedProductEmpty /\ ContextsReadable)
                          /\ [][MovesOnlyAsPreviewed]_catalogueVars
    BY <1>1, <1>2, <1>3, <1>4, PTL DEF CatalogueSpec
  <1>6. CatalogueKept <=> [](CanonicalIntegrity /\ ArchivedProductEmpty /\ ContextsReadable)
                           /\ [][MovesOnlyAsPreviewed]_catalogueVars
    BY DEF CatalogueKept, MovedExactly, MovesOnlyAsPreviewed
  <1> QED
    BY <1>5, <1>6, PlanningRefinesCatalogue, PTL

-----------------------------------------------------------------------------
(* Saves of a specification.                                               *)

SpecRows == [brief : Briefs, body : Bodies, key : Keys, base : Nat,
             asked : [brief : Briefs, structured : Bodies \cup {None}]]

SpecPreviewRows == [status : {"ready", "expired", "committed"}, actor : Writers,
                    base : Nat, brief : Briefs, body : Bodies, expires : Nat]

CallRecords == [from : Writers, n : Nat, base : Nat, brief : Briefs,
                structured : Bodies \cup {None}, key : Keys, preview : Nat,
                answer : Replies \cup {None}, waited : BOOLEAN]

SavingTypeOK ==
    /\ specs \in Seq(SpecRows) /\ specPreviews \in Seq(SpecPreviewRows)
    /\ DOMAIN replies \subseteq Keys
    /\ \A key \in DOMAIN replies : replies[key] \in 1..CurrentSpec
    /\ panels \in [Clients -> Panels \cup {None}]
    /\ calls \subseteq CallRecords
    /\ started \in 0..MaxSaves /\ proposed \in 0..MaxProposals

\* Keys and numbers of calls given out so far.
Issued == 1..started + proposed

\* Every version has a key of its own, which is answered with that version.
VersionsAnswered ==
    \A v \in 1..CurrentSpec :
        /\ specs[v].key \in DOMAIN replies /\ replies[specs[v].key] = v
        /\ specs[v].base = v - 1
        /\ specs[v].brief = specs[v].asked.brief
        /\ specs[v].body = IF specs[v].asked.structured # None THEN specs[v].asked.structured
                           ELSE IF v = 1 THEN Blank ELSE specs[v - 1].body
AnswersVersions ==
    \A key \in DOMAIN replies :
        key \in Issued /\ replies[key] \in 1..CurrentSpec /\ specs[replies[key]].key = key

\* Preview p is what the draft x asks for; x is a call or the attempt of a panel.
PreviewIs(x, p) ==
    /\ p \in 1..Len(specPreviews)
    /\ specPreviews[p].base = x.base /\ specPreviews[p].brief = x.brief
    /\ specPreviews[p].body = BodyOf(x)

DraftWell(x) ==
    /\ x.key \in Issued /\ x.base \in 0..CurrentSpec
    /\ x.preview # 0 => PreviewIs(x, x.preview)
    /\ x.key \in DOMAIN replies =>
          /\ specs[replies[x.key]].asked.brief = x.brief
          /\ specs[replies[x.key]].asked.structured = x.structured

\* Two with one key are of the same save.
SameSave(x, y) ==
    x.key = y.key =>
        /\ x.base = y.base /\ x.brief = y.brief /\ x.structured = y.structured
        /\ x.preview # 0 /\ y.preview # 0 => x.preview = y.preview

\* Nothing with the key of x has got as far as its commit.
Uncommitted(x) ==
    /\ x.key \notin DOMAIN replies
    /\ \A y \in calls : y.key = x.key => y.preview = 0

\* Why the commit of the preview of x is refused, now and from now on.
Refused(x) ==
    \/ specPreviews[x.preview].status = "committed"
    \/ specPreviews[x.preview].expires <= clock
    \/ CurrentSpec # x.base

CallWell(x) ==
    /\ DraftWell(x) /\ x.n \in Issued
    /\ x.preview = 0 /\ x.waited => Uncommitted(x)
    /\ x.answer # None =>
          /\ x.waited
          /\ x.answer.code = "ok" /\ x.preview = 0 => PreviewIs(x, x.answer.preview)
          /\ x.answer.code = "ok" /\ x.preview # 0 =>
                x.key \in DOMAIN replies /\ x.answer.version = replies[x.key]
          /\ x.answer.code # "ok" =>
                /\ x.key \notin DOMAIN replies
                /\ x.preview # 0 => Refused(x)
                /\ x.answer.code = "VERSION_CONFLICT" => CurrentSpec # 0

\* A call is known by its number, and one that is waited for by its key.
CallsApart ==
    \A x, y \in calls :
        /\ x.n = y.n => x = y
        /\ x.key = y.key /\ x.waited /\ y.waited => x = y
        /\ SameSave(x, y)

\* What a panel keeps for the next try of its save.
Held(c) == IF panels[c] = None THEN {} ELSE {panels[c].attempt} \ {None}

AttemptWell(c, a) ==
    /\ DraftWell(a)
    /\ a.preview = 0 => Uncommitted(a)
    /\ \A x \in calls :
          /\ SameSave(x, a)
          /\ x.key = a.key /\ x.waited => x.from = c /\ x.n = panels[c].saving
          /\ x.from = c /\ x.n = panels[c].saving => x.key = a.key

PanelWell(c) ==
    /\ panels[c] # None =>
          /\ panels[c].loaded \in 0..CurrentSpec
          /\ panels[c].loaded > 0 => panels[c].loadedBrief = specs[panels[c].loaded].brief
          /\ panels[c].saving # 0 => panels[c].saving \in Issued /\ panels[c].attempt # None
    /\ \A a \in Held(c) : AttemptWell(c, a)

AttemptsApart ==
    \A c, e \in Clients : c # e => \A a \in Held(c), b \in Held(e) : a.key # b.key

SavingInv ==
    /\ SavingTypeOK /\ VersionsAnswered /\ AnswersVersions
    /\ \A x \in calls : CallWell(x)
    /\ CallsApart
    /\ \A c \in Clients : PanelWell(c)
    /\ AttemptsApart

-----------------------------------------------------------------------------
(* What the invariant says of the parts.                                   *)

LEMMA SavingTyped ==
    ASSUME SavingInv
    PROVE  /\ specs \in Seq(SpecRows) /\ specPreviews \in Seq(SpecPreviewRows)
           /\ CurrentSpec \in Nat /\ Len(specPreviews) \in Nat
           /\ \A v \in 1..CurrentSpec : specs[v] \in SpecRows
           /\ DOMAIN specPreviews = 1..Len(specPreviews)
           /\ \A p \in 1..Len(specPreviews) : specPreviews[p] \in SpecPreviewRows
           /\ DOMAIN replies \subseteq Keys
           /\ \A key \in DOMAIN replies : replies[key] \in 1..CurrentSpec
           /\ panels \in [Clients -> Panels \cup {None}] /\ calls \subseteq CallRecords
           /\ started \in Nat /\ proposed \in Nat
           /\ started <= MaxSaves /\ proposed <= MaxProposals
           /\ MaxSaves \in Nat /\ MaxProposals \in Nat /\ SpecTTL \in Nat
  <1>1. SavingTypeOK
    BY DEF SavingInv
  <1>2. /\ CurrentSpec \in Nat /\ Len(specPreviews) \in Nat
        /\ \A v \in 1..CurrentSpec : specs[v] \in SpecRows
        /\ DOMAIN specPreviews = 1..Len(specPreviews)
        /\ \A p \in 1..Len(specPreviews) : specPreviews[p] \in SpecPreviewRows
    BY <1>1, LenProperties, ElementOfSeq DEF SavingTypeOK, CurrentSpec
  <1> QED
    BY <1>1, <1>2, PlanningAssumption DEF SavingTypeOK

LEMMA SavingParts ==
    ASSUME SavingInv
    PROVE  /\ VersionsAnswered /\ AnswersVersions /\ CallsApart /\ AttemptsApart
           /\ \A x \in calls : CallWell(x)
           /\ \A c \in Clients : PanelWell(c)
  BY DEF SavingInv

LEMMA CallTyped ==
    ASSUME SavingInv, NEW x \in calls
    PROVE  /\ x.from \in Writers /\ x.n \in Nat /\ x.base \in Nat /\ x.brief \in Briefs
           /\ x.structured \in Bodies \cup {None} /\ x.key \in Keys /\ x.preview \in Nat
           /\ x.answer \in Replies \cup {None} /\ x.waited \in BOOLEAN
  BY SavingTyped DEF CallRecords

LEMMA HeldTyped ==
    ASSUME SavingInv, NEW c \in Clients, NEW a \in Held(c)
    PROVE  a \in Draft /\ a # None /\ panels[c] # None /\ panels[c].attempt = a
  BY SavingTyped DEF Held, Panels

-----------------------------------------------------------------------------
(* What a step leaves as it was.                                           *)

\* Versions and previews are only added, and time passes.
Later ==
    /\ CurrentSpec' \in Nat /\ CurrentSpec <= CurrentSpec'
    /\ \A v \in 1..CurrentSpec : specs'[v] = specs[v]
    /\ Len(specPreviews)' \in Nat /\ Len(specPreviews) <= Len(specPreviews)'
    /\ \A p \in 1..Len(specPreviews) :
          /\ specPreviews'[p].base = specPreviews[p].base
          /\ specPreviews'[p].brief = specPreviews[p].brief
          /\ specPreviews'[p].body = specPreviews[p].body
          /\ specPreviews'[p].expires = specPreviews[p].expires
          /\ specPreviews[p].status = "committed" => specPreviews'[p].status = "committed"
    /\ started' + proposed' \in Nat /\ started + proposed <= started' + proposed'
    /\ clock \in Nat /\ clock' \in Nat /\ clock <= clock'

LEMMA LaterTrivially ==
    ASSUME SavingInv, UNCHANGED <<specs, specPreviews>>,
           started' + proposed' \in Nat, started + proposed <= started' + proposed',
           clock \in Nat, clock' \in Nat, clock <= clock'
    PROVE  Later
  BY SavingTyped DEF Later, CurrentSpec

LEMMA BodyLater ==
    ASSUME SavingInv, Later, NEW x, x.base \in 0..CurrentSpec
    PROVE  BodyOf(x)' = BodyOf(x)
  <1>1. x.base # 0 => specs'[x.base] = specs[x.base]
    BY SavingTyped DEF Later
  <1> QED
    BY <1>1 DEF BodyOf

LEMMA PreviewLater ==
    ASSUME SavingInv, Later, NEW x, x.base \in 0..CurrentSpec, NEW p, PreviewIs(x, p)
    PROVE  PreviewIs(x, p)'
  BY SavingTyped, BodyLater DEF PreviewIs, Later

\* The keys that are answered, and with what.
LEMMA DraftLater ==
    ASSUME SavingInv, Later, UNCHANGED replies, NEW x, DraftWell(x)
    PROVE  DraftWell(x)'
  <1>1. x.key \in Issued' /\ x.base \in 0..CurrentSpec'
    BY SavingTyped DEF DraftWell, Issued, Later
  <1>2. x.preview # 0 => PreviewIs(x, x.preview)'
    BY PreviewLater DEF DraftWell
  <1>3. x.key \in DOMAIN replies =>
           specs'[replies[x.key]] = specs[replies[x.key]]
    BY SavingTyped DEF Later
  <1> QED
    BY <1>1, <1>2, <1>3 DEF DraftWell

LEMMA UncommittedKept ==
    ASSUME UNCHANGED replies, NEW x, Uncommitted(x),
           \A z \in calls' \ calls : z.key = x.key => z.preview = 0
    PROVE  Uncommitted(x)'
  BY DEF Uncommitted

LEMMA RefusedLater ==
    ASSUME SavingInv, Later, NEW x, x.base \in 0..CurrentSpec,
           x.preview \in 1..Len(specPreviews), Refused(x)
    PROVE  Refused(x)'
  <1>1. /\ specPreviews'[x.preview].expires = specPreviews[x.preview].expires
        /\ specPreviews[x.preview].status = "committed" => specPreviews'[x.preview].status = "committed"
    BY DEF Later
  <1>2. specPreviews[x.preview].expires \in Nat
    BY SavingTyped DEF SpecPreviewRows
  <1>3. CASE specPreviews[x.preview].status = "committed"
    BY <1>1, <1>3 DEF Refused
  <1>4. CASE specPreviews[x.preview].expires <= clock
    BY <1>1, <1>2, <1>4 DEF Refused, Later
  <1>5. CASE CurrentSpec # x.base
    BY <1>5, SavingTyped DEF Refused, Later
  <1> QED
    BY <1>3, <1>4, <1>5 DEF Refused

\* A call that stays, in a step that answers no key.
LEMMA CallKept ==
    ASSUME SavingInv, Later, UNCHANGED replies, NEW x \in calls,
           \A z \in calls' \ calls : z.key = x.key /\ x.waited /\ x.preview = 0 => z.preview = 0
    PROVE  CallWell(x)'
  <1>1. CallWell(x)
    BY SavingParts
  <1>2. DraftWell(x)' /\ x.n \in Issued'
    BY <1>1, DraftLater, SavingTyped DEF CallWell, Issued, Later
  <1>3. x.preview = 0 /\ x.waited => Uncommitted(x)'
    BY <1>1, UncommittedKept DEF CallWell
  <1>4. x.answer # None /\ x.answer.code = "ok" /\ x.preview = 0 => PreviewIs(x, x.answer.preview)'
    BY <1>1, PreviewLater DEF CallWell, DraftWell
  <1>5. x.preview # 0 /\ Refused(x) => Refused(x)'
    BY <1>1, RefusedLater DEF CallWell, DraftWell, PreviewIs
  <1>6. CurrentSpec # 0 => CurrentSpec' # 0
    BY SavingTyped DEF Later
  <1> QED
    BY <1>1, <1>2, <1>3, <1>4, <1>5, <1>6 DEF CallWell

\* A version once made and answered stays so.
LEMMA VersionsKept ==
    ASSUME SavingInv, Later, UNCHANGED <<specs, replies>>
    PROVE  (VersionsAnswered /\ AnswersVersions)'
  <1>1. VersionsAnswered'
    BY SavingParts DEF VersionsAnswered, CurrentSpec
  <1>2. AnswersVersions'
    BY SavingParts, SavingTyped DEF AnswersVersions, CurrentSpec, Issued, Later
  <1> QED
    BY <1>1, <1>2

\* The attempt of a panel that stays.
LEMMA AttemptKept ==
    ASSUME SavingInv, Later, UNCHANGED replies, NEW c \in Clients, NEW a \in Held(c),
           \A z \in calls' \ calls :
              /\ SameSave(z, a) /\ (z.key = a.key /\ a.preview = 0 => z.preview = 0)
              /\ z.key = a.key /\ z.waited => z.from = c /\ z.n = panels'[c].saving
              /\ z.from = c /\ z.n = panels'[c].saving => z.key = a.key,
           \A x \in calls \cap calls' :
              /\ x.key = a.key /\ x.waited => x.from = c /\ x.n = panels'[c].saving
              /\ x.from = c /\ x.n = panels'[c].saving => x.key = a.key
    PROVE  AttemptWell(c, a)'
  <1>1. AttemptWell(c, a)
    BY SavingParts DEF PanelWell
  <1>2. DraftWell(a)'
    BY <1>1, DraftLater DEF AttemptWell
  <1>3. a.preview = 0 => Uncommitted(a)'
    BY <1>1, UncommittedKept DEF AttemptWell
  <1>4. ASSUME NEW x \in calls'
        PROVE  /\ SameSave(x, a)
               /\ x.key = a.key /\ x.waited => x.from = c /\ x.n = panels'[c].saving
               /\ x.from = c /\ x.n = panels'[c].saving => x.key = a.key
    BY <1>1 DEF AttemptWell
  <1> QED
    BY <1>2, <1>3, <1>4 DEF AttemptWell, SameSave

-----------------------------------------------------------------------------
(* Steps that answer no key.                                               *)

LEMMA OnePanel ==
    ASSUME SavingInv, NEW c \in Clients, NEW panel \in Panels \cup {None},
           panels' = [panels EXCEPT ![c] = panel]
    PROVE  /\ panels' \in [Clients -> Panels \cup {None}] /\ panels'[c] = panel
           /\ \A e \in Clients \ {c} : panels'[e] = panels[e]
           /\ Held(c)' = IF panel = None THEN {} ELSE {panel.attempt} \ {None}
           /\ \A e \in Clients \ {c} : Held(e)' = Held(e)
  BY SavingTyped DEF Held

LEMMA SavingStep ==
    ASSUME SavingInv, Later, UNCHANGED <<specs, replies>>, SavingTypeOK',
           \A z \in calls' \ calls : CallWell(z)',
           CallsApart',
           \A x \in calls \cap calls' : \A z \in calls' \ calls :
              z.key = x.key /\ x.waited /\ x.preview = 0 => z.preview = 0,
           \A c \in Clients : PanelWell(c)',
           AttemptsApart'
    PROVE  SavingInv'
  <1>1. \A x \in calls' : CallWell(x)'
    BY CallKept
  <1> QED
    BY <1>1, VersionsKept DEF SavingInv

LEMMA AttemptsStay ==
    ASSUME SavingInv, \A c \in Clients : \A a \in Held(c)' : \E b \in Held(c) : a.key = b.key
    PROVE  AttemptsApart'
  <1> SUFFICES ASSUME NEW c \in Clients, NEW e \in Clients, c # e, NEW a \in Held(c)', NEW b \in Held(e)'
               PROVE  a.key # b.key
    BY DEF AttemptsApart
  <1>1. PICK x \in Held(c) : a.key = x.key
    OBVIOUS
  <1>2. PICK y \in Held(e) : b.key = y.key
    OBVIOUS
  <1> QED
    BY <1>1, <1>2, SavingParts DEF AttemptsApart

\* A panel nothing is done to.
LEMMA PanelRests ==
    ASSUME SavingInv, Later, UNCHANGED replies, NEW c \in Clients, panels'[c] = panels[c],
           \A a \in Held(c) : \A z \in calls' \ calls :
              /\ SameSave(z, a) /\ (z.key = a.key /\ a.preview = 0 => z.preview = 0)
              /\ z.key = a.key /\ z.waited => z.from = c /\ z.n = panels[c].saving
              /\ z.from = c /\ z.n = panels[c].saving => z.key = a.key
    PROVE  PanelWell(c)'
  <1>1. Held(c)' = Held(c)
    BY DEF Held
  <1>2. ASSUME NEW a \in Held(c)
        PROVE  AttemptWell(c, a)'
    <2>1. \A x \in calls \cap calls' :
              /\ x.key = a.key /\ x.waited => x.from = c /\ x.n = panels'[c].saving
              /\ x.from = c /\ x.n = panels'[c].saving => x.key = a.key
      BY SavingParts DEF PanelWell, AttemptWell
    <2>2. \A z \in calls' \ calls :
              /\ SameSave(z, a) /\ (z.key = a.key /\ a.preview = 0 => z.preview = 0)
              /\ z.key = a.key /\ z.waited => z.from = c /\ z.n = panels'[c].saving
              /\ z.from = c /\ z.n = panels'[c].saving => z.key = a.key
      OBVIOUS
    <2> QED
      BY <2>1, <2>2, AttemptKept
  <1>3. panels'[c] # None =>
          /\ panels'[c].loaded \in 0..CurrentSpec'
          /\ panels'[c].loaded > 0 => panels'[c].loadedBrief = specs'[panels'[c].loaded].brief
          /\ panels'[c].saving # 0 => panels'[c].saving \in Issued' /\ panels'[c].attempt # None
    <2>1. panels[c] # None =>
          /\ panels[c].loaded \in 0..CurrentSpec
          /\ panels[c].loaded > 0 => panels[c].loadedBrief = specs[panels[c].loaded].brief
          /\ panels[c].saving # 0 => panels[c].saving \in Issued /\ panels[c].attempt # None
      BY SavingParts DEF PanelWell
    <2>2. /\ 0..CurrentSpec \subseteq 0..CurrentSpec' /\ Issued \subseteq Issued'
          /\ \A v \in 0..CurrentSpec : v > 0 => specs'[v] = specs[v]
      BY SavingTyped DEF Later, Issued
    <2> QED
      BY <2>1, <2>2
  <1> QED
    BY <1>1, <1>2, <1>3 DEF PanelWell

\* The types of what a step of a panel or of time leaves alone.
LEMMA PanelTypes ==
    ASSUME SavingInv, UNCHANGED <<specs, specPreviews, replies, started, proposed>>,
           calls' \subseteq CallRecords, panels' \in [Clients -> Panels \cup {None}]
    PROVE  SavingTypeOK'
  BY DEF SavingInv, SavingTypeOK, CurrentSpec

\* A step of one panel and of no call: the attempt stays, or goes.
LEMMA PanelStep ==
    ASSUME SavingInv, NEW c \in Clients, NEW panel \in Panels \cup {None},
           panels' = [panels EXCEPT ![c] = panel],
           UNCHANGED <<specs, specPreviews, replies, calls, started, proposed, clock>>, clock \in Nat,
           panel # None =>
              /\ panel.loaded \in 0..CurrentSpec
              /\ panel.loaded > 0 => panel.loadedBrief = specs[panel.loaded].brief
              /\ panel.saving # 0 => panel.saving \in Issued /\ panel.attempt # None
              /\ panel.attempt # None => /\ panel.attempt \in Held(c)
                                         /\ panel.saving = panels[c].saving
    PROVE  SavingInv'
  <1>1. Later
    BY SavingTyped, LaterTrivially
  <1>2. /\ panels' \in [Clients -> Panels \cup {None}] /\ panels'[c] = panel
        /\ \A e \in Clients \ {c} : panels'[e] = panels[e]
        /\ Held(c)' = IF panel = None THEN {} ELSE {panel.attempt} \ {None}
        /\ \A e \in Clients \ {c} : Held(e)' = Held(e)
    BY OnePanel
  <1>3. SavingTypeOK'
    BY <1>2, SavingTyped, PanelTypes
  <1>4. \A e \in Clients \ {c} : PanelWell(e)'
    BY <1>1, <1>2, PanelRests
  <1>5. PanelWell(c)'
    <2>1. ASSUME NEW a \in Held(c)'
          PROVE  AttemptWell(c, a)'
      <3>1. a \in Held(c) /\ panels'[c].saving = panels[c].saving
        BY <1>2, <2>1
      <3>2. \A x \in calls \cap calls' :
              /\ x.key = a.key /\ x.waited => x.from = c /\ x.n = panels'[c].saving
              /\ x.from = c /\ x.n = panels'[c].saving => x.key = a.key
        BY <3>1, SavingParts DEF PanelWell, AttemptWell
      <3>3. calls' \ calls = {}
        OBVIOUS
      <3> QED
        BY <1>1, <3>1, <3>2, <3>3, AttemptKept
    <2>2. CurrentSpec' = CurrentSpec /\ Issued' = Issued
      BY DEF CurrentSpec, Issued
    <2> QED
      BY <1>2, <2>1, <2>2 DEF PanelWell
  <1>6. CallsApart'
    BY SavingParts DEF CallsApart, SameSave
  <1>7. AttemptsApart'
    <2>1. ASSUME NEW e \in Clients, NEW a \in Held(e)'
          PROVE  \E b \in Held(e) : a.key = b.key
      BY <1>2, <2>1
    <2> QED
      BY <2>1, AttemptsStay
  <1> QED
    BY <1>1, <1>3, <1>4, <1>5, <1>6, <1>7, SavingStep

LEMMA SavesRest ==
    ASSUME SavingInv, clock \in Nat,
           UNCHANGED <<specs, specPreviews, replies, panels, calls, started, proposed, clock>>
    PROVE  SavingInv'
  <1>1. Later
    BY SavingTyped, LaterTrivially
  <1>2. SavingTypeOK'
    BY SavingTyped, PanelTypes
  <1>3. \A c \in Clients : PanelWell(c)'
    BY <1>1, PanelRests
  <1>4. CallsApart' /\ AttemptsApart'
    BY SavingParts DEF CallsApart, SameSave, AttemptsApart, Held
  <1> QED
    BY <1>1, <1>2, <1>3, <1>4, SavingStep

\* Time passes.
LEMMA TimeKeepsSaves ==
    ASSUME SavingInv, UNCHANGED planningVars, clock \in Nat, clock' \in Nat, clock <= clock'
    PROVE  SavingInv'
  <1>1. Later
    BY SavingTyped, LaterTrivially DEF planningVars
  <1>2. SavingTypeOK'
    BY SavingTyped, PanelTypes DEF planningVars
  <1>3. \A c \in Clients : PanelWell(c)'
    BY <1>1, PanelRests DEF planningVars
  <1>4. CallsApart'
    BY SavingParts DEF CallsApart, SameSave, planningVars
  <1>5. AttemptsApart'
    BY SavingParts DEF AttemptsApart, Held, planningVars
  <1> QED
    BY <1>1, <1>2, <1>3, <1>4, <1>5, SavingStep DEF planningVars

-----------------------------------------------------------------------------
(* The panel.                                                              *)

LEMMA LoadedPanel ==
    ASSUME SavingInv, NEW v \in 0..CurrentSpec
    PROVE  /\ Loaded(v) \in Panels /\ Loaded(v).loaded = v /\ Loaded(v).saving = 0
           /\ Loaded(v).attempt = None
           /\ v > 0 => Loaded(v).loadedBrief = specs[v].brief
  <1>1. v > 0 => specs[v].brief \in Briefs
    BY SavingTyped DEF SpecRows
  <1>2. v \in Nat
    BY SavingTyped
  <1>3. CASE v = 0
    BY <1>2, <1>3 DEF Loaded, Panels
  <1>4. CASE v > 0
    BY <1>1, <1>2, <1>4 DEF Loaded, Panels
  <1> QED
    BY <1>2, <1>3, <1>4

\* What a panel that is open says.
LEMMA OpenPanelSays ==
    ASSUME SavingInv, NEW c \in Clients, panels[c] # None
    PROVE  /\ panels[c] \in Panels /\ panels[c].loaded \in 0..CurrentSpec
           /\ panels[c].loaded > 0 => panels[c].loadedBrief = specs[panels[c].loaded].brief
           /\ panels[c].saving # 0 => panels[c].saving \in Issued /\ panels[c].attempt # None
           /\ panels[c].attempt # None => panels[c].attempt \in Held(c)
  <1>1. panels[c] \in Panels
    BY SavingTyped
  <1> QED
    BY <1>1, SavingParts DEF PanelWell, Held

LEMMA OpenPanelKeeps ==
    ASSUME SavingInv, NEW c \in Clients, OpenPanel(c), UNCHANGED clock, clock \in Nat
    PROVE  SavingInv'
  <1> DEFINE panel == Loaded(CurrentSpec)
  <1>1. CurrentSpec \in 0..CurrentSpec
    BY SavingTyped
  <1>2. /\ panel \in Panels /\ panel.loaded = CurrentSpec /\ panel.saving = 0 /\ panel.attempt = None
        /\ CurrentSpec > 0 => panel.loadedBrief = specs[CurrentSpec].brief
    BY <1>1, LoadedPanel
  <1>3. /\ panels' = [panels EXCEPT ![c] = panel]
        /\ UNCHANGED <<specs, specPreviews, replies, calls, started, proposed>>
    BY DEF OpenPanel
  <1> HIDE DEF panel
  <1> QED
    BY <1>1, <1>2, <1>3, PanelStep

LEMMA EditBriefKeeps ==
    ASSUME SavingInv, NEW c \in Clients, NEW brief \in Briefs, EditBrief(c, brief),
           UNCHANGED clock, clock \in Nat
    PROVE  SavingInv'
  <1> DEFINE panel == [panels[c] EXCEPT !.brief = brief]
  <1>1. panels[c] # None
    BY DEF EditBrief, PanelClosed
  <1>2. /\ panel \in Panels /\ panel.loaded = panels[c].loaded /\ panel.saving = panels[c].saving
        /\ panel.attempt = panels[c].attempt /\ panel.loadedBrief = panels[c].loadedBrief
    BY <1>1, OpenPanelSays DEF Panels
  <1>3. panels' = [panels EXCEPT ![c] = panel]
    BY SavingTyped DEF EditBrief
  <1>4. UNCHANGED <<specs, specPreviews, replies, calls, started, proposed>>
    BY DEF EditBrief
  <1> HIDE DEF panel
  <1> QED
    BY <1>1, <1>2, <1>3, <1>4, OpenPanelSays, PanelStep

LEMMA AppendActionKeeps ==
    ASSUME SavingInv, NEW c \in Clients, NEW brief \in Briefs, AppendAction(c, brief),
           UNCHANGED clock, clock \in Nat
    PROVE  SavingInv'
  <1> DEFINE panel == [panels[c] EXCEPT !.brief = brief]
  <1>1. panels[c] # None
    BY DEF AppendAction, PanelClosed
  <1>2. /\ panel \in Panels /\ panel.loaded = panels[c].loaded /\ panel.saving = panels[c].saving
        /\ panel.attempt = panels[c].attempt /\ panel.loadedBrief = panels[c].loadedBrief
    BY <1>1, OpenPanelSays DEF Panels
  <1>3. panels' = [panels EXCEPT ![c] = panel]
    BY SavingTyped DEF AppendAction
  <1>4. UNCHANGED <<specs, specPreviews, replies, calls, started, proposed>>
    BY DEF AppendAction
  <1> HIDE DEF panel
  <1> QED
    BY <1>1, <1>2, <1>3, <1>4, OpenPanelSays, PanelStep

LEMMA EditHistoricalKeeps ==
    ASSUME SavingInv, NEW c \in Clients, NEW version \in 1..CurrentSpec,
           EditHistoricalSpecification(c, version), UNCHANGED clock, clock \in Nat
    PROVE  SavingInv'
  <1> DEFINE panel == [panels[c] EXCEPT !.brief = specs[version].brief,
                                        !.structured = specs[version].body]
  <1>1. panels[c] # None /\ specs[version].brief \in Briefs /\ specs[version].body \in Bodies
    BY SavingTyped DEF EditHistoricalSpecification, PanelClosed, SpecRows
  <1>2. /\ panel \in Panels /\ panel.loaded = panels[c].loaded /\ panel.saving = panels[c].saving
        /\ panel.attempt = panels[c].attempt /\ panel.loadedBrief = panels[c].loadedBrief
    BY <1>1, OpenPanelSays DEF Panels
  <1>3. panels' = [panels EXCEPT ![c] = panel]
    BY SavingTyped DEF EditHistoricalSpecification
  <1>4. UNCHANGED <<specs, specPreviews, replies, calls, started, proposed>>
    BY DEF EditHistoricalSpecification
  <1> HIDE DEF panel
  <1> QED
    BY <1>1, <1>2, <1>3, <1>4, OpenPanelSays, PanelStep

LEMMA ClosePanelKeeps ==
    ASSUME SavingInv, NEW c \in Clients, ClosePanel(c), UNCHANGED clock, clock \in Nat
    PROVE  SavingInv'
  <1>1. /\ panels' = [panels EXCEPT ![c] = None]
        /\ UNCHANGED <<specs, specPreviews, replies, calls, started, proposed>>
    BY DEF ClosePanel
  <1> QED
    BY <1>1, PanelStep

-----------------------------------------------------------------------------
(* New calls.                                                              *)

LEMMA FreshKey ==
    ASSUME SavingInv
    PROVE  /\ NextKey \in Nat \ {0} /\ NextKey \notin Issued /\ NextKey \notin DOMAIN replies
           /\ \A x \in calls : x.key # NextKey /\ x.n # NextKey /\ x.n # 0
           /\ \A c \in Clients : /\ \A a \in Held(c) : a.key # NextKey
                                 /\ panels[c] # None => panels[c].saving # NextKey
  <1>1. NextKey \in Nat \ {0} /\ NextKey \notin Issued /\ 0 \notin Issued
    BY SavingTyped DEF NextKey, Issued
  <1>2. NextKey \notin DOMAIN replies
    BY <1>1, SavingParts DEF AnswersVersions
  <1>3. \A x \in calls : x.key \in Issued /\ x.n \in Issued
    BY SavingParts DEF CallWell, DraftWell
  <1>4. \A c \in Clients : \A a \in Held(c) : a.key \in Issued
    BY SavingParts DEF PanelWell, AttemptWell, DraftWell
  <1>5. \A c \in Clients : panels[c] # None => panels[c].saving = 0 \/ panels[c].saving \in Issued
    BY SavingParts DEF PanelWell
  <1> QED
    BY <1>1, <1>2, <1>3, <1>4, <1>5

LEMMA SameDraft ==
    ASSUME NEW x, NEW y, x.key = y.key, x.base = y.base, x.brief = y.brief,
           x.structured = y.structured, x.preview = y.preview, DraftWell(x)
    PROVE  DraftWell(y)
  BY DEF DraftWell, PreviewIs, BodyOf

\* A call with a new number, whose key nobody waits for.
LEMMA NewCall ==
    ASSUME SavingInv, UNCHANGED replies, NEW z, calls' = calls \cup {z},
           z.n = NextKey, z.n \in Issued', z.answer = None, DraftWell(z)',
           z.preview = 0 => Uncommitted(z),
           \A x \in calls : SameSave(x, z) /\ ~(x.key = z.key /\ x.waited)
    PROVE  CallWell(z)' /\ CallsApart'
  <1>1. z.preview = 0 => Uncommitted(z)'
    BY DEF Uncommitted
  <1>2. CallWell(z)'
    BY <1>1 DEF CallWell
  <1>3. ASSUME NEW x \in calls', NEW y \in calls'
        PROVE  /\ x.n = y.n => x = y
               /\ x.key = y.key /\ x.waited /\ y.waited => x = y
               /\ SameSave(x, y)
    <2>1. CASE x \in calls /\ y \in calls
      BY <2>1, SavingParts DEF CallsApart
    <2>2. CASE x = z /\ y = z
      BY <2>2 DEF SameSave
    <2>3. CASE x \in calls /\ y = z
      BY <2>3, FreshKey
    <2>4. CASE x = z /\ y \in calls
      BY <2>4, FreshKey DEF SameSave
    <2> QED
      BY <2>1, <2>2, <2>3, <2>4
  <1> QED
    BY <1>2, <1>3 DEF CallsApart, SameSave

LEMMA PersistBriefKeeps ==
    ASSUME SavingInv, NEW c \in Clients, PersistBrief(c), UNCHANGED clock, clock \in Nat
    PROVE  SavingInv'
  <1>a. PICK a : a = AttemptOf(c)
    OBVIOUS
  <1>z. PICK z : z = [from |-> c, n |-> NextKey, base |-> a.base, brief |-> a.brief,
                      structured |-> a.structured, key |-> a.key, preview |-> a.preview,
                      answer |-> None, waited |-> TRUE]
    OBVIOUS
  <1>p. PICK panel : panel = [panels[c] EXCEPT !.attempt = a, !.saving = NextKey]
    OBVIOUS
  <1>1. /\ panels[c] # None /\ panels[c].saving = 0 /\ panels[c].brief # None
        /\ started < MaxSaves /\ started' = started + 1 /\ calls' = calls \cup {z}
        /\ UNCHANGED <<specs, specPreviews, replies, proposed>>
    BY <1>a, <1>z DEF PersistBrief, PanelClosed, Saving
  <1>2. panels' = [panels EXCEPT ![c] = panel]
    BY <1>a, <1>p, SavingTyped DEF PersistBrief
  <1>3. /\ panels[c] \in Panels /\ panels[c].loaded \in 0..CurrentSpec
        /\ panels[c].brief \in Briefs
    BY <1>1, OpenPanelSays DEF Panels
  <1>4. /\ started' + proposed' = started + proposed + 1 /\ started' + proposed' \in Nat
        /\ NextKey \in Issued' /\ Issued \subseteq Issued' /\ NextKey \in Keys
    <2>1. /\ started \in Nat /\ proposed \in Nat /\ started + 1 <= MaxSaves
          /\ proposed <= MaxProposals /\ MaxSaves \in Nat /\ MaxProposals \in Nat
          /\ started' = started + 1 /\ proposed' = proposed
      BY <1>1, SavingTyped
    <2> QED
      BY <2>1 DEF NextKey, Issued, Keys
  <1>5. Later
    BY <1>1, <1>4, SavingTyped, LaterTrivially
  <1>6. /\ a \in Draft /\ a # None /\ DraftWell(a)' /\ (a.preview = 0 => Uncommitted(a))
        /\ \A x \in calls : SameSave(x, a) /\ ~(x.key = a.key /\ x.waited)
        /\ \A e \in Clients \ {c} : \A b \in Held(e) : b.key # a.key
    <2>1. CASE SameAttempt(panels[c])
      <3>1. a = panels[c].attempt /\ a # None
        BY <1>a, <2>1 DEF AttemptOf, SameAttempt
      <3>2. a \in Held(c)
        BY <1>1, <3>1 DEF Held
      <3>3. AttemptWell(c, a)
        BY <3>2, SavingParts DEF PanelWell
      <3>4. DraftWell(a)'
        BY <1>1, <1>5, <3>3, DraftLater DEF AttemptWell
      <3>5. \A x \in calls : SameSave(x, a) /\ ~(x.key = a.key /\ x.waited)
        BY <1>1, <3>3, FreshKey DEF AttemptWell
      <3>6. \A e \in Clients \ {c} : \A b \in Held(e) : b.key # a.key
        BY <3>2, SavingParts DEF AttemptsApart
      <3> QED
        BY <3>1, <3>2, <3>3, <3>4, <3>5, <3>6, HeldTyped DEF AttemptWell
    <2>2. CASE ~SameAttempt(panels[c])
      <3>1. a = [base |-> panels[c].loaded, brief |-> panels[c].brief,
                 structured |-> panels[c].structured, preview |-> 0, key |-> NextKey]
        BY <1>a, <2>2 DEF AttemptOf
      <3>2. a \in Draft
        BY <1>3, <1>4, <3>1, SavingTyped DEF Draft, Panels
      <3>3. /\ a.key = NextKey /\ a.preview = 0 /\ a.base \in 0..CurrentSpec
        BY <1>3, <3>1
      <3>4. a # None
        BY <3>2, DraftAssumption
      <3>5. DraftWell(a)'
        BY <1>1, <1>4, <3>3, FreshKey DEF DraftWell, CurrentSpec
      <3>6. Uncommitted(a)
        BY <3>3, FreshKey DEF Uncommitted
      <3>7. \A x \in calls : SameSave(x, a) /\ ~(x.key = a.key /\ x.waited)
        BY <3>3, FreshKey DEF SameSave
      <3>8. \A e \in Clients \ {c} : \A b \in Held(e) : b.key # a.key
        BY <3>3, FreshKey
      <3> QED
        BY <3>2, <3>4, <3>5, <3>6, <3>7, <3>8
    <2> QED
      BY <2>1, <2>2
  <1>7. /\ z.from = c /\ z.n = NextKey /\ z.base = a.base /\ z.brief = a.brief
        /\ z.structured = a.structured /\ z.key = a.key /\ z.preview = a.preview
        /\ z.answer = None /\ z.waited
    BY <1>z
  <1>8. z \in CallRecords
    BY <1>z, <1>4, <1>6, FreshKey DEF CallRecords, Draft, Writers
  <1>9. DraftWell(z)'
    BY <1>6, <1>7 DEF DraftWell, PreviewIs, BodyOf
  <1>10. /\ z.preview = 0 => Uncommitted(z)
         /\ \A x \in calls : SameSave(x, z) /\ ~(x.key = z.key /\ x.waited)
    BY <1>6, <1>7 DEF Uncommitted, SameSave
  <1>11. CallWell(z)' /\ CallsApart'
    BY <1>1, <1>4, <1>7, <1>9, <1>10, NewCall
  <1>12. /\ panel \in Panels /\ panel.loaded = panels[c].loaded /\ panel.saving = NextKey
         /\ panel.attempt = a /\ panel.loadedBrief = panels[c].loadedBrief
    BY <1>p, <1>3, <1>6, FreshKey DEF Panels
  <1>13. /\ panels' \in [Clients -> Panels \cup {None}] /\ panels'[c] = panel
         /\ \A e \in Clients \ {c} : panels'[e] = panels[e]
         /\ Held(c)' \subseteq {a}
         /\ \A e \in Clients \ {c} : Held(e)' = Held(e)
    <2>1. panel \in Panels \cup {None}
      BY <1>12
    <2>2. /\ panels' \in [Clients -> Panels \cup {None}] /\ panels'[c] = panel
          /\ \A e \in Clients \ {c} : panels'[e] = panels[e]
          /\ Held(c)' = IF panel = None THEN {} ELSE {panel.attempt} \ {None}
          /\ \A e \in Clients \ {c} : Held(e)' = Held(e)
      BY <1>2, <2>1, OnePanel
    <2> QED
      BY <1>12, <2>2
  <1>14. SavingTypeOK'
    BY <1>1, <1>8, <1>13, <1>4, SavingTyped DEF SavingTypeOK, CurrentSpec
  <1>15. calls' \ calls \subseteq {z}
    BY <1>1
  <1>16. ASSUME NEW e \in Clients, e # c
         PROVE  PanelWell(e)'
    <2>1. \A b \in Held(e) : b.key # z.key
      BY <1>6, <1>7, <1>16
    <2>2. z.from # e
      BY <1>7, <1>16
    <2> QED
      BY <1>1, <1>5, <1>13, <1>15, <1>16, <2>1, <2>2, PanelRests DEF SameSave
  <1>17. PanelWell(c)'
    <2>1. AttemptWell(c, a)'
      <3>1. a.preview = 0 => Uncommitted(a)'
        BY <1>1, <1>6, <1>7 DEF Uncommitted
      <3>2. ASSUME NEW x \in calls'
            PROVE  /\ SameSave(x, a)
                   /\ x.key = a.key /\ x.waited => x.from = c /\ x.n = panels'[c].saving
                   /\ x.from = c /\ x.n = panels'[c].saving => x.key = a.key
        <4>1. CASE x = z
          BY <1>7, <1>12, <1>13, <4>1 DEF SameSave
        <4>2. CASE x \in calls
          BY <1>6, <1>12, <1>13, <4>2, FreshKey
        <4> QED
          BY <1>1, <4>1, <4>2
      <3> QED
        BY <1>6, <3>1, <3>2 DEF AttemptWell, SameSave
    <2>2. CurrentSpec' = CurrentSpec
      BY <1>1 DEF CurrentSpec
    <2> QED
      BY <1>1, <1>3, <1>4, <1>6, <1>12, <1>13, <2>1, <2>2, OpenPanelSays DEF PanelWell
  <1>18. AttemptsApart'
    <2> SUFFICES ASSUME NEW e \in Clients, NEW g \in Clients, e # g,
                        NEW x \in Held(e)', NEW y \in Held(g)'
                 PROVE  x.key # y.key
      BY DEF AttemptsApart
    <2>1. CASE e # c /\ g # c
      BY <1>13, <2>1, SavingParts DEF AttemptsApart
    <2>2. CASE e = c
      BY <1>6, <1>13, <2>2
    <2>3. CASE g = c
      BY <1>6, <1>13, <2>3
    <2> QED
      BY <2>1, <2>2, <2>3
  <1>19. \A x \in calls : z.key = x.key /\ x.waited => z.preview = 0
    BY <1>10
  <1> QED
    BY <1>1, <1>5, <1>11, <1>14, <1>15, <1>16, <1>17, <1>18, <1>19, SavingStep

LEMMA ProposeSpecificationKeeps ==
    ASSUME SavingInv, NEW agent \in Agents, NEW proposal \in Proposals,
           ProposeSpecification(agent, proposal), UNCHANGED clock, clock \in Nat
    PROVE  SavingInv'
  <1>z. PICK z : z = [from |-> agent, n |-> NextKey, base |-> CurrentSpec,
                      brief |-> proposal.brief, structured |-> proposal.body, key |-> NextKey,
                      preview |-> 0, answer |-> None, waited |-> TRUE]
    OBVIOUS
  <1>1. /\ proposed < MaxProposals /\ proposed' = proposed + 1 /\ calls' = calls \cup {z}
        /\ UNCHANGED <<specs, specPreviews, replies, panels, started>>
    BY <1>z DEF ProposeSpecification
  <1>2. /\ started' + proposed' \in Nat /\ started + proposed <= started' + proposed'
        /\ NextKey \in Issued' /\ Issued \subseteq Issued' /\ NextKey \in Keys
    <2>1. /\ started \in Nat /\ proposed \in Nat /\ started <= MaxSaves
          /\ proposed + 1 <= MaxProposals /\ MaxSaves \in Nat /\ MaxProposals \in Nat
          /\ started' = started /\ proposed' = proposed + 1
      BY <1>1, SavingTyped
    <2> QED
      BY <2>1 DEF NextKey, Issued, Keys
  <1>3. Later
    BY <1>1, <1>2, SavingTyped, LaterTrivially
  <1>4. /\ z.from = agent /\ z.n = NextKey /\ z.base = CurrentSpec /\ z.key = NextKey
        /\ z.preview = 0 /\ z.answer = None /\ z.waited
    BY <1>z
  <1>5. z \in CallRecords
    BY <1>z, <1>2, FreshKey, SavingTyped, PlanningAssumption DEF CallRecords, Writers
  <1>6. DraftWell(z)'
    BY <1>1, <1>2, <1>4, SavingTyped, FreshKey DEF DraftWell, CurrentSpec
  <1>7. Uncommitted(z) /\ \A x \in calls : SameSave(x, z) /\ ~(x.key = z.key /\ x.waited)
    BY <1>4, FreshKey DEF Uncommitted, SameSave
  <1>8. CallWell(z)' /\ CallsApart'
    BY <1>1, <1>2, <1>4, <1>6, <1>7, NewCall
  <1>9. SavingTypeOK'
    BY <1>1, <1>2, <1>5, SavingTyped DEF SavingTypeOK, CurrentSpec
  <1>10. ASSUME NEW e \in Clients
         PROVE  PanelWell(e)'
    <2>1. z.from # e /\ \A b \in Held(e) : b.key # z.key
      BY <1>4, FreshKey, PlanningAssumption
    <2> QED
      BY <1>1, <1>3, <2>1, PanelRests DEF SameSave
  <1>11. AttemptsApart'
    BY <1>1, SavingParts DEF AttemptsApart, Held
  <1> QED
    BY <1>1, <1>3, <1>4, <1>8, <1>9, <1>10, <1>11, SavingStep

-----------------------------------------------------------------------------
(* Calls that are answered or given up.                                    *)

\* z is the call x, further on.
SameCall(x, z) ==
    /\ z.from = x.from /\ z.n = x.n /\ z.key = x.key /\ z.base = x.base
    /\ z.brief = x.brief /\ z.structured = x.structured
    /\ z.waited => x.waited

LEMMA CallReplaced ==
    ASSUME SavingInv, NEW x \in calls, NEW z, SameCall(x, z),
           calls' \subseteq (calls \ {x}) \cup {z},
           z.preview = x.preview \/ Uncommitted(x)
    PROVE  CallsApart'
  <1>1. \A y \in calls \ {x} :
           /\ z.n # y.n /\ ~(z.key = y.key /\ z.waited /\ y.waited)
           /\ SameSave(z, y) /\ SameSave(y, z)
    <2> TAKE y \in calls \ {x}
    <2>1. /\ x.n # y.n /\ ~(x.key = y.key /\ x.waited /\ y.waited) /\ SameSave(x, y)
      BY SavingParts DEF CallsApart
    <2>2. z.key = y.key /\ z.preview # x.preview => y.preview = 0
      BY DEF Uncommitted, SameCall
    <2> QED
      BY <2>1, <2>2 DEF SameSave, SameCall
  <1>2. ASSUME NEW y \in calls', NEW w \in calls'
        PROVE  /\ y.n = w.n => y = w
               /\ y.key = w.key /\ y.waited /\ w.waited => y = w
               /\ SameSave(y, w)
    <2>1. CASE y \in calls /\ w \in calls
      BY <2>1, SavingParts DEF CallsApart
    <2>2. CASE y = z /\ w = z
      BY <2>2 DEF SameSave
    <2>3. CASE y \in calls \ {x} /\ w = z
      BY <1>1, <2>3
    <2>4. CASE y = z /\ w \in calls \ {x}
      BY <1>1, <2>4
    <2> QED
      BY <2>1, <2>2, <2>3, <2>4
  <1> QED
    BY <1>2 DEF CallsApart, SameSave

\* Panels to which a call says nothing new.
LEMMA PanelsRest ==
    ASSUME SavingInv, Later, UNCHANGED replies, NEW x \in calls, NEW z, SameCall(x, z),
           z.preview = x.preview, calls' \subseteq (calls \ {x}) \cup {z},
           NEW e \in Clients, panels'[e] = panels[e]
    PROVE  PanelWell(e)'
  <1>1. ASSUME NEW a \in Held(e)
        PROVE  /\ SameSave(z, a) /\ (z.key = a.key /\ a.preview = 0 => z.preview = 0)
               /\ z.key = a.key /\ z.waited => z.from = e /\ z.n = panels[e].saving
               /\ z.from = e /\ z.n = panels[e].saving => z.key = a.key
    <2>1. AttemptWell(e, a)
      BY SavingParts DEF PanelWell
    <2> QED
      BY <2>1 DEF AttemptWell, SameSave, SameCall, Uncommitted
  <1> QED
    BY <1>1, PanelRests

\* The server takes a call up; no key is answered for the first time.
LEMMA ReplyStep ==
    ASSUME SavingInv, Later, UNCHANGED <<specs, replies, panels, started, proposed>>,
           specPreviews' \in Seq(SpecPreviewRows),
           NEW x \in calls, NEW z \in CallRecords, SameCall(x, z), z.preview = x.preview,
           calls' \subseteq (calls \ {x}) \cup {z},
           z \in calls' => CallWell(z)'
    PROVE  SavingInv'
  <1>1. SavingTypeOK'
    BY SavingTyped DEF SavingInv, SavingTypeOK, CurrentSpec
  <1>2. CallsApart'
    BY CallReplaced
  <1>3. \A e \in Clients : PanelWell(e)'
    BY PanelsRest
  <1>4. AttemptsApart'
    BY SavingParts DEF AttemptsApart, Held
  <1>5. \A y \in calls \cap calls' : \A w \in calls' \ calls :
              w.key = y.key /\ y.waited /\ y.preview = 0 => w.preview = 0
    <2> SUFFICES ASSUME NEW y \in calls, z.key = y.key, y.waited, y.preview = 0
                 PROVE  z.preview = 0
      OBVIOUS
    <2>1. Uncommitted(y)
      BY SavingParts DEF CallWell
    <2> QED
      BY <2>1 DEF Uncommitted, SameCall
  <1>6. \A w \in calls' \ calls : CallWell(w)'
    OBVIOUS
  <1> QED
    BY <1>1, <1>2, <1>3, <1>4, <1>5, <1>6, SavingStep

\* The panel that has a save under way is done with it, or its call is gone.
LEMMA PanelAnswered ==
    ASSUME SavingInv, clock \in Nat,
           UNCHANGED <<specs, specPreviews, replies, started, proposed, clock>>,
           NEW x \in calls, NEW z \in CallRecords, SameCall(x, z), z.preview = x.preview,
           calls' \subseteq (calls \ {x}) \cup {z},
           z \in calls' => CallWell(z)' /\ ~z.waited,
           NEW c \in Clients, NEW panel \in Panels, panels' = [panels EXCEPT ![c] = panel],
           x.from = c, panels[c] # None, x.n = panels[c].saving,
           panel.loaded \in 0..CurrentSpec,
           panel.loaded > 0 => panel.loadedBrief = specs[panel.loaded].brief,
           panel.saving = 0, panel.attempt \in {None, panels[c].attempt}
    PROVE  SavingInv'
  <1>1. Later
    BY SavingTyped, LaterTrivially
  <1>2. /\ panels' \in [Clients -> Panels \cup {None}] /\ panels'[c] = panel
        /\ \A e \in Clients \ {c} : panels'[e] = panels[e]
        /\ Held(c)' \subseteq {panel.attempt} \ {None}
        /\ \A e \in Clients \ {c} : Held(e)' = Held(e)
    <2>1. panel \in Panels \cup {None}
      OBVIOUS
    <2>2. /\ panels' \in [Clients -> Panels \cup {None}] /\ panels'[c] = panel
          /\ \A e \in Clients \ {c} : panels'[e] = panels[e]
          /\ Held(c)' = IF panel = None THEN {} ELSE {panel.attempt} \ {None}
          /\ \A e \in Clients \ {c} : Held(e)' = Held(e)
      BY <2>1, OnePanel
    <2> QED
      BY <2>2
  <1>3. SavingTypeOK'
    BY <1>2, SavingTyped, PanelTypes
  <1>4. CallsApart'
    BY CallReplaced
  <1>5. \A e \in Clients \ {c} : PanelWell(e)'
    BY <1>1, <1>2, PanelsRest
  <1>6. Held(c)' \subseteq Held(c)
    BY <1>2 DEF Held
  <1>7. ASSUME NEW a \in Held(c)'
        PROVE  AttemptWell(c, a)'
    <2>1. a \in Held(c) /\ AttemptWell(c, a) /\ panels'[c].saving = 0
      BY <1>2, <1>6, SavingParts DEF PanelWell
    <2>2. x.n # 0
      BY FreshKey
    <2>3. \A w \in calls' \ calls :
              /\ SameSave(w, a) /\ (w.key = a.key /\ a.preview = 0 => w.preview = 0)
              /\ w.key = a.key /\ w.waited => w.from = c /\ w.n = panels'[c].saving
              /\ w.from = c /\ w.n = panels'[c].saving => w.key = a.key
      BY <2>1, <2>2 DEF AttemptWell, SameSave, SameCall, Uncommitted
    <2>4. \A y \in calls \cap calls' :
              /\ y.key = a.key /\ y.waited => y.from = c /\ y.n = panels'[c].saving
              /\ y.from = c /\ y.n = panels'[c].saving => y.key = a.key
      <3> TAKE y \in calls \cap calls'
      <3>1. y.n # 0
        BY FreshKey
      <3>2. y.key = a.key /\ y.waited => y.n = x.n
        BY <2>1 DEF AttemptWell
      <3>3. y.n = x.n => y = x
        BY SavingParts DEF CallsApart
      <3>4. x \in calls' => ~x.waited
        OBVIOUS
      <3> QED
        BY <2>1, <3>1, <3>2, <3>3, <3>4
    <2> QED
      BY <1>1, <2>1, <2>3, <2>4, AttemptKept
  <1>8. PanelWell(c)'
    BY <1>2, <1>7 DEF PanelWell, CurrentSpec
  <1>9. AttemptsApart'
    <2>1. \A e \in Clients : \A a \in Held(e)' : \E b \in Held(e) : a.key = b.key
      BY <1>2, <1>6
    <2> QED
      BY <2>1, AttemptsStay
  <1>10. \A y \in calls \cap calls' : \A w \in calls' \ calls :
              w.key = y.key /\ y.waited /\ y.preview = 0 => w.preview = 0
    <2> SUFFICES ASSUME NEW y \in calls, z.key = y.key, y.waited, y.preview = 0
                 PROVE  z.preview = 0
      OBVIOUS
    <2>1. Uncommitted(y)
      BY SavingParts DEF CallWell
    <2> QED
      BY <2>1 DEF Uncommitted, SameCall
  <1>11. \A w \in calls' \ calls : CallWell(w)'
    OBVIOUS
  <1> QED
    BY <1>1, <1>3, <1>4, <1>5, <1>8, <1>9, <1>10, <1>11, SavingStep

LEMMA CallDropped ==
    ASSUME SavingInv, Later, UNCHANGED <<specs, replies, panels, started, proposed>>,
           specPreviews' \in Seq(SpecPreviewRows), NEW x \in calls, calls' = calls \ {x}
    PROVE  SavingInv'
  <1>1. /\ x \in CallRecords /\ SameCall(x, x) /\ calls' \subseteq (calls \ {x}) \cup {x}
        /\ x \notin calls'
    BY SavingTyped DEF SameCall
  <1> QED
    BY <1>1, ReplyStep

LEMMA ShownPanel ==
    ASSUME SavingInv, NEW x \in calls, Shown(x)
    PROVE  /\ x.from \in Clients /\ panels[x.from] # None /\ x.n = panels[x.from].saving
           /\ panels[x.from] \in Panels /\ panels[x.from].loaded \in 0..CurrentSpec
           /\ panels[x.from].loaded > 0
                 => panels[x.from].loadedBrief = specs[panels[x.from].loaded].brief
  BY OpenPanelSays DEF Shown, PanelClosed

LEMMA GiveUpCallKeeps ==
    ASSUME SavingInv, NEW x \in calls, GiveUpCall(x), UNCHANGED clock, clock \in Nat
    PROVE  SavingInv'
  <1>z. PICK z : z = [x EXCEPT !.waited = FALSE]
    OBVIOUS
  <1>1. /\ z \in CallRecords /\ SameCall(x, z) /\ z.preview = x.preview /\ ~z.waited
        /\ z.answer = x.answer
    BY <1>z, SavingTyped DEF CallRecords, SameCall
  <1>2. /\ x.waited /\ calls' = (calls \ {x}) \cup IF x.answer = None THEN {z} ELSE {}
        /\ panels' = IF Shown(x) THEN [panels EXCEPT ![x.from].saving = 0] ELSE panels
        /\ UNCHANGED <<specs, specPreviews, replies, started, proposed>>
    BY <1>z DEF GiveUpCall
  <1>3. Later
    BY <1>2, SavingTyped, LaterTrivially
  <1>4. ASSUME z \in calls'
        PROVE  CallWell(z)'
    <2>1. x.answer = None
      <3>1. CASE z \in calls \ {x}
        BY <1>1, <3>1, SavingParts DEF CallsApart, SameCall
      <3> QED
        BY <1>2, <1>4, <3>1
    <2>2. DraftWell(x)' /\ x.n \in Issued
      BY <1>2, <1>3, SavingParts, DraftLater DEF CallWell
    <2>3. DraftWell(z)'
      BY <1>1, <2>2 DEF SameCall, DraftWell, PreviewIs, BodyOf
    <2> QED
      BY <1>1, <1>2, <2>1, <2>2, <2>3 DEF CallWell, SameCall, Issued
  <1>5. calls' \subseteq (calls \ {x}) \cup {z}
    BY <1>2
  <1>6. CASE ~Shown(x)
    BY <1>1, <1>2, <1>3, <1>4, <1>5, <1>6, SavingTyped, ReplyStep
  <1>7. CASE Shown(x)
    <2>1. PICK panel : panel = [panels[x.from] EXCEPT !.saving = 0]
      OBVIOUS
    <2>2. /\ panel \in Panels /\ panel.loaded = panels[x.from].loaded /\ panel.saving = 0
          /\ panel.loadedBrief = panels[x.from].loadedBrief
          /\ panel.attempt = panels[x.from].attempt
      BY <1>7, <2>1, ShownPanel DEF Panels
    <2>3. PICK c \in Clients : c = x.from
      BY <1>7, ShownPanel
    <2>4. panels' = [panels EXCEPT ![c] = panel]
      BY <1>2, <1>7, <2>1, <2>3, SavingTyped
    <2>5. x.from = c /\ panels[c] # None /\ x.n = panels[c].saving
      BY <1>7, <2>3, ShownPanel
    <2>6. /\ panel.loaded \in 0..CurrentSpec
          /\ panel.loaded > 0 => panel.loadedBrief = specs[panel.loaded].brief
          /\ panel.saving = 0 /\ panel.attempt \in {None, panels[c].attempt}
      BY <1>7, <2>2, <2>3, ShownPanel
    <2>7. z \in calls' => CallWell(z)' /\ ~z.waited
      BY <1>1, <1>4
    <2> QED
      BY <1>1, <1>2, <1>5, <2>2, <2>4, <2>5, <2>6, <2>7, PanelAnswered
  <1> QED
    BY <1>6, <1>7

LEMMA ReceiveCommitKeeps ==
    ASSUME SavingInv, NEW x \in calls, ReceiveCommit(x), UNCHANGED clock, clock \in Nat
    PROVE  SavingInv'
  <1>1. /\ x.preview # 0 /\ x.answer # None /\ x.answer.code = "ok" /\ calls' = calls \ {x}
        /\ panels' = IF Shown(x) THEN [panels EXCEPT ![x.from] = Loaded(x.answer.version)]
                     ELSE panels
        /\ UNCHANGED <<specs, specPreviews, replies, started, proposed>>
    BY DEF ReceiveCommit
  <1>2. Later
    BY <1>1, SavingTyped, LaterTrivially
  <1>3. CASE ~Shown(x)
    BY <1>1, <1>2, <1>3, SavingTyped, CallDropped
  <1>4. CASE Shown(x)
    <2>1. PICK panel : panel = Loaded(x.answer.version)
      OBVIOUS
    <2>2. x.answer.version \in 0..CurrentSpec
      BY <1>1, SavingParts, SavingTyped DEF CallWell
    <2>3. /\ panel \in Panels /\ panel.saving = 0 /\ panel.attempt = None
          /\ panel.loaded \in 0..CurrentSpec
          /\ panel.loaded > 0 => panel.loadedBrief = specs[panel.loaded].brief
      BY <2>1, <2>2, LoadedPanel
    <2>4. panels' = [panels EXCEPT ![x.from] = panel]
      BY <1>1, <1>4, <2>1
    <2>5. /\ x \in CallRecords /\ SameCall(x, x) /\ x \notin calls'
          /\ calls' \subseteq (calls \ {x}) \cup {x}
      BY <1>1, SavingTyped DEF SameCall
    <2> QED
      BY <1>1, <1>4, <2>3, <2>4, <2>5, ShownPanel, PanelAnswered
  <1> QED
    BY <1>3, <1>4

LEMMA ReceiveRefusalKeeps ==
    ASSUME SavingInv, NEW x \in calls, ReceiveRefusal(x), UNCHANGED clock, clock \in Nat
    PROVE  SavingInv'
  <1>1. /\ x.answer # None /\ x.answer.code # "ok" /\ calls' = calls \ {x}
        /\ UNCHANGED <<specs, specPreviews, replies, started, proposed>>
    BY DEF ReceiveRefusal
  <1>2. Later
    BY <1>1, SavingTyped, LaterTrivially
  <1>3. CASE ~Shown(x)
    BY <1>1, <1>2, <1>3, SavingTyped, CallDropped DEF ReceiveRefusal
  <1>4. CASE Shown(x)
    <2>p. PICK panel : panel = [panels[x.from] EXCEPT !.saving = 0,
                          !.attempt = IF x.answer.code = "PREVIEW_ALREADY_COMMITTED"
                                      THEN @ ELSE None]
      OBVIOUS
    <2>r. PICK refreshed : refreshed = [panel EXCEPT !.loaded = CurrentSpec,
                                           !.loadedBrief = specs[CurrentSpec].brief]
      OBVIOUS
    <2>1. PICK shown \in {panel} \cup IF x.answer.code = "VERSION_CONFLICT" THEN {refreshed} ELSE {} :
             panels' = [panels EXCEPT ![x.from] = shown]
      BY <1>4, <2>p, <2>r DEF ReceiveRefusal
    <2>2. /\ panel \in Panels /\ panel.saving = 0 /\ panel.attempt \in {None, panels[x.from].attempt}
          /\ panel.loaded \in 0..CurrentSpec
          /\ panel.loaded > 0 => panel.loadedBrief = specs[panel.loaded].brief
      BY <1>4, <2>p, ShownPanel DEF Panels
    <2>3. CASE x.answer.code = "VERSION_CONFLICT" /\ shown = refreshed
      <3>1. CurrentSpec \in 1..CurrentSpec /\ CurrentSpec \in Nat
        BY <1>1, <2>3, SavingParts, SavingTyped DEF CallWell
      <3>2. specs[CurrentSpec].brief \in Briefs
        BY <3>1, SavingTyped DEF SpecRows
      <3>3. /\ shown \in Panels /\ shown.saving = 0 /\ shown.attempt = panel.attempt
            /\ shown.loaded = CurrentSpec /\ shown.loadedBrief = specs[CurrentSpec].brief
        BY <2>2, <2>3, <2>r, <3>1, <3>2 DEF Panels
      <3>4. /\ x \in CallRecords /\ SameCall(x, x) /\ x \notin calls'
            /\ calls' \subseteq (calls \ {x}) \cup {x}
        BY <1>1, SavingTyped DEF SameCall
      <3>5. PICK c \in Clients : c = x.from
        BY <1>4, ShownPanel
      <3>6. /\ x.from = c /\ panels[c] # None /\ x.n = panels[c].saving
            /\ panels' = [panels EXCEPT ![c] = shown]
            /\ shown.attempt \in {None, panels[c].attempt}
        BY <1>4, <2>1, <2>2, <3>3, <3>5, ShownPanel
      <3>7. /\ shown.loaded \in 0..CurrentSpec
            /\ shown.loaded > 0 => shown.loadedBrief = specs[shown.loaded].brief
        BY <3>1, <3>3
      <3> QED
        BY <1>1, <3>3, <3>4, <3>6, <3>7, PanelAnswered
    <2>4. CASE shown = panel
      <3>1. /\ x \in CallRecords /\ SameCall(x, x) /\ x \notin calls'
            /\ calls' \subseteq (calls \ {x}) \cup {x}
        BY <1>1, SavingTyped DEF SameCall
      <3> QED
        BY <1>1, <1>4, <2>1, <2>2, <2>4, <3>1, ShownPanel, PanelAnswered
    <2> QED
      BY <2>1, <2>3, <2>4
  <1> QED
    BY <1>3, <1>4

\* Who keeps the key of a call that is waited for waits for it.
LEMMA HolderWaits ==
    ASSUME SavingInv, NEW x \in calls, x.waited, NEW e \in Clients, NEW a \in Held(e), a.key = x.key
    PROVE  Shown(x) /\ x.from = e
  BY HeldTyped, SavingParts DEF PanelWell, AttemptWell, Shown, PanelClosed

LEMMA ReceivePreviewKeeps ==
    ASSUME SavingInv, NEW x \in calls, ReceivePreview(x), UNCHANGED clock, clock \in Nat
    PROVE  SavingInv'
  <1>p. PICK p : p = x.answer.preview
    OBVIOUS
  <1>z. PICK z : z = [x EXCEPT !.preview = p, !.answer = None]
    OBVIOUS
  <1>1. /\ x.preview = 0 /\ x.answer # None /\ x.answer.code = "ok"
        /\ calls' = (calls \ {x}) \cup {z}
        /\ panels' = IF Shown(x) THEN [panels EXCEPT ![x.from].attempt.preview = p] ELSE panels
        /\ UNCHANGED <<specs, specPreviews, replies, started, proposed>>
    BY <1>p, <1>z DEF ReceivePreview
  <1>2. Later
    BY <1>1, SavingTyped, LaterTrivially
  <1>3. x.waited /\ PreviewIs(x, p) /\ Uncommitted(x) /\ DraftWell(x) /\ x.n \in Issued
    BY <1>1, <1>p, SavingParts DEF CallWell
  <1>4. p \in Nat /\ p # 0
    BY <1>3, SavingTyped DEF PreviewIs
  <1>5. /\ z \in CallRecords /\ SameCall(x, z) /\ z.preview = p /\ z.answer = None /\ z.waited
    BY <1>z, <1>3, <1>4, SavingTyped DEF CallRecords, SameCall
  <1>6. CallWell(z)'
    <2>1. PreviewIs(x, p)' /\ DraftWell(x)'
      BY <1>1, <1>2, <1>3, PreviewLater, DraftLater DEF DraftWell
    <2>2. DraftWell(z)'
      BY <1>5, <2>1 DEF SameCall, DraftWell, PreviewIs, BodyOf
    <2> QED
      BY <1>1, <1>3, <1>4, <1>5, <2>2 DEF CallWell, SameCall, Issued
  <1>7. CallsApart'
    BY <1>1, <1>3, <1>5, CallReplaced
  <1>8. \A y \in calls \cap calls' : \A w \in calls' \ calls :
              w.key = y.key /\ y.waited /\ y.preview = 0 => w.preview = 0
    <2> SUFFICES ASSUME NEW y \in calls \ {x}, y.waited, z.key = y.key
                 PROVE  FALSE
      BY <1>1, <1>4, <1>5
    <2> QED
      BY <1>3, <1>5, SavingParts DEF CallsApart, SameCall
  <1>9. ASSUME NEW e \in Clients, panels'[e] = panels[e], ~(Shown(x) /\ x.from = e)
        PROVE  PanelWell(e)'
    <2>1. \A a \in Held(e) : a.key # x.key
      BY <1>3, <1>9, HolderWaits
    <2>2. ASSUME NEW a \in Held(e)
          PROVE  ~(z.from = e /\ z.n = panels[e].saving)
      BY <1>5, <1>9, HeldTyped DEF SameCall, Shown, PanelClosed
    <2>3. calls' \ calls \subseteq {z}
      BY <1>1
    <2> QED
      BY <1>1, <1>2, <1>5, <1>9, <2>1, <2>2, <2>3, PanelRests DEF SameSave, SameCall
  <1>10. SavingTypeOK'
    <2>1. calls' \subseteq CallRecords
      BY <1>1, <1>5, SavingTyped
    <2>2. panels' \in [Clients -> Panels \cup {None}]
      <3>1. CASE Shown(x)
        <4>1. /\ panels[x.from] \in Panels /\ panels[x.from].attempt \in Draft /\ x.from \in Clients
          <5>1. /\ x.from \in Clients /\ panels[x.from] # None /\ panels[x.from] \in Panels
                /\ panels[x.from].saving # 0
            BY <3>1, ShownPanel, FreshKey
          <5>2. panels[x.from].attempt # None
            BY <5>1, OpenPanelSays
          <5> QED
            BY <5>1, <5>2 DEF Panels
        <4>2. [panels[x.from].attempt EXCEPT !.preview = p] \in Draft
          BY <1>4, <4>1 DEF Draft
        <4>3. [panels[x.from] EXCEPT !.attempt = [@ EXCEPT !.preview = p]] \in Panels
          BY <4>1, <4>2 DEF Panels
        <4> QED
          BY <1>1, <3>1, <4>1, <4>3, SavingTyped
      <3>2. CASE ~Shown(x)
        BY <1>1, <3>2, SavingTyped
      <3> QED
        BY <3>1, <3>2
    <2> QED
      BY <1>1, <2>1, <2>2, PanelTypes
  <1>11. CASE ~Shown(x)
    <2>1. \A e \in Clients : PanelWell(e)'
      BY <1>1, <1>9, <1>11
    <2>2. AttemptsApart'
      BY <1>1, <1>11, SavingParts DEF AttemptsApart, Held
    <2> QED
      BY <1>1, <1>2, <1>6, <1>7, <1>8, <1>10, <2>1, <2>2, SavingStep
  <1>12. CASE Shown(x)
    <2>c. PICK c \in Clients : c = x.from
      BY <1>12, ShownPanel
    <2>a. PICK a : a = panels[c].attempt
      OBVIOUS
    <2>b. PICK b : b = [a EXCEPT !.preview = p]
      OBVIOUS
    <2>1. /\ panels[c] # None /\ panels[c] \in Panels /\ x.n = panels[c].saving
          /\ panels[c].saving # 0 /\ a # None /\ a \in Held(c) /\ a \in Draft
      BY <1>12, <2>c, <2>a, ShownPanel, FreshKey, OpenPanelSays, HeldTyped
    <2>2. AttemptWell(c, a) /\ a.key = x.key
      BY <2>1, <2>c, SavingParts DEF PanelWell, AttemptWell
    <2>3. /\ b \in Draft /\ b # None /\ b.key = x.key /\ b.preview = p
          /\ b.base = a.base /\ b.brief = a.brief /\ b.structured = a.structured
      BY <1>4, <2>1, <2>2, <2>b, DraftAssumption DEF Draft
    <2>4. b.base = x.base /\ b.brief = x.brief /\ b.structured = x.structured
      BY <2>2, <2>3 DEF AttemptWell, SameSave
    <2>5. PICK panel : panel = [panels[c] EXCEPT !.attempt = b]
      OBVIOUS
    <2>6. /\ panel \in Panels \cup {None} /\ panel # None /\ panel.attempt = b
          /\ panel.loaded = panels[c].loaded /\ panel.loadedBrief = panels[c].loadedBrief
          /\ panel.saving = panels[c].saving
      BY <2>1, <2>3, <2>5, DraftAssumption DEF Panels
    <2>7. panels' = [panels EXCEPT ![c] = panel]
      BY <1>1, <1>12, <2>a, <2>b, <2>c, <2>5, SavingTyped
    <2>8. /\ panels'[c] = panel /\ \A e \in Clients \ {c} : panels'[e] = panels[e]
          /\ Held(c)' = IF panel = None THEN {} ELSE {panel.attempt} \ {None}
          /\ \A e \in Clients \ {c} : Held(e)' = Held(e)
      BY <2>6, <2>7, OnePanel
    <2>9. Held(c)' = {b}
      BY <2>3, <2>6, <2>8
    <2>10. \A e \in Clients \ {c} : PanelWell(e)'
      BY <1>9, <2>8, <2>c
    <2>11. AttemptWell(c, b)'
      <3>1. DraftWell(b)'
        <4>1. DraftWell(z)'
          BY <1>6 DEF CallWell
        <4> QED
          BY <1>5, <2>3, <2>4, <4>1 DEF SameCall, DraftWell, PreviewIs, BodyOf
      <3>2. ASSUME NEW y \in calls'
            PROVE  /\ SameSave(y, b)
                   /\ y.key = b.key /\ y.waited => y.from = c /\ y.n = panels'[c].saving
                   /\ y.from = c /\ y.n = panels'[c].saving => y.key = b.key
        <4>1. CASE y = z
          BY <1>5, <2>c, <2>1, <2>3, <2>4, <2>6, <2>8, <4>1 DEF SameSave, SameCall
        <4>2. CASE y \in calls \ {x}
          <5>1. y.key = b.key => y.preview = 0
            BY <1>3, <2>3, <4>2 DEF Uncommitted
          <5>2. SameSave(y, x) /\ ~(y.key = x.key /\ y.waited) /\ y.n # x.n
            BY <1>3, <4>2, SavingParts DEF CallsApart
          <5> QED
            BY <2>1, <2>3, <2>4, <2>6, <2>8, <5>1, <5>2 DEF SameSave
        <4> QED
          BY <1>1, <4>1, <4>2
      <3> QED
        BY <1>4, <2>3, <3>1, <3>2 DEF AttemptWell, SameSave
    <2>12. PanelWell(c)'
      <3>1. CurrentSpec' = CurrentSpec /\ Issued' = Issued
        BY <1>1 DEF CurrentSpec, Issued
      <3>2. /\ panel.loaded \in 0..CurrentSpec
            /\ panel.loaded > 0 => panel.loadedBrief = specs[panel.loaded].brief
            /\ panel.saving \in Issued
        BY <2>1, <2>6, OpenPanelSays
      <3>3. \A d \in Held(c)' : AttemptWell(c, d)'
        BY <2>9, <2>11
      <3>4. /\ panels'[c].loaded \in 0..CurrentSpec'
            /\ panels'[c].loaded > 0 => panels'[c].loadedBrief = specs'[panels'[c].loaded].brief
            /\ panels'[c].saving \in Issued' /\ panels'[c].attempt # None
        <4>1. panels'[c] = panel /\ specs' = specs /\ panel.attempt = b /\ b # None
          BY <1>1, <2>3, <2>6, <2>8
        <4> QED
          BY <3>1, <3>2, <4>1
      <3> QED
        BY <3>3, <3>4 DEF PanelWell
    <2>13. AttemptsApart'
      <3>1. ASSUME NEW e \in Clients, NEW d \in Held(e)'
            PROVE  \E g \in Held(e) : d.key = g.key
        BY <2>1, <2>2, <2>3, <2>8, <2>9, <3>1
      <3> QED
        BY <3>1, AttemptsStay
    <2>14. \A w \in calls' \ calls : CallWell(w)'
      BY <1>1, <1>6
    <2> QED
      BY <1>1, <1>2, <1>7, <1>8, <1>10, <2>10, <2>12, <2>13, <2>14, SavingStep
  <1> QED
    BY <1>11, <1>12

-----------------------------------------------------------------------------
(* The service.                                                            *)

\* f are the previews, of which some may have expired or been committed.
SamePreviews(f) ==
    /\ f \in Seq(SpecPreviewRows) /\ Len(f) = Len(specPreviews)
    /\ \A p \in 1..Len(specPreviews) :
          /\ f[p].base = specPreviews[p].base /\ f[p].brief = specPreviews[p].brief
          /\ f[p].body = specPreviews[p].body /\ f[p].expires = specPreviews[p].expires
          /\ specPreviews[p].status = "committed" => f[p].status = "committed"

LEMMA ExpiredKept ==
    ASSUME SavingInv, NEW c, NEW P
    PROVE  SamePreviews(ExpiredSpecPreviews(c, P))
  <1>f. PICK f : f = ExpiredSpecPreviews(c, P)
    OBVIOUS
  <1>1. /\ f = [p \in 1..Len(specPreviews) |->
              IF p \in P /\ SpecPreviewDue(specPreviews[p], c)
              THEN [specPreviews[p] EXCEPT !.status = "expired"] ELSE specPreviews[p]]
        /\ Len(specPreviews) \in Nat
    BY <1>f, SavingTyped DEF ExpiredSpecPreviews
  <1>2. ASSUME NEW p \in 1..Len(specPreviews)
        PROVE  /\ f[p] \in SpecPreviewRows
               /\ f[p].base = specPreviews[p].base /\ f[p].brief = specPreviews[p].brief
               /\ f[p].body = specPreviews[p].body /\ f[p].expires = specPreviews[p].expires
               /\ specPreviews[p].status = "committed" => f[p].status = "committed"
    <2>1. specPreviews[p] \in SpecPreviewRows
      BY SavingTyped
    <2>2. CASE p \in P /\ SpecPreviewDue(specPreviews[p], c)
      <3>1. /\ f[p] = [specPreviews[p] EXCEPT !.status = "expired"]
            /\ specPreviews[p].status # "committed"
        BY <1>1, <2>2 DEF SpecPreviewDue
      <3> QED
        BY <2>1, <3>1 DEF SpecPreviewRows
    <2>3. CASE ~(p \in P /\ SpecPreviewDue(specPreviews[p], c))
      BY <1>1, <2>1, <2>3
    <2> QED
      BY <2>2, <2>3
  <1>3. f \in Seq(SpecPreviewRows) /\ Len(f) = Len(specPreviews)
    <2>1. f \in [1..Len(specPreviews) -> SpecPreviewRows]
      BY <1>1, <1>2
    <2> QED
      BY <1>1, <2>1, SeqDef, LenProperties
  <1> QED
    BY <1>f, <1>2, <1>3 DEF SamePreviews

\* The answer to a call that answers no key for the first time.
LEMMA Replied ==
    ASSUME SavingInv, Later, UNCHANGED <<specs, replies, panels, started, proposed>>,
           specPreviews' \in Seq(SpecPreviewRows), NEW x \in calls, x.answer = None,
           NEW code \in {"ok", "VERSION_CONFLICT", "PREVIEW_EXPIRED", "PREVIEW_ALREADY_COMMITTED"},
           NEW p \in Nat, NEW v \in Nat, Reply(x, code, p, v),
           code = "ok" /\ x.preview = 0 => PreviewIs(x, p)',
           code = "ok" /\ x.preview # 0 => x.key \in DOMAIN replies /\ v = replies[x.key],
           code # "ok" /\ x.preview # 0 => x.key \notin DOMAIN replies /\ Refused(x)',
           code = "VERSION_CONFLICT" => CurrentSpec # 0
    PROVE  SavingInv'
  <1>1. CASE ~x.waited
    <2>1. calls' = calls \ {x}
      BY <1>1 DEF Reply
    <2> QED
      BY <2>1, CallDropped
  <1>2. CASE x.waited
    <2>z. PICK z : z = [x EXCEPT !.answer = [code |-> code, preview |-> p, version |-> v]]
      OBVIOUS
    <2>1. /\ z \in CallRecords /\ SameCall(x, z) /\ z.preview = x.preview /\ z.waited
          /\ z.answer.code = code /\ z.answer.preview = p
          /\ z.answer.version = v
      <3>1. [code |-> code, preview |-> p, version |-> v] \in Replies
        BY DEF Replies
      <3> QED
        BY <1>2, <2>z, <3>1, SavingTyped DEF CallRecords, SameCall
    <2>2. calls' = (calls \ {x}) \cup {z}
      BY <1>2, <2>z DEF Reply
    <2>3. CallWell(z)'
      <3>1. DraftWell(x)' /\ x.n \in Issued'
        BY SavingParts, DraftLater DEF CallWell, Issued
      <3>2. DraftWell(z)'
        BY <2>1, <3>1 DEF SameCall, DraftWell, PreviewIs, BodyOf
      <3>3. x.preview = 0 => Uncommitted(x)
        BY <1>2, SavingParts DEF CallWell
      <3>4. z.preview = 0 => Uncommitted(z)'
        BY <2>1, <2>2, <3>3 DEF Uncommitted, SameCall
      <3>5. z.answer.code = "ok" /\ z.preview = 0 => PreviewIs(z, z.answer.preview)'
        BY <2>1 DEF SameCall, PreviewIs, BodyOf
      <3>6. z.answer.code = "ok" /\ z.preview # 0 =>
              z.key \in DOMAIN replies' /\ z.answer.version = replies'[z.key]
        BY <2>1 DEF SameCall
      <3>7. z.answer.code # "ok" => z.key \notin DOMAIN replies'
        BY <2>1, <3>3 DEF SameCall, Uncommitted
      <3>8. z.answer.code # "ok" /\ z.preview # 0 => Refused(z)'
        BY <2>1 DEF SameCall, Refused
      <3>9. z.answer.code = "VERSION_CONFLICT" => CurrentSpec' # 0
        BY <2>1 DEF CurrentSpec
      <3> QED
        BY <2>1, <3>1, <3>2, <3>4, <3>5, <3>6, <3>7, <3>8, <3>9 DEF CallWell, SameCall
    <2> QED
      BY <2>1, <2>2, <2>3, ReplyStep
  <1> QED
    BY <1>1, <1>2, CallTyped

LEMMA PreviewProductSpecificationKeeps ==
    ASSUME SavingInv, NEW x \in calls, PreviewProductSpecification(x), UNCHANGED clock, clock \in Nat
    PROVE  SavingInv'
  <1>1. /\ x.answer = None /\ x.preview = 0
        /\ UNCHANGED <<specs, replies, panels, started, proposed>>
    BY DEF PreviewProductSpecification
  <1>2. DraftWell(x) /\ x.base \in 0..CurrentSpec
    BY SavingParts DEF CallWell, DraftWell
  <1>3. CASE /\ CurrentSpec # x.base /\ Reply(x, "VERSION_CONFLICT", 0, 0)
             /\ UNCHANGED specPreviews
    <2>1. Later
      BY <1>1, <1>3, SavingTyped, LaterTrivially
    <2>2. CurrentSpec # 0
      BY <1>2, <1>3, SavingTyped
    <2>3. specPreviews' \in Seq(SpecPreviewRows)
      BY <1>3, SavingTyped
    <2>4. PICK code \in {"ok", "VERSION_CONFLICT", "PREVIEW_EXPIRED", "PREVIEW_ALREADY_COMMITTED"} :
             code = "VERSION_CONFLICT"
      OBVIOUS
    <2>5. PICK zero \in Nat : zero = 0
      OBVIOUS
    <2>6. Reply(x, code, zero, zero)
      BY <1>3, <2>4, <2>5
    <2>7. /\ code = "ok" /\ x.preview = 0 => PreviewIs(x, zero)'
          /\ code = "ok" /\ x.preview # 0 => x.key \in DOMAIN replies /\ zero = replies[x.key]
          /\ code # "ok" /\ x.preview # 0 => x.key \notin DOMAIN replies /\ Refused(x)'
          /\ code = "VERSION_CONFLICT" => CurrentSpec # 0
      BY <1>1, <2>2, <2>4
    <2> QED
      BY <1>1, <2>1, <2>3, <2>6, <2>7, Replied
  <1>4. CASE CurrentSpec = x.base
    <2>p. PICK p \in Nat : p = Len(specPreviews) + 1
      BY SavingTyped
    <2>f. PICK f : f = ExpiredSpecPreviews(x.from, DOMAIN specPreviews)
      OBVIOUS
    <2>r. PICK row : row = [status |-> "ready", actor |-> x.from, base |-> x.base,
                            brief |-> x.brief, body |-> BodyOf(x), expires |-> clock + SpecTTL]
      OBVIOUS
    <2>1. Reply(x, "ok", p, 0) /\ specPreviews' = Append(f, row)
      BY <1>4, <2>p, <2>f, <2>r DEF PreviewProductSpecification
    <2>2. SamePreviews(f)
      BY <2>f, ExpiredKept
    <2>3. BodyOf(x) \in Bodies
      <3>1. x.base # 0 => specs[x.base] \in SpecRows
        BY <1>2, SavingTyped
      <3> QED
        BY <3>1, CallTyped, PlanningAssumption DEF BodyOf, SpecRows
    <2>4. row \in SpecPreviewRows
      BY <2>r, <2>3, CallTyped, SavingTyped DEF SpecPreviewRows
    <2>5. /\ specPreviews' \in Seq(SpecPreviewRows) /\ Len(specPreviews)' = p
          /\ \A q \in 1..Len(specPreviews) : specPreviews'[q] = f[q]
          /\ specPreviews'[p] = row
      <3>1. f \in Seq(SpecPreviewRows) /\ Len(f) = Len(specPreviews)
        BY <2>2 DEF SamePreviews
      <3>2. PICK g : g = Append(f, row)
        OBVIOUS
      <3>3. /\ g \in Seq(SpecPreviewRows) /\ Len(g) = Len(f) + 1
            /\ \A q \in 1..Len(f) : g[q] = f[q]
            /\ g[Len(f) + 1] = row
        BY <2>4, <3>1, <3>2, AppendProperties
      <3>4. specPreviews' = g /\ p = Len(f) + 1
        BY <2>p, <2>1, <3>1, <3>2
      <3> QED
        BY <3>1, <3>3, <3>4
    <2>6. Later
      <3>1. Len(specPreviews)' \in Nat /\ Len(specPreviews) <= Len(specPreviews)'
        BY <2>p, <2>5, SavingTyped
      <3>2. /\ CurrentSpec' = CurrentSpec /\ CurrentSpec \in Nat
            /\ started' + proposed' = started + proposed /\ started + proposed \in Nat
        BY <1>1, SavingTyped DEF CurrentSpec
      <3>3. \A q \in 1..Len(specPreviews) :
              /\ specPreviews'[q].base = specPreviews[q].base
              /\ specPreviews'[q].brief = specPreviews[q].brief
              /\ specPreviews'[q].body = specPreviews[q].body
              /\ specPreviews'[q].expires = specPreviews[q].expires
              /\ specPreviews[q].status = "committed" => specPreviews'[q].status = "committed"
        BY <2>2, <2>5 DEF SamePreviews
      <3> QED
        BY <1>1, <3>1, <3>2, <3>3 DEF Later
    <2>7. PreviewIs(x, p)'
      <3>1. BodyOf(x)' = BodyOf(x)
        BY <1>2, <2>6, BodyLater
      <3>2. p \in 1..Len(specPreviews)'
        BY <2>p, <2>5, SavingTyped
      <3> QED
        BY <2>r, <2>5, <3>1, <3>2 DEF PreviewIs
    <2>8. PICK code \in {"ok", "VERSION_CONFLICT", "PREVIEW_EXPIRED", "PREVIEW_ALREADY_COMMITTED"} :
             code = "ok"
      OBVIOUS
    <2>9. PICK zero \in Nat : zero = 0
      OBVIOUS
    <2>10. Reply(x, code, p, zero) /\ specPreviews' \in Seq(SpecPreviewRows)
      BY <2>1, <2>5, <2>8, <2>9
    <2>11. /\ code = "ok" /\ x.preview = 0 => PreviewIs(x, p)'
           /\ code = "ok" /\ x.preview # 0 => x.key \in DOMAIN replies /\ zero = replies[x.key]
           /\ code # "ok" /\ x.preview # 0 => x.key \notin DOMAIN replies /\ Refused(x)'
           /\ code = "VERSION_CONFLICT" => CurrentSpec # 0
      BY <1>1, <2>7, <2>8
    <2> QED
      BY <1>1, <2>6, <2>10, <2>11, Replied
  <1> QED
    BY <1>1, <1>3, <1>4 DEF PreviewProductSpecification

LEMMA RefusalWhy ==
    ASSUME SavingInv, NEW x \in calls, x.preview # 0, clock \in Nat
    PROVE  /\ SpecCommitRefusal(x) \in {"none", "VERSION_CONFLICT", "PREVIEW_EXPIRED",
                                        "PREVIEW_ALREADY_COMMITTED"}
           /\ SpecCommitRefusal(x) # "none" => Refused(x)
           /\ SpecCommitRefusal(x) = "none" => ~Refused(x)
           /\ SpecCommitRefusal(x) = "VERSION_CONFLICT" => CurrentSpec # x.base
  <1>1. x.preview \in 1..Len(specPreviews)
    BY SavingParts DEF CallWell, DraftWell, PreviewIs
  <1>2. specPreviews[x.preview].expires \in Nat
    BY <1>1, SavingTyped DEF SpecPreviewRows
  <1>3. CASE specPreviews[x.preview].status = "committed"
    BY <1>3 DEF SpecCommitRefusal, Refused
  <1>4. CASE specPreviews[x.preview].status # "committed" /\ specPreviews[x.preview].expires <= clock
    BY <1>4 DEF SpecCommitRefusal, Refused
  <1>5. CASE specPreviews[x.preview].status # "committed" /\ specPreviews[x.preview].expires > clock
    <2>1. ~(specPreviews[x.preview].expires <= clock)
      BY <1>2, <1>5
    <2> QED
      BY <1>5, <2>1 DEF SpecCommitRefusal, Refused
  <1> QED
    BY <1>2, <1>3, <1>4, <1>5

LEMMA OneCommitted ==
    ASSUME SavingInv, NEW f, SamePreviews(f), NEW p \in 1..Len(specPreviews),
           NEW g, g = [f EXCEPT ![p].status = "committed"]
    PROVE  SamePreviews(g)
  <1>1. /\ f \in Seq(SpecPreviewRows) /\ Len(f) = Len(specPreviews) /\ Len(f) \in Nat
        /\ f \in [1..Len(f) -> SpecPreviewRows]
    BY LenProperties, SavingTyped DEF SamePreviews
  <1>2. [f[p] EXCEPT !.status = "committed"] \in SpecPreviewRows
    BY <1>1 DEF SpecPreviewRows
  <1>3. /\ g \in [1..Len(f) -> SpecPreviewRows]
        /\ g[p] = [f[p] EXCEPT !.status = "committed"]
        /\ \A q \in 1..Len(f) \ {p} : g[q] = f[q]
    BY <1>1, <1>2
  <1>4. g \in Seq(SpecPreviewRows) /\ Len(g) = Len(f)
    BY <1>1, <1>3, SeqDef, LenProperties
  <1>5. ASSUME NEW q \in 1..Len(f)
        PROVE  /\ g[q].base = f[q].base /\ g[q].brief = f[q].brief
               /\ g[q].body = f[q].body /\ g[q].expires = f[q].expires
               /\ f[q].status = "committed" => g[q].status = "committed"
    <2>1. CASE q = p
      BY <1>1, <1>3, <2>1 DEF SpecPreviewRows
    <2>2. CASE q # p
      BY <1>3, <2>2
    <2> QED
      BY <2>1, <2>2
  <1> QED
    BY <1>1, <1>4, <1>5 DEF SamePreviews

\* A version is made: x is the call, and v the version.
LEMMA VersionMade ==
    ASSUME SavingInv, clock \in Nat, UNCHANGED <<clock, panels, started, proposed>>,
           NEW x \in calls, x.answer = None, x.preview # 0, x.key \notin DOMAIN replies, ~Refused(x),
           NEW row \in SpecRows, row.brief = x.brief, row.body = BodyOf(x), row.key = x.key,
           row.base = x.base, row.asked.brief = x.brief, row.asked.structured = x.structured,
           NEW v \in Nat, v = CurrentSpec + 1,
           specs' \in Seq(SpecRows), CurrentSpec' = v, specs'[v] = row,
           \A w \in 1..CurrentSpec : specs'[w] = specs[w],
           NEW f, SamePreviews(f), specPreviews' = f,
           DOMAIN replies' = DOMAIN replies \cup {x.key}, replies'[x.key] = v,
           \A k \in DOMAIN replies : replies'[k] = replies[k],
           Reply(x, "ok", x.preview, v)
    PROVE  SavingInv'
  <1>1. /\ specs' \in Seq(SpecRows) /\ CurrentSpec' = v /\ specs'[v] = row
        /\ \A w \in 1..CurrentSpec : specs'[w] = specs[w]
    OBVIOUS
  <1>2. CurrentSpec = x.base /\ v \in 1..CurrentSpec'
    BY <1>1, SavingTyped DEF Refused
  <1>3. /\ DOMAIN replies' = DOMAIN replies \cup {x.key} /\ replies'[x.key] = v
        /\ \A k \in DOMAIN replies : replies'[k] = replies[k]
    OBVIOUS
  <1>4. Later
    BY <1>1, SavingTyped DEF Later, SamePreviews
  <1>5. CallWell(x) /\ DraftWell(x) /\ x.key \in Issued /\ PreviewIs(x, x.preview)
    BY SavingParts DEF CallWell, DraftWell
  <1>6. Issued' = Issued
    BY DEF Issued
  <1>7. VersionsAnswered'
    <2> SUFFICES ASSUME NEW w \in 1..CurrentSpec'
                 PROVE  /\ specs'[w].key \in DOMAIN replies' /\ replies'[specs'[w].key] = w
                        /\ specs'[w].base = w - 1
                        /\ specs'[w].brief = specs'[w].asked.brief
                        /\ specs'[w].body =
                              IF specs'[w].asked.structured # None THEN specs'[w].asked.structured
                              ELSE IF w = 1 THEN Blank ELSE specs'[w - 1].body
      BY DEF VersionsAnswered
    <2>1. CASE w \in 1..CurrentSpec
      <3>1. w = 1 \/ w - 1 \in 1..CurrentSpec
        BY <2>1, SavingTyped
      <3> QED
        BY <1>1, <1>3, <2>1, <3>1, SavingParts DEF VersionsAnswered
    <2>2. CASE w = v
      <3>1. w - 1 = x.base /\ (w = 1 <=> x.base = 0) /\ (w # 1 => x.base \in 1..CurrentSpec)
        BY <1>2, <2>2, SavingTyped
      <3>2. specs'[w] = row /\ row.base = w - 1
        BY <1>1, <2>2, <3>1
      <3>3. w # 1 => specs'[w - 1] = specs[x.base]
        BY <1>1, <3>1
      <3>4. row.body = IF x.structured # None THEN x.structured
                       ELSE IF x.base = 0 THEN Blank ELSE specs[x.base].body
        BY DEF BodyOf
      <3>5. row.key \in DOMAIN replies' /\ replies'[row.key] = w
        BY <1>3, <2>2
      <3>6. row.brief = row.asked.brief /\ row.asked.structured = x.structured
        OBVIOUS
      <3> QED
        BY ONLY <3>1, <3>2, <3>3, <3>4, <3>5, <3>6
    <2> QED
      BY <1>1, <2>1, <2>2, SavingTyped
  <1>8. AnswersVersions'
    <2> SUFFICES ASSUME NEW k \in DOMAIN replies'
                 PROVE  k \in Issued' /\ replies'[k] \in 1..CurrentSpec' /\ specs'[replies'[k]].key = k
      BY DEF AnswersVersions
    <2>1. CASE k = x.key
      BY <1>1, <1>2, <1>3, <1>5, <1>6, <2>1
    <2>2. CASE k \in DOMAIN replies
      <3>1. k \in Issued /\ replies[k] \in 1..CurrentSpec /\ specs[replies[k]].key = k
        BY <2>2, SavingParts DEF AnswersVersions
      <3>2. 1..CurrentSpec \subseteq 1..CurrentSpec'
        BY <1>1, SavingTyped
      <3>3. specs'[replies[k]] = specs[replies[k]] /\ replies'[k] = replies[k]
        BY <1>1, <1>3, <2>2, <3>1
      <3> QED
        BY <1>6, <3>1, <3>2, <3>3
    <2> QED
      BY <1>3, <2>1, <2>2
  <1>9. ASSUME NEW y, DraftWell(y), y.key = x.key => y.brief = x.brief /\ y.structured = x.structured
        PROVE  DraftWell(y)'
    <2>1. y.key \in Issued' /\ y.base \in 0..CurrentSpec'
      BY <1>4, <1>6, <1>9, SavingTyped DEF DraftWell, Later
    <2>2. y.preview # 0 => PreviewIs(y, y.preview)'
      BY <1>4, <1>9, PreviewLater DEF DraftWell
    <2>3. ASSUME y.key \in DOMAIN replies'
          PROVE  /\ specs'[replies'[y.key]].asked.brief = y.brief
                 /\ specs'[replies'[y.key]].asked.structured = y.structured
      <3>1. CASE y.key = x.key
        BY <1>1, <1>3, <1>9, <3>1
      <3>2. CASE y.key \in DOMAIN replies
        BY <1>1, <1>3, <1>9, <3>2, SavingTyped DEF DraftWell
      <3> QED
        BY <1>3, <2>3, <3>1, <3>2
    <2> QED
      BY <2>1, <2>2, <2>3 DEF DraftWell
  <1>10. \A y \in calls : SameSave(x, y)
    BY SavingParts DEF CallsApart
  <1>z. PICK z : z = [x EXCEPT !.answer = [code |-> "ok", preview |-> x.preview, version |-> v]]
    OBVIOUS
  <1>11. /\ z \in CallRecords /\ SameCall(x, z) /\ z.preview = x.preview /\ z.waited = x.waited
         /\ z.answer.code = "ok" /\ z.answer.version = v
    <2>1. x.preview \in Nat
      BY CallTyped
    <2>2. [code |-> "ok", preview |-> x.preview, version |-> v] \in Replies
      BY <2>1 DEF Replies
    <2> QED
      BY <1>z, <2>2, SavingTyped DEF CallRecords, SameCall
  <1>12. calls' \subseteq (calls \ {x}) \cup {z} /\ (z \in calls' => z.waited \/ z \in calls \ {x})
    BY <1>z, <1>11 DEF Reply
  <1>13. \A y \in calls \ {x} : y.n # x.n
    BY SavingParts DEF CallsApart
  <1>14. z \in calls' => z.waited
    BY <1>11, <1>12, <1>13 DEF SameCall
  <1>15. SavingTypeOK'
    <2>1. calls' \subseteq CallRecords
      BY <1>11, <1>12, SavingTyped
    <2>2. \A k \in DOMAIN replies' : replies'[k] \in 1..CurrentSpec'
      BY <1>8 DEF AnswersVersions
    <2>3. DOMAIN replies' \subseteq Keys
      BY <1>3, CallTyped, SavingTyped
    <2>4. specPreviews' \in Seq(SpecPreviewRows)
      BY DEF SamePreviews
    <2> QED
      BY <1>1, <2>1, <2>2, <2>3, <2>4, SavingTyped DEF SavingInv, SavingTypeOK
  <1>16. ASSUME NEW y, Uncommitted(y), y.key # x.key
         PROVE  Uncommitted(y)'
    BY <1>3, <1>11, <1>12, <1>16 DEF Uncommitted, SameCall
  <1>17. ASSUME NEW y \in calls \ {x}
         PROVE  CallWell(y)'
    <2>1. CallWell(y)
      BY SavingParts
    <2>2. DraftWell(y)' /\ y.n \in Issued'
      BY <1>6, <1>9, <1>10, <2>1 DEF CallWell, SameSave
    <2>3. Uncommitted(y) => y.key # x.key
      BY DEF Uncommitted
    <2>4. y.preview = 0 /\ y.waited => Uncommitted(y)'
      BY <1>16, <2>1, <2>3 DEF CallWell
    <2>5. y.answer # None /\ y.answer.code = "ok" /\ y.preview = 0 => PreviewIs(y, y.answer.preview)'
      BY <1>4, <2>1, PreviewLater DEF CallWell, DraftWell
    <2>6. y.answer # None /\ y.answer.code = "ok" /\ y.preview # 0 =>
            y.key \in DOMAIN replies' /\ y.answer.version = replies'[y.key]
      BY <1>3, <2>1 DEF CallWell
    <2>7. ASSUME y.answer # None, y.answer.code # "ok"
          PROVE  /\ y.key \notin DOMAIN replies'
                 /\ y.preview # 0 => Refused(y)'
                 /\ y.answer.code = "VERSION_CONFLICT" => CurrentSpec' # 0
      <3>1. y.waited /\ y.key \notin DOMAIN replies /\ (y.preview # 0 => Refused(y))
        BY <2>1, <2>7 DEF CallWell
      <3>2. y.key # x.key
        <4>1. CASE y.preview = 0
          BY <2>1, <2>3, <3>1, <4>1 DEF CallWell
        <4>2. CASE y.preview # 0
          BY <1>10, <3>1, <4>2 DEF SameSave, Refused
        <4> QED
          BY <4>1, <4>2
      <3>3. y.preview # 0 => Refused(y)'
        BY <1>4, <2>1, <3>1, RefusedLater DEF CallWell, DraftWell, PreviewIs
      <3>4. CurrentSpec' # 0
        BY <1>1, SavingTyped
      <3> QED
        BY <1>3, <3>1, <3>2, <3>3, <3>4
    <2> QED
      BY <2>1, <2>2, <2>4, <2>5, <2>6, <2>7 DEF CallWell
  <1>18. z \in calls' => CallWell(z)'
    <2>1. DraftWell(x)' /\ x.n \in Issued'
      BY <1>5, <1>6, <1>9 DEF CallWell
    <2>2. DraftWell(z)'
      BY <1>11, <2>1 DEF SameCall, DraftWell, PreviewIs, BodyOf
    <2> QED
      BY <1>3, <1>11, <1>14, <2>1, <2>2 DEF CallWell, SameCall
  <1>19. \A y \in calls' : CallWell(y)'
    BY <1>12, <1>17, <1>18
  <1>20. CallsApart'
    BY <1>11, <1>12, CallReplaced
  <1>21. ASSUME NEW e \in Clients
         PROVE  PanelWell(e)'
    <2>1. ASSUME NEW a \in Held(e)
          PROVE  AttemptWell(e, a)'
      <3>1. AttemptWell(e, a) /\ SameSave(x, a)
        BY SavingParts DEF PanelWell, AttemptWell
      <3>2. DraftWell(a)'
        BY <1>9, <3>1 DEF AttemptWell, SameSave
      <3>3. Uncommitted(a) => a.key # x.key
        BY DEF Uncommitted
      <3>4. a.preview = 0 => Uncommitted(a)'
        BY <1>16, <3>1, <3>3 DEF AttemptWell
      <3>5. ASSUME NEW y \in calls'
            PROVE  /\ SameSave(y, a)
                   /\ y.key = a.key /\ y.waited => y.from = e /\ y.n = panels'[e].saving
                   /\ y.from = e /\ y.n = panels'[e].saving => y.key = a.key
        <4>1. CASE y \in calls
          BY <3>1, <4>1 DEF AttemptWell
        <4>2. CASE y = z
          BY <1>11, <3>1, <4>2 DEF AttemptWell, SameSave, SameCall
        <4> QED
          BY <1>12, <4>1, <4>2
      <3> QED
        BY <3>2, <3>4, <3>5 DEF AttemptWell, SameSave
    <2>2. Held(e)' = Held(e)
      BY DEF Held
    <2>3. \A a \in Held(e)' : AttemptWell(e, a)'
      BY <2>1, <2>2
    <2>4. ASSUME panels[e] # None
          PROVE  /\ panels'[e].loaded \in 0..CurrentSpec'
                 /\ panels'[e].loaded > 0 => panels'[e].loadedBrief = specs'[panels'[e].loaded].brief
                 /\ panels'[e].saving # 0 => panels'[e].saving \in Issued' /\ panels'[e].attempt # None
      <3>1. /\ panels[e].loaded \in 0..CurrentSpec
            /\ panels[e].loaded > 0 => panels[e].loadedBrief = specs[panels[e].loaded].brief
            /\ panels[e].saving # 0 => panels[e].saving \in Issued /\ panels[e].attempt # None
        BY <2>4, OpenPanelSays
      <3>2. 0..CurrentSpec \subseteq 0..CurrentSpec'
        BY <1>1, SavingTyped
      <3>3. panels[e].loaded > 0 => specs'[panels[e].loaded] = specs[panels[e].loaded]
        BY <1>1, <3>1, SavingTyped
      <3>4. panels'[e] = panels[e]
        OBVIOUS
      <3> QED
        BY <1>6, <3>1, <3>2, <3>3, <3>4
    <2> QED
      BY <2>3, <2>4 DEF PanelWell
  <1>22. AttemptsApart'
    BY SavingParts DEF AttemptsApart, Held
  <1> QED
    BY <1>7, <1>8, <1>15, <1>19, <1>20, <1>21, <1>22 DEF SavingInv

LEMMA CommitKeeps ==
    ASSUME SavingInv, NEW x \in calls, CommitProductSpecificationPreview(x),
           UNCHANGED clock, clock \in Nat
    PROVE  SavingInv'
  <1>f. PICK f : f = ExpiredSpecPreviews(x.from, {x.preview})
    OBVIOUS
  <1>1. x.answer = None /\ x.preview # 0 /\ UNCHANGED <<panels, started, proposed>>
    BY DEF CommitProductSpecificationPreview
  <1>2. SamePreviews(f)
    BY <1>f, ExpiredKept
  <1>3. DraftWell(x) /\ PreviewIs(x, x.preview) /\ x.preview \in Nat
    BY <1>1, SavingParts, CallTyped DEF CallWell, DraftWell
  <1>4. CASE specPreviews' = f /\ UNCHANGED <<specs, replies>>
    <2>1. Later
      BY <1>1, <1>2, <1>4, SavingTyped DEF Later, SamePreviews, CurrentSpec
    <2>2. specPreviews' \in Seq(SpecPreviewRows)
      BY <1>2, <1>4 DEF SamePreviews
    <2>3. CASE x.key \in DOMAIN replies /\ Reply(x, "ok", x.preview, replies[x.key])
      <3>1. PICK v \in Nat : v = replies[x.key]
        BY <2>3, SavingTyped
      <3>2. PICK code \in {"ok", "VERSION_CONFLICT", "PREVIEW_EXPIRED", "PREVIEW_ALREADY_COMMITTED"} :
               code = "ok"
        OBVIOUS
      <3>3. PICK p \in Nat : p = x.preview
        BY <1>3
      <3>4. Reply(x, code, p, v)
        BY <2>3, <3>1, <3>2, <3>3
      <3>5. /\ code = "ok" /\ x.preview = 0 => PreviewIs(x, p)'
            /\ code = "ok" /\ x.preview # 0 => x.key \in DOMAIN replies /\ v = replies[x.key]
            /\ code # "ok" /\ x.preview # 0 => x.key \notin DOMAIN replies /\ Refused(x)'
            /\ code = "VERSION_CONFLICT" => CurrentSpec # 0
        BY <1>1, <2>3, <3>1, <3>2
      <3> QED
        BY <1>1, <1>4, <2>1, <2>2, <3>4, <3>5, Replied
    <2>4. CASE /\ x.key \notin DOMAIN replies /\ SpecCommitRefusal(x) # "none"
               /\ Reply(x, SpecCommitRefusal(x), 0, 0)
      <3>1. PICK code \in {"ok", "VERSION_CONFLICT", "PREVIEW_EXPIRED", "PREVIEW_ALREADY_COMMITTED"} :
               code = SpecCommitRefusal(x) /\ code # "ok"
        BY <1>1, <2>4, RefusalWhy
      <3>z. PICK zero \in Nat : zero = 0
        OBVIOUS
      <3>2. Reply(x, code, zero, zero)
        BY <2>4, <3>1, <3>z
      <3>3. Refused(x)
        BY <1>1, <2>4, RefusalWhy
      <3>4. Refused(x)'
        BY <1>3, <2>1, <3>3, RefusedLater DEF DraftWell, PreviewIs
      <3>5. code = "VERSION_CONFLICT" => CurrentSpec # 0
        <4>1. code = "VERSION_CONFLICT" => CurrentSpec # x.base
          BY <1>1, <3>1, RefusalWhy
        <4> QED
          BY <1>3, <4>1, SavingTyped DEF DraftWell
      <3>6. /\ code = "ok" /\ x.preview = 0 => PreviewIs(x, zero)'
            /\ code = "ok" /\ x.preview # 0 => x.key \in DOMAIN replies /\ zero = replies[x.key]
            /\ code # "ok" /\ x.preview # 0 => x.key \notin DOMAIN replies /\ Refused(x)'
        BY <2>4, <3>1, <3>4
      <3> QED
        BY <1>1, <1>4, <2>1, <2>2, <3>2, <3>5, <3>6, Replied
    <2> QED
      BY <1>4, <2>3, <2>4 DEF CommitProductSpecificationPreview
  <1>5. CASE x.key \notin DOMAIN replies /\ SpecCommitRefusal(x) = "none"
    <2>g. PICK g : g = [f EXCEPT ![x.preview].status = "committed"]
      OBVIOUS
    <2>r. PICK row : row = [brief |-> specPreviews[x.preview].brief,
                            body |-> specPreviews[x.preview].body,
                            key |-> x.key, base |-> x.base,
                            asked |-> [brief |-> x.brief, structured |-> x.structured]]
      OBVIOUS
    <2>v. PICK v \in Nat : v = CurrentSpec + 1
      BY SavingTyped
    <2>1. /\ specs' = Append(specs, row) /\ specPreviews' = g
          /\ replies' = [k \in DOMAIN replies \cup {x.key} |->
                            IF k = x.key THEN v ELSE replies[k]]
          /\ Reply(x, "ok", x.preview, v)
      BY <1>f, <1>5, <2>g, <2>r, <2>v DEF CommitProductSpecificationPreview
    <2>2. SamePreviews(g)
      BY <1>2, <1>3, <2>g, OneCommitted DEF PreviewIs
    <2>3. /\ row.brief = x.brief /\ row.body = BodyOf(x) /\ row.key = x.key
          /\ row.base = x.base /\ row.asked.brief = x.brief
          /\ row.asked.structured = x.structured
      BY <1>3, <2>r DEF PreviewIs
    <2>4. row \in SpecRows
      <3>1. specPreviews[x.preview] \in SpecPreviewRows
        BY <1>3, SavingTyped DEF PreviewIs
      <3> QED
        BY <2>r, <3>1, CallTyped DEF SpecRows, SpecPreviewRows
    <2>5. ~Refused(x)
      BY <1>1, <1>5, RefusalWhy
    <2>6. /\ specs' \in Seq(SpecRows) /\ CurrentSpec' = v /\ specs'[v] = row
          /\ \A w \in 1..CurrentSpec : specs'[w] = specs[w]
      BY <2>v, <2>1, <2>4, SavingTyped, AppendProperties DEF CurrentSpec
    <2>7. /\ DOMAIN replies' = DOMAIN replies \cup {x.key} /\ replies'[x.key] = v
          /\ \A k \in DOMAIN replies : replies'[k] = replies[k]
      BY <1>5, <2>1
    <2>8. Reply(x, "ok", x.preview, v) /\ specPreviews' = g
      BY <2>1
    <2> QED
      BY <1>1, <1>5, <2>v, <2>2, <2>3, <2>4, <2>5, <2>6, <2>7, <2>8, VersionMade
  <1> QED
    <2>1. \/ specPreviews' = f /\ UNCHANGED <<specs, replies>>
          \/ x.key \notin DOMAIN replies /\ SpecCommitRefusal(x) = "none"
      BY <1>f DEF CommitProductSpecificationPreview
    <2> QED
      BY <1>4, <1>5, <2>1

-----------------------------------------------------------------------------
(* What the invariant is for.                                              *)

LEMMA SavingHolds ==
    ASSUME SavingInv
    PROVE  SavesExact /\ PanelsTruthful
  <1>1. SavesExact
    <2>1. \A v, w \in 1..CurrentSpec : specs[v].key = specs[w].key => v = w
      BY SavingParts DEF VersionsAnswered
    <2> QED
      BY <2>1, SavingParts DEF VersionsAnswered, SavesExact
  <1>2. PanelsTruthful
    <2>1. \A x \in calls :
            x.answer # None /\ x.answer.code # "ok" => x.key \notin DOMAIN replies
      BY SavingParts DEF CallWell
    <2>2. \A c \in Clients :
            ~PanelClosed(c) /\ ~Dirty(panels[c]) /\ panels[c].loaded > 0
               => panels[c].brief = specs[panels[c].loaded].brief
      BY SavingParts DEF PanelWell, PanelClosed, Dirty
    <2> QED
      BY <2>1, <2>2 DEF PanelsTruthful
  <1> QED
    BY <1>1, <1>2

\* A save ends with the answer to its call, or when that is given up.
LEMMA PanelsAlone ==
    ASSUME UNCHANGED panels
    PROVE  DraftOrVersion
  BY DEF DraftOrVersion, Saving

LEMMA DraftOrVersionKept ==
    ASSUME SavingInv, SpecificationStep
    PROVE  DraftOrVersion
  <1> SUFFICES ASSUME NEW c \in Clients, panels[c] # None, panels[c].saving # 0,
                      panels'[c] # None, panels'[c].saving = 0
               PROVE  \/ /\ panels'[c].brief = panels[c].brief
                         /\ panels'[c].structured = panels[c].structured
                      \/ /\ specs[panels'[c].loaded].key = panels[c].attempt.key
                         /\ specs[panels'[c].loaded].asked.brief = panels[c].attempt.brief
                         /\ specs[panels'[c].loaded].asked.structured = panels[c].attempt.structured
    BY DEF DraftOrVersion, PanelClosed, Saving
  <1>1. panels[c] \in Panels /\ panels \in [Clients -> Panels \cup {None}]
    BY OpenPanelSays, SavingTyped
  <1>2. panels'[c] # panels[c]
    OBVIOUS
  <1>3. ASSUME NEW e \in Clients,
               OpenPanel(e) \/ (\E brief \in Briefs : EditBrief(e, brief)) \/ PersistBrief(e)
                            \/ ClosePanel(e)
        PROVE  FALSE
    <2>1. CASE OpenPanel(e)
      BY <1>1, <1>2, <2>1 DEF OpenPanel, PanelClosed
    <2>2. CASE \E brief \in Briefs : EditBrief(e, brief)
      BY <1>1, <1>2, <2>2 DEF EditBrief, Saving
    <2>3. CASE PersistBrief(e)
      BY <1>1, <1>2, <2>3 DEF PersistBrief, Saving
    <2>4. CASE ClosePanel(e)
      BY <1>1, <1>2, <2>4 DEF ClosePanel
    <2> QED
      BY <1>3, <2>1, <2>2, <2>3, <2>4
  <1>4. ASSUME NEW e \in Clients, NEW version \in 1..CurrentSpec,
               EditHistoricalSpecification(e, version)
        PROVE  FALSE
    <2>1. panels'[c].saving = panels[c].saving
      BY <1>1, <1>4 DEF EditHistoricalSpecification, Panels
    <2> QED
      BY <2>1
  <1>5. ASSUME NEW agent \in Agents, NEW proposal \in Proposals, ProposeSpecification(agent, proposal)
        PROVE  FALSE
    BY <1>2, <1>5 DEF ProposeSpecification
  <1>6. ASSUME NEW x \in calls, PreviewProductSpecification(x) \/ CommitProductSpecificationPreview(x)
        PROVE  FALSE
    BY <1>2, <1>6 DEF PreviewProductSpecification, CommitProductSpecificationPreview
  <1>7. ASSUME NEW x \in calls, ReceivePreview(x)
        PROVE  FALSE
    <2>1. Shown(x) /\ x.from = c
      BY <1>1, <1>2, <1>7 DEF ReceivePreview, Shown
    <2>2. panels'[c].saving = panels[c].saving
      BY <1>1, <1>7, <2>1 DEF ReceivePreview, Panels
    <2> QED
      BY <2>2
  <1>8. ASSUME NEW x \in calls, GiveUpCall(x)
        PROVE  panels'[c].brief = panels[c].brief /\ panels'[c].structured = panels[c].structured
    <2>1. Shown(x) /\ x.from = c
      BY <1>1, <1>2, <1>8 DEF GiveUpCall, Shown
    <2> QED
      BY <1>1, <1>8, <2>1 DEF GiveUpCall, Panels
  <1>9. ASSUME NEW x \in calls, ReceiveRefusal(x)
        PROVE  panels'[c].brief = panels[c].brief /\ panels'[c].structured = panels[c].structured
    <2>p. PICK panel : panel = [panels[x.from] EXCEPT !.saving = 0,
                          !.attempt = IF x.answer.code = "PREVIEW_ALREADY_COMMITTED"
                                      THEN @ ELSE None]
      OBVIOUS
    <2>r. PICK refreshed : refreshed = [panel EXCEPT !.loaded = CurrentSpec,
                                           !.loadedBrief = specs[CurrentSpec].brief]
      OBVIOUS
    <2>1. Shown(x)
      BY <1>2, <1>9 DEF ReceiveRefusal
    <2>2. PICK shown \in {panel, refreshed} : panels' = [panels EXCEPT ![x.from] = shown]
      BY <1>9, <2>p, <2>r, <2>1 DEF ReceiveRefusal
    <2>3. x.from = c /\ panels'[c] = shown
      BY <1>1, <1>2, <2>1, <2>2 DEF Shown
    <2>4. panel.brief = panels[c].brief /\ panel.structured = panels[c].structured
      BY <1>1, <2>p, <2>3 DEF Panels
    <2>5. refreshed.brief = panel.brief /\ refreshed.structured = panel.structured
      BY <1>1, <2>p, <2>r, <2>3 DEF Panels
    <2> QED
      BY <2>2, <2>3, <2>4, <2>5
  <1>10. ASSUME NEW x \in calls, ReceiveCommit(x)
         PROVE  /\ specs[panels'[c].loaded].key = panels[c].attempt.key
                /\ specs[panels'[c].loaded].asked.brief = panels[c].attempt.brief
                /\ specs[panels'[c].loaded].asked.structured = panels[c].attempt.structured
    <2>1. Shown(x) /\ x.from = c /\ x.n = panels[c].saving
      BY <1>1, <1>2, <1>10 DEF ReceiveCommit, Shown
    <2>2. panels[c].attempt \in Held(c)
      BY OpenPanelSays
    <2>3. /\ x.key = panels[c].attempt.key
          /\ DraftWell(panels[c].attempt)
      BY <2>1, <2>2, SavingParts DEF PanelWell, AttemptWell
    <2>4. x.key \in DOMAIN replies /\ x.answer.version = replies[x.key]
      BY <1>10, SavingParts DEF ReceiveCommit, CallWell
    <2>5. panels'[c].loaded = x.answer.version
      BY <1>1, <1>10, <2>1 DEF ReceiveCommit, Loaded
    <2>6. specs[replies[x.key]].key = x.key
      BY <2>4, SavingParts DEF AnswersVersions
    <2> QED
      BY <2>3, <2>4, <2>5, <2>6 DEF DraftWell
  <1>11. ASSUME NEW e \in Clients, NEW brief \in Briefs, AppendAction(e, brief)
         PROVE  FALSE
    <2>1. panels'[c].saving = panels[c].saving
      BY <1>1, <1>11 DEF AppendAction, Panels
    <2> QED
      BY <2>1
  <1> QED
    BY <1>3, <1>4, <1>5, <1>6, <1>7, <1>8, <1>9, <1>10, <1>11 DEF SpecificationStep

LEMMA SavingStarts ==
    ASSUME PlanningInit
    PROVE  SavingInv
  <1>1. /\ specs = <<>> /\ specPreviews = <<>> /\ replies = <<>> /\ calls = {}
        /\ started = 0 /\ proposed = 0 /\ panels = [c \in Clients |-> None]
    BY DEF PlanningInit
  <1>2. CurrentSpec = 0 /\ DOMAIN replies = {} /\ specs \in Seq(SpecRows)
        /\ specPreviews \in Seq(SpecPreviewRows)
    BY <1>1, EmptySeq DEF CurrentSpec
  <1>3. SavingTypeOK
    BY <1>1, <1>2, PlanningAssumption DEF SavingTypeOK
  <1>4. VersionsAnswered /\ AnswersVersions
    BY <1>2 DEF VersionsAnswered, AnswersVersions
  <1>5. (\A x \in calls : CallWell(x)) /\ CallsApart
    BY <1>1 DEF CallsApart
  <1>6. \A c \in Clients : panels[c] = None /\ Held(c) = {}
    BY <1>1 DEF Held
  <1> QED
    BY <1>3, <1>4, <1>5, <1>6 DEF SavingInv, PanelWell, AttemptsApart

LEMMA SpecificationKeeps ==
    ASSUME SavingInv, SpecificationStep, UNCHANGED clock, clock \in Nat
    PROVE  SavingInv'
  BY OpenPanelKeeps, EditBriefKeeps, AppendActionKeeps, EditHistoricalKeeps, PersistBriefKeeps, ClosePanelKeeps,
     ProposeSpecificationKeeps, PreviewProductSpecificationKeeps, CommitKeeps, ReceivePreviewKeeps,
     ReceiveCommitKeeps, ReceiveRefusalKeeps, GiveUpCallKeeps DEF SpecificationStep

-----------------------------------------------------------------------------
(* Interviews.                                                             *)

BegunRows == [status : DOMAIN PlanningGraph, version : Nat, section : Sections,
              answers : [Sections -> Seq(Nat)]]

SessionRows == [status : {"unused"}] \cup BegunRows

RowWell(row) ==
    /\ \A section \in Sections :
          \A i \in 1..Len(row.answers[section]) : row.answers[section][i] = i - 1
    /\ row.status \in {"ready_for_review", "completed"} => PlanningComplete(row)

\* A record is of a session that was begun, and out of date unless it is the row.
RecordWell(record, table) ==
    /\ record \in [session : Sessions, row : BegunRows]
    /\ table[record.session] \in BegunRows
    /\ record.row.version <= table[record.session].version
    /\ record.row.version = table[record.session].version => record.row = table[record.session]

InterviewInv ==
    /\ sessions \in [Sessions -> SessionRows]
    /\ \A s \in Sessions : sessions[s].status # "unused" => RowWell(sessions[s])
    /\ \A c \in Writers : records[c] # None => RecordWell(records[c], sessions)
    /\ DOMAIN records = Writers

LEMMA GraphFacts ==
    /\ DOMAIN PlanningGraph = {"draft", "in_progress", "ready_for_review", "completed", "cancelled"}
    /\ \A status \in DOMAIN PlanningGraph : PlanningGraph[status] \subseteq DOMAIN PlanningGraph
    /\ PlanningGraph["completed"] = {} /\ PlanningGraph["cancelled"] = {}
  BY DEF PlanningGraph

LEMMA BegunRow ==
    ASSUME InterviewInv, NEW s \in Sessions, sessions[s].status # "unused"
    PROVE  sessions[s] \in BegunRows /\ RowWell(sessions[s])
  BY DEF InterviewInv, SessionRows

\* The row of a session is begun or gets its next version; c is told, or is not.
LEMMA RowStep ==
    ASSUME InterviewInv, NEW s \in Sessions, NEW row \in BegunRows, RowWell(row),
           sessions[s].status # "unused" => row.version = sessions[s].version + 1,
           sessions' = [sessions EXCEPT ![s] = row],
           NEW c \in Writers,
           \/ records' = [records EXCEPT ![c] = [session |-> s, row |-> row]]
           \/ UNCHANGED records
    PROVE  InterviewInv'
  <1>1. /\ sessions' \in [Sessions -> SessionRows] /\ sessions'[s] = row
        /\ \A t \in Sessions \ {s} : sessions'[t] = sessions[t]
    BY DEF InterviewInv, SessionRows
  <1>2. \A t \in Sessions : sessions'[t].status # "unused" => RowWell(sessions'[t])
    BY <1>1 DEF InterviewInv
  <1>3. DOMAIN records' = Writers
    BY DEF InterviewInv
  <1>4. RecordWell([session |-> s, row |-> row], sessions')
    BY <1>1 DEF RecordWell, BegunRows
  <1>5. ASSUME NEW record, RecordWell(record, sessions)
        PROVE  RecordWell(record, sessions')
    <2>1. CASE record.session = s
      <3>1. /\ record.row \in BegunRows /\ sessions[s] \in BegunRows
            /\ record.row.version <= sessions[s].version
        BY <1>5, <2>1 DEF RecordWell
      <3>2. sessions[s].status # "unused"
        BY <3>1, GraphFacts DEF BegunRows
      <3>3. record.row.version < row.version
        BY <3>1, <3>2 DEF BegunRows
      <3> QED
        BY <1>1, <1>5, <2>1, <3>1, <3>3 DEF RecordWell, BegunRows
    <2>2. CASE record.session # s
      BY <1>1, <1>5, <2>2 DEF RecordWell
    <2> QED
      BY <2>1, <2>2
  <1>6. ASSUME NEW e \in Writers, records'[e] # None
        PROVE  RecordWell(records'[e], sessions')
    <2>1. CASE records'[e] = records[e]
      BY <1>5, <1>6, <2>1 DEF InterviewInv
    <2>2. CASE records'[e] # records[e]
      <3>1. records'[e] = [session |-> s, row |-> row]
        BY <2>2 DEF InterviewInv
      <3> QED
        BY <1>4, <3>1
    <2> QED
      BY <2>1, <2>2
  <1> QED
    BY <1>1, <1>2, <1>3, <1>6 DEF InterviewInv

LEMMA CreatePlanningSessionKeeps ==
    ASSUME InterviewInv, NEW c \in Writers, NEW s \in Sessions, CreatePlanningSession(c, s)
    PROVE  InterviewInv'
  <1>r. PICK row : row = [status |-> "draft", version |-> 1, section |-> FirstSection,
                          answers |-> [section \in Sections |-> <<>>]]
    OBVIOUS
  <1>1. /\ sessions[s].status = "unused" /\ sessions' = [sessions EXCEPT ![s] = row]
        /\ records' = [records EXCEPT ![c] = [session |-> s, row |-> row]]
    BY <1>r DEF CreatePlanningSession
  <1>2. row \in BegunRows
    <2>1. [section \in Sections |-> <<>>] \in [Sections -> Seq(Nat)]
      OBVIOUS
    <2> QED
      BY <1>r, <2>1, GraphFacts, PlanningAssumption DEF BegunRows
  <1>3. RowWell(row)
    <2>1. \A section \in Sections : Len(row.answers[section]) = 0
      BY <1>r
    <2> QED
      BY <1>r, <2>1 DEF RowWell
  <1> QED
    BY <1>1, <1>2, <1>3, RowStep

LEMMA ReadPlanningSessionKeeps ==
    ASSUME InterviewInv, NEW c \in Writers, NEW s \in Sessions, ReadPlanningSession(c, s)
    PROVE  InterviewInv'
  <1>1. /\ sessions[s].status # "unused" /\ UNCHANGED sessions
        /\ records' = [records EXCEPT ![c] = [session |-> s, row |-> sessions[s]]]
    BY DEF ReadPlanningSession
  <1>2. sessions[s] \in BegunRows
    BY <1>1, BegunRow
  <1>3. RecordWell([session |-> s, row |-> sessions[s]], sessions)
    BY <1>2 DEF RecordWell, BegunRows
  <1> QED
    BY <1>1, <1>3 DEF InterviewInv

\* Who may save has the row, and a session that is over has no next status.
LEMMA MaySaveSays ==
    ASSUME InterviewInv, NEW c \in Writers, NEW status, MaySave(c, status)
    PROVE  /\ records[c].session \in Sessions /\ records[c].row = sessions[records[c].session]
           /\ records[c] = [session |-> records[c].session, row |-> records[c].row]
           /\ sessions[records[c].session] \in BegunRows /\ RowWell(sessions[records[c].session])
           /\ sessions[records[c].session].status \notin {"completed", "cancelled"}
           /\ sessions[records[c].session].status # "unused" /\ status \in DOMAIN PlanningGraph
  <1>1. RecordWell(records[c], sessions)
    BY DEF MaySave, InterviewInv
  <1>2. /\ records[c].session \in Sessions /\ sessions[records[c].session] \in BegunRows
        /\ records[c].row = sessions[records[c].session]
        /\ records[c] = [session |-> records[c].session, row |-> records[c].row]
    BY <1>1 DEF RecordWell, MaySave
  <1>3. sessions[records[c].session].status \in DOMAIN PlanningGraph
    BY <1>2 DEF BegunRows
  <1>4. status \in PlanningGraph[sessions[records[c].session].status]
    BY DEF MaySave
  <1>5. sessions[records[c].session].status # "unused"
    BY <1>3, GraphFacts
  <1>6. RowWell(sessions[records[c].session])
    BY <1>2, <1>5, BegunRow
  <1> QED
    BY <1>2, <1>3, <1>4, <1>5, <1>6, GraphFacts

\* A save of a begun session.
LEMMA SavedStep ==
    ASSUME InterviewInv, NEW c \in Writers, NEW status, MaySave(c, status),
           NEW row \in BegunRows, RowWell(row), Saved(c, row),
           row.version = sessions[records[c].session].version + 1
    PROVE  /\ InterviewInv'
           /\ \A s \in Sessions : sessions[s].status \in {"completed", "cancelled"}
                 => sessions'[s] = sessions[s]
  <1>s. PICK s \in Sessions : s = records[c].session
    BY MaySaveSays
  <1>1. sessions' = [sessions EXCEPT ![s] = row]
    BY <1>s DEF Saved
  <1>2. \/ records' = [records EXCEPT ![c] = [session |-> s, row |-> row]]
        \/ UNCHANGED records
    <2>1. records[c] = [session |-> s, row |-> records[c].row]
      BY <1>s, MaySaveSays
    <2>2. [records[c] EXCEPT !.row = row] = [session |-> s, row |-> row]
      BY <2>1
    <2> QED
      BY <2>2 DEF Saved
  <1>3. row.version = sessions[s].version + 1
    BY <1>s
  <1>4. InterviewInv'
    BY <1>1, <1>2, <1>3, RowStep
  <1>5. sessions[s].status \notin {"completed", "cancelled"}
    BY <1>s, MaySaveSays
  <1>6. \A t \in Sessions \ {s} : sessions'[t] = sessions[t]
    BY <1>1 DEF InterviewInv
  <1> QED
    BY <1>4, <1>5, <1>6

LEMMA SavePlanningAnswerKeeps ==
    ASSUME InterviewInv, NEW c \in Writers, NEW section \in Sections, NEW next \in Sections,
           NEW status \in {"in_progress", "ready_for_review"},
           SavePlanningAnswer(c, section, next, status)
    PROVE  /\ InterviewInv'
           /\ \A s \in Sessions : sessions[s].status \in {"completed", "cancelled"}
                 => sessions'[s] = sessions[s]
  <1>r. PICK row : row = sessions[records[c].session]
    OBVIOUS
  <1>q. PICK q : q = Append(row.answers[section], Len(row.answers[section]))
    OBVIOUS
  <1>v. PICK kept : kept = [row EXCEPT !.version = @ + 1, !.status = status, !.section = next,
                                       !.answers[section] = q]
    OBVIOUS
  <1>1. MaySave(c, status)
    BY DEF SavePlanningAnswer
  <1>2. row \in BegunRows /\ RowWell(row) /\ records[c].row = row
    BY <1>r, <1>1, MaySaveSays
  <1>3. Saved(c, kept) /\ (status = "ready_for_review" => PlanningComplete(kept))
    BY <1>r, <1>q, <1>v, <1>2 DEF SavePlanningAnswer
  <1>4. /\ row.answers \in [Sections -> Seq(Nat)] /\ row.version \in Nat
        /\ row.answers[section] \in Seq(Nat) /\ Len(row.answers[section]) \in Nat
    BY <1>2, LenProperties DEF BegunRows
  <1>5. /\ q \in Seq(Nat) /\ Len(q) = Len(row.answers[section]) + 1
        /\ \A i \in 1..Len(row.answers[section]) : q[i] = row.answers[section][i]
        /\ q[Len(row.answers[section]) + 1] = Len(row.answers[section])
    BY <1>q, <1>4, AppendProperties
  <1>6. /\ kept.answers = [row.answers EXCEPT ![section] = q] /\ kept.status = status
        /\ kept.version = row.version + 1 /\ kept.section = next
        /\ kept.answers \in [Sections -> Seq(Nat)]
    BY <1>v, <1>2, <1>4, <1>5 DEF BegunRows
  <1>7. kept \in BegunRows
    <2>1. PICK S : S = DOMAIN PlanningGraph
      OBVIOUS
    <2>2. PICK A : A = [Sections -> Seq(Nat)]
      OBVIOUS
    <2>3. /\ BegunRows = [status : S, version : Nat, section : Sections, answers : A]
          /\ status \in S /\ kept.answers \in A
      BY <1>1, <1>6, <2>1, <2>2, MaySaveSays DEF BegunRows
    <2>4. row \in [status : S, version : Nat, section : Sections, answers : A]
      BY <1>2, <2>3
    <2>5. kept = [status |-> status, version |-> row.version + 1, section |-> next,
                  answers |-> kept.answers]
      BY ONLY <1>v, <2>4
    <2>6. row.version + 1 \in Nat
      BY ONLY <2>4
    <2>7. kept \in [status : S, version : Nat, section : Sections, answers : A]
      BY ONLY <2>3, <2>5, <2>6, next \in Sections
    <2> QED
      BY <2>3, <2>7
  <1>8. RowWell(kept)
    <2>1. ASSUME NEW part \in Sections, NEW i \in 1..Len(kept.answers[part])
          PROVE  kept.answers[part][i] = i - 1
      <3>1. CASE part # section
        BY <1>2, <1>4, <1>6, <2>1, <3>1 DEF RowWell
      <3>2. CASE part = section
        <4>1. kept.answers[part] = q
          BY <1>4, <1>6, <3>2
        <4>2. CASE i \in 1..Len(row.answers[section])
          BY <1>2, <1>5, <4>1, <4>2 DEF RowWell
        <4>3. CASE i = Len(row.answers[section]) + 1
          BY <1>4, <1>5, <4>1, <4>3
        <4>4. i \in 1..Len(row.answers[section]) + 1
          BY <1>5, <2>1, <4>1
        <4>5. Len(row.answers[section]) \in Nat
          BY <1>4
        <4> QED
          BY <4>2, <4>3, <4>4, <4>5
      <3> QED
        BY <3>1, <3>2
    <2> QED
      BY <1>3, <1>6, <2>1 DEF RowWell
  <1>9. kept.version = sessions[records[c].session].version + 1
    BY <1>r, <1>6
  <1> QED
    BY <1>1, <1>3, <1>7, <1>8, <1>9, SavedStep

LEMMA TransitionPlanningSessionKeeps ==
    ASSUME InterviewInv, NEW c \in Writers, NEW section \in Sections,
           NEW status \in DOMAIN PlanningGraph, TransitionPlanningSession(c, section, status)
    PROVE  /\ InterviewInv'
           /\ \A s \in Sessions : sessions[s].status \in {"completed", "cancelled"}
                 => sessions'[s] = sessions[s]
  <1>r. PICK row : row = sessions[records[c].session]
    OBVIOUS
  <1>v. PICK kept : kept = [row EXCEPT !.version = @ + 1, !.status = status, !.section = section]
    OBVIOUS
  <1>1. MaySave(c, status)
    BY DEF TransitionPlanningSession
  <1>2. row \in BegunRows /\ RowWell(row)
    BY <1>r, <1>1, MaySaveSays
  <1>3. /\ Saved(c, kept)
        /\ status \in {"ready_for_review", "completed"} => PlanningComplete(row)
    BY <1>r, <1>v DEF TransitionPlanningSession
  <1>4. /\ kept \in BegunRows /\ kept.answers = row.answers /\ kept.status = status
        /\ kept.version = row.version + 1
    <2>1. PICK S : S = DOMAIN PlanningGraph
      OBVIOUS
    <2>2. PICK A : A = [Sections -> Seq(Nat)]
      OBVIOUS
    <2>3. BegunRows = [status : S, version : Nat, section : Sections, answers : A] /\ status \in S
      BY <2>1, <2>2 DEF BegunRows
    <2>4. row \in [status : S, version : Nat, section : Sections, answers : A]
      BY <1>2, <2>3
    <2>5. kept = [status |-> status, version |-> row.version + 1, section |-> section,
                   answers |-> row.answers]
      BY ONLY <1>v, <2>4
    <2>6. row.version + 1 \in Nat /\ row.answers \in A
      BY ONLY <2>4
    <2>7. kept \in [status : S, version : Nat, section : Sections, answers : A]
      BY ONLY <2>3, <2>5, <2>6, section \in Sections
    <2> QED
      BY <2>3, <2>5, <2>7
  <1>5. RowWell(kept)
    BY <1>2, <1>3, <1>4 DEF RowWell, PlanningComplete, Answered
  <1>6. kept.version = sessions[records[c].session].version + 1
    BY <1>r, <1>4
  <1> QED
    BY <1>1, <1>3, <1>4, <1>5, <1>6, SavedStep

LEMMA InterviewKeeps ==
    ASSUME InterviewInv, InterviewStep
    PROVE  /\ InterviewInv'
           /\ \A s \in Sessions : sessions[s].status \in {"completed", "cancelled"}
                 => sessions'[s] = sessions[s]
  <1>1. ASSUME NEW c \in Writers, NEW s \in Sessions, CreatePlanningSession(c, s)
        PROVE  \A t \in Sessions : sessions[t].status \in {"completed", "cancelled"}
                  => sessions'[t] = sessions[t]
    BY <1>1 DEF CreatePlanningSession, InterviewInv
  <1>2. ASSUME NEW c \in Writers, NEW s \in Sessions, ReadPlanningSession(c, s)
        PROVE  UNCHANGED sessions
    BY <1>2 DEF ReadPlanningSession
  <1> QED
    BY <1>1, <1>2, CreatePlanningSessionKeeps, ReadPlanningSessionKeeps, SavePlanningAnswerKeeps,
       TransitionPlanningSessionKeeps DEF InterviewStep

LEMMA AnswersHold ==
    ASSUME InterviewInv
    PROVE  AnswersSeen
  BY DEF InterviewInv, AnswersSeen, RowWell

-----------------------------------------------------------------------------
(* All of planning.                                                        *)

\* The catalogue, the saves and the interviews, together.
PlanningInv == CatalogueInv /\ SavingInv /\ InterviewInv

LEMMA ClockAdvances ==
    ASSUME CatalogueInv, [CatalogueNext]_catalogueVars
    PROVE  clock \in Nat /\ clock' \in Nat /\ clock <= clock'
  <1>1. clock \in Nat
    BY CatalogueTyped
  <1>2. CASE TimePasses
    BY <1>1, <1>2 DEF TimePasses
  <1>3. CASE ProductNext
    <2>1. ASSUME NEW p \in Products, NEW name \in Names, CreateProduct(p, name)
          PROVE  clock' = clock
      BY <2>1 DEF CreateProduct
    <2>2. ASSUME NEW c \in Clients, NEW p \in Products, ReadProduct(c, p)
          PROVE  clock' = clock
      BY <2>2 DEF ReadProduct
    <2>3. ASSUME NEW c \in Clients, NEW name \in Names, UpdateProduct(c, name)
          PROVE  clock' = clock
      BY <2>3 DEF UpdateProduct
    <2>4. ASSUME NEW c \in Clients, ArchiveProduct(c)
          PROVE  clock' = clock
      BY <2>4 DEF ArchiveProduct
    <2>5. ASSUME NEW c \in Clients, RestoreProduct(c)
          PROVE  clock' = clock
      BY <2>5 DEF RestoreProduct
    <2> QED
      BY <1>1, <1>3, <2>1, <2>2, <2>3, <2>4, <2>5 DEF ProductNext
  <1>4. CASE DesignNext
    <2>1. ASSUME NEW d \in Designs, NEW p \in Products, CreateDesign(d, p)
          PROVE  clock' = clock
      BY <2>1 DEF CreateDesign
    <2>2. ASSUME NEW d \in Designs, NEW p \in Products, NEW name \in Names,
                 CreateDesignAndProduct(d, p, name)
          PROVE  clock' = clock
      BY <2>2 DEF CreateDesignAndProduct
    <2>3. ASSUME NEW d \in Designs, CommitRevision(d)
          PROVE  clock' = clock
      BY <2>3 DEF CommitRevision
    <2>4. ASSUME NEW d \in Designs, ArchiveDesign(d)
          PROVE  clock' = clock
      BY <2>4 DEF ArchiveDesign
    <2>5. ASSUME NEW d \in Designs, RestoreArchivedDesign(d)
          PROVE  clock' = clock
      BY <2>5 DEF RestoreArchivedDesign
    <2>6. ASSUME NEW d \in Designs, NEW x \in Contexts, SetContext(x, d)
          PROVE  clock' = clock
      BY <2>6 DEF SetContext
    <2> QED
      BY <1>1, <1>4, <2>1, <2>2, <2>3, <2>4, <2>5, <2>6 DEF DesignNext
  <1>5. CASE MoveNext
    <2>1. ASSUME NEW m \in Moves, NEW d \in Designs, NEW target \in Products,
                 PreviewDesignMove(m, d, target)
          PROVE  clock' = clock
      BY <2>1 DEF PreviewDesignMove
    <2>2. ASSUME NEW m \in Moves, ReadDesignMovePreview(m)
          PROVE  clock' = clock
      BY <2>2 DEF ReadDesignMovePreview
    <2>3. ASSUME NEW m \in Moves, CommitDesignMovePreview(m)
          PROVE  clock' = clock
      BY <2>3 DEF CommitDesignMovePreview
    <2> QED
      BY <1>1, <1>5, <2>1, <2>2, <2>3 DEF MoveNext
  <1>6. ASSUME NEW x \in Contexts, ClearContext(x)
        PROVE  clock' = clock
    BY <1>6 DEF ClearContext
  <1>7. CASE UNCHANGED catalogueVars
    BY <1>1, <1>7 DEF catalogueVars
  <1> QED
    BY <1>1, <1>2, <1>3, <1>4, <1>5, <1>6, <1>7 DEF CatalogueNext

LEMMA PlanningStarts ==
    ASSUME PlanningInit
    PROVE  PlanningInv
  <1>1. CatalogueInv
    BY CatalogueStarts DEF PlanningInit
  <1>2. InterviewInv
    BY DEF PlanningInit, InterviewInv, SessionRows
  <1> QED
    BY <1>1, <1>2, SavingStarts DEF PlanningInv

LEMMA InterviewRests ==
    ASSUME InterviewInv, UNCHANGED <<sessions, records>>
    PROVE  InterviewInv'
  BY DEF InterviewInv

LEMMA PlanningKeeps ==
    ASSUME PlanningInv, [PlanningNext]_allVars
    PROVE  /\ PlanningInv' /\ DraftOrVersion
           /\ \A s \in Sessions : sessions[s].status \in {"completed", "cancelled"}
                 => sessions'[s] = sessions[s]
  <1>1. CatalogueInv /\ SavingInv /\ InterviewInv /\ clock \in Nat
    BY CatalogueTyped DEF PlanningInv
  <1>2. [CatalogueNext]_catalogueVars
    BY DEF PlanningNext, PlanningStep, allVars
  <1>3. CatalogueInv' /\ clock' \in Nat /\ clock <= clock'
    BY <1>1, <1>2, CatalogueStep, ClockAdvances
  <1>4. CASE UNCHANGED planningVars
    <2>1. SavingInv'
      BY <1>1, <1>3, <1>4, TimeKeepsSaves
    <2>2. InterviewInv' /\ UNCHANGED sessions /\ UNCHANGED panels
      BY <1>1, <1>4, InterviewRests DEF planningVars
    <2> QED
      BY <1>3, <2>1, <2>2, PanelsAlone DEF PlanningInv
  <1>5. CASE SpecificationStep /\ UNCHANGED catalogueVars
    <2>1. SavingInv' /\ DraftOrVersion
      BY <1>1, <1>5, SpecificationKeeps, DraftOrVersionKept DEF catalogueVars
    <2>2. UNCHANGED <<sessions, records>>
      BY <1>5 DEF SpecificationStep, OpenPanel, EditBrief, AppendAction, EditHistoricalSpecification, PersistBrief,
           ClosePanel, ProposeSpecification, PreviewProductSpecification,
           CommitProductSpecificationPreview, ReceivePreview, ReceiveCommit, ReceiveRefusal, GiveUpCall
    <2> QED
      BY <1>1, <1>3, <2>1, <2>2, InterviewRests DEF PlanningInv
  <1>6. CASE InterviewStep /\ UNCHANGED catalogueVars
    <2>1. /\ InterviewInv'
          /\ \A s \in Sessions : sessions[s].status \in {"completed", "cancelled"}
                => sessions'[s] = sessions[s]
      BY <1>1, <1>6, InterviewKeeps
    <2>2. UNCHANGED <<specs, specPreviews, replies, panels, calls, started, proposed, clock>>
      <3>1. ASSUME NEW c \in Writers, NEW s \in Sessions,
                   CreatePlanningSession(c, s) \/ ReadPlanningSession(c, s)
            PROVE  UNCHANGED <<specs, specPreviews, replies, panels, calls, started, proposed>>
        BY <3>1 DEF CreatePlanningSession, ReadPlanningSession
      <3>2. ASSUME NEW c \in Writers, NEW row, Saved(c, row)
            PROVE  UNCHANGED <<specs, specPreviews, replies, panels, calls, started, proposed>>
        BY <3>2 DEF Saved
      <3>3. ASSUME NEW c \in Writers, NEW section \in Sections, NEW next \in Sections,
                   NEW status, SavePlanningAnswer(c, section, next, status)
            PROVE  UNCHANGED <<specs, specPreviews, replies, panels, calls, started, proposed>>
        BY <3>2, <3>3 DEF SavePlanningAnswer
      <3>4. ASSUME NEW c \in Writers, NEW section \in Sections,
                   NEW status, TransitionPlanningSession(c, section, status)
            PROVE  UNCHANGED <<specs, specPreviews, replies, panels, calls, started, proposed>>
        BY <3>2, <3>4 DEF TransitionPlanningSession
      <3>5. UNCHANGED clock
        BY <1>6 DEF catalogueVars
      <3> QED
        BY <1>6, <3>1, <3>3, <3>4, <3>5 DEF InterviewStep
    <2>3. SavingInv'
      BY <1>1, <2>2, SavesRest
    <2> QED
      BY <1>3, <2>1, <2>2, <2>3, PanelsAlone DEF PlanningInv
  <1> QED
    BY <1>4, <1>5, <1>6 DEF PlanningNext, PlanningStep, allVars

LEMMA PlanningTyped ==
    ASSUME PlanningInv
    PROVE  PlanningTypeOK
  <1>1. CatalogueTypeOK
    BY DEF PlanningInv, CatalogueInv
  <1>2. SavingTypeOK
    BY DEF PlanningInv, SavingInv
  <1>3. \A x \in calls : x.key \in Keys /\ x.answer \in Replies \cup {None}
    BY CallTyped DEF PlanningInv
  <1>4. \A s \in Sessions : sessions[s].status \in {"unused"} \cup DOMAIN PlanningGraph
    BY DEF PlanningInv, InterviewInv, SessionRows, BegunRows
  <1>5. \A c \in Writers : records[c] # None => records[c].session \in Sessions
    BY DEF PlanningInv, InterviewInv, RecordWell
  <1> QED
    BY <1>1, <1>2, <1>3, <1>4, <1>5 DEF PlanningTypeOK, SavingTypeOK, SpecRows, SpecPreviewRows

\* Every variable of planning keeps its type.
THEOREM PlanningTypeCorrect == PlanningSpec => []PlanningTypeOK
  <1>1. PlanningInit => PlanningInv
    BY PlanningStarts
  <1>2. PlanningInv /\ [PlanningNext]_allVars => PlanningInv'
    BY PlanningKeeps
  <1>3. PlanningInv => PlanningTypeOK
    BY PlanningTyped
  <1> QED
    BY <1>1, <1>2, <1>3, PTL DEF PlanningSpec

\* However saves, timeouts, retries and the answers to calls given up interleave,
\* with agents writing too: every version of a specification is what one save asked
\* for, made once; no refused save was made; a save that ends leaves its panel the
\* draft, or the version made of the draft it began with, and then overwrites what
\* was added to that draft meanwhile; no answer of an interview takes the place of
\* one its author has not seen; and an interview that is over does not change.
THEOREM PlanningSoundAlways == PlanningSpec => PlanningSound
  <1>1. PlanningInit => PlanningInv
    BY PlanningStarts
  <1>2. PlanningInv /\ [PlanningNext]_allVars => PlanningInv'
    BY PlanningKeeps
  <1>3. PlanningInv => SavesExact /\ PanelsTruthful /\ AnswersSeen
    BY SavingHolds, AnswersHold DEF PlanningInv
  <1> DEFINE Kept == /\ DraftOrVersion
                     /\ \A s \in Sessions : sessions[s].status \in {"completed", "cancelled"}
                           => sessions'[s] = sessions[s]
  <1>4. PlanningInv /\ [PlanningNext]_allVars => [Kept]_allVars
    BY PlanningKeeps
  <1>5. PlanningSound <=> /\ [](SavesExact /\ PanelsTruthful /\ AnswersSeen)
                          /\ [][Kept]_allVars
    BY DEF PlanningSound
  <1> HIDE DEF Kept
  <1>6. PlanningSpec => /\ [](SavesExact /\ PanelsTruthful /\ AnswersSeen)
                        /\ [][Kept]_allVars
    BY <1>1, <1>2, <1>3, <1>4, PTL DEF PlanningSpec
  <1> QED
    BY <1>5, <1>6

=============================================================================
