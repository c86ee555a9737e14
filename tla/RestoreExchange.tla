--------------------------- MODULE RestoreExchange ---------------------------
(***************************************************************************)
(* The journalled exchange of the data directory for the content of a      *)
(* backup (restoreVerifiedBackup, backup.ts).  One action is one durable   *)
(* effect: a rename, a rewritten journal, a removed directory, a database   *)
(* opened or closed.  What a dead run left behind is found again from the   *)
(* journal and from which copies exist, as recoverExistingRestoreJournal    *)
(* and rollbackRestoreCutover do.                                           *)
(*                                                                         *)
(* RestoreOperation adds the worker around it, the fence and the server.   *)
(***************************************************************************)
EXTENDS Naturals, FiniteSets

CONSTANTS
    Entries,     \* top-level names of a data directory
    OldEntries,  \* those of the data that is replaced
    NewEntries,  \* those of the backup
    Database,    \* designer.sqlite
    Wal          \* its write-ahead log, there while the database is open

ASSUME EntriesAssumption ==
    /\ OldEntries \subseteq Entries /\ NewEntries \subseteq Entries
    /\ Database \in OldEntries \cap NewEntries
    /\ Wal \in Entries \ (OldEntries \cup NewEntries)

Absent == "absent"
Contents == {Absent, "old", "new", "mixed"}
Nothing == [e \in Entries |-> Absent]
Data(names, content) == [e \in Entries |-> IF e \in names THEN content ELSE Absent]

VARIABLES
    live,        \* live[e]: the data directory
    saved,       \* the journal's rollback directory
    staged,      \* the journal's candidate directory
    journal,     \* journal.json, or what is there instead of it
    step,        \* what the worker process does next; "idle": there is none
    goal,        \* where the cleanup or the undoing under way leads
    committed,   \* history: a journal was written as committed
    interrupted  \* history: a process died in the health check of a candidate

diskVars == <<live, saved, staged>>
exchangeVars == <<diskVars, journal, step, goal, committed, interrupted>>
historyVars == <<committed, interrupted>>

NoJournal == [phase |-> "none", started |-> FALSE, originals |-> {}, candidates |-> {}]

\* "empty" and "unwritten": the journal directory without journal.json, empty
\* or with the two directories of copies in it.
Phases == {"none", "empty", "unwritten", "staging", "moving-originals",
           "moving-candidate", "health-check", "committed", "rolling-back", "rolled-back"}

Present(d) == {e \in Entries : d[e] # Absent}
Go(next) == step' = next
WritePhase(phase) == journal' = [journal EXCEPT !.phase = phase]

\* SQLite opens a database beside a log: what the log holds is in the database
\* from then on, whichever database wrote it.
Opened(d) ==
    LET content == IF d[Wal] \in {Absent, d[Database]} THEN d[Database] ELSE "mixed"
    IN  [d EXCEPT ![Database] = content, ![Wal] = content]

\* The last connection is closed.
Closed(d) == [d EXCEPT ![Wal] = Absent]

\* moveWithoutReplacement.
CanMove(e, from, to) == from[e] # Absent /\ to[e] = Absent
Without(d, e) == [d EXCEPT ![e] = Absent]
With(d, e, content) == [d EXCEPT ![e] = content]

OriginalsAreLive == \A e \in journal.originals : live[e] # Absent /\ saved[e] = Absent

-----------------------------------------------------------------------------
(* cleanupRestoreJournal: four removals, in this order.                     *)

Parts == {"staged", "saved", "journal", "root"}

NextPart == [staged |-> "saved", saved |-> "journal", journal |-> "root"]

Remove(part) ==
    /\ staged' = IF part = "staged" THEN Nothing ELSE staged
    /\ saved' = IF part = "saved" THEN Nothing ELSE saved
    /\ journal' = CASE part = "journal" -> [NoJournal EXCEPT !.phase = "empty"]
                    [] part = "root" -> NoJournal
                    [] OTHER -> journal
    /\ UNCHANGED <<live, committed, interrupted>>

CleanUp ==
    /\ step \in Parts
    /\ Remove(step)
    /\ Go(IF step = "root" THEN goal ELSE NextPart[step])
    /\ UNCHANGED goal

-----------------------------------------------------------------------------
(* What an earlier run left.                                                *)

\* Mutant: whatever was left is cleaned up.
Recovery_Discards(phase) ==
    IF phase \in {"none", "empty"} THEN "verify" ELSE "staged"

\* recoverExistingRestoreJournal and the test for a committed journal before it.
Recovery(phase) ==
    CASE phase \in {"none", "empty"} -> "verify"
      [] phase = "unwritten" -> "failed"
      [] phase = "committed" -> "health"
      [] phase = "staging" -> "staged"
      [] phase = "rolled-back" -> IF OriginalsAreLive THEN "staged" ELSE "failed"
      [] OTHER -> "undo"

Recover ==
    /\ step = "exchange"
    /\ Go(Recovery(journal.phase))
    /\ goal' = "verify"
    /\ journal' = IF journal.phase = "empty" THEN NoJournal ELSE journal
    /\ UNCHANGED <<diskVars, historyVars>>

-----------------------------------------------------------------------------
(* Staging.                                                                 *)

\* The bundle is pinned and verified, the disk has room: or Fail.
VerifyBundle ==
    /\ step = "verify"
    /\ Go("make")
    /\ UNCHANGED <<diskVars, journal, goal, historyVars>>

\* Two mkdir and the first journal.
MakeJournal ==
    /\ \/ step = "make" /\ WritePhase("empty") /\ Go("directories")
       \/ step = "directories" /\ WritePhase("unwritten") /\ Go("write")
       \/ step = "write" /\ WritePhase("staging") /\ Go("extract")
    /\ UNCHANGED <<diskVars, goal, historyVars>>

Extract ==
    /\ step = "extract"
    /\ staged' = Data(NewEntries, "new")
    /\ Go("plan")
    /\ UNCHANGED <<live, saved, journal, goal, historyVars>>

PlanMoves ==
    /\ step = "plan"
    /\ journal' = [phase |-> "moving-originals", started |-> FALSE,
                   originals |-> Present(live), candidates |-> Present(staged)]
    /\ Go("originals")
    /\ UNCHANGED <<diskVars, goal, historyVars>>

-----------------------------------------------------------------------------
(* The exchange.  Entries are moved one by one; in which order is free here. *)

MoveOriginal(e) ==
    /\ step = "originals"
    /\ e \in journal.originals
    /\ CanMove(e, live, saved)
    /\ saved' = With(saved, e, live[e])
    /\ live' = Without(live, e)
    /\ UNCHANGED <<staged, journal, step, goal, historyVars>>

OriginalsMoved ==
    /\ step = "originals"
    /\ \A e \in journal.originals : live[e] = Absent
    /\ journal' = [journal EXCEPT !.phase = "moving-candidate", !.started = TRUE]
    /\ Go("candidates")
    /\ UNCHANGED <<diskVars, goal, historyVars>>

MoveCandidate(e) ==
    /\ step = "candidates"
    /\ e \in journal.candidates
    /\ CanMove(e, staged, live)
    /\ live' = With(live, e, staged[e])
    /\ staged' = Without(staged, e)
    /\ UNCHANGED <<saved, journal, step, goal, historyVars>>

CandidatesMoved ==
    /\ step = "candidates"
    /\ \A e \in journal.candidates : staged[e] = Absent
    /\ WritePhase("health-check")
    /\ Go("health")
    /\ UNCHANGED <<diskVars, goal, historyVars>>

\* The health check opens the exchanged database: migrations write to it.
OpenCandidate ==
    /\ step = "health"
    /\ live' = Opened(live)
    /\ Go("checking")
    /\ UNCHANGED <<saved, staged, journal, goal, historyVars>>

\* It passed.  A committed journal of an earlier run only needed the check.
CheckPassed ==
    /\ step = "checking"
    /\ live' = Closed(live)
    /\ IF journal.phase = "committed"
       THEN Go("staged") /\ goal' = "record"
       ELSE Go("commit") /\ UNCHANGED goal
    /\ UNCHANGED <<saved, staged, journal, historyVars>>

Commit ==
    /\ step = "commit"
    /\ WritePhase("committed")
    /\ committed' = TRUE
    /\ Go("staged")
    /\ goal' = "record"
    /\ UNCHANGED <<diskVars, interrupted>>

-----------------------------------------------------------------------------
(* rollbackRestoreCutover.                                                  *)

StartUndo ==
    /\ step = "undo"
    /\ WritePhase("rolling-back")
    /\ Go(IF journal.started THEN "undo-candidates" ELSE "undo-originals")
    /\ UNCHANGED <<diskVars, goal, historyVars>>

UndoCandidate(e) ==
    /\ step = "undo-candidates"
    /\ e \in journal.candidates
    /\ CanMove(e, live, staged)
    /\ staged' = With(staged, e, live[e])
    /\ live' = Without(live, e)
    /\ UNCHANGED <<saved, journal, step, goal, historyVars>>

CandidatesUndone ==
    /\ step = "undo-candidates"
    /\ \A e \in journal.candidates : live[e] = Absent
    /\ Go("undo-originals")
    /\ UNCHANGED <<diskVars, journal, goal, historyVars>>

UndoOriginal(e) ==
    /\ step = "undo-originals"
    /\ e \in journal.originals
    /\ CanMove(e, saved, live)
    /\ live' = With(live, e, saved[e])
    /\ saved' = Without(saved, e)
    /\ UNCHANGED <<staged, journal, step, goal, historyVars>>

\* With the assertion that the originals are live, and then the cleanup when
\* this is the recovery of an earlier run.
OriginalsUndone ==
    /\ step = "undo-originals"
    /\ OriginalsAreLive
    /\ WritePhase("rolled-back")
    /\ Go(IF goal = "verify" THEN "staged" ELSE "failed")
    /\ UNCHANGED <<diskVars, goal, historyVars>>

\* Two copies of an entry, or none: nothing is removed, the journal stays.
UndoRefused ==
    /\ \/ /\ step = "undo-candidates"
          /\ \E e \in journal.candidates : live[e] # Absent /\ staged[e] # Absent
       \/ /\ step = "undo-originals"
          /\ \E e \in journal.originals : (live[e] = Absent) <=> (saved[e] = Absent)
    /\ Go("failed")
    /\ UNCHANGED <<diskVars, journal, goal, historyVars>>

-----------------------------------------------------------------------------
(* Errors.                                                                  *)

\* What follows an error of step s: before the exchange nothing or the cleanup,
\* in it the rollback, and after the commit neither.
AfterError(s) ==
    CASE s \in {"write", "extract", "plan"} -> "staged"
      [] s \in {"originals", "candidates", "commit"} -> "undo"
      [] s \in {"health", "checking"} /\ journal.phase = "health-check" -> "undo"
      [] OTHER -> "failed"

ExchangeSteps == Parts \cup
    {"exchange", "verify", "make", "directories", "write", "extract", "plan", "originals",
     "candidates", "health", "checking", "commit", "undo", "undo-candidates", "undo-originals"}

\* An error of a file system call, of the verification or of the health check,
\* which closes the database it opened.
Fail ==
    /\ step \in ExchangeSteps
    /\ Go(AfterError(step))
    /\ goal' = "failed"
    /\ live' = IF step = "checking" THEN Closed(live) ELSE live
    /\ UNCHANGED <<saved, staged, journal, historyVars>>

\* The process dies and leaves an open database as it is.
Die ==
    /\ step # "idle"
    /\ Go("idle")
    /\ interrupted' = (interrupted \/ (step = "checking" /\ journal.phase = "health-check"))
    /\ UNCHANGED <<diskVars, journal, goal, committed>>

Exchange ==
    \/ CleanUp \/ Recover \/ VerifyBundle \/ MakeJournal \/ Extract \/ PlanMoves
    \/ \E e \in Entries : MoveOriginal(e) \/ MoveCandidate(e) \/ UndoCandidate(e) \/ UndoOriginal(e)
    \/ OriginalsMoved \/ CandidatesMoved \/ CheckPassed \/ Commit
    \/ StartUndo \/ CandidatesUndone \/ OriginalsUndone \/ UndoRefused
    \/ Fail

\* d is the directory of the given content and nothing else, open or not.
Whole(d, names, content) ==
    /\ \A e \in Entries \ {Wal} : d[e] = Data(names, content)[e]
    /\ d[Wal] \in {Absent, content}
=============================================================================
