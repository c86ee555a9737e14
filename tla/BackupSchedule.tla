-------------------------- MODULE BackupSchedule --------------------------
(***************************************************************************)
(* Managed backups (operations-service.ts, backup-retention.ts): manual and  *)
(* scheduled ones, their verification, and the pruning of those a retention  *)
(* policy no longer keeps.  Creating and pruning take an operational lock    *)
(* that runs out after fifteen minutes, done or not; verifying takes none.   *)
(* Each await ends a step, and the process may crash between any two, and in *)
(* the transaction that moves bundles aside and deletes their rows.          *)
(*                                                                         *)
(* Time goes in ticks: a lock lasts LockTicks, a window of the schedule       *)
(* WindowTicks; weeks and months are runs of windows.                       *)
(***************************************************************************)
EXTENDS Naturals, Sequences, FiniteSets, FiniteSetsExt

CONSTANTS
    Requests,     \* calls that may be under way at once
    None,
    LockTicks, WindowTicks,
    WeekWindows, MonthWindows,  \* windows in a week, in a month
    Policies,     \* how many of each class an organization may keep
    MaxTime,      \* bound: ticks
    MaxBackups    \* bound: rows at a time

Classes == {"manual", "daily", "weekly", "monthly"}
Ids == 1 .. MaxBackups

\* "suspect" is history: the bundle was once found invalid.
BackupRows ==
    [class : Classes, window : Nat, created : Nat, completed : Nat,
     status : {"valid", "invalid"}, file : {"managed", "staged", "none"}, suspect : BOOLEAN]

\* What the hash of a plan covers.
Plans ==
    [keep : Nat, candidates : SUBSET Ids,
     rows : SUBSET [id : Ids, class : Classes, completed : Nat]]

ASSUME BackupScheduleAssumption ==
    /\ None \notin Requests \cup BackupRows \cup Plans
    /\ {LockTicks, WindowTicks, WeekWindows, MonthWindows} \subseteq Nat \ {0}
    /\ Policies \subseteq Nat \ {0}
    /\ {MaxTime, MaxBackups} \subseteq Nat

VARIABLES
    now,
    keep,       \* what the organization's policy keeps of each class
    lock,       \* the operational_locks row "backup"
    request,    \* request[r]: how far the call at r has come
    backup,     \* backup[b]: a row and its bundle, None when there is none
    preview,    \* the preview of a prune
    overrun     \* history: a lock was taken from a call that still made a backup

vars == <<now, keep, lock, request, backup, preview, overrun>>

Idle == [at |-> "idle"]
NoLock == [holder |-> None, until |-> 0]

WindowOf(t) == t \div WindowTicks
WeekOf(w) == w \div WeekWindows
MonthOf(w) == w \div MonthWindows

Rows == {b \in Ids : backup[b] # None}
Valid == {b \in Rows : backup[b].status = "valid"}

-----------------------------------------------------------------------------
(* The lock.  A call that finds none, or one that ran out, takes it.        *)

Free == lock.holder = None \/ lock.until <= now

Acquire(r) ==
    /\ Free
    /\ lock' = [holder |-> r, until |-> now + LockTicks]
    /\ overrun' = (overrun \/ /\ lock.holder # None
                              /\ request[lock.holder].at \in {"creating", "created"})

\* Only the holder's own row is deleted.
Release(r) == lock' = IF lock.holder = r THEN NoLock ELSE lock

Goes(r, to) == request' = [request EXCEPT ![r] = to]

-----------------------------------------------------------------------------
(* Creating.                                                                *)

\* scheduledBackupInWindow: by the time the bundle was made.
Covered(w) == \E b \in Valid : backup[b].class # "manual" /\ WindowOf(backup[b].created) = w

\* retentionClassForWindow: by the window the backup was made for.
ClassFor(w) ==
    IF ~\E b \in Valid : backup[b].class = "monthly" /\ MonthOf(backup[b].window) = MonthOf(w)
    THEN "monthly"
    ELSE IF ~\E b \in Valid : backup[b].class = "weekly" /\ WeekOf(backup[b].window) = WeekOf(w)
    THEN "weekly" ELSE "daily"

\* A window that has its backup is left alone: the lock is taken and released
\* in one step.
RunScheduledBackup(r) ==
    /\ request[r] = Idle
    /\ ~Covered(WindowOf(now))
    /\ Acquire(r)
    /\ Goes(r, [at |-> "creating", class |-> ClassFor(WindowOf(now)), window |-> WindowOf(now)])
    /\ UNCHANGED <<now, keep, backup, preview>>

CreateBackup(r) ==
    /\ request[r] = Idle
    /\ Acquire(r)
    /\ Goes(r, [at |-> "creating", class |-> "manual", window |-> 0])
    /\ UNCHANGED <<now, keep, backup, preview>>

\* The database is copied: the bundle has this moment as its creation.
CopyDatabase(r) ==
    /\ request[r].at = "creating"
    /\ Goes(r, [at |-> "created", class |-> request[r].class, window |-> request[r].window,
                created |-> now])
    /\ UNCHANGED <<now, keep, lock, backup, preview, overrun>>

\* An id nobody speaks of.
Unused ==
    LET unused == Ids \ (Rows \cup {request[q].backup : q \in {p \in Requests : request[p].at = "verifying"}})
    IN IF unused = {} THEN {} ELSE {Min(unused)}

\* Mutant: the row is given the time of its window.
RecordBackup_Backdated(r) ==
    /\ request[r].at = "created"
    /\ \E b \in Unused :
        backup' = [backup EXCEPT ![b] =
            [class |-> request[r].class, window |-> request[r].window,
             created |-> request[r].created, completed |-> request[r].window * WindowTicks,
             status |-> "valid", file |-> "managed", suspect |-> FALSE]]
    /\ Goes(r, [at |-> "ending"])
    /\ UNCHANGED <<now, keep, lock, preview, overrun>>

\* createManagedBackup: the bundle is verified and recorded.
RecordBackup(r) ==
    /\ request[r].at = "created"
    /\ \E b \in Unused :
        backup' = [backup EXCEPT ![b] =
            [class |-> request[r].class, window |-> request[r].window,
             created |-> request[r].created, completed |-> now,
             status |-> "valid", file |-> "managed", suspect |-> FALSE]]
    /\ Goes(r, [at |-> "ending"])
    /\ UNCHANGED <<now, keep, lock, preview, overrun>>

\* The finally clause; also after a failure on the way.
End(r) ==
    /\ request[r].at \in {"creating", "created", "pruning", "ending"}
    /\ Release(r)
    /\ Goes(r, Idle)
    /\ UNCHANGED <<now, keep, backup, preview, overrun>>

-----------------------------------------------------------------------------
(* Verifying, without a lock.                                               *)

VerifyBackup(r, b) ==
    /\ request[r] = Idle /\ b \in Rows
    /\ Goes(r, [at |-> "verifying", backup |-> b, found |-> backup[b].file = "managed"])
    /\ UNCHANGED <<now, keep, lock, backup, preview, overrun>>

\* The row is valid, as of now, when it is still there; the bundle may also
\* be found wanting, or the verifier unavailable.
VerifyEnds(r) ==
    LET b == request[r].backup IN
    /\ request[r].at = "verifying"
    /\ \/ request[r].found /\ b \in Rows
          /\ backup' = [backup EXCEPT ![b].status = "valid", ![b].completed = now]
       \/ b \in Rows
          /\ backup' = [backup EXCEPT ![b].status = "invalid", ![b].suspect = TRUE]
       \/ b \notin Rows /\ backup' = backup
    /\ Goes(r, Idle)
    /\ UNCHANGED <<now, keep, lock, preview, overrun>>

-----------------------------------------------------------------------------
(* Pruning.                                                                 *)

Newer(b, c) ==
    \/ backup[b].completed > backup[c].completed
    \/ backup[b].completed = backup[c].completed /\ b > c

\* buildBackupRetentionPlan: per class the newest are kept.
Candidates ==
    {b \in Valid :
        /\ backup[b].class # "manual"
        /\ Cardinality({c \in Valid : backup[c].class = backup[b].class /\ Newer(c, b)}) >= keep}

\* planHash
Plan ==
    [keep |-> keep, candidates |-> Candidates,
     rows |-> {[id |-> b, class |-> backup[b].class, completed |-> backup[b].completed] :
                  b \in {c \in Valid : backup[c].class # "manual"}}]

\* An earlier preview runs out.
PreviewBackupPrune ==
    /\ preview' = Plan
    /\ Plan.candidates # {} /\ preview # Plan
    /\ UNCHANGED <<now, keep, lock, request, backup, overrun>>

\* Under the lock, and again in the transaction.
Current(plan) == plan = Plan

ExecuteBackupPrune(r) ==
    /\ request[r] = Idle
    /\ preview # None /\ Current(preview)
    /\ Acquire(r)
    /\ Goes(r, [at |-> "pruning", plan |-> preview])
    /\ UNCHANGED <<now, keep, backup, preview>>

\* Mutant: the bundles are unlinked at once.
Staged_Unlinked(bs) == [b \in Ids |-> IF b \in bs THEN [backup[b] EXCEPT !.file = "none"] ELSE backup[b]]

Staged(bs) == [b \in Ids |-> IF b \in bs THEN [backup[b] EXCEPT !.file = "staged"] ELSE backup[b]]
Deleted(bs) == [b \in Ids |-> IF b \in bs THEN None ELSE backup[b]]

\* Mutant: the plan is not made again when the bundles have been verified.
CommitPrune_Blind(r) ==
    LET plan == request[r].plan IN
    /\ request[r].at = "pruning"
    /\ preview = plan
    /\ \A b \in plan.candidates \cap Rows : backup[b].file = "managed"
    /\ backup' = Deleted(plan.candidates)
    /\ preview' = None
    /\ Goes(r, [at |-> "ending"])
    /\ UNCHANGED <<now, keep, lock, overrun>>

\* The transaction.  Whatever it finds changed, it moves everything back; what
\* it moved aside is unlinked afterwards, or stays there without a row.
CommitPrune(r) ==
    LET plan == request[r].plan IN
    /\ request[r].at = "pruning"
    /\ preview = plan /\ Current(plan)
    /\ \A b \in plan.candidates \cap Rows : backup[b].file = "managed"
    /\ backup' = Deleted(plan.candidates)
    /\ preview' = None
    /\ Goes(r, [at |-> "ending"])
    /\ UNCHANGED <<now, keep, lock, overrun>>

-----------------------------------------------------------------------------
(* The surroundings.                                                        *)

Tick ==
    /\ now < MaxTime
    /\ now' = now + 1
    /\ UNCHANGED <<keep, lock, request, backup, preview, overrun>>

UpdatePolicy ==
    /\ keep' \in Policies \ {keep}
    /\ UNCHANGED <<now, lock, request, backup, preview, overrun>>

\* All calls are gone, the lock stays.  A prune in its transaction may have
\* moved some bundles aside already.
Crash ==
    /\ \E r \in Requests : request[r] # Idle
    /\ request' = [r \in Requests |-> Idle]
    /\ \/ backup' = backup
       \/ \E r \in Requests :
            /\ request[r].at = "pruning" /\ Current(request[r].plan)
            /\ \E bs \in SUBSET request[r].plan.candidates :
                /\ \A b \in bs : backup[b].file = "managed"
                /\ backup' = Staged(bs)
    /\ UNCHANGED <<now, keep, lock, preview, overrun>>

Init ==
    /\ now = 0
    /\ keep \in Policies
    /\ lock = NoLock
    /\ request = [r \in Requests |-> Idle]
    /\ backup = [b \in Ids |-> None]
    /\ preview = None
    /\ overrun = FALSE

Next ==
    \/ Tick \/ UpdatePolicy \/ Crash \/ PreviewBackupPrune
    \/ \E r \in Requests :
        \/ RunScheduledBackup(r) \/ CreateBackup(r) \/ CopyDatabase(r) \/ RecordBackup(r)
        \/ ExecuteBackupPrune(r) \/ CommitPrune(r) \/ End(r)
        \/ VerifyEnds(r)
        \/ \E b \in Rows : VerifyBackup(r, b)

Spec == Init /\ [][Next]_vars
-----------------------------------------------------------------------------
(* Properties.                                                              *)

Calls ==
    {Idle, [at |-> "ending"]}
    \cup [at : {"creating"}, class : Classes, window : Nat]
    \cup [at : {"created"}, class : Classes, window : Nat, created : Nat]
    \cup [at : {"verifying"}, backup : Ids, found : BOOLEAN]
    \cup [at : {"pruning"}, plan : Plans]

\* A bundle is recorded after it was made, and made in or after its window.
TypeOK ==
    /\ now \in 0 .. MaxTime /\ keep \in Policies /\ overrun \in BOOLEAN
    /\ lock \in [holder : Requests \cup {None}, until : Nat]
    /\ request \in [Requests -> Calls]
    /\ backup \in [Ids -> BackupRows \cup {None}]
    /\ preview \in Plans \cup {None}
    /\ \A b \in Rows :
        /\ backup[b].window <= WindowOf(backup[b].created)
        /\ backup[b].created <= backup[b].completed /\ backup[b].completed <= now

\* However the previews, the locks that ran out and the verifications overlap,
\* rows go only as a preview said that nobody has changed since: all of its
\* candidates together, no manual backup among them, and of every class at
\* least as many stay as the policy of that moment keeps (executeBackupPrune).
PrunedAsPreviewed ==
    [][LET gone == {b \in Rows : backup'[b] = None}
       IN gone # {} =>
            /\ preview # None /\ gone = preview.candidates
            /\ \A b \in gone :
                /\ backup[b].class # "manual"
                /\ Cardinality({c \in Valid \ gone : backup[c].class = backup[b].class}) >= keep]_vars

\* No crash costs a bundle its row still speaks of: until the rows are gone
\* the bundles are in their place or moved aside (executeBackupPrune).
BundlesKept == \A b \in Rows : backup[b].file \in {"managed", "staged"}

\* A window has one scheduled backup and a month one of the class "monthly",
\* unless one was found invalid in between or the making outlived its lock
\* (runScheduledBackup, retentionClassForWindow).
OnceAWindow ==
    \A b, c \in Valid :
        \/ b = c \/ "manual" \in {backup[b].class, backup[c].class}
        \/ overrun \/ backup[b].suspect \/ backup[c].suspect
        \/ /\ backup[b].window # backup[c].window
           /\ backup[b].class = "monthly" /\ backup[c].class = "monthly"
              => MonthOf(backup[b].window) # MonthOf(backup[c].window)

\* What the table says of the bundles on disk is so, and it says it once a window.
BackupsSound == BundlesKept /\ OnceAWindow
=============================================================================
