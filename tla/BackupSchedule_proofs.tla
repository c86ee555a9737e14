------------------------- MODULE BackupSchedule_proofs -------------------------
(***************************************************************************)
(* Proofs about BackupSchedule, for any number of calls, backups and ticks  *)
(* and for every length of a lock, a window, a week and a month.            *)
(***************************************************************************)
EXTENDS BackupSchedule, TLAPS, FiniteSetTheorems, WellFoundedInduction

USE BackupScheduleAssumption

Making(r) == request[r].at \in {"creating", "created"}

\* The last part of TypeOK.
Dated ==
    \A b \in Rows :
        /\ backup[b].window <= WindowOf(backup[b].created)
        /\ backup[b].created <= backup[b].completed /\ backup[b].completed <= now

\* A backup is made in or after its window.
MadeSince ==
    \A r \in Requests : Making(r) =>
        /\ request[r].window <= WindowOf(now)
        /\ request[r].at = "created" =>
              /\ request[r].window <= WindowOf(request[r].created)
              /\ request[r].created <= now

\* Who makes a backup holds the lock.
Exclusive == overrun \/ \A r \in Requests : Making(r) => lock.holder = r

\* Only a bundle once found invalid has a row that is not valid.
SureAreValid == \A b \in Rows : backup[b].suspect \/ backup[b].status = "valid"

\* The window of a scheduled backup that is being made is without one, and so is
\* the month of a monthly one.
StillDue ==
    overrun \/
    \A r \in Requests : Making(r) /\ request[r].class # "manual" =>
        \A b \in Rows :
            \/ backup[b].class = "manual"
            \/ backup[b].suspect
            \/ /\ backup[b].window # request[r].window
               /\ backup[b].class = "monthly" /\ request[r].class = "monthly"
                  => MonthOf(backup[b].window) # MonthOf(request[r].window)

\* OnceAWindow of all rows, valid or not.
RowsOnceAWindow ==
    \A b, c \in Rows :
        \/ b = c \/ "manual" \in {backup[b].class, backup[c].class}
        \/ overrun \/ backup[b].suspect \/ backup[c].suspect
        \/ /\ backup[b].window # backup[c].window
           /\ backup[b].class = "monthly" /\ backup[c].class = "monthly"
              => MonthOf(backup[b].window) # MonthOf(backup[c].window)

\* The inductive invariant, beside TypeOK and MadeSince.  OnceAWindow is none:
\* that the window was looked at is remembered by the call that makes the backup,
\* and it is of use only as long as the lock keeps every other call from making
\* one.
LockInv == Exclusive /\ SureAreValid /\ StillDue /\ RowsOnceAWindow /\ BundlesKept

-----------------------------------------------------------------------------
(* Calls, rows and windows.                                                *)

LEMMA WindowGrows ==
    ASSUME NEW s \in Nat, NEW t \in Nat, s <= t
    PROVE  WindowOf(s) \in Nat /\ WindowOf(t) \in Nat /\ WindowOf(s) <= WindowOf(t)
  <1> DEFINE k == WindowTicks
  <1>1. k \in Nat \ {0}
    OBVIOUS
  <1> HIDE DEF k
  <1>2. s \div k \in Nat /\ t \div k \in Nat
    BY <1>1, Z3
  <1>3. s \div k <= t \div k
    BY <1>1, Z3
  <1> QED
    BY <1>2, <1>3 DEF WindowOf, k

LEMMA CallFields ==
    ASSUME NEW c \in Calls
    PROVE  /\ c.at \in {"idle", "ending", "creating", "created", "verifying", "pruning"}
           /\ c.at = "idle" => c = Idle
           /\ c.at \in {"creating", "created"} => c.class \in Classes /\ c.window \in Nat
           /\ c.at = "created" => c.created \in Nat
           /\ c.at = "verifying" => c.backup \in Ids
           /\ c.at = "pruning" => c.plan \in Plans
  BY DEF Calls, Idle

LEMMA RowType ==
    ASSUME TypeOK, NEW b \in Rows
    PROVE  b \in Ids /\ backup[b] \in BackupRows
  BY DEF TypeOK, Rows

LEMMA GoesType ==
    ASSUME TypeOK, NEW r \in Requests, NEW c \in Calls, Goes(r, c)
    PROVE  /\ request' \in [Requests -> Calls]
           /\ request'[r] = c
           /\ \A q \in Requests \ {r} : request'[q] = request[q]
  BY DEF Goes, TypeOK

\* The clock only goes on; rows and calls that stay keep their dates.
LEMMA DatesStay ==
    ASSUME TypeOK, MadeSince, now' \in Nat, now <= now', UNCHANGED <<backup, request>>
    PROVE  Dated' /\ MadeSince'
  <1>1. now \in Nat
    BY DEF TypeOK
  <1>2. WindowOf(now) <= WindowOf(now') /\ WindowOf(now) \in Nat /\ WindowOf(now') \in Nat
    BY <1>1, WindowGrows
  <1>3. Dated'
    BY <1>1, RowType DEF TypeOK, Dated, Rows, BackupRows, WindowOf
  <1>4. ASSUME NEW r \in Requests, Making(r)
        PROVE  /\ request[r].window <= WindowOf(now')
               /\ request[r].at = "created" =>
                    /\ request[r].window <= WindowOf(request[r].created)
                    /\ request[r].created <= now'
    <2>1. request[r].window \in Nat /\ (request[r].at = "created" => request[r].created \in Nat)
      BY <1>4, CallFields DEF TypeOK, Making
    <2> QED
      BY <1>1, <1>2, <1>4, <2>1 DEF MadeSince
  <1>5. MadeSince'
    BY <1>4 DEF MadeSince, Making, WindowOf
  <1> QED
    BY <1>3, <1>5

\* A call that goes on changes no other.
LEMMA MadeSinceGoes ==
    ASSUME TypeOK, MadeSince, UNCHANGED now, NEW r \in Requests, NEW c \in Calls, Goes(r, c),
           c.at \in {"creating", "created"} =>
               /\ c.window <= WindowOf(now)
               /\ c.at = "created" => c.window <= WindowOf(c.created) /\ c.created <= now
    PROVE  MadeSince'
  <1>1. ASSUME NEW q \in Requests
        PROVE  request'[q] = IF q = r THEN c ELSE request[q]
    BY GoesType
  <1> QED
    BY <1>1 DEF MadeSince, Making, WindowOf

LEMMA DatedSame ==
    ASSUME TypeOK, UNCHANGED <<now, backup>>
    PROVE  Dated'
  BY DEF TypeOK, Dated, Rows, WindowOf

-----------------------------------------------------------------------------
(* Types.                                                                  *)

TypesKept == TypeOK' /\ MadeSince'

LEMMA TypeParts ==
    ASSUME /\ now \in 0 .. MaxTime /\ keep \in Policies /\ overrun \in BOOLEAN
           /\ lock \in [holder : Requests \cup {None}, until : Nat]
           /\ request \in [Requests -> Calls]
           /\ backup \in [Ids -> BackupRows \cup {None}]
           /\ preview \in Plans \cup {None},
           Dated
    PROVE  TypeOK
  BY DEF TypeOK, Dated

LEMMA AcquireType ==
    ASSUME TypeOK, NEW r \in Requests, Acquire(r)
    PROVE  /\ lock' \in [holder : Requests \cup {None}, until : Nat]
           /\ overrun' \in BOOLEAN
           /\ lock'.holder = r
  <1>1. lock' = [holder |-> r, until |-> now + LockTicks] /\ now + LockTicks \in Nat
    BY DEF Acquire, TypeOK
  <1>2. overrun' \in BOOLEAN
    BY Zenon DEF Acquire
  <1> QED
    BY <1>1, <1>2

LEMMA BeginType ==
    ASSUME TypeOK, MadeSince, NEW r \in Requests, NEW c \in Calls, Acquire(r), Goes(r, c),
           c.at \in {"creating", "pruning"},
           c.at = "creating" => c.window <= WindowOf(now),
           UNCHANGED <<now, keep, backup, preview>>
    PROVE  TypesKept
  <1>1. MadeSince'
    BY MadeSinceGoes
  <1>2. request' \in [Requests -> Calls]
    BY GoesType
  <1>3. TypeOK'
    BY <1>2, AcquireType, DatedSame DEF TypeOK, Dated
  <1> QED
    BY <1>1, <1>3 DEF TypesKept

LEMMA NowIsNat == TypeOK => now \in Nat /\ WindowOf(now) \in Nat /\ 0 <= WindowOf(now)
  BY WindowGrows DEF TypeOK

LEMMA ClassIs == \A w : ClassFor(w) \in Classes \ {"manual"}
  BY DEF ClassFor, Classes

LEMMA RunScheduledBackupType ==
    ASSUME TypeOK, MadeSince, NEW r \in Requests, RunScheduledBackup(r)
    PROVE  TypesKept
  <1> DEFINE c == [at |-> "creating", class |-> ClassFor(WindowOf(now)), window |-> WindowOf(now)]
  <1>1. c \in Calls /\ c.at = "creating" /\ c.window <= WindowOf(now)
    BY NowIsNat, ClassIs DEF Calls
  <1>2. Acquire(r) /\ Goes(r, c) /\ UNCHANGED <<now, keep, backup, preview>>
    BY DEF RunScheduledBackup
  <1> HIDE DEF c
  <1> QED
    BY <1>1, <1>2, BeginType

LEMMA CreateBackupType ==
    ASSUME TypeOK, MadeSince, NEW r \in Requests, CreateBackup(r)
    PROVE  TypesKept
  <1> DEFINE c == [at |-> "creating", class |-> "manual", window |-> 0]
  <1>1. c \in Calls /\ c.at = "creating" /\ c.window <= WindowOf(now)
    BY NowIsNat DEF Calls, Classes
  <1>2. Acquire(r) /\ Goes(r, c) /\ UNCHANGED <<now, keep, backup, preview>>
    BY DEF CreateBackup
  <1> HIDE DEF c
  <1> QED
    BY <1>1, <1>2, BeginType

LEMMA ExecuteBackupPruneType ==
    ASSUME TypeOK, MadeSince, NEW r \in Requests, ExecuteBackupPrune(r)
    PROVE  TypesKept
  <1> DEFINE c == [at |-> "pruning", plan |-> preview]
  <1>1. c \in Calls /\ c.at = "pruning"
    BY DEF Calls, TypeOK, ExecuteBackupPrune
  <1>2. Acquire(r) /\ Goes(r, c) /\ UNCHANGED <<now, keep, backup, preview>>
    BY DEF ExecuteBackupPrune
  <1> HIDE DEF c
  <1> QED
    BY <1>1, <1>2, BeginType

LEMMA CopyDatabaseType ==
    ASSUME TypeOK, MadeSince, NEW r \in Requests, CopyDatabase(r)
    PROVE  TypesKept
  <1> DEFINE c == [at |-> "created", class |-> request[r].class, window |-> request[r].window,
                   created |-> now]
  <1>1. request[r] \in Calls /\ request[r].at = "creating"
    BY DEF TypeOK, CopyDatabase
  <1>2. c \in Calls /\ c.at = "created" /\ c.created = now /\ c.window = request[r].window
    BY <1>1, CallFields, NowIsNat DEF Calls
  <1>3. Goes(r, c) /\ UNCHANGED <<now, keep, lock, backup, preview, overrun>>
    BY DEF CopyDatabase
  <1>4. c.window <= WindowOf(now)
    BY <1>1, <1>2 DEF MadeSince, Making
  <1> HIDE DEF c
  <1>5. MadeSince'
    BY <1>2, <1>3, <1>4, NowIsNat, MadeSinceGoes
  <1>6. TypeOK'
    BY <1>2, <1>3, GoesType, DatedSame DEF TypeOK, Dated
  <1> QED
    BY <1>5, <1>6 DEF TypesKept

\* No other member of F is inside T.
Smallest(F, T) == \A U \in F : U \subseteq T => U = T

\* A family of subsets of a finite set has such a member.
LEMMA SmallestSubset ==
    ASSUME NEW S, IsFiniteSet(S), NEW F, F \subseteq SUBSET S, F # {}
    PROVE  \E T \in F : Smallest(F, T)
  <1>1. F \subseteq FiniteSubsetsOf(S)
    BY FS_FiniteSubsetsOfFinite
  <1>2. PICK T \in F : \A U \in F : <<U, T>> \notin StrictSubsetOrdering(S)
    BY <1>1, FS_StrictSubsetOrderingWellFounded, WFMin
  <1>3. ASSUME NEW U \in F, U \subseteq T, U # T
        PROVE  FALSE
    <2>1. <<U, T>> \in StrictSubsetOrdering(S)
      BY <1>3 DEF StrictSubsetOrdering
    <2> QED
      BY <1>2, <2>1
  <1>4. Smallest(F, T)
    BY <1>3, Zenon DEF Smallest
  <1> QED
    BY <1>4

LEMMA IdsFinite == IsFiniteSet(Ids) /\ Ids \subseteq Nat
  <1>1. 1 \in Int /\ MaxBackups \in Int /\ 1 .. MaxBackups \subseteq Nat
    OBVIOUS
  <1> QED
    BY <1>1, FS_Interval DEF Ids

LEMMA LeastId ==
    ASSUME NEW S, S \subseteq Ids, S # {}
    PROVE  Min(S) \in S
  <1> DEFINE Below(x) == {y \in S : y < x}
             F == {Below(x) : x \in S}
  <1>1. F \subseteq SUBSET Ids /\ F # {}
    OBVIOUS
  <1> HIDE DEF F
  <1>2. PICK T \in F : Smallest(F, T)
    BY <1>1, IdsFinite, SmallestSubset
  <1>3. PICK x \in S : T = Below(x)
    BY DEF F
  <1>4. ASSUME NEW y \in S, y < x
        PROVE  FALSE
    <2>1. x \in Nat /\ y \in Nat /\ \A z \in S : z \in Nat
      BY IdsFinite
    <2>2. y \in Below(x) /\ y \notin Below(y)
      BY <1>4, <2>1
    <2>3. ASSUME NEW z \in Below(y)
          PROVE  z \in Below(x)
      BY <1>4, <2>1
    <2>4. Below(y) \in F /\ Below(y) \subseteq T
      BY <1>3, <2>3 DEF F
    <2> QED
      BY <1>2, <1>3, <2>2, <2>4 DEF Smallest
  <1>5. \A y \in S : x <= y
    BY <1>4, IdsFinite
  <1> QED
    BY <1>5 DEF Min

LEMMA RecordBackupType ==
    ASSUME TypeOK, MadeSince, NEW r \in Requests, RecordBackup(r)
    PROVE  TypesKept
  <1>1. PICK b \in Unused :
          backup' = [backup EXCEPT ![b] =
            [class |-> request[r].class, window |-> request[r].window,
             created |-> request[r].created, completed |-> now,
             status |-> "valid", file |-> "managed", suspect |-> FALSE]]
    BY DEF RecordBackup
  <1>2. b \in Ids
    BY LeastId DEF Unused
  <1> DEFINE new == [class |-> request[r].class, window |-> request[r].window,
                     created |-> request[r].created, completed |-> now,
                     status |-> "valid", file |-> "managed", suspect |-> FALSE]
             c == [at |-> "ending"]
  <1>3. request[r] \in Calls /\ request[r].at = "created"
    BY DEF TypeOK, RecordBackup
  <1>4. new \in BackupRows /\ new.window = request[r].window
        /\ new.created = request[r].created /\ new.completed = now
    BY <1>3, CallFields, NowIsNat DEF BackupRows
  <1>5. c \in Calls /\ c.at = "ending"
    BY DEF Calls
  <1>6. backup' = [backup EXCEPT ![b] = new] /\ Goes(r, c)
        /\ UNCHANGED <<now, keep, lock, preview, overrun>>
    BY <1>1 DEF RecordBackup
  <1>7. /\ request[r].window <= WindowOf(request[r].created) /\ request[r].created <= now
    BY <1>3 DEF MadeSince, Making
  <1> HIDE DEF new, c
  <1>8. MadeSince'
    BY <1>5, <1>6, MadeSinceGoes
  <1>9. \A o \in Ids : backup'[o] = IF o = b THEN new ELSE backup[o]
    BY <1>2, <1>6 DEF TypeOK
  <1>10. Dated'
    BY <1>4, <1>6, <1>7, <1>9, NowIsNat DEF Dated, Rows, TypeOK, WindowOf
  <1>11. TypeOK'
    BY <1>2, <1>4, <1>5, <1>6, <1>10, GoesType DEF TypeOK, Dated
  <1> QED
    BY <1>8, <1>11 DEF TypesKept

\* A call that goes on without the tables.
LEMMA GoesOnType ==
    ASSUME TypeOK, MadeSince, NEW r \in Requests, NEW c \in Calls, Goes(r, c),
           c.at \notin {"creating", "created"},
           lock' \in [holder : Requests \cup {None}, until : Nat],
           UNCHANGED <<now, keep, backup, preview, overrun>>
    PROVE  TypesKept
  <1>1. MadeSince'
    BY MadeSinceGoes
  <1>2. TypeOK'
    BY GoesType, DatedSame DEF TypeOK, Dated
  <1> QED
    BY <1>1, <1>2 DEF TypesKept

LEMMA EndType ==
    ASSUME TypeOK, MadeSince, NEW r \in Requests, End(r)
    PROVE  TypesKept
  <1>1. Idle \in Calls /\ Idle.at = "idle"
    BY DEF Calls, Idle
  <1>2. lock' \in [holder : Requests \cup {None}, until : Nat]
    BY DEF End, Release, NoLock, TypeOK
  <1> QED
    BY <1>1, <1>2, GoesOnType DEF End

LEMMA VerifyBackupType ==
    ASSUME TypeOK, MadeSince, NEW r \in Requests, NEW b \in Rows, VerifyBackup(r, b)
    PROVE  TypesKept
  <1> DEFINE c == [at |-> "verifying", backup |-> b, found |-> backup[b].file = "managed"]
  <1>1. c \in Calls /\ c.at = "verifying"
    BY DEF Calls, Rows
  <1>2. Goes(r, c) /\ UNCHANGED <<now, keep, lock, backup, preview, overrun>>
    BY DEF VerifyBackup
  <1> HIDE DEF c
  <1> QED
    BY <1>1, <1>2, GoesOnType DEF TypeOK

\* What the end of a verification makes of the rows.
Verified(b) ==
    \/ b \in Rows /\ backup' = [backup EXCEPT ![b].status = "valid", ![b].completed = now]
    \/ b \in Rows /\ backup' = [backup EXCEPT ![b].status = "invalid", ![b].suspect = TRUE]
    \/ backup' = backup

\* What a verification, or a prune that is interrupted, leaves of a row.
SameBackup(old, new) ==
    /\ new.class = old.class /\ new.window = old.window /\ new.created = old.created
    /\ new.completed \in {old.completed, now}
    /\ old.suspect => new.suspect
    /\ new.suspect \/ new.status = old.status \/ new.status = "valid"
    /\ new.file \in {old.file, "staged"}

LEMMA ValidRow ==
    ASSUME NEW old \in BackupRows, now \in Nat
    PROVE  LET new == [old EXCEPT !.status = "valid", !.completed = now]
           IN  new \in BackupRows /\ SameBackup(old, new)
  BY DEF BackupRows, SameBackup

LEMMA InvalidRow ==
    ASSUME NEW old \in BackupRows
    PROVE  LET new == [old EXCEPT !.status = "invalid", !.suspect = TRUE]
           IN  new \in BackupRows /\ SameBackup(old, new)
  <1> DEFINE new == [old EXCEPT !.status = "invalid", !.suspect = TRUE]
  <1>1. new \in BackupRows
    BY DEF BackupRows
  <1>2. new.suspect
    BY DEF BackupRows
  <1>3. /\ new.class = old.class /\ new.window = old.window /\ new.created = old.created
        /\ new.completed = old.completed /\ new.file = old.file
    BY DEF BackupRows
  <1> QED
    BY <1>1, <1>2, <1>3 DEF SameBackup

LEMMA StagedRow ==
    ASSUME NEW old \in BackupRows
    PROVE  LET new == [old EXCEPT !.file = "staged"]
           IN  new \in BackupRows /\ SameBackup(old, new)
  BY DEF BackupRows, SameBackup

\* A step after which every row is one that was there.
RowsStay ==
    /\ backup' \in [Ids -> BackupRows \cup {None}]
    /\ \A b \in Ids : backup'[b] # None =>
          backup[b] # None /\ SameBackup(backup[b], backup'[b])

LEMMA VerifiedStays ==
    ASSUME TypeOK, NEW b \in Ids, Verified(b)
    PROVE  RowsStay
  <1>1. CASE b \in Rows /\ backup' = [backup EXCEPT ![b].status = "valid", ![b].completed = now]
    <2> DEFINE new == [backup[b] EXCEPT !.status = "valid", !.completed = now]
    <2>1. backup[b] \in BackupRows /\ now \in Nat /\ backup[b] # None
      BY <1>1, RowType, NowIsNat DEF Rows
    <2>2. new \in BackupRows /\ SameBackup(backup[b], new)
      BY <2>1, ValidRow
    <2>3. backup' = [backup EXCEPT ![b] = new]
      BY <1>1
    <2> HIDE DEF new
    <2>4. backup' \in [Ids -> BackupRows \cup {None}]
      BY <2>2, <2>3 DEF TypeOK
    <2>5. \A o \in Ids : backup'[o] = IF o = b THEN new ELSE backup[o]
      BY <2>3 DEF TypeOK
    <2> QED
      BY <2>1, <2>2, <2>4, <2>5 DEF RowsStay, SameBackup
  <1>2. CASE b \in Rows /\ backup' = [backup EXCEPT ![b].status = "invalid", ![b].suspect = TRUE]
    <2> DEFINE new == [backup[b] EXCEPT !.status = "invalid", !.suspect = TRUE]
    <2>1. backup[b] \in BackupRows /\ now \in Nat /\ backup[b] # None
      BY <1>2, RowType, NowIsNat DEF Rows
    <2>2. new \in BackupRows /\ SameBackup(backup[b], new)
      BY <2>1, InvalidRow
    <2>3. backup' = [backup EXCEPT ![b] = new]
      BY <1>2
    <2> HIDE DEF new
    <2>4. backup' \in [Ids -> BackupRows \cup {None}]
      BY <2>2, <2>3 DEF TypeOK
    <2>5. \A o \in Ids : backup'[o] = IF o = b THEN new ELSE backup[o]
      BY <2>3 DEF TypeOK
    <2> QED
      BY <2>1, <2>2, <2>4, <2>5 DEF RowsStay, SameBackup
  <1>3. CASE backup' = backup
    BY <1>3 DEF RowsStay, SameBackup, TypeOK
  <1> QED
    BY <1>1, <1>2, <1>3 DEF Verified

LEMMA StayDated ==
    ASSUME TypeOK, RowsStay, UNCHANGED now
    PROVE  Dated'
  <1>1. now \in Nat
    BY NowIsNat
  <1>2. ASSUME NEW b \in Ids, backup'[b] # None
        PROVE  /\ backup'[b].window <= WindowOf(backup'[b].created)
               /\ backup'[b].created <= backup'[b].completed /\ backup'[b].completed <= now
    <2>1. b \in Rows /\ backup[b] \in BackupRows /\ SameBackup(backup[b], backup'[b])
      BY <1>2, RowType DEF RowsStay, Rows
    <2>2. /\ backup[b].created \in Nat /\ backup[b].completed \in Nat
      BY <2>1 DEF BackupRows
    <2> QED
      BY <1>1, <2>1, <2>2 DEF TypeOK, SameBackup
  <1> QED
    BY <1>2 DEF Dated, Rows, WindowOf

LEMMA VerifyEndsRows ==
    ASSUME NEW r \in Requests, VerifyEnds(r)
    PROVE  /\ Verified(request[r].backup) /\ request[r].at = "verifying"
           /\ Goes(r, Idle) /\ UNCHANGED <<now, keep, lock, preview, overrun>>
  BY DEF VerifyEnds, Verified

LEMMA VerifyEndsType ==
    ASSUME TypeOK, MadeSince, NEW r \in Requests, VerifyEnds(r)
    PROVE  TypesKept /\ RowsStay
  <1>1. request[r].backup \in Ids
    BY VerifyEndsRows, CallFields DEF TypeOK
  <1>2. RowsStay
    BY <1>1, VerifyEndsRows, VerifiedStays
  <1>3. Idle \in Calls /\ Idle.at = "idle"
    BY DEF Calls, Idle
  <1>4. MadeSince'
    BY <1>3, VerifyEndsRows, MadeSinceGoes
  <1>5. TypeOK'
    BY <1>2, <1>3, VerifyEndsRows, GoesType, StayDated DEF TypeOK, Dated, RowsStay
  <1> QED
    BY <1>2, <1>4, <1>5 DEF TypesKept

LEMMA PlanType ==
    ASSUME TypeOK
    PROVE  Plan \in Plans /\ Candidates \subseteq Rows
  <1>1. Candidates \subseteq Rows /\ Rows \subseteq Ids
    BY DEF Candidates, Valid, Rows
  <1>2. ASSUME NEW b \in {c \in Valid : backup[c].class # "manual"}
        PROVE  [id |-> b, class |-> backup[b].class, completed |-> backup[b].completed]
                 \in [id : Ids, class : Classes, completed : Nat]
    BY RowType DEF Valid, BackupRows
  <1>3. keep \in Nat
    BY DEF TypeOK
  <1> QED
    BY <1>1, <1>2, <1>3 DEF Plan, Plans

LEMMA CommitPruneType ==
    ASSUME TypeOK, MadeSince, NEW r \in Requests, CommitPrune(r)
    PROVE  TypesKept /\ RowsStay
  <1> DEFINE gone == request[r].plan.candidates
             c == [at |-> "ending"]
  <1>1. c \in Calls /\ c.at = "ending"
    BY DEF Calls
  <1>2. /\ backup' = Deleted(gone) /\ preview' = None /\ Goes(r, c)
        /\ UNCHANGED <<now, keep, lock, overrun>>
    BY DEF CommitPrune
  <1> HIDE DEF c, gone
  <1>3. \A b \in Ids : backup'[b] = IF b \in gone THEN None ELSE backup[b]
    BY <1>2 DEF Deleted
  <1>4. backup' \in [Ids -> BackupRows \cup {None}]
    BY <1>2 DEF Deleted, TypeOK
  <1>5. RowsStay
    BY <1>3, <1>4 DEF RowsStay, SameBackup
  <1>6. MadeSince'
    BY <1>1, <1>2, MadeSinceGoes
  <1>7. TypeOK'
    BY <1>1, <1>2, <1>4, <1>5, GoesType, StayDated DEF TypeOK, Dated
  <1> QED
    BY <1>5, <1>6, <1>7 DEF TypesKept

LEMMA CrashType ==
    ASSUME TypeOK, MadeSince, Crash
    PROVE  TypesKept /\ RowsStay
  <1>1. request' = [r \in Requests |-> Idle] /\ UNCHANGED <<now, keep, lock, preview, overrun>>
    BY DEF Crash
  <1>2. Idle \in Calls /\ Idle.at = "idle"
    BY DEF Calls, Idle
  <1>3. RowsStay
    <2>1. CASE backup' = backup
      BY <2>1 DEF RowsStay, SameBackup, TypeOK
    <2>2. CASE backup' # backup
      <3>1. PICK bs : backup' = Staged(bs) /\ \A b \in bs : backup[b].file = "managed"
                      /\ bs \subseteq Rows
        <4>1. PICK r \in Requests :
                /\ request[r].at = "pruning" /\ Current(request[r].plan)
                /\ \E bs \in SUBSET request[r].plan.candidates :
                     /\ \A b \in bs : backup[b].file = "managed"
                     /\ backup' = Staged(bs)
          BY <2>2 DEF Crash
        <4>2. request[r].plan.candidates = Candidates
          BY <4>1 DEF Current, Plan
        <4> QED
          BY <4>1, <4>2, PlanType
      <3>2. ASSUME NEW b \in Ids
            PROVE  /\ backup'[b] \in BackupRows \cup {None}
                   /\ backup'[b] # None => backup[b] # None /\ SameBackup(backup[b], backup'[b])
        <4>1. CASE b \in bs
          <5>1. backup[b] \in BackupRows /\ backup[b] # None
            BY <3>1, <4>1, RowType DEF Rows
          <5>2. backup'[b] = [backup[b] EXCEPT !.file = "staged"]
            BY <3>1, <4>1 DEF Staged
          <5> QED
            BY <5>1, <5>2, StagedRow
        <4>2. CASE b \notin bs
          BY <3>1, <4>2 DEF Staged, SameBackup, TypeOK
        <4> QED
          BY <4>1, <4>2
      <3>3. backup' \in [Ids -> BackupRows \cup {None}]
        BY <3>1, <3>2 DEF Staged
      <3> QED
        BY <3>2, <3>3 DEF RowsStay
    <2> QED
      BY <2>1, <2>2
  <1>4. MadeSince'
    BY <1>1, <1>2 DEF MadeSince, Making
  <1>5. TypeOK'
    BY <1>1, <1>2, <1>3, StayDated DEF TypeOK, Dated, RowsStay
  <1> QED
    BY <1>3, <1>4, <1>5 DEF TypesKept

LEMMA SurroundingsType ==
    ASSUME TypeOK, MadeSince, Tick \/ UpdatePolicy \/ PreviewBackupPrune \/ UNCHANGED vars
    PROVE  TypesKept
  <1>1. CASE Tick
    <2>1. now' \in 0 .. MaxTime /\ now' \in Nat /\ now <= now'
      BY <1>1 DEF Tick, TypeOK
    <2>2. Dated' /\ MadeSince'
      BY <1>1, <2>1, DatesStay DEF Tick
    <2> QED
      BY <1>1, <2>1, <2>2 DEF Tick, TypeOK, Dated, TypesKept
  <1>2. CASE UpdatePolicy
    <2>1. now' \in Nat /\ now <= now'
      BY <1>2 DEF UpdatePolicy, TypeOK
    <2>2. Dated' /\ MadeSince'
      BY <1>2, <2>1, DatesStay DEF UpdatePolicy
    <2> QED
      BY <1>2, <2>2 DEF UpdatePolicy, TypeOK, Dated, TypesKept
  <1>3. CASE PreviewBackupPrune
    <2>1. now' \in Nat /\ now <= now'
      BY <1>3 DEF PreviewBackupPrune, TypeOK
    <2>2. Dated' /\ MadeSince'
      BY <1>3, <2>1, DatesStay DEF PreviewBackupPrune
    <2> QED
      BY <1>3, <2>2, PlanType DEF PreviewBackupPrune, TypeOK, Dated, TypesKept
  <1>4. CASE UNCHANGED vars
    <2>1. now' \in Nat /\ now <= now'
      BY <1>4 DEF vars, TypeOK
    <2>2. Dated' /\ MadeSince'
      BY <1>4, <2>1, DatesStay DEF vars
    <2> QED
      BY <1>4, <2>2 DEF vars, TypeOK, Dated, TypesKept
  <1> QED
    BY <1>1, <1>2, <1>3, <1>4

LEMMA TypesAlways == Spec => [](TypeOK /\ MadeSince)
  <1>1. Init => TypeOK /\ MadeSince
    <2> SUFFICES ASSUME Init
                 PROVE  TypeOK /\ MadeSince
      OBVIOUS
    <2>1. Rows = {} /\ \A r \in Requests : ~Making(r)
      BY DEF Init, Rows, Making, Idle
    <2>2. Idle \in Calls /\ NoLock \in [holder : Requests \cup {None}, until : Nat]
      BY DEF Calls, NoLock
    <2>3. Dated /\ MadeSince
      BY <2>1 DEF Dated, MadeSince
    <2>4. now \in 0 .. MaxTime /\ keep \in Policies /\ preview \in Plans \cup {None}
      BY DEF Init
    <2>5. overrun \in BOOLEAN
      BY DEF Init
    <2>6. /\ request \in [Requests -> Calls]
          /\ backup \in [Ids -> BackupRows \cup {None}]
      BY <2>2 DEF Init
    <2> QED
      BY <2>2, <2>3, <2>4, <2>5, <2>6, TypeParts DEF Init
  <1>2. TypeOK /\ MadeSince /\ [Next]_vars => TypesKept
    <2> SUFFICES ASSUME TypeOK, MadeSince, [Next]_vars
                 PROVE  TypesKept
      OBVIOUS
    <2>1. ASSUME NEW r \in Requests,
                 \/ RunScheduledBackup(r) \/ CreateBackup(r) \/ CopyDatabase(r)
                 \/ RecordBackup(r) \/ ExecuteBackupPrune(r) \/ CommitPrune(r) \/ End(r)
                 \/ VerifyEnds(r) \/ \E b \in Rows : VerifyBackup(r, b)
          PROVE  TypesKept
      BY <2>1, RunScheduledBackupType, CreateBackupType, CopyDatabaseType, RecordBackupType,
         ExecuteBackupPruneType, CommitPruneType, EndType, VerifyEndsType, VerifyBackupType
    <2>2. CASE Crash
      BY <2>2, CrashType
    <2>3. CASE Tick \/ UpdatePolicy \/ PreviewBackupPrune \/ UNCHANGED vars
      BY <2>3, SurroundingsType
    <2> QED
      BY <2>1, <2>2, <2>3 DEF Next
  <1> QED
    BY <1>1, <1>2, PTL DEF Spec, TypesKept

\* Every variable keeps its type, and no row is dated before what it is made of.
THEOREM TypeCorrect == Spec => []TypeOK
  BY TypesAlways, PTL

-----------------------------------------------------------------------------
(* Pruning.                                                                *)

\* Of a class that loses backups as many as are kept stay: those before the
\* newest that goes.
LEMMA EnoughStay ==
    ASSUME TypeOK, NEW b \in Candidates
    PROVE  Cardinality({c \in Valid \ Candidates : backup[c].class = backup[b].class}) >= keep
  <1> DEFINE Before(x) == {c \in Valid : backup[c].class = backup[x].class /\ Newer(c, x)}
             group == {x \in Candidates : backup[x].class = backup[b].class}
             stay == {c \in Valid \ Candidates : backup[c].class = backup[b].class}
             F == {Before(x) : x \in group}
  <1>1. /\ Candidates \subseteq Valid /\ Valid \subseteq Ids /\ keep \in Nat
        /\ \A x \in Valid : x \in Nat /\ backup[x].completed \in Nat
    <2>1. ASSUME NEW x \in Valid
          PROVE  x \in Nat /\ backup[x].completed \in Nat /\ x \in Ids
      BY RowType, IdsFinite DEF Valid, BackupRows
    <2> QED
      BY <2>1 DEF Candidates, TypeOK
  <1>2. F \subseteq SUBSET Ids /\ F # {}
    <2>1. ASSUME NEW x \in group
          PROVE  Before(x) \subseteq Ids
      BY <1>1
    <2>2. b \in group
      OBVIOUS
    <2> HIDE DEF group, Before
    <2> QED
      BY <2>1, <2>2 DEF F
  <1> HIDE DEF F
  <1>3. PICK T \in F : Smallest(F, T)
    BY <1>2, IdsFinite, SmallestSubset
  <1>4. PICK x \in group : T = Before(x)
    BY DEF F
  <1>5. ASSUME NEW c \in Before(x)
        PROVE  c \in stay
    <2>1. c \in Valid /\ backup[c].class = backup[b].class /\ Newer(c, x) /\ x \in Valid
      BY <1>1, <1>4
    <2>2. ASSUME c \in Candidates
          PROVE  FALSE
      <3>1. c \in group /\ Before(c) \in F
        BY <2>1, <2>2 DEF F
      <3>2. ASSUME NEW e \in Before(c)
            PROVE  e \in Before(x)
        BY <1>1, <1>4, <2>1, <3>2 DEF Newer
      <3>3. c \notin Before(c)
        BY <1>1, <2>1 DEF Newer
      <3>4. Before(c) \subseteq T
        BY <1>4, <3>2
      <3> QED
        BY <1>3, <1>4, <3>1, <3>3, <3>4 DEF Smallest
    <2> QED
      BY <2>1, <2>2
  <1>6. Before(x) \subseteq stay /\ IsFiniteSet(stay)
    BY <1>1, <1>5, IdsFinite, FS_Subset
  <1>7. Cardinality(Before(x)) >= keep
    BY <1>4 DEF Candidates
  <1>8. /\ Cardinality(Before(x)) <= Cardinality(stay)
        /\ Cardinality(stay) \in Nat /\ Cardinality(Before(x)) \in Nat
    BY <1>6, FS_Subset, FS_CardinalityType
  <1> QED
    BY <1>1, <1>7, <1>8

\* Rows go only when a prune commits.
LEMMA OnlyPruned ==
    ASSUME TypeOK, MadeSince, Next, NEW b \in Rows, backup'[b] = None
    PROVE  \E r \in Requests : CommitPrune(r)
  <1> SUFFICES ASSUME \A r \in Requests : ~CommitPrune(r)
               PROVE  FALSE
    OBVIOUS
  <1>1. b \in Ids /\ backup[b] # None /\ backup[b] \in BackupRows
    BY RowType DEF Rows
  <1>2. backup' # backup
    BY <1>1
  <1>3. CASE Crash
    <2>1. PICK bs : backup' = Staged(bs)
      BY <1>2, <1>3 DEF Crash
    <2>2. backup'[b] \in BackupRows
      BY <1>1, <2>1, StagedRow DEF Staged
    <2> QED
      BY <2>2
  <1>4. ASSUME NEW r \in Requests, RecordBackup(r)
        PROVE  FALSE
    <2>1. PICK o \in Unused : \A e \in Ids \ {o} : backup'[e] = backup[e]
      BY <1>4 DEF RecordBackup, TypeOK
    <2>2. o \notin Rows
      BY LeastId DEF Unused
    <2> QED
      BY <1>1, <2>1, <2>2
  <1>5. ASSUME NEW r \in Requests, VerifyEnds(r)
        PROVE  FALSE
    <2>1. request[r].backup \in Ids /\ now \in Nat
      BY <1>5, VerifyEndsRows, CallFields, NowIsNat DEF TypeOK
    <2>2. backup \in [Ids -> BackupRows \cup {None}]
      BY DEF TypeOK
    <2>3. CASE request[r].backup # b
      BY <1>1, <1>5, <2>1, <2>2, <2>3 DEF VerifyEnds
    <2>4. CASE request[r].backup = b
      <3>1. \/ backup'[b] = [backup[b] EXCEPT !.status = "valid", !.completed = now]
            \/ backup'[b] = [backup[b] EXCEPT !.status = "invalid", !.suspect = TRUE]
            \/ backup'[b] = backup[b]
        <4> HIDE DEF TypeOK
        <4> QED
          BY <1>1, <1>5, <2>2, <2>4 DEF VerifyEnds
      <3>2. backup'[b] \in BackupRows
        BY <1>1, <2>1, <3>1, ValidRow, InvalidRow
      <3> QED
        BY <3>2
    <2> QED
      BY <2>3, <2>4
  <1>6. ASSUME NEW r \in Requests,
               \/ RunScheduledBackup(r) \/ CreateBackup(r) \/ CopyDatabase(r)
               \/ ExecuteBackupPrune(r) \/ End(r) \/ \E o \in Rows : VerifyBackup(r, o)
        PROVE  FALSE
    BY <1>2, <1>6 DEF RunScheduledBackup, CreateBackup, CopyDatabase, ExecuteBackupPrune, End,
                      VerifyBackup
  <1>7. CASE Tick \/ UpdatePolicy \/ PreviewBackupPrune
    BY <1>2, <1>7 DEF Tick, UpdatePolicy, PreviewBackupPrune
  <1> QED
    BY <1>3, <1>4, <1>5, <1>6, <1>7 DEF Next

\* What PrunedAsPreviewed says of a step.
Prunes ==
    LET gone == {b \in Rows : backup'[b] = None}
    IN gone # {} =>
         /\ preview # None /\ gone = preview.candidates
         /\ \A b \in gone :
             /\ backup[b].class # "manual"
             /\ Cardinality({c \in Valid \ gone : backup[c].class = backup[b].class}) >= keep

LEMMA StepPrunes ==
    ASSUME TypeOK, MadeSince, [Next]_vars
    PROVE  Prunes
  <1> DEFINE gone == {b \in Rows : backup'[b] = None}
  <1> SUFFICES ASSUME gone # {}
               PROVE  /\ preview # None /\ gone = preview.candidates
                      /\ \A b \in gone :
                          /\ backup[b].class # "manual"
                          /\ Cardinality({c \in Valid \ gone :
                                           backup[c].class = backup[b].class}) >= keep
    BY DEF Prunes
  <1>1. Next
    BY DEF vars, Rows
  <1>2. PICK r \in Requests : CommitPrune(r)
    BY <1>1, OnlyPruned
  <1>3. /\ preview = request[r].plan /\ preview = Plan /\ request[r].at = "pruning"
        /\ backup' = Deleted(preview.candidates)
    BY <1>2 DEF CommitPrune, Current
  <1>4. preview # None
    <2>1. request[r] \in Calls
      BY DEF TypeOK
    <2>2. request[r].plan \in Plans
      BY <1>3, <2>1, CallFields
    <2> QED
      BY <1>3, <2>2
  <1>5. preview.candidates = Candidates
    BY <1>3 DEF Plan
  <1>6. gone = Candidates
    BY <1>3, <1>5, PlanType DEF Deleted, Rows
  <1> HIDE DEF gone
  <1>7. ASSUME NEW b \in Candidates
        PROVE  /\ backup[b].class # "manual"
               /\ Cardinality({c \in Valid \ Candidates : backup[c].class = backup[b].class}) >= keep
    BY EnoughStay DEF Candidates
  <1> QED
    BY <1>4, <1>5, <1>6, <1>7

\* Only what was previewed and is still so is pruned, and as many of each class
\* stay as the policy keeps (executeBackupPrune).
THEOREM PrunedAsPreviewedAlways == Spec => PrunedAsPreviewed
  <1>1. TypeOK /\ MadeSince /\ [Next]_vars => Prunes
    BY StepPrunes
  <1> QED
    BY <1>1, TypesAlways, PTL DEF Spec, PrunedAsPreviewed, Prunes

-----------------------------------------------------------------------------
(* Once a window.                                                          *)

\* No row is added, and who makes a backup made it before and holds the lock.
LEMMA NoNewBackup ==
    ASSUME TypeOK, LockInv, RowsStay, overrun => overrun',
           \A r \in Requests : Making(r)' =>
               /\ Making(r) /\ request'[r].class = request[r].class
               /\ request'[r].window = request[r].window
               /\ lock.holder = r => lock'.holder = r
    PROVE  LockInv'
  <1>1. \A b \in Rows' : b \in Rows /\ SameBackup(backup[b], backup'[b])
    BY DEF RowsStay, Rows
  <1>2. Exclusive'
    BY DEF LockInv, Exclusive, Making
  <1>3. SureAreValid'
    BY <1>1 DEF LockInv, SureAreValid, SameBackup
  <1>4. StillDue'
    BY <1>1 DEF LockInv, StillDue, SameBackup, Making, MonthOf
  <1>5. RowsOnceAWindow'
    BY <1>1 DEF LockInv, RowsOnceAWindow, SameBackup, MonthOf
  <1>6. BundlesKept'
    BY <1>1 DEF LockInv, BundlesKept, SameBackup
  <1> QED
    BY <1>2, <1>3, <1>4, <1>5, <1>6 DEF LockInv

LEMMA RowsUnchanged ==
    ASSUME TypeOK, UNCHANGED backup
    PROVE  RowsStay
  BY DEF RowsStay, SameBackup, TypeOK

\* A call that takes the lock is alone with it, or has overrun another.
LEMMA TakesLock ==
    ASSUME TypeOK, LockInv, NEW r \in Requests, NEW c \in Calls, Acquire(r), Goes(r, c),
           UNCHANGED backup,
           c.at \in {"creating", "pruning"},
           c.at = "creating" /\ c.class # "manual" =>
             \A b \in Rows :
               \/ backup[b].class = "manual"
               \/ backup[b].suspect
               \/ /\ backup[b].window # c.window
                  /\ backup[b].class = "monthly" /\ c.class = "monthly"
                     => MonthOf(backup[b].window) # MonthOf(c.window)
    PROVE  LockInv'
  <1>1. lock'.holder = r
    BY AcquireType
  <1>2. overrun => overrun'
    BY DEF Acquire
  <1>3. ASSUME ~overrun', NEW q \in Requests, q # r
        PROVE  ~Making(q)
    <2>1. ~overrun
      BY <1>2, <1>3
    <2>2. lock.holder = None \/ ~Making(lock.holder)
      BY <1>3 DEF Acquire, Making
    <2>3. Making(q) => lock.holder = q
      BY <2>1 DEF LockInv, Exclusive
    <2> QED
      BY <2>2, <2>3
  <1>4. \A q \in Requests : request'[q] = IF q = r THEN c ELSE request[q]
    BY GoesType
  <1>5. Exclusive'
    BY <1>1, <1>3, <1>4 DEF Exclusive, Making
  <1>6. StillDue'
    <2> SUFFICES ASSUME ~overrun', NEW q \in Requests, Making(q)', request'[q].class # "manual",
                        NEW b \in Rows
                 PROVE  \/ backup[b].class = "manual"
                        \/ backup[b].suspect
                        \/ /\ backup[b].window # request'[q].window
                           /\ backup[b].class = "monthly" /\ request'[q].class = "monthly"
                              => MonthOf(backup[b].window) # MonthOf(request'[q].window)
      BY DEF StillDue, Rows, MonthOf
    <2>1. q = r
      BY <1>3, <1>4 DEF Making
    <2> QED
      BY <1>4, <2>1 DEF Making
  <1>7. SureAreValid' /\ RowsOnceAWindow' /\ BundlesKept'
    BY <1>2 DEF LockInv, SureAreValid, RowsOnceAWindow, BundlesKept, Rows, MonthOf
  <1> QED
    BY <1>5, <1>6, <1>7 DEF LockInv

LEMMA RunScheduledBackupLock ==
    ASSUME TypeOK, MadeSince, LockInv, NEW r \in Requests, RunScheduledBackup(r)
    PROVE  LockInv'
  <1> DEFINE w == WindowOf(now)
             c == [at |-> "creating", class |-> ClassFor(w), window |-> w]
  <1>1. c \in Calls /\ c.at = "creating" /\ c.class = ClassFor(w) /\ c.window = w
    BY NowIsNat, ClassIs DEF Calls
  <1>2. Acquire(r) /\ Goes(r, c) /\ UNCHANGED backup /\ ~Covered(w)
    BY DEF RunScheduledBackup
  <1>3. ASSUME NEW b \in Rows, backup[b].class # "manual", ~backup[b].suspect
        PROVE  /\ backup[b].window # w
               /\ backup[b].class = "monthly" /\ ClassFor(w) = "monthly"
                  => MonthOf(backup[b].window) # MonthOf(w)
    <2>1. b \in Valid
      BY <1>3 DEF LockInv, SureAreValid, Valid
    <2>2. WindowOf(backup[b].created) # w
      BY <1>2, <1>3, <2>1 DEF Covered
    <2>3. /\ backup[b].window \in Nat /\ backup[b].created \in Nat /\ backup[b].completed \in Nat
          /\ now \in Nat
      BY RowType, NowIsNat DEF BackupRows
    <2>4. /\ backup[b].window <= WindowOf(backup[b].created)
          /\ backup[b].created <= now
      BY <2>3 DEF TypeOK
    <2>5. /\ WindowOf(backup[b].created) <= WindowOf(now)
          /\ WindowOf(backup[b].created) \in Nat /\ WindowOf(now) \in Nat
      BY <2>3, <2>4, WindowGrows
    <2>6. backup[b].window # w
      BY <2>2, <2>3, <2>4, <2>5
    <2>7. ClassFor(w) = "monthly" =>
            ~\E o \in Valid : backup[o].class = "monthly" /\ MonthOf(backup[o].window) = MonthOf(w)
      BY DEF ClassFor
    <2> QED
      BY <2>1, <2>6, <2>7
  <1> HIDE DEF c, w
  <1> QED
    BY <1>1, <1>2, <1>3, TakesLock

LEMMA RecordBackupLock ==
    ASSUME TypeOK, MadeSince, LockInv, NEW r \in Requests, RecordBackup(r)
    PROVE  LockInv'
  <1> DEFINE new == [class |-> request[r].class, window |-> request[r].window,
                     created |-> request[r].created, completed |-> now,
                     status |-> "valid", file |-> "managed", suspect |-> FALSE]
             c == [at |-> "ending"]
  <1>1. PICK b \in Unused : backup' = [backup EXCEPT ![b] = new]
    BY DEF RecordBackup
  <1>2. b \in Ids
    BY LeastId DEF Unused
  <1>3. c \in Calls /\ c.at = "ending"
    BY DEF Calls
  <1>4. Goes(r, c) /\ UNCHANGED <<lock, overrun>> /\ Making(r)
    BY DEF RecordBackup, Making
  <1>5. /\ new.class = request[r].class /\ new.window = request[r].window
        /\ new.status = "valid" /\ new.file = "managed"
    OBVIOUS
  <1>6. ~new.suspect
    OBVIOUS
  <1> HIDE DEF new, c
  <1>7. \A o \in Ids : backup'[o] = IF o = b THEN new ELSE backup[o]
    BY <1>1, <1>2 DEF TypeOK
  <1>8. \A o \in Rows' : o = b \/ (o \in Rows /\ backup'[o] = backup[o])
    <2> TAKE o \in Rows'
    <2>1. o \in Ids /\ backup'[o] # None
      BY DEF Rows
    <2>2. o # b => backup'[o] = backup[o]
      BY <1>7, <2>1
    <2> QED
      BY <2>1, <2>2 DEF Rows
  <1>9. \A q \in Requests : Making(q)' => q # r /\ Making(q) /\ request'[q] = request[q]
    BY <1>3, <1>4, GoesType DEF Making
  <1>10. Exclusive'
    BY <1>4, <1>9 DEF LockInv, Exclusive
  <1>11. StillDue'
    <2>1. overrun \/ \A q \in Requests : ~Making(q)'
      BY <1>4, <1>9 DEF LockInv, Exclusive
    <2> QED
      BY <1>4, <2>1 DEF StillDue
  <1>12. SureAreValid'
    BY <1>2, <1>5, <1>7, <1>8 DEF LockInv, SureAreValid
  <1>13. RowsOnceAWindow'
    <2> SUFFICES ASSUME ~overrun, NEW e \in Rows', NEW o \in Rows', e # o,
                        backup'[e].class # "manual", backup'[o].class # "manual",
                        ~backup'[e].suspect, ~backup'[o].suspect
                 PROVE  /\ backup'[e].window # backup'[o].window
                        /\ backup'[e].class = "monthly" /\ backup'[o].class = "monthly"
                           => MonthOf(backup'[e].window) # MonthOf(backup'[o].window)
      BY <1>4 DEF RowsOnceAWindow, MonthOf
    <2>1. CASE e # b /\ o # b
      BY <1>8, <2>1 DEF LockInv, RowsOnceAWindow
    <2>2. CASE e = b
      BY <1>2, <1>4, <1>5, <1>7, <1>8, <2>2 DEF LockInv, StillDue
    <2>3. CASE o = b
      BY <1>2, <1>4, <1>5, <1>7, <1>8, <2>3 DEF LockInv, StillDue
    <2> QED
      BY <2>1, <2>2, <2>3
  <1>14. BundlesKept'
    BY <1>2, <1>5, <1>7, <1>8 DEF LockInv, BundlesKept
  <1> QED
    BY <1>10, <1>11, <1>12, <1>13, <1>14 DEF LockInv

\* The other steps make no backup.
LEMMA OtherStepsLock ==
    ASSUME TypeOK, MadeSince, LockInv, NEW r \in Requests,
           \/ CreateBackup(r) \/ ExecuteBackupPrune(r) \/ CopyDatabase(r) \/ CommitPrune(r)
           \/ End(r) \/ VerifyEnds(r) \/ \E b \in Rows : VerifyBackup(r, b)
    PROVE  LockInv'
  <1>1. CASE CreateBackup(r)
    <2> DEFINE c == [at |-> "creating", class |-> "manual", window |-> 0]
    <2>1. c \in Calls /\ c.at = "creating" /\ c.class = "manual"
      BY DEF Calls, Classes
    <2>2. Acquire(r) /\ Goes(r, c) /\ UNCHANGED backup
      BY <1>1 DEF CreateBackup
    <2> HIDE DEF c
    <2> QED
      BY <2>1, <2>2, TakesLock
  <1>2. CASE ExecuteBackupPrune(r)
    <2> DEFINE c == [at |-> "pruning", plan |-> preview]
    <2>1. c \in Calls /\ c.at = "pruning"
      BY <1>2 DEF Calls, TypeOK, ExecuteBackupPrune
    <2>2. Acquire(r) /\ Goes(r, c) /\ UNCHANGED backup
      BY <1>2 DEF ExecuteBackupPrune
    <2> HIDE DEF c
    <2> QED
      BY <2>1, <2>2, TakesLock
  <1>3. CASE CopyDatabase(r)
    <2> DEFINE c == [at |-> "created", class |-> request[r].class, window |-> request[r].window,
                     created |-> now]
    <2>1. request[r] \in Calls /\ request[r].at = "creating"
      BY <1>3 DEF TypeOK, CopyDatabase
    <2>2. c \in Calls /\ c.class = request[r].class /\ c.window = request[r].window
      BY <2>1, CallFields, NowIsNat DEF Calls
    <2>3. Goes(r, c) /\ UNCHANGED <<lock, backup, overrun>>
      BY <1>3 DEF CopyDatabase
    <2> HIDE DEF c
    <2>4. \A q \in Requests : Making(q)' =>
             /\ Making(q) /\ request'[q].class = request[q].class
             /\ request'[q].window = request[q].window
      BY <2>1, <2>2, <2>3, GoesType DEF Making
    <2> QED
      BY <2>3, <2>4, RowsUnchanged, NoNewBackup
  <1>4. ASSUME NEW c \in Calls, c.at \notin {"creating", "created"}, Goes(r, c), RowsStay,
               UNCHANGED overrun, \A q \in Requests \ {r} : lock.holder = q => lock'.holder = q
        PROVE  LockInv'
    <2>1. \A q \in Requests : Making(q)' => q # r /\ Making(q) /\ request'[q] = request[q]
      BY <1>4, GoesType DEF Making
    <2> QED
      BY <1>4, <2>1, NoNewBackup
  <1>5. Idle \in Calls /\ Idle.at = "idle"
    BY DEF Calls, Idle
  <1>6. CASE CommitPrune(r)
    <2>1. [at |-> "ending"] \in Calls
      BY DEF Calls
    <2> QED
      BY <1>4, <1>6, <2>1, CommitPruneType DEF CommitPrune
  <1>7. CASE End(r)
    <2>1. \A q \in Requests \ {r} : lock.holder = q => lock'.holder = q
      BY <1>7 DEF End, Release
    <2> QED
      BY <1>4, <1>5, <1>7, <2>1, RowsUnchanged DEF End
  <1>8. CASE VerifyEnds(r)
    BY <1>4, <1>5, <1>8, VerifyEndsRows, VerifyEndsType
  <1>9. ASSUME NEW b \in Rows, VerifyBackup(r, b)
        PROVE  LockInv'
    <2> DEFINE c == [at |-> "verifying", backup |-> b, found |-> backup[b].file = "managed"]
    <2>1. c \in Calls /\ c.at = "verifying"
      BY DEF Calls, Rows
    <2>2. Goes(r, c) /\ UNCHANGED <<lock, backup, overrun>>
      BY <1>9 DEF VerifyBackup
    <2> HIDE DEF c
    <2> QED
      BY <1>4, <2>1, <2>2, RowsUnchanged
  <1> QED
    BY <1>1, <1>2, <1>3, <1>6, <1>7, <1>8, <1>9

LEMMA StepLock ==
    ASSUME TypeOK, MadeSince, LockInv, [Next]_vars
    PROVE  LockInv'
  <1>1. ASSUME NEW r \in Requests,
               \/ RunScheduledBackup(r) \/ CreateBackup(r) \/ CopyDatabase(r)
               \/ RecordBackup(r) \/ ExecuteBackupPrune(r) \/ CommitPrune(r) \/ End(r)
               \/ VerifyEnds(r) \/ \E b \in Rows : VerifyBackup(r, b)
        PROVE  LockInv'
    BY <1>1, RunScheduledBackupLock, RecordBackupLock, OtherStepsLock
  <1>2. CASE Crash
    <2>1. \A r \in Requests : ~Making(r)'
      BY <1>2 DEF Crash, Making, Idle
    <2>2. UNCHANGED overrun
      BY <1>2 DEF Crash
    <2> QED
      BY <1>2, <2>1, <2>2, CrashType, NoNewBackup
  <1>3. CASE Tick \/ UpdatePolicy \/ PreviewBackupPrune \/ UNCHANGED vars
    <2>1. UNCHANGED <<backup, request, lock, overrun>>
      BY <1>3 DEF Tick, UpdatePolicy, PreviewBackupPrune, vars
    <2> QED
      BY <2>1, RowsUnchanged, NoNewBackup DEF Making
  <1> QED
    BY <1>1, <1>2, <1>3 DEF Next

\* A window has one scheduled backup and a month one that is kept as monthly,
\* unless a bundle went bad or the making of one outlived its lock, and no crash
\* takes a bundle its row still speaks of.
THEOREM BackupsSoundAlways == Spec => []BackupsSound
  <1>1. Init => LockInv
    BY DEF Init, LockInv, Exclusive, SureAreValid, StillDue, RowsOnceAWindow, BundlesKept, Rows,
           Making, Idle
  <1>2. TypeOK /\ MadeSince /\ LockInv /\ [Next]_vars => LockInv'
    BY StepLock
  <1>3. LockInv => BackupsSound
    <2> SUFFICES ASSUME LockInv
                 PROVE  OnceAWindow /\ BundlesKept
      BY DEF BackupsSound
    <2>1. Valid \subseteq Rows
      BY DEF Valid
    <2> QED
      BY <2>1 DEF LockInv, RowsOnceAWindow, OnceAWindow
  <1> QED
    BY <1>1, <1>2, <1>3, TypesAlways, PTL DEF Spec
=============================================================================
