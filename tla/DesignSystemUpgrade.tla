------------------------- MODULE DesignSystemUpgrade -------------------------
(***************************************************************************)
(* One project (a design), the design-system release it is pinned to, the  *)
(* migration of its documents to schema 2, and the upgrade previews that   *)
(* move the pin (design-system-service.ts), together with the retention of *)
(* snapshots these share with ordinary previews (db/database.ts).          *)
(*                                                                         *)
(* What a document says is one of a small set of contents.  An action is a *)
(* transaction; one that throws is rolled back, so it is not enabled.      *)
(* Whether a release is compatible with a document is data: where the code *)
(* refuses an incompatible one the action may be taken or not.             *)
(***************************************************************************)
EXTENDS Naturals, Sequences

CONSTANTS
    Contents,     \* what a document can say
    Releases,     \* published releases: records [system, version]
    Foundation,   \* the release a V2 document has when nothing is pinned
    NoPin,        \* no row in project_design_system_pins; a V1 document's pin
    UpgradeIds,   \* ids of upgrade previews: bounds how many are created
    PreviewIds,   \* ids of ordinary previews: likewise
    TTL,          \* previewTtlSeconds, of both kinds of preview
    Day,          \* the retention of an expired ordinary preview
    MaxVersion,   \* bound of the history
    MaxTime       \* bound of the clock

ASSUME FoundationAssumption == Foundation \in Releases /\ NoPin \notin Releases
ASSUME RetentionAssumption == {TTL, Day} \subseteq Nat

VARIABLES
    history,   \* the documents of the design's revisions, by version
    pin,       \* the release pinned in project_design_system_pins, or NoPin
    upgrades,  \* design_system_upgrade_previews: rows, never deleted
    previews,  \* previews: rows, or that there is none
    snapshots, \* the documents in the snapshots table
    running,   \* the service was constructed and is serving
    clock

upgradeVars == <<history, pin, upgrades, previews, snapshots, running, clock>>

-----------------------------------------------------------------------------
Documents ==
    [revision : Nat, schema : {1}, release : {NoPin}, content : Contents]
    \cup [revision : Nat, schema : {2}, release : Releases, content : Contents]

UpgradeRows ==
    [status : {"unused"}]
    \cup [status : {"ready", "blocked", "expired", "committed"},
          from : Releases, to : Releases, version : Nat,
          snapshots : SUBSET Documents,   \* base and result; none for V1
          result : Documents \cup {NoPin}, expires : Nat]

PreviewRows ==
    [status : {"unused", "purged"}]
    \cup [status : {"ready", "expired", "committed"},
          version : Nat, base : Documents, result : Documents, expires : Nat]

Version == Len(history)
Current == history[Version]

\* The release a new V2 document of the project gets.
ActivePin == IF pin = NoPin THEN Foundation ELSE pin

Published(row) == row.status \notin {"unused", "purged"}

-----------------------------------------------------------------------------
(* cleanupPreviews.  An upgrade preview's snapshots are protected by the   *)
(* foreign keys of its row, which are ON DELETE RESTRICT, and not by the   *)
(* WHERE clause of the DELETE.                                             *)

CleanedPreview(row) ==
    LET expired == \/ row.status = "ready" /\ row.expires <= clock
                   \/ row.status = "expired"
    IN  IF ~expired THEN row
        ELSE IF row.expires + Day <= clock THEN [status |-> "purged"]
        ELSE [row EXCEPT !.status = "expired"]

CleanedPreviews == [p \in PreviewIds |-> CleanedPreview(previews[p])]

Referenced(doc, rows) ==
    \/ \E v \in 1..Version : history[v] = doc
    \/ \E p \in PreviewIds : Published(rows[p]) /\ doc \in {rows[p].base, rows[p].result}

Garbage(rows) == {doc \in snapshots : ~Referenced(doc, rows)}

Restricted ==
    UNION {upgrades[u].snapshots : u \in {x \in UpgradeIds : Published(upgrades[x])}}

\* One restricted row fails the whole DELETE, and cleanupPreviews throws.
CleanupBlocked == Garbage(CleanedPreviews) \cap Restricted # {}

CleanupPreviews ==
    /\ ~CleanupBlocked
    /\ previews' = CleanedPreviews
    /\ snapshots' = snapshots \ Garbage(CleanedPreviews)

-----------------------------------------------------------------------------
(* Revisions.                                                              *)

AppendRevision(doc) ==
    /\ Version < MaxVersion
    /\ doc.revision = Version + 1
    /\ history' = Append(history, doc)

NextDocument(content) == [Current EXCEPT !.revision = Version + 1, !.content = content]

ApplyRevision(content) ==
    /\ AppendRevision(NextDocument(content))
    /\ snapshots' = snapshots \cup {NextDocument(content)}
    /\ UNCHANGED <<pin, upgrades, previews, running, clock>>

\* createPreview, and its commit; both start with the cleanup.
CreatePreview(p, content) ==
    /\ previews[p].status = "unused"
    /\ ~CleanupBlocked
    /\ previews' = [CleanedPreviews EXCEPT ![p] =
          [status |-> "ready", version |-> Version, base |-> Current,
           result |-> NextDocument(content), expires |-> clock + TTL]]
    /\ snapshots' = (snapshots \ Garbage(CleanedPreviews)) \cup {NextDocument(content)}
    /\ UNCHANGED <<history, pin, upgrades, running, clock>>

CommitPreview(p) ==
    LET row == CleanedPreviews[p]
    IN  /\ ~CleanupBlocked
        /\ row.status = "ready"
        /\ row.version = Version
        /\ row.base = Current
        /\ row.result \in snapshots
        /\ AppendRevision(row.result)
        /\ previews' = [CleanedPreviews EXCEPT ![p].status = "committed"]
        /\ snapshots' = snapshots \ Garbage(CleanedPreviews)
        /\ UNCHANGED <<pin, upgrades, running, clock>>

\* Mutant: the document keeps the release it had.
RestoredDocument_Historical(v) == [history[v] EXCEPT !.revision = Version + 1]

\* restoreRevision: the content of an old version under the active pin.
RestoredDocument(v) ==
    LET target == history[v]
    IN  [target EXCEPT !.revision = Version + 1,
                       !.release = IF target.schema = 2 THEN ActivePin ELSE @]

RestoreRevision(v) ==
    /\ v \in 1..Version
    /\ AppendRevision(RestoredDocument(v))
    /\ snapshots' = snapshots \cup {RestoredDocument(v)}
    /\ UNCHANGED <<pin, upgrades, previews, running, clock>>

\* Mutant: the migrated document gets no release.
MigratedDocument_Unpinned == [Current EXCEPT !.revision = Version + 1, !.schema = 2]

\* migrateDesignHeadToV2, once a verified backup is at hand.
MigratedDocument ==
    [Current EXCEPT !.revision = Version + 1, !.schema = 2, !.release = ActivePin]

MigrateHeadToV2 ==
    /\ Current.schema = 1
    /\ AppendRevision(MigratedDocument)
    /\ snapshots' = snapshots \cup {MigratedDocument}
    /\ UNCHANGED <<pin, upgrades, previews, running, clock>>

-----------------------------------------------------------------------------
(* The pin.                                                                *)

\* commitDesignSystemPinRevisionInTransaction: a V1 head gets no revision.
PinnedDocument(r) == [Current EXCEPT !.revision = Version + 1, !.release = r]

PinRevision(r) ==
    IF Current.schema = 2
    THEN /\ AppendRevision(PinnedDocument(r))
         /\ snapshots' = snapshots \cup {PinnedDocument(r)}
    ELSE UNCHANGED <<history, snapshots>>

\* pinProject: only the first pin; later ones go through an upgrade.
PinProject(r) ==
    /\ pin = NoPin
    /\ pin' = r
    /\ PinRevision(r)
    /\ UNCHANGED <<upgrades, previews, running, clock>>

Expired(row) ==
    IF row.status \in {"ready", "blocked"} /\ row.expires <= clock
    THEN [row EXCEPT !.status = "expired"] ELSE row

ExpiredUpgrades == [u \in UpgradeIds |-> Expired(upgrades[u])]

\* previewProjectUpgrade: for a V2 head the exact result is stored as well.
PreviewProjectUpgrade(u, target, ok) ==
    LET exact == IF Current.schema = 2 THEN {Current, PinnedDocument(target)} ELSE {}
    IN  /\ upgrades[u].status = "unused"
        /\ pin # NoPin
        /\ target.system = pin.system
        /\ target.version > pin.version
        /\ Current.schema = 2 => Current.release = pin
        /\ upgrades' = [ExpiredUpgrades EXCEPT ![u] =
              [status |-> IF ok THEN "ready" ELSE "blocked",
               from |-> pin, to |-> target, version |-> Version,
               snapshots |-> exact,
               result |-> IF exact = {} THEN NoPin ELSE PinnedDocument(target),
               expires |-> clock + TTL]]
        /\ snapshots' = snapshots \cup exact
        /\ UNCHANGED <<history, pin, previews, running, clock>>

ReadUpgradePreview(u) ==
    /\ upgrades' = [upgrades EXCEPT ![u] = Expired(@)]
    /\ UNCHANGED <<history, pin, previews, snapshots, running, clock>>

\* commitProjectUpgrade: the pin and the previewed result, in one transaction.
CommitProjectUpgrade(u) ==
    LET row == Expired(upgrades[u])
    IN  /\ row.status = "ready"
        /\ pin = row.from
        /\ row.version = Version
        /\ pin' = row.to
        /\ IF row.snapshots = {}
           THEN PinRevision(row.to)
           ELSE /\ Current \in row.snapshots
                /\ row.result \in snapshots
                /\ AppendRevision(row.result)
                /\ UNCHANGED snapshots
        /\ upgrades' = [upgrades EXCEPT ![u] = [row EXCEPT !.status = "committed"]]
        /\ UNCHANGED <<previews, running, clock>>

-----------------------------------------------------------------------------
\* The process ends at any time; DesignerService's constructor cleans up, and
\* throws when it cannot.
StopService ==
    /\ running' = FALSE
    /\ UNCHANGED <<history, pin, upgrades, previews, snapshots, clock>>

StartService ==
    /\ ~running
    /\ running' = TRUE
    /\ CleanupPreviews
    /\ UNCHANGED <<history, pin, upgrades, clock>>

Tick ==
    /\ clock < MaxTime
    /\ clock' = clock + 1
    /\ UNCHANGED <<history, pin, upgrades, previews, snapshots, running>>

UpgradeInit ==
    \E content \in Contents :
        LET first == [revision |-> 1, schema |-> 1, release |-> NoPin,
                      content |-> content]
        IN  /\ history = <<first>>
            /\ snapshots = {first}
            /\ pin = NoPin
            /\ upgrades = [u \in UpgradeIds |-> [status |-> "unused"]]
            /\ previews = [p \in PreviewIds |-> [status |-> "unused"]]
            /\ running = TRUE
            /\ clock = 0

Serve ==
    \/ \E content \in Contents : ApplyRevision(content)
    \/ \E p \in PreviewIds, content \in Contents : CreatePreview(p, content)
    \/ \E p \in PreviewIds : CommitPreview(p)
    \/ \E v \in 1..MaxVersion : RestoreRevision(v)
    \/ MigrateHeadToV2
    \/ \E r \in Releases : PinProject(r)
    \/ \E u \in UpgradeIds, r \in Releases, ok \in BOOLEAN :
          PreviewProjectUpgrade(u, r, ok)
    \/ \E u \in UpgradeIds : ReadUpgradePreview(u) \/ CommitProjectUpgrade(u)

UpgradeNext == (running /\ Serve) \/ StopService \/ StartService \/ Tick

UpgradeSpec == UpgradeInit /\ [][UpgradeNext]_upgradeVars

-----------------------------------------------------------------------------
(* Properties.                                                             *)

\* Every variable has its type; a document names a release exactly if it is V2.
UpgradeTypeOK ==
    /\ history \in Seq(Documents)
    /\ pin \in Releases \cup {NoPin}
    /\ upgrades \in [UpgradeIds -> UpgradeRows]
    /\ previews \in [PreviewIds -> PreviewRows]
    /\ snapshots \subseteq Documents
    /\ running \in BOOLEAN
    /\ clock \in Nat

\* The head of a V2 project always names the release the project is pinned to
\* (Foundation when none is), however pins, upgrades, migrations, commits of
\* previews and restores of older versions follow each other.  buildUpgradePlan
\* throws on a project of which it is not true (design-system-service.ts:2387).
HeadFollowsPin ==
    Current.schema = 2 => Current.release = ActivePin

\* A pin once set moves only to a newer release of the same system; restoring
\* an old version does not move it back.
PinOnlyUpgraded ==
    [][pin' # pin /\ pin # NoPin
          => /\ pin'.system = pin.system
             /\ pin'.version > pin.version]_upgradeVars

\* A ready upgrade whose base is still the head can be committed as previewed:
\* the snapshots it names have survived every cleanup.
UpgradeStillExact ==
    \A u \in UpgradeIds :
        upgrades[u].status = "ready" =>
            /\ upgrades[u].snapshots \subseteq snapshots
            /\ (/\ upgrades[u].snapshots # {}
                /\ upgrades[u].version = Version
                /\ pin = upgrades[u].from)
                  => upgrades[u].result = PinnedDocument(upgrades[u].to)

\* What a committed upgrade wrote is the document that was previewed, right
\* after the version it was previewed on.
UpgradeCommittedExactly ==
    \A u \in UpgradeIds :
        upgrades[u].status = "committed" /\ upgrades[u].snapshots # {} =>
            history[upgrades[u].version + 1] = upgrades[u].result

\* Whatever is pinned, upgraded, migrated, restored and collected in between, the
\* document and the pin agree, the pin only moves forward, and an upgrade is what
\* was previewed, while it waits and once it is made.
UpgradeSound ==
    [](HeadFollowsPin /\ UpgradeStillExact /\ UpgradeCommittedExactly) /\ PinOnlyUpgraded

\* The service can be started again over a database that holds upgrade
\* previews: its constructor's cleanup does not fail.
ReopensWithUpgradePreviews == ~CleanupBlocked
=============================================================================
