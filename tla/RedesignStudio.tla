--------------------------- MODULE RedesignStudio ---------------------------
(***************************************************************************)
(* Redesign assessments (redesign-studio-service.ts) beside the handoffs of  *)
(* the same design: seven stages, each with its artifact, passed one by one   *)
(* on the design and the inventory the assessment was created for.  Both     *)
(* may change at any time and the assessment is never bound anew.            *)
(*                                                                         *)
(* Every operation is one transaction and asks for the version of the        *)
(* assessment and of the design its author has read, so one that comes late   *)
(* is refused or has the effect of one made now.  Revising the content of a   *)
(* stage (reviseCurrentStage) changes nothing that is modelled.              *)
(***************************************************************************)
EXTENDS Handoff

CONSTANT Assessments

VARIABLES
    phase,      \* phase[a]: the status of its row; "none": no such row
    stage,      \* stage[a]: its current stage
    base,       \* base[a]: the version of the design (0: none) and the inventory it is bound to
    artifacts,  \* artifacts[a][s]: the state of the artifact of stage s
    mapped,     \* the revisions and inventories there are implementation mappings of
    disturbed   \* history: what the assessment is bound to changed while it was active

studioVars == <<phase, stage, base, artifacts, mapped>>

\* The index of a stage in REDESIGN_STAGES
Index ==
    [connect_inspect |-> 1, document_current_state |-> 2, pm_interview |-> 3,
     future_state_proposal |-> 4, design |-> 5, handoff |-> 6, approved_implementation |-> 7]
Stages == DOMAIN Index

\* What evaluateRedesignStageReadiness makes of an artifact: not even ready to
\* be passed as reviewed, ready as reviewed, ready as approved.
Readiness == {"draft", "reviewed", "approved"}

\* A step out of the handoff and the completion ask for approval.
Required(s) ==
    IF s \in {"handoff", "approved_implementation"} THEN {"approved"} ELSE {"reviewed", "approved"}

\* assertCurrentStageReady
CurrentStageReady(a) == artifacts[a][stage[a]] \in Required(stage[a])

\* The single active inventory of its repository.
SoleActive(i) ==
    \A j \in Inventories :
        RepositoryOf[j] = RepositoryOf[i] => (inventory[j] = "active" <=> j = i)

\* assertForwardSourceBindingsCurrent
SourceBindingsCurrent(a) ==
    /\ base[a].design # 0 => head = base[a].design
    /\ base[a].inventory # None => SoleActive(base[a].inventory)

\* assertFutureStateEvidence: both are bound and some mapping pins both.
FutureStateEvidence(a) == <<base[a].design, base[a].inventory>> \in mapped

\* requireAssessment and assertActive
Open(a) == phase[a] = "active" /\ (base[a].design # 0 => ~archived)

-----------------------------------------------------------------------------
CreateImplementationMappings(v, i) ==
    /\ ~archived /\ v <= head
    /\ ActiveInventory(i) /\ SoleActive(i)
    /\ mapped' = mapped \cup {<<v, i>>}
    /\ UNCHANGED <<phase, stage, base, artifacts, disturbed>>

\* With the design as it is now, with an inventory, or with both; unlike a
\* handoff's, the inventory need not have been taken under today's policy.
CreateOneClickAssessment(a, version, i) ==
    /\ phase[a] = "none"
    /\ version # 0 \/ i # None
    /\ version # 0 => ~archived /\ version = head
    /\ i # None => inventory[i] = "active"
    /\ phase' = [phase EXCEPT ![a] = "active"]
    /\ base' = [base EXCEPT ![a] = [design |-> version, inventory |-> i]]
    /\ UNCHANGED <<stage, artifacts, mapped, disturbed>>

\* Mutant: the stage that is asked for is revised, whatever the current one is.
ReviseStageArtifact_AnyStage(a, s, readiness) ==
    /\ Open(a)
    /\ artifacts' = [artifacts EXCEPT ![a][s] = readiness]
    /\ UNCHANGED <<phase, stage, base, mapped, disturbed>>

ReviseStageArtifact(a, s, readiness) ==
    /\ Open(a)
    /\ s = stage[a]
    /\ artifacts' = [artifacts EXCEPT ![a][s] = readiness]
    /\ UNCHANGED <<phase, stage, base, mapped, disturbed>>

\* "advanced", and "approved" out of the handoff.
Advance(a, to) ==
    /\ Open(a)
    /\ Index[to] = Index[stage[a]] + 1
    /\ CurrentStageReady(a) /\ SourceBindingsCurrent(a)
    /\ to = "future_state_proposal" => FutureStateEvidence(a)
    /\ stage' = [stage EXCEPT ![a] = to]
    /\ UNCHANGED <<phase, base, artifacts, mapped, disturbed>>

\* The artifacts of the stages gone back over stay as they are.
Return(a, to) ==
    /\ Open(a)
    /\ Index[to] < Index[stage[a]]
    /\ stage' = [stage EXCEPT ![a] = to]
    /\ UNCHANGED <<phase, base, artifacts, mapped, disturbed>>

Complete(a) ==
    /\ Open(a)
    /\ stage[a] = "approved_implementation"
    /\ CurrentStageReady(a) /\ SourceBindingsCurrent(a)
    /\ phase' = [phase EXCEPT ![a] = "completed"]
    /\ UNCHANGED <<stage, base, artifacts, mapped, disturbed>>

Cancel(a) ==
    /\ Open(a)
    /\ phase' = [phase EXCEPT ![a] = "cancelled"]
    /\ UNCHANGED <<stage, base, artifacts, mapped, disturbed>>

-----------------------------------------------------------------------------
StudioInit ==
    /\ Init
    /\ phase = [a \in Assessments |-> "none"]
    /\ stage = [a \in Assessments |-> "connect_inspect"]
    /\ base = [a \in Assessments |-> [design |-> 0, inventory |-> None]]
    /\ artifacts = [a \in Assessments |-> [s \in Stages |-> "draft"]]
    /\ mapped = {}
    /\ disturbed = [a \in Assessments |-> FALSE]

\* Whether the design was revised or an inventory taken or revoked, for each
\* assessment that is underway.
Disturbing ==
    disturbed' = [a \in Assessments |->
        \/ disturbed[a]
        \/ /\ phase[a] = "active"
           /\ \/ base[a].design # 0 /\ head' # head
              \/ base[a].inventory # None /\ inventory'[base[a].inventory] # inventory[base[a].inventory]]

StudioStep ==
    \/ \E i \in Inventories, v \in 1 .. head : CreateImplementationMappings(v, i)
    \/ \E a \in Assessments :
        \/ \E version \in {0, head}, i \in Inventories \cup {None} :
            CreateOneClickAssessment(a, version, i)
        \/ \E s \in Stages :
            \/ Advance(a, s) \/ Return(a, s)
            \/ \E readiness \in Readiness : ReviseStageArtifact(a, s, readiness)
        \/ Complete(a) \/ Cancel(a)

StudioNext ==
    \/ Next /\ Disturbing /\ UNCHANGED studioVars
    \/ StudioStep /\ UNCHANGED vars

StudioSpec == StudioInit /\ [][StudioNext]_<<vars, studioVars, disturbed>>

-----------------------------------------------------------------------------
(* Properties.                                                              *)

\* Besides the handoffs' rows: an assessment is bound to a version the design
\* has had or to an inventory, and mappings are of such versions.
StudioTypeOK ==
    /\ TypeOK
    /\ phase \in [Assessments -> {"none", "active", "completed", "cancelled"}]
    /\ stage \in [Assessments -> Stages]
    /\ base \in [Assessments -> [design : 0 .. head, inventory : Inventories \cup {None}]]
    /\ artifacts \in [Assessments -> [Stages -> Readiness]]
    /\ mapped \subseteq (1 .. head) \X Inventories
    /\ disturbed \in [Assessments -> BOOLEAN]

\* However often it was returned, whatever lies behind the current stage is
\* reviewed, the handoff approved, and there is a mapping of the revision and
\* the inventory it is bound to from the proposal on (transition).
PassedInOrder(a) ==
    /\ \A s \in Stages : Index[s] < Index[stage[a]] => artifacts[a][s] \in Required(s)
    /\ Index[stage[a]] >= Index["future_state_proposal"] => FutureStateEvidence(a)

\* What was completed was assessed, designed and approved on one version of
\* the design and of the repository: neither changed in between.
CompletedUndisturbed(a) ==
    phase[a] = "completed" =>
        /\ ~disturbed[a]
        /\ base[a].design # 0 /\ base[a].inventory # None
        /\ \A s \in Stages : artifacts[a][s] \in Required(s)

\* Whatever the order of revisions, returns, commits and scans.
RedesignSound == \A a \in Assessments : PassedInOrder(a) /\ CompletedUndisturbed(a)
=============================================================================
