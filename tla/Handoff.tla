------------------------------ MODULE Handoff ------------------------------
(***************************************************************************)
(* Engineering handoffs (workspace-handoff-service.ts) of one design: the   *)
(* inventories of repositories they rest on, their versions, reviews and    *)
(* approvals, and the decisions under which an approved handoff is carried   *)
(* out and completed.  Designs are revised and archived, inventories         *)
(* superseded and revoked, and policies changed meanwhile.                   *)
(*                                                                         *)
(* Every operation is one transaction.  A decision is asked for by somebody  *)
(* who has read the handoff at some earlier moment: a request names any       *)
(* version and any decision there ever was, so it may be delivered late and  *)
(* again.  The other operations carry no more than the version they were     *)
(* made for; one that comes late is refused or has the effect of one made    *)
(* now.                                                                     *)
(***************************************************************************)
EXTENDS Naturals, Sequences, FiniteSets, FiniteSetsExt

CONSTANTS
    Handoffs,
    Inventories,   \* inventories by content
    RepositoryOf,  \* RepositoryOf[i]: the repository i was taken of
    Policies,      \* the exclusion patterns an organization may ask for
    PolicyOf,      \* PolicyOf[i]: those i was taken under
    Checks,        \* validation checks
    Plans,         \* the specifications by the checks they ask for
    Diffs,         \* what may be reviewed and committed
    None,          \* no inventory
    MaxHead,       \* bound: versions of the design
    MaxVersion,    \* bound: versions of a handoff
    MaxRounds,     \* bound: transitions of a handoff
    MaxDecisions,  \* bound: decisions about a handoff
    MaxRefusals    \* bound: kinds of decisions refused at one time

ASSUME HandoffAssumption ==
    /\ RepositoryOf \in [Inventories -> UNION {{RepositoryOf[i]} : i \in Inventories}]
    /\ PolicyOf \in [Inventories -> Policies]
    /\ None \notin Inventories
    /\ Plans \subseteq SUBSET Checks
    /\ {MaxHead, MaxVersion, MaxRounds, MaxDecisions, MaxRefusals} \subseteq Nat

VARIABLES
    head,           \* current_version of the design
    archived,       \* whether the design is archived
    policy,         \* the exclusion patterns in force
    inventory,      \* inventory[i]: the status of its row
    status,         \* status[h]; "none": no such row
    pin,            \* pin[h]: the version of the revision it is about
    source,         \* source[h]: its inventory
    specifications, \* specifications[h][v]: the checks version v asks for
    transitions,    \* transitions[h]: the states it was brought to, at which version
    decisions,      \* decisions[h][k]: the latest decision of kind k
    inputs          \* history: the heads an approval and a start were made on

designVars == <<head, archived>>
inventoryVars == <<policy, inventory>>
rowVars == <<pin, source, specifications>>
stateVars == <<status, transitions>>
vars == <<designVars, inventoryVars, rowVars, stateVars, decisions, inputs>>

Affirmative ==
    [plan |-> {"approved"}, isolation |-> {"branch"}, diff |-> {"approved"},
     validation |-> {"approved"}, commit |-> {"approved"}, push |-> {"authorized"},
     pullRequest |-> {"requested", "not_requested"}]
Refusal == {"denied", "revoked"}
Kinds == DOMAIN Affirmative
Outcomes == (UNION {Affirmative[k] : k \in Kinds}) \cup Refusal

\* handoffTransitionGraph
Graph ==
    [none |-> {"draft"}, draft |-> {"in_review", "cancelled"},
     in_review |-> {"draft", "approved", "cancelled"},
     approved |-> {"implementing", "cancelled"}, implementing |-> {"completed", "cancelled"},
     completed |-> {}, cancelled |-> {}]
Statuses == DOMAIN Graph

\* The n-th decision of its kind; its author had seen the saw-th.
Decision == [n : Nat, saw : Nat, outcome : Outcomes \cup {"none"}, version : Nat,
             evidence : SUBSET (Checks \cup Diffs)]
Undecided == [n |-> 0, saw |-> 0, outcome |-> "none", version |-> 0, evidence |-> {}]

CurrentVersion(h) == Len(specifications[h])
Specification(h) == specifications[h][CurrentVersion(h)]

\* requireHandoffRow: a handoff of an archived design is not found.
Found(h) == status[h] # "none" /\ ~archived

\* executionDecisionState: what was decided about the current version.
Current(h, k) ==
    IF decisions[h][k].version = CurrentVersion(h) THEN decisions[h][k] ELSE Undecided
Holds(h, k) == Current(h, k).outcome \in Affirmative[k]

-----------------------------------------------------------------------------
(* Designs, policies and inventories.                                       *)

CommitRevision ==
    /\ ~archived /\ head < MaxHead
    /\ head' = head + 1
    /\ UNCHANGED <<archived, inventoryVars, rowVars, stateVars, decisions, inputs>>

ArchiveDesign ==
    /\ ~archived
    /\ archived' = TRUE
    /\ UNCHANGED <<head, inventoryVars, rowVars, stateVars, decisions, inputs>>

RestoreArchivedDesign ==
    /\ archived
    /\ archived' = FALSE
    /\ UNCHANGED <<head, inventoryVars, rowVars, stateVars, decisions, inputs>>

UpdatePolicy ==
    /\ policy' \in Policies \ {policy}
    /\ UNCHANGED <<designVars, inventory, rowVars, stateVars, decisions, inputs>>

\* The same inventory again changes nothing or is refused.
PersistRepositoryInventory(i) ==
    /\ PolicyOf[i] = policy
    /\ inventory[i] = "absent"
    /\ inventory' = [j \in Inventories |->
          IF j = i THEN "active"
          ELSE IF RepositoryOf[j] = RepositoryOf[i] /\ inventory[j] = "active" THEN "superseded"
          ELSE inventory[j]]
    /\ UNCHANGED <<designVars, policy, rowVars, stateVars, decisions, inputs>>

RevokeRepositoryInventory(i) ==
    /\ inventory[i] \notin {"absent", "revoked"}
    /\ inventory' = [inventory EXCEPT ![i] = "revoked"]
    /\ UNCHANGED <<designVars, policy, rowVars, stateVars, decisions, inputs>>

\* requireActiveInventory: also taken under the patterns of today.
ActiveInventory(i) == i \in Inventories /\ inventory[i] = "active" /\ PolicyOf[i] = policy

\* assertPinnedDesignCurrent and requireActiveInventory
CurrentInputs(h) == head = pin[h] /\ ActiveInventory(source[h])

-----------------------------------------------------------------------------
(* Drafts and reviews.                                                      *)

\* Mutant: the row is moved and its history is not written.
Moved_Unlogged(h, to) ==
    /\ Len(transitions[h]) < MaxRounds
    /\ to \in Graph[status[h]]
    /\ status' = [status EXCEPT ![h] = to]
    /\ UNCHANGED transitions

Moved(h, to) ==
    /\ Len(transitions[h]) < MaxRounds
    /\ to \in Graph[status[h]]
    /\ status' = [status EXCEPT ![h] = to]
    /\ transitions' = [transitions EXCEPT ![h] =
                          Append(@, [to |-> to, version |-> CurrentVersion(h)'])]

CreateHandoff(h, i, checks) ==
    /\ status[h] = "none" /\ ~archived
    /\ ActiveInventory(i)
    /\ pin' = [pin EXCEPT ![h] = head]
    /\ source' = [source EXCEPT ![h] = i]
    /\ specifications' = [specifications EXCEPT ![h] = <<checks>>]
    /\ Moved(h, "draft")
    /\ UNCHANGED <<designVars, inventoryVars, decisions, inputs>>

\* Mutant: what is approved may still be edited.
UpdateHandoff_AnyState(h, checks) ==
    /\ Found(h)
    /\ status[h] \in {"draft", "approved"}
    /\ CurrentInputs(h)
    /\ CurrentVersion(h) < MaxVersion
    /\ specifications' = [specifications EXCEPT ![h] = Append(@, checks)]
    /\ UNCHANGED <<designVars, inventoryVars, pin, source, stateVars, decisions, inputs>>

UpdateHandoff(h, checks) ==
    /\ Found(h)
    /\ status[h] = "draft"
    /\ CurrentInputs(h)
    /\ CurrentVersion(h) < MaxVersion
    /\ specifications' = [specifications EXCEPT ![h] = Append(@, checks)]
    /\ UNCHANGED <<designVars, inventoryVars, pin, source, stateVars, decisions, inputs>>

SubmitHandoffForReview(h) ==
    /\ Found(h)
    /\ status[h] = "draft"
    /\ CurrentInputs(h)
    /\ UNCHANGED <<designVars, inventoryVars, rowVars, decisions, inputs>>
    /\ Moved(h, "in_review")

ReturnHandoffToDraft(h) ==
    /\ Found(h)
    /\ status[h] = "in_review"
    /\ UNCHANGED <<designVars, inventoryVars, rowVars, decisions, inputs>>
    /\ Moved(h, "draft")

CancelHandoff(h) ==
    /\ Found(h)
    /\ status[h] \notin {"completed", "cancelled"}
    /\ UNCHANGED <<designVars, inventoryVars, rowVars, decisions, inputs>>
    /\ Moved(h, "cancelled")

-----------------------------------------------------------------------------
(* Decisions.                                                               *)

Evidence(kind, outcome) ==
    IF outcome \in Refusal THEN {{}}
    ELSE IF kind \in {"diff", "commit"} THEN {{d} : d \in Diffs}
    ELSE IF kind = "validation" THEN SUBSET Checks \ {{}}
    ELSE {{}}

\* What somebody may ask who has read the handoff now or at any time before.
Requests(h) ==
    UNION {UNION {[handoff : {h}, version : 1 .. CurrentVersion(h), prior : 0 .. decisions[h][k].n,
                   kind : {k}, outcome : {o}, evidence : Evidence(k, o)]
                  : o \in Affirmative[k] \cup Refusal} : k \in Kinds}

\* Mutant: the kind is not compared with what is there by now.
AsSeen_Version(q) ==
    q.version = CurrentVersion(q.handoff)

\* expectedVersion and expectedPriorDecisionId
AsSeen(q) ==
    /\ q.version = CurrentVersion(q.handoff)
    /\ q.prior = decisions[q.handoff][q.kind].n

\* assertExecutionDecisionLifecycle
LifecycleAllows(h, kind, outcome) ==
    /\ status[h] \in CASE kind = "plan" /\ outcome = "denied" ->
                            {"in_review", "approved", "implementing"}
                       [] kind \in {"plan", "isolation"} -> {"approved", "implementing"}
                       [] OTHER -> {"implementing"}
    /\ outcome = "revoked" => decisions[h][kind].outcome \notin Refusal \cup {"none"}

\* assertExecutionDecisionEvidence
EvidenceHolds(h, q) ==
    CASE q.outcome \in Refusal -> TRUE
      [] q.kind = "validation" -> Specification(h) \subseteq q.evidence
      [] q.kind = "commit" -> Holds(h, "diff") /\ q.evidence = Current(h, "diff").evidence
      [] q.kind = "push" -> Holds(h, "commit")
      [] q.kind = "pullRequest" /\ q.outcome = "requested" -> Holds(h, "push")
      [] OTHER -> TRUE

Refused(h) == {k \in Kinds : decisions[h][k].outcome \in Refusal}

\* To bound the run: how many decisions there are, whatever they are about.
Taken(h) == MapThenSumSet(LAMBDA k : decisions[h][k].n, Kinds)

\* appendExecutionDecision; bounded by MaxDecisions and MaxRefusals.
Decided(q) ==
    LET h == q.handoff
    IN /\ Taken(h) < MaxDecisions
       /\ q.outcome \in Refusal => Cardinality(Refused(h)) < MaxRefusals
       /\ decisions' = [decisions EXCEPT ![h][q.kind] =
              [n |-> @.n + 1, saw |-> q.prior, outcome |-> q.outcome, version |-> q.version,
               evidence |-> q.evidence]]

RecordHandoffExecutionDecision(q) ==
    /\ Found(q.handoff)
    /\ AsSeen(q)
    /\ LifecycleAllows(q.handoff, q.kind, q.outcome)
    /\ EvidenceHolds(q.handoff, q)
    /\ Decided(q)
    /\ UNCHANGED <<designVars, inventoryVars, rowVars, stateVars, inputs>>

ApproveHandoff(q) ==
    /\ q.kind = "plan" /\ q.outcome = "approved"
    /\ Found(q.handoff)
    /\ status[q.handoff] = "in_review"
    /\ CurrentInputs(q.handoff)
    /\ AsSeen(q)
    /\ UNCHANGED <<designVars, inventoryVars, rowVars>>
    /\ Moved(q.handoff, "approved")
    /\ Decided(q)
    /\ inputs' = [inputs EXCEPT ![q.handoff].approved = head]

-----------------------------------------------------------------------------
(* Implementation.                                                          *)

\* assertApprovedVersion: as the last transition to "approved" says.
ApprovedVersion(h) ==
    LET approvals == {n \in DOMAIN transitions[h] : transitions[h][n].to = "approved"}
    IN IF approvals = {} THEN 0 ELSE transitions[h][Max(approvals)].version

StartHandoffImplementation(h) ==
    /\ Found(h)
    /\ status[h] = "approved"
    /\ ApprovedVersion(h) = CurrentVersion(h)
    /\ Holds(h, "plan") /\ Holds(h, "isolation")
    /\ CurrentInputs(h)
    /\ UNCHANGED <<designVars, inventoryVars, rowVars, decisions>>
    /\ Moved(h, "implementing")
    /\ inputs' = [inputs EXCEPT ![h].started = head]

\* executionCompletionDetails
Completable(h) ==
    /\ \A k \in {"plan", "isolation", "diff", "validation", "commit"} : Holds(h, k)
    /\ \A k \in {"push", "pullRequest"} : Current(h, k).outcome # "none"
    /\ Current(h, "diff").evidence = Current(h, "commit").evidence
    /\ Specification(h) \subseteq Current(h, "validation").evidence
    /\ Current(h, "pullRequest").outcome = "requested" => Holds(h, "push")

CompleteHandoffImplementation(h) ==
    /\ Found(h)
    /\ status[h] = "implementing"
    /\ Completable(h)
    /\ UNCHANGED <<designVars, inventoryVars, rowVars, decisions, inputs>>
    /\ Moved(h, "completed")

-----------------------------------------------------------------------------
Init ==
    /\ head = 1 /\ archived = FALSE
    /\ policy \in Policies
    /\ inventory = [i \in Inventories |-> "absent"]
    /\ status = [h \in Handoffs |-> "none"]
    /\ pin = [h \in Handoffs |-> 0]
    /\ source = [h \in Handoffs |-> None]
    /\ specifications = [h \in Handoffs |-> <<>>]
    /\ transitions = [h \in Handoffs |-> <<>>]
    /\ decisions = [h \in Handoffs |-> [k \in Kinds |-> Undecided]]
    /\ inputs = [h \in Handoffs |-> [approved |-> 0, started |-> 0]]

Next ==
    \/ CommitRevision \/ ArchiveDesign \/ RestoreArchivedDesign \/ UpdatePolicy
    \/ \E i \in Inventories :
        PersistRepositoryInventory(i) \/ RevokeRepositoryInventory(i)
    \/ \E h \in Handoffs :
        \/ \E i \in Inventories, checks \in Plans : CreateHandoff(h, i, checks)
        \/ \E checks \in Plans : UpdateHandoff(h, checks)
        \/ SubmitHandoffForReview(h) \/ ReturnHandoffToDraft(h) \/ CancelHandoff(h)
        \/ StartHandoffImplementation(h) \/ CompleteHandoffImplementation(h)
        \/ \E q \in Requests(h) : RecordHandoffExecutionDecision(q) \/ ApproveHandoff(q)

Spec == Init /\ [][Next]_vars

-----------------------------------------------------------------------------
(* Properties.                                                              *)

\* The rows have the columns the schema allows, and a handoff's history leads
\* to its status (what assertTransitionHistory asks before every change).
TypeOK ==
    /\ head \in Nat /\ archived \in BOOLEAN /\ policy \in Policies
    /\ inventory \in [Inventories -> {"absent", "active", "superseded", "revoked"}]
    /\ status \in [Handoffs -> Statuses]
    /\ pin \in [Handoffs -> Nat] /\ source \in [Handoffs -> Inventories \cup {None}]
    /\ specifications \in [Handoffs -> Seq(SUBSET Checks)]
    /\ transitions \in [Handoffs -> Seq([to : Statuses, version : Nat])]
    /\ decisions \in [Handoffs -> [Kinds -> Decision]]
    /\ inputs \in [Handoffs -> [approved : Nat, started : Nat]]
    /\ \A h \in Handoffs :
        status[h] = IF transitions[h] = <<>> THEN "none"
                    ELSE transitions[h][Len(transitions[h])].to

Underway(h) == status[h] \in {"approved", "implementing", "completed"}

\* What is implemented is what was approved: from the approval on the handoff
\* has the version that was approved, and both the approval and the start were
\* given while the pinned revision was the design's head.
ApprovedAsItStands(h) ==
    /\ Underway(h) => ApprovedVersion(h) = CurrentVersion(h) /\ inputs[h].approved = pin[h]
    /\ status[h] \in {"implementing", "completed"} => inputs[h].started = pin[h]

\* A completed handoff has an approved plan that nobody took back, the diff
\* that was committed is the one that was reviewed, every check its
\* specification asks for was passed, and a pull request was asked for only
\* with leave to push.
CompletedWithLeave(h) ==
    status[h] = "completed" =>
        /\ Holds(h, "plan") /\ Holds(h, "isolation") /\ Holds(h, "diff") /\ Holds(h, "commit")
        /\ Current(h, "commit").evidence = Current(h, "diff").evidence
        /\ Specification(h) \subseteq Current(h, "validation").evidence
        /\ Current(h, "pullRequest").outcome = "requested" => Holds(h, "push")

\* Whatever the order of edits, reviews, decisions and deliveries
\* (transitionHandoff, recordHandoffExecutionDecision).
BuiltAsApproved == \A h \in Handoffs : ApprovedAsItStands(h) /\ CompletedWithLeave(h)

\* Nobody decides over a decision he has not seen: a late or repeated approval
\* never supersedes a newer denial (expectedPriorDecisionId in
\* recordHandoffExecutionDecision and transitionHandoff).
DecidedInSight ==
    \A h \in Handoffs, k \in Kinds :
        /\ decisions[h][k].n > 0 => decisions[h][k].saw = decisions[h][k].n - 1
        /\ decisions[h][k].version <= CurrentVersion(h)
=============================================================================
