----------------------------- MODULE Handoff_proofs -----------------------------
(***************************************************************************)
(* Proofs about Handoff, for every set of handoffs, inventories, checks and *)
(* diffs, every specification and every bound, and about RedesignStudio     *)
(* beside it, for every set of assessments.                                 *)
(***************************************************************************)
EXTENDS RedesignStudio, TLAPS, SequenceTheorems

Transition == [to : Statuses, version : Nat]

\* The state a history leads to.
Reached(history) == IF history = <<>> THEN "none" ELSE history[Len(history)].to

Approvals(history) == {n \in DOMAIN history : history[n].to = "approved"}

\* The operand of Max in ApprovedVersion has a maximum.
HasLast(history) == Approvals(history) # {} => Max(Approvals(history)) \in Approvals(history)

LastApproved(history) ==
    IF Approvals(history) = {} THEN 0 ELSE history[Max(Approvals(history))].version

\* A handoff that was not created has no version.
Unborn == \A h \in Handoffs : status[h] = "none" => specifications[h] = <<>>

LastApprovals == \A h \in Handoffs : HasLast(transitions[h])

\* The inductive invariant.  Without Unborn a decision about a version that is
\* still to be written would survive the creation of its handoff; that a
\* history has a last approval would else take an induction over its length.
IInv == TypeOK /\ Unborn /\ LastApprovals /\ BuiltAsApproved /\ DecidedInSight

-----------------------------------------------------------------------------
(* Histories.                                                              *)

LEMMA ApprovedByHistory ==
    ASSUME NEW h \in Handoffs
    PROVE  ApprovedVersion(h) = LastApproved(transitions[h])
  BY DEF ApprovedVersion, LastApproved, Approvals

LEMMA StatusesAre ==
    Statuses = {"none", "draft", "in_review", "approved", "implementing", "completed",
                "cancelled"}
  BY DEF Statuses, Graph

\* A further entry is the one a history leads to, and it changes what was
\* approved last only when it is an approval itself.
LEMMA FurtherEntry ==
    ASSUME NEW history \in Seq(Transition), NEW e \in Transition, HasLast(history)
    PROVE  /\ Append(history, e) \in Seq(Transition)
           /\ Append(history, e) # <<>>
           /\ Reached(Append(history, e)) = e.to
           /\ HasLast(Append(history, e))
           /\ LastApproved(Append(history, e)) =
                IF e.to = "approved" THEN e.version ELSE LastApproved(history)
  <1> DEFINE longer == Append(history, e)
             n == Len(history)
  <1>1. /\ longer \in Seq(Transition) /\ longer # <<>>
        /\ Len(longer) = n + 1 /\ n \in Nat
        /\ \A i \in 1 .. n : longer[i] = history[i]
        /\ longer[n + 1] = e
        /\ DOMAIN longer = 1 .. (n + 1)
        /\ DOMAIN history = 1 .. n
    BY AppendProperties, LenProperties
  <1> HIDE DEF longer
  <1>2. Reached(longer) = e.to
    BY <1>1 DEF Reached
  <1>3. CASE e.to = "approved"
    <2>1. n + 1 \in Approvals(longer) /\ \A i \in Approvals(longer) : n + 1 >= i
      BY <1>1, <1>3 DEF Approvals
    <2>2. Approvals(longer) \subseteq Nat
      BY <1>1 DEF Approvals
    <2>3. Max(Approvals(longer)) = n + 1
      BY <1>1, <2>1, <2>2 DEF Max
    <2> QED
      BY <1>1, <1>2, <1>3, <2>1, <2>3 DEF LastApproved, HasLast, longer
  <1>4. CASE e.to # "approved"
    <2>1. Approvals(longer) = Approvals(history)
      BY <1>1, <1>4 DEF Approvals
    <2>2. Approvals(history) # {} => Max(Approvals(history)) \in 1 .. n
      BY <1>1 DEF HasLast, Approvals
    <2> QED
      BY <1>1, <1>2, <1>4, <2>1, <2>2 DEF LastApproved, HasLast, longer
  <1> QED
    BY <1>3, <1>4

-----------------------------------------------------------------------------
(* Steps.                                                                  *)

\* A decision is asked for about a version there is, with evidence of its kind.
LEMMA RequestType ==
    ASSUME TypeOK, NEW h \in Handoffs, NEW q \in Requests(h)
    PROVE  /\ q.handoff = h
           /\ q.version \in 1 .. CurrentVersion(h)
           /\ q.kind \in Kinds
           /\ q.outcome \in Outcomes
           /\ q.evidence \in SUBSET (Checks \cup Diffs)
  <1>1. PICK k \in Kinds : \E o \in Affirmative[k] \cup Refusal :
          q \in [handoff : {h}, version : 1 .. CurrentVersion(h), prior : 0 .. decisions[h][k].n,
                 kind : {k}, outcome : {o}, evidence : Evidence(k, o)]
    BY DEF Requests
  <1> PICK o \in Affirmative[k] \cup Refusal :
          q \in [handoff : {h}, version : 1 .. CurrentVersion(h), prior : 0 .. decisions[h][k].n,
                 kind : {k}, outcome : {o}, evidence : Evidence(k, o)]
    BY <1>1
  <1>2. o \in Outcomes
    BY DEF Outcomes
  <1>3. Evidence(k, o) \subseteq SUBSET (Checks \cup Diffs)
    BY DEF Evidence
  <1> QED
    BY <1>2, <1>3

\* What a transition does to the rows and their histories.
LEMMA MovedFacts ==
    ASSUME TypeOK, LastApprovals, NEW h \in Handoffs, NEW to, Moved(h, to),
           CurrentVersion(h)' \in Nat
    PROVE  /\ to \in Statuses \ {"none"}
           /\ to \in Graph[status[h]]
           /\ status' = [status EXCEPT ![h] = to]
           /\ transitions' \in [Handoffs -> Seq(Transition)]
           /\ transitions'[h] # <<>>
           /\ Reached(transitions'[h]) = to
           /\ HasLast(transitions'[h])
           /\ LastApproved(transitions'[h]) =
                IF to = "approved" THEN CurrentVersion(h)' ELSE LastApproved(transitions[h])
           /\ \A g \in Handoffs \ {h} : transitions'[g] = transitions[g]
  <1> DEFINE e == [to |-> to, version |-> CurrentVersion(h)']
  <1>1. to \in Statuses \ {"none"}
    BY StatusesAre DEF Moved, TypeOK, Graph
  <1>2. e \in Transition
    BY <1>1 DEF Transition
  <1>3. transitions \in [Handoffs -> Seq(Transition)] /\ HasLast(transitions[h])
    BY DEF TypeOK, Transition, LastApprovals
  <1>4. transitions' = [transitions EXCEPT ![h] = Append(@, e)]
    BY DEF Moved
  <1> DEFINE longer == Append(transitions[h], e)
  <1>5. /\ longer \in Seq(Transition) /\ longer # <<>>
        /\ Reached(longer) = e.to /\ HasLast(longer)
        /\ LastApproved(longer) =
             IF e.to = "approved" THEN e.version ELSE LastApproved(transitions[h])
    BY <1>2, <1>3, FurtherEntry
  <1> HIDE DEF longer
  <1>6. transitions'[h] = longer /\ \A g \in Handoffs \ {h} : transitions'[g] = transitions[g]
    BY <1>3, <1>4 DEF longer
  <1>7. transitions' \in [Handoffs -> Seq(Transition)]
    <2>1. longer = Append(transitions[h], e)
      BY DEF longer
    <2> HIDE DEF e
    <2> QED
      BY <1>3, <1>4, <1>5, <2>1
  <1> QED
    BY <1>1, <1>5, <1>6, <1>7 DEF Moved

\* What a transition preserves when it leaves the specification alone.
LEMMA MovedTyped ==
    ASSUME IInv, NEW h \in Handoffs, NEW to, Moved(h, to), UNCHANGED <<designVars, inventoryVars, rowVars>>,
           decisions' \in [Handoffs -> [Kinds -> Decision]],
           inputs' \in [Handoffs -> [approved : Nat, started : Nat]]
    PROVE  TypeOK' /\ Unborn' /\ LastApprovals'
  <1>1. CurrentVersion(h)' = CurrentVersion(h) /\ CurrentVersion(h) \in Nat
    BY LenProperties DEF CurrentVersion, rowVars, IInv, TypeOK
  <1>2. TypeOK /\ LastApprovals
    BY DEF IInv
  <1>3. /\ to \in Statuses \ {"none"}
        /\ status' = [status EXCEPT ![h] = to]
        /\ transitions' \in [Handoffs -> Seq(Transition)]
        /\ transitions'[h] # <<>>
        /\ Reached(transitions'[h]) = to
        /\ HasLast(transitions'[h])
        /\ \A g \in Handoffs \ {h} : transitions'[g] = transitions[g]
    BY <1>1, <1>2, MovedFacts
  <1>4. Unborn'
    BY <1>2, <1>3 DEF IInv, Unborn, TypeOK, rowVars
  <1>5. LastApprovals'
    BY <1>3 DEF IInv, LastApprovals
  <1>6. TypeOK'
    <2>1. status' \in [Handoffs -> Statuses]
      BY <1>2, <1>3 DEF TypeOK
    <2>2. \A g \in Handoffs : status'[g] = IF transitions'[g] = <<>> THEN "none"
                                           ELSE transitions'[g][Len(transitions'[g])].to
      BY <1>2, <1>3 DEF TypeOK, Reached
    <2> QED
      BY <1>2, <1>3, <2>1, <2>2 DEF TypeOK, Transition, designVars, inventoryVars, rowVars
  <1> QED
    BY <1>4, <1>5, <1>6

\* What a decision does to those there are.
LEMMA DecidedFacts ==
    ASSUME TypeOK, NEW h \in Handoffs, NEW q \in Requests(h), AsSeen(q), Decided(q)
    PROVE  /\ decisions' \in [Handoffs -> [Kinds -> Decision]]
           /\ \A g \in Handoffs, k \in Kinds :
                <<g, k>> # <<h, q.kind>> => decisions'[g][k] = decisions[g][k]
           /\ decisions'[h][q.kind].n = decisions[h][q.kind].n + 1
           /\ decisions'[h][q.kind].saw = decisions[h][q.kind].n
           /\ decisions'[h][q.kind].version = CurrentVersion(h)
  <1>1. /\ q.handoff = h /\ q.kind \in Kinds /\ q.outcome \in Outcomes
        /\ q.evidence \in SUBSET (Checks \cup Diffs)
    BY RequestType
  <1>2. q.version = CurrentVersion(h) /\ q.prior = decisions[h][q.kind].n
    BY <1>1 DEF AsSeen
  <1>3. decisions \in [Handoffs -> [Kinds -> Decision]] /\ decisions[h][q.kind].n \in Nat
    BY <1>1 DEF TypeOK, Decision
  <1>4. CurrentVersion(h) \in Nat
    BY LenProperties DEF CurrentVersion, TypeOK
  <1> DEFINE d == [n |-> decisions[h][q.kind].n + 1, saw |-> q.prior, outcome |-> q.outcome,
                   version |-> q.version, evidence |-> q.evidence]
  <1>5. d \in Decision
    BY <1>1, <1>2, <1>3, <1>4 DEF Decision
  <1>6. decisions' = [decisions EXCEPT ![h][q.kind] = d]
    BY <1>1, <1>3 DEF Decided
  <1>7. d.n = decisions[h][q.kind].n + 1 /\ d.saw = decisions[h][q.kind].n /\ d.version = CurrentVersion(h)
    BY <1>2
  <1> HIDE DEF d
  <1> QED
    BY <1>1, <1>3, <1>5, <1>6, <1>7

\* The actions about the design, the policy and the inventories.
Surroundings ==
    \/ CommitRevision \/ ArchiveDesign \/ RestoreArchivedDesign \/ UpdatePolicy
    \/ \E i \in Inventories : PersistRepositoryInventory(i) \/ RevokeRepositoryInventory(i)

LEMMA SurroundingsKeep ==
    ASSUME IInv, Surroundings \/ UNCHANGED vars
    PROVE  TypeOK' /\ UNCHANGED <<rowVars, stateVars, decisions, inputs>>
  <1>1. UNCHANGED <<rowVars, stateVars, decisions, inputs>>
    BY DEF Surroundings, CommitRevision, ArchiveDesign, RestoreArchivedDesign, UpdatePolicy,
           PersistRepositoryInventory, RevokeRepositoryInventory, vars
  <1>2. head' \in Nat
    BY DEF IInv, TypeOK, Surroundings, CommitRevision, ArchiveDesign, RestoreArchivedDesign,
           UpdatePolicy, PersistRepositoryInventory, RevokeRepositoryInventory, vars, designVars
  <1>3. archived' \in BOOLEAN
    BY Zenon DEF IInv, TypeOK, Surroundings, CommitRevision, ArchiveDesign, RestoreArchivedDesign,
           UpdatePolicy, PersistRepositoryInventory, RevokeRepositoryInventory, vars, designVars
  <1>4. policy' \in Policies
    BY DEF IInv, TypeOK, Surroundings, CommitRevision, ArchiveDesign, RestoreArchivedDesign,
           UpdatePolicy, PersistRepositoryInventory, RevokeRepositoryInventory, vars, inventoryVars
  <1>5. inventory' \in [Inventories -> {"absent", "active", "superseded", "revoked"}]
    <2>1. inventory \in [Inventories -> {"absent", "active", "superseded", "revoked"}]
      BY DEF IInv, TypeOK
    <2>2. CASE UNCHANGED inventory
      BY <2>1, <2>2
    <2>3. ASSUME NEW i \in Inventories, PersistRepositoryInventory(i)
          PROVE  inventory' \in [Inventories -> {"absent", "active", "superseded", "revoked"}]
      BY <2>1, <2>3 DEF PersistRepositoryInventory
    <2>4. ASSUME NEW i \in Inventories, RevokeRepositoryInventory(i)
          PROVE  inventory' \in [Inventories -> {"absent", "active", "superseded", "revoked"}]
      BY <2>1, <2>4 DEF RevokeRepositoryInventory
    <2> QED
      BY <2>2, <2>3, <2>4
      DEF Surroundings, CommitRevision, ArchiveDesign, RestoreArchivedDesign, UpdatePolicy, vars,
          inventoryVars
  <1> QED
    BY <1>1, <1>2, <1>3, <1>4, <1>5 DEF IInv, TypeOK, rowVars, stateVars

-----------------------------------------------------------------------------
(* Creation and editing, step by step.                                     *)

\* A handoff of which nothing changes.
LEMMA StillBuilt ==
    ASSUME NEW g, ApprovedAsItStands(g), CompletedWithLeave(g),
           UNCHANGED <<status[g], pin[g], specifications[g], transitions[g], decisions[g], inputs[g]>>
    PROVE  (ApprovedAsItStands(g) /\ CompletedWithLeave(g))'
  <1>1. ApprovedAsItStands(g)'
    BY DEF ApprovedAsItStands, Underway, ApprovedVersion, CurrentVersion
  <1>2. CompletedWithLeave(g)'
    BY DEF CompletedWithLeave, CurrentVersion, Holds, Current, Specification
  <1> QED
    BY <1>1, <1>2

LEMMA CreateKeeps ==
    ASSUME IInv, NEW h \in Handoffs, NEW i \in Inventories, NEW checks \in Plans,
           CreateHandoff(h, i, checks)
    PROVE  IInv'
  <1>1. /\ TypeOK /\ LastApprovals /\ status[h] = "none" /\ specifications[h] = <<>>
        /\ checks \in SUBSET Checks /\ Moved(h, "draft")
    BY HandoffAssumption DEF IInv, Unborn, CreateHandoff
  <1>2. /\ specifications' = [specifications EXCEPT ![h] = <<checks>>]
        /\ specifications' \in [Handoffs -> Seq(SUBSET Checks)]
        /\ CurrentVersion(h)' = 1
    BY <1>1 DEF CreateHandoff, TypeOK, CurrentVersion
  <1>3. /\ status' = [status EXCEPT ![h] = "draft"]
        /\ transitions' \in [Handoffs -> Seq(Transition)]
        /\ transitions'[h] # <<>>
        /\ Reached(transitions'[h]) = "draft"
        /\ HasLast(transitions'[h])
        /\ \A g \in Handoffs \ {h} : transitions'[g] = transitions[g]
    BY <1>1, <1>2, MovedFacts
  <1>4. /\ UNCHANGED <<designVars, inventoryVars, decisions, inputs>>
        /\ pin' = [pin EXCEPT ![h] = head] /\ source' = [source EXCEPT ![h] = i]
    BY DEF CreateHandoff
  <1>5. TypeOK'
    <2>1. status' \in [Handoffs -> Statuses]
      BY <1>1, <1>3, StatusesAre DEF TypeOK
    <2>2. \A g \in Handoffs : status'[g] = IF transitions'[g] = <<>> THEN "none"
                                           ELSE transitions'[g][Len(transitions'[g])].to
      BY <1>1, <1>3 DEF TypeOK, Reached
    <2>3. pin' \in [Handoffs -> Nat] /\ source' \in [Handoffs -> Inventories \cup {None}]
      BY <1>1, <1>4 DEF TypeOK
    <2> QED
      BY <1>1, <1>2, <1>3, <1>4, <2>1, <2>2, <2>3
      DEF TypeOK, Transition, designVars, inventoryVars
  <1>6. Unborn' /\ LastApprovals'
    BY <1>1, <1>2, <1>3 DEF IInv, Unborn, LastApprovals, TypeOK
  <1>7. \A g \in Handoffs \ {h} :
          /\ status'[g] = status[g] /\ pin'[g] = pin[g] /\ specifications'[g] = specifications[g]
          /\ transitions'[g] = transitions[g]
    BY <1>1, <1>2, <1>3, <1>4 DEF TypeOK
  <1>8. BuiltAsApproved'
    <2> SUFFICES ASSUME NEW g \in Handoffs
                 PROVE  (ApprovedAsItStands(g) /\ CompletedWithLeave(g))'
      BY DEF BuiltAsApproved
    <2>1. CASE g = h
      BY <1>1, <1>3, <2>1 DEF ApprovedAsItStands, CompletedWithLeave, Underway, TypeOK
    <2>2. CASE g # h
      <3>1. ApprovedAsItStands(g) /\ CompletedWithLeave(g)
        BY DEF IInv, BuiltAsApproved
      <3>2. UNCHANGED <<status[g], pin[g], specifications[g], transitions[g], decisions[g], inputs[g]>>
        BY <1>4, <1>7, <2>2
      <3> QED
        BY <3>1, <3>2, StillBuilt
    <2> QED
      BY <2>1, <2>2
  <1>9. DecidedInSight'
    <2>1. \A k \in Kinds : decisions[h][k].version = 0
      BY <1>1 DEF IInv, DecidedInSight, CurrentVersion, TypeOK, Decision
    <2> QED
      BY <1>2, <1>4, <1>7, <2>1 DEF IInv, DecidedInSight, CurrentVersion
  <1> QED
    BY <1>5, <1>6, <1>8, <1>9 DEF IInv

LEMMA UpdateKeeps ==
    ASSUME IInv, NEW h \in Handoffs, NEW checks \in Plans, UpdateHandoff(h, checks)
    PROVE  IInv'
  <1>1. TypeOK /\ status[h] = "draft" /\ checks \in SUBSET Checks
    BY HandoffAssumption DEF IInv, UpdateHandoff
  <1>2. specifications[h] \in Seq(SUBSET Checks)
    BY <1>1 DEF TypeOK
  <1>3. /\ Append(specifications[h], checks) \in Seq(SUBSET Checks)
        /\ Len(Append(specifications[h], checks)) = Len(specifications[h]) + 1
        /\ Len(specifications[h]) \in Nat
    BY <1>1, <1>2, AppendProperties, LenProperties
  <1>4. /\ UNCHANGED <<designVars, inventoryVars, pin, source, stateVars, decisions, inputs>>
        /\ specifications' = [specifications EXCEPT ![h] = Append(@, checks)]
    BY DEF UpdateHandoff
  <1>5. /\ specifications' \in [Handoffs -> Seq(SUBSET Checks)]
        /\ specifications'[h] = Append(specifications[h], checks)
        /\ \A g \in Handoffs \ {h} : specifications'[g] = specifications[g]
    BY <1>1, <1>3, <1>4 DEF TypeOK
  <1>6. TypeOK'
    BY <1>1, <1>4, <1>5 DEF TypeOK, designVars, inventoryVars, stateVars
  <1>7. Unborn' /\ LastApprovals'
    BY <1>1, <1>4, <1>5 DEF IInv, Unborn, LastApprovals, stateVars
  <1>8. BuiltAsApproved'
    <2> SUFFICES ASSUME NEW g \in Handoffs
                 PROVE  (ApprovedAsItStands(g) /\ CompletedWithLeave(g))'
      BY DEF BuiltAsApproved
    <2>1. CASE g = h
      BY <1>1, <1>4, <2>1 DEF ApprovedAsItStands, CompletedWithLeave, Underway, stateVars
    <2>2. CASE g # h
      <3>1. ApprovedAsItStands(g) /\ CompletedWithLeave(g)
        BY DEF IInv, BuiltAsApproved
      <3> QED
        BY <1>4, <1>5, <2>2, <3>1
        DEF ApprovedAsItStands, CompletedWithLeave, Underway, ApprovedVersion, CurrentVersion,
            Holds, Current, Specification, stateVars
    <2> QED
      BY <2>1, <2>2
  <1>9. DecidedInSight'
    <2>1. \A k \in Kinds : decisions[h][k].version \in Nat
      BY <1>1 DEF TypeOK, Decision
    <2> QED
      BY <1>3, <1>4, <1>5, <2>1 DEF IInv, DecidedInSight, CurrentVersion
  <1> QED
    BY <1>6, <1>7, <1>8, <1>9 DEF IInv

-----------------------------------------------------------------------------
(* Transitions and decisions, step by step.                                *)

\* What a step about h that edits no specification leaves of the other handoffs.
LEMMA OthersBuilt ==
    ASSUME IInv, NEW h \in Handoffs, UNCHANGED rowVars,
           \A g \in Handoffs \ {h} :
               /\ status'[g] = status[g] /\ transitions'[g] = transitions[g]
               /\ decisions'[g] = decisions[g] /\ inputs'[g] = inputs[g],
           ApprovedAsItStands(h)', CompletedWithLeave(h)'
    PROVE  BuiltAsApproved'
  <1> SUFFICES ASSUME NEW g \in Handoffs \ {h}
               PROVE  (ApprovedAsItStands(g) /\ CompletedWithLeave(g))'
    BY DEF BuiltAsApproved
  <1>1. ApprovedAsItStands(g) /\ CompletedWithLeave(g)
    BY DEF IInv, BuiltAsApproved
  <1> QED
    <2>1. UNCHANGED <<status[g], pin[g], specifications[g], transitions[g], decisions[g], inputs[g]>>
      BY DEF rowVars
    <2> QED
      BY <1>1, <2>1, StillBuilt

\* A transition that decides nothing, given what it has to show of h itself.
LEMMA TransitionKeeps ==
    ASSUME IInv, NEW h \in Handoffs, NEW to, Moved(h, to),
           UNCHANGED <<designVars, inventoryVars, rowVars, decisions>>,
           inputs' \in [Handoffs -> [approved : Nat, started : Nat]],
           \A g \in Handoffs \ {h} : inputs'[g] = inputs[g],
           ApprovedAsItStands(h)', CompletedWithLeave(h)'
    PROVE  IInv'
  <1>1. TypeOK /\ TypeOK' /\ Unborn' /\ LastApprovals'
    BY MovedTyped DEF IInv, TypeOK
  <1>2. CurrentVersion(h)' \in Nat
    BY <1>1, LenProperties DEF CurrentVersion, TypeOK
  <1>3. /\ status' = [status EXCEPT ![h] = to]
        /\ \A g \in Handoffs \ {h} : transitions'[g] = transitions[g]
    BY <1>2, MovedFacts DEF IInv
  <1>4. BuiltAsApproved'
    BY <1>1, <1>3, OthersBuilt DEF TypeOK
  <1>5. DecidedInSight'
    BY DEF IInv, DecidedInSight, CurrentVersion, rowVars
  <1> QED
    BY <1>1, <1>4, <1>5 DEF IInv

LEMMA ReviewKeeps ==
    ASSUME IInv, NEW h \in Handoffs,
           SubmitHandoffForReview(h) \/ ReturnHandoffToDraft(h) \/ CancelHandoff(h)
    PROVE  IInv'
  <1>1. PICK to \in {"in_review", "draft", "cancelled"} :
          Moved(h, to) /\ UNCHANGED <<designVars, inventoryVars, rowVars, decisions, inputs>>
    BY DEF SubmitHandoffForReview, ReturnHandoffToDraft, CancelHandoff
  <1>2. status'[h] = to
    BY <1>1 DEF IInv, TypeOK, Moved
  <1>3. ApprovedAsItStands(h)' /\ CompletedWithLeave(h)'
    BY <1>2 DEF ApprovedAsItStands, CompletedWithLeave, Underway
  <1>4. inputs' \in [Handoffs -> [approved : Nat, started : Nat]]
    BY <1>1 DEF IInv, TypeOK
  <1> QED
    BY <1>1, <1>3, <1>4, TransitionKeeps

\* The approved version of h, and that it is the current one, before a
\* transition that is no approval, and after it.
LEMMA StillApproved ==
    ASSUME IInv, NEW h \in Handoffs, NEW to \in {"implementing", "completed"}, Moved(h, to),
           Underway(h), UNCHANGED rowVars
    PROVE  /\ status'[h] = to
           /\ (ApprovedVersion(h) = CurrentVersion(h))'
           /\ inputs[h].approved = pin'[h]
  <1>1. CurrentVersion(h)' = CurrentVersion(h) /\ CurrentVersion(h) \in Nat
    BY LenProperties DEF CurrentVersion, rowVars, IInv, TypeOK
  <1>2. /\ status' = [status EXCEPT ![h] = to]
        /\ LastApproved(transitions'[h]) = LastApproved(transitions[h])
    BY <1>1, MovedFacts DEF IInv
  <1>3. ApprovedVersion(h) = CurrentVersion(h) /\ inputs[h].approved = pin[h]
    BY DEF IInv, BuiltAsApproved, ApprovedAsItStands
  <1>4. ApprovedVersion(h) = LastApproved(transitions[h])
    BY ApprovedByHistory
  <1>5. ApprovedVersion(h)' = LastApproved(transitions'[h])
    BY DEF ApprovedVersion, LastApproved, Approvals
  <1> QED
    BY <1>1, <1>2, <1>3, <1>4, <1>5 DEF IInv, TypeOK, rowVars

LEMMA StartKeeps ==
    ASSUME IInv, NEW h \in Handoffs, StartHandoffImplementation(h)
    PROVE  IInv'
  <1>1. /\ status[h] = "approved" /\ Moved(h, "implementing") /\ head = pin[h]
        /\ UNCHANGED <<designVars, inventoryVars, rowVars, decisions>>
        /\ inputs' = [inputs EXCEPT ![h].started = head]
        /\ TypeOK
    BY DEF StartHandoffImplementation, CurrentInputs, IInv
  <1>2. /\ inputs' \in [Handoffs -> [approved : Nat, started : Nat]]
        /\ inputs'[h].approved = inputs[h].approved /\ inputs'[h].started = head
        /\ \A g \in Handoffs \ {h} : inputs'[g] = inputs[g]
    BY <1>1 DEF TypeOK
  <1>3. /\ status'[h] = "implementing" /\ (ApprovedVersion(h) = CurrentVersion(h))'
        /\ inputs[h].approved = pin'[h]
    BY <1>1, StillApproved DEF Underway
  <1>4. ApprovedAsItStands(h)' /\ CompletedWithLeave(h)'
    BY <1>1, <1>2, <1>3 DEF ApprovedAsItStands, CompletedWithLeave, rowVars
  <1> QED
    BY <1>1, <1>2, <1>4, TransitionKeeps

LEMMA CompleteKeeps ==
    ASSUME IInv, NEW h \in Handoffs, CompleteHandoffImplementation(h)
    PROVE  IInv'
  <1>1. /\ status[h] = "implementing" /\ Moved(h, "completed") /\ Completable(h)
        /\ UNCHANGED <<designVars, inventoryVars, rowVars, decisions, inputs>>
        /\ TypeOK
    BY DEF CompleteHandoffImplementation, IInv
  <1>2. inputs' \in [Handoffs -> [approved : Nat, started : Nat]]
    BY <1>1 DEF TypeOK
  <1>3. /\ status'[h] = "completed" /\ (ApprovedVersion(h) = CurrentVersion(h))'
        /\ inputs[h].approved = pin'[h]
    BY <1>1, StillApproved DEF Underway
  <1>4. inputs[h].started = pin[h]
    BY <1>1 DEF IInv, BuiltAsApproved, ApprovedAsItStands
  <1>5. ApprovedAsItStands(h)'
    BY <1>1, <1>3, <1>4 DEF ApprovedAsItStands, rowVars
  <1>6. CompletedWithLeave(h)'
    BY <1>1 DEF Completable, CompletedWithLeave, Holds, Current, Specification, CurrentVersion, rowVars
  <1> QED
    BY <1>1, <1>2, <1>5, <1>6, TransitionKeeps

\* A decision as its author saw things is in sight of those before it.
LEMMA SightKept ==
    ASSUME IInv, NEW h \in Handoffs, NEW q \in Requests(h), AsSeen(q), Decided(q), UNCHANGED rowVars
    PROVE  DecidedInSight'
  <1>1. /\ decisions' \in [Handoffs -> [Kinds -> Decision]]
        /\ \A g \in Handoffs, k \in Kinds :
             <<g, k>> # <<h, q.kind>> => decisions'[g][k] = decisions[g][k]
        /\ decisions'[h][q.kind].n = decisions[h][q.kind].n + 1
        /\ decisions'[h][q.kind].saw = decisions[h][q.kind].n
        /\ decisions'[h][q.kind].version = CurrentVersion(h)
    BY DecidedFacts DEF IInv
  <1>2. q.kind \in Kinds
    BY RequestType DEF IInv
  <1>3. decisions[h][q.kind].n \in Nat /\ CurrentVersion(h) \in Nat
    BY <1>2, LenProperties DEF IInv, TypeOK, Decision, CurrentVersion
  <1>4. UNCHANGED specifications
    BY DEF rowVars
  <1> SUFFICES ASSUME NEW g \in Handoffs, NEW k \in Kinds
               PROVE  /\ decisions'[g][k].n > 0 => decisions'[g][k].saw = decisions'[g][k].n - 1
                      /\ decisions'[g][k].version <= CurrentVersion(g)'
    BY DEF DecidedInSight
  <1>5. CASE g = h /\ k = q.kind
    BY <1>1, <1>3, <1>4, <1>5 DEF CurrentVersion
  <1>6. CASE <<g, k>> # <<h, q.kind>>
    BY <1>1, <1>4, <1>6 DEF IInv, DecidedInSight, CurrentVersion
  <1> QED
    BY <1>5, <1>6

LEMMA RecordKeeps ==
    ASSUME IInv, NEW h \in Handoffs, NEW q \in Requests(h), RecordHandoffExecutionDecision(q)
    PROVE  IInv'
  <1>1. TypeOK /\ q.handoff = h /\ q.kind \in Kinds
    BY RequestType DEF IInv
  <1>2. /\ AsSeen(q) /\ Decided(q) /\ LifecycleAllows(h, q.kind, q.outcome)
        /\ UNCHANGED <<designVars, inventoryVars, rowVars, stateVars, inputs>>
    BY <1>1 DEF RecordHandoffExecutionDecision
  <1>3. /\ decisions' \in [Handoffs -> [Kinds -> Decision]]
        /\ \A g \in Handoffs, k \in Kinds :
             <<g, k>> # <<h, q.kind>> => decisions'[g][k] = decisions[g][k]
    BY <1>1, <1>2, DecidedFacts
  <1>4. TypeOK' /\ Unborn' /\ LastApprovals'
    BY <1>1, <1>2, <1>3
    DEF IInv, TypeOK, Unborn, LastApprovals, designVars, inventoryVars, rowVars, stateVars
  <1>5. status[h] # "completed"
    BY <1>1, <1>2 DEF LifecycleAllows
  <1>6. ApprovedAsItStands(h)' /\ CompletedWithLeave(h)'
    BY <1>2, <1>5
    DEF IInv, BuiltAsApproved, ApprovedAsItStands, CompletedWithLeave, Underway, ApprovedVersion,
        CurrentVersion, rowVars, stateVars
  <1>7. \A g \in Handoffs \ {h} : decisions'[g] = decisions[g]
    BY <1>1, <1>3 DEF TypeOK
  <1>8. BuiltAsApproved'
    BY <1>2, <1>6, <1>7, OthersBuilt DEF stateVars
  <1>9. DecidedInSight'
    BY <1>2, SightKept
  <1> QED
    BY <1>4, <1>8, <1>9 DEF IInv

LEMMA ApproveKeeps ==
    ASSUME IInv, NEW h \in Handoffs, NEW q \in Requests(h), ApproveHandoff(q)
    PROVE  IInv'
  <1>1. TypeOK /\ q.handoff = h /\ q.kind \in Kinds
    BY RequestType DEF IInv
  <1>2. /\ AsSeen(q) /\ Decided(q) /\ Moved(h, "approved") /\ head = pin[h]
        /\ UNCHANGED <<designVars, inventoryVars, rowVars>>
        /\ inputs' = [inputs EXCEPT ![h].approved = head]
    BY <1>1 DEF ApproveHandoff, CurrentInputs
  <1>3. /\ inputs' \in [Handoffs -> [approved : Nat, started : Nat]]
        /\ inputs'[h].approved = head
        /\ \A g \in Handoffs \ {h} : inputs'[g] = inputs[g]
    <2>1. inputs \in [Handoffs -> [approved : Nat, started : Nat]] /\ head \in Nat
      BY <1>1 DEF TypeOK
    <2> HIDE <1>1
    <2> QED
      BY <1>2, <2>1
  <1>4. /\ decisions' \in [Handoffs -> [Kinds -> Decision]]
        /\ \A g \in Handoffs, k \in Kinds :
             <<g, k>> # <<h, q.kind>> => decisions'[g][k] = decisions[g][k]
    BY <1>1, <1>2, DecidedFacts
  <1>5. TypeOK' /\ Unborn' /\ LastApprovals'
    BY <1>2, <1>3, <1>4, MovedTyped
  <1>6. CurrentVersion(h)' \in Nat
    BY <1>5, LenProperties DEF TypeOK, CurrentVersion
  <1>7. /\ status' = [status EXCEPT ![h] = "approved"]
        /\ LastApproved(transitions'[h]) = CurrentVersion(h)'
        /\ \A g \in Handoffs \ {h} : transitions'[g] = transitions[g]
    BY <1>1, <1>2, <1>6, MovedFacts DEF IInv
  <1>8. ApprovedVersion(h)' = LastApproved(transitions'[h])
    BY DEF ApprovedVersion, LastApproved, Approvals
  <1>9. status'[h] = "approved" /\ \A g \in Handoffs \ {h} : status'[g] = status[g]
    BY <1>1, <1>7 DEF TypeOK
  <1>10. ApprovedAsItStands(h)' /\ CompletedWithLeave(h)'
    BY <1>2, <1>3, <1>7, <1>8, <1>9 DEF ApprovedAsItStands, CompletedWithLeave, rowVars
  <1>11. \A g \in Handoffs \ {h} : decisions'[g] = decisions[g]
    BY <1>1, <1>4 DEF TypeOK
  <1>12. BuiltAsApproved'
    BY <1>2, <1>3, <1>7, <1>9, <1>10, <1>11, OthersBuilt
  <1>13. DecidedInSight'
    BY <1>2, SightKept
  <1> QED
    BY <1>5, <1>12, <1>13 DEF IInv

-----------------------------------------------------------------------------
(* The invariants.                                                         *)

LEMMA InitIInv == Init => IInv
  <1> SUFFICES ASSUME Init PROVE IInv
    OBVIOUS
  <1>1. Undecided \in Decision
    BY DEF Undecided, Decision
  <1>2. TypeOK
    <2>1. decisions \in [Handoffs -> [Kinds -> Decision]]
      BY <1>1 DEF Init
    <2>2. archived \in BOOLEAN
      BY Zenon DEF Init
    <2> QED
      BY <2>1, <2>2, StatusesAre DEF Init, TypeOK
  <1>3. Unborn /\ LastApprovals
    BY DEF Init, Unborn, LastApprovals, HasLast, Approvals
  <1>4. BuiltAsApproved
    BY DEF Init, BuiltAsApproved, ApprovedAsItStands, CompletedWithLeave, Underway
  <1>5. DecidedInSight
    BY DEF Init, DecidedInSight, Undecided, CurrentVersion
  <1> QED
    BY <1>2, <1>3, <1>4, <1>5 DEF IInv

LEMMA NextIInv == IInv /\ [Next]_vars => IInv'
  <1> SUFFICES ASSUME IInv, [Next]_vars PROVE IInv'
    OBVIOUS
  <1>1. CASE Surroundings \/ UNCHANGED vars
    <2>1. TypeOK' /\ UNCHANGED <<rowVars, stateVars, decisions, inputs>>
      BY <1>1, SurroundingsKeep
    <2>2. Unborn' /\ LastApprovals'
      BY <2>1 DEF IInv, Unborn, LastApprovals, rowVars, stateVars
    <2>3. BuiltAsApproved'
      <3> SUFFICES ASSUME NEW g \in Handoffs
                   PROVE  (ApprovedAsItStands(g) /\ CompletedWithLeave(g))'
        BY DEF BuiltAsApproved
      <3>1. ApprovedAsItStands(g) /\ CompletedWithLeave(g)
        BY DEF IInv, BuiltAsApproved
      <3>2. UNCHANGED <<status[g], pin[g], specifications[g], transitions[g], decisions[g], inputs[g]>>
        BY <2>1 DEF rowVars, stateVars
      <3> QED
        BY <3>1, <3>2, StillBuilt
    <2>4. DecidedInSight'
      BY <2>1 DEF IInv, DecidedInSight, CurrentVersion, rowVars, stateVars
    <2> QED
      BY <2>1, <2>2, <2>3, <2>4 DEF IInv
  <1>2. ASSUME NEW h \in Handoffs, NEW i \in Inventories, NEW checks \in Plans,
               CreateHandoff(h, i, checks)
        PROVE  IInv'
    BY <1>2, CreateKeeps
  <1>3. ASSUME NEW h \in Handoffs, NEW checks \in Plans, UpdateHandoff(h, checks)
        PROVE  IInv'
    BY <1>3, UpdateKeeps
  <1>4. ASSUME NEW h \in Handoffs,
               SubmitHandoffForReview(h) \/ ReturnHandoffToDraft(h) \/ CancelHandoff(h)
        PROVE  IInv'
    BY <1>4, ReviewKeeps
  <1>5. ASSUME NEW h \in Handoffs, StartHandoffImplementation(h)
        PROVE  IInv'
    BY <1>5, StartKeeps
  <1>6. ASSUME NEW h \in Handoffs, CompleteHandoffImplementation(h)
        PROVE  IInv'
    BY <1>6, CompleteKeeps
  <1>7. ASSUME NEW h \in Handoffs, NEW q \in Requests(h), RecordHandoffExecutionDecision(q)
        PROVE  IInv'
    BY <1>7, RecordKeeps
  <1>8. ASSUME NEW h \in Handoffs, NEW q \in Requests(h), ApproveHandoff(q)
        PROVE  IInv'
    BY <1>8, ApproveKeeps
  <1> QED
    BY <1>1, <1>2, <1>3, <1>4, <1>5, <1>6, <1>7, <1>8 DEF Next, Surroundings

LEMMA IInvAlways == Spec => []IInv
  BY InitIInv, NextIInv, PTL DEF Spec

\* The rows have the columns the schema allows, and every history leads to the
\* status beside it, which is what assertTransitionHistory relies on.
THEOREM TypeCorrect == Spec => []TypeOK
  BY IInvAlways, PTL DEF IInv

\* What is started and completed is the version that was approved, on the
\* revision it is pinned to, with every leave that completion asks for.
THEOREM BuiltAsApprovedAlways == Spec => []BuiltAsApproved
  BY IInvAlways, PTL DEF IInv

\* However late or often a decision is delivered, it is recorded over the one
\* its author saw or not at all.
THEOREM DecidedInSightAlways == Spec => []DecidedInSight
  BY IInvAlways, PTL DEF IInv

-----------------------------------------------------------------------------
(* Redesign assessments.                                                   *)

StudioTypes ==
    /\ phase \in [Assessments -> {"none", "active", "completed", "cancelled"}]
    /\ stage \in [Assessments -> Stages]
    /\ base \in [Assessments -> [design : 0 .. head, inventory : Inventories \cup {None}]]
    /\ artifacts \in [Assessments -> [Stages -> Readiness]]
    /\ mapped \subseteq (1 .. head) \X Inventories
    /\ disturbed \in [Assessments -> BOOLEAN]

\* Neither a revision nor an inventory comes back: when what an assessment is
\* bound to has changed, it is not current any more.
Drifted(a) ==
    \/ base[a].design # 0 /\ base[a].design < head
    \/ base[a].inventory # None /\ inventory[base[a].inventory] \in {"superseded", "revoked"}

DriftTold(a) ==
    /\ phase[a] = "none" => ~disturbed[a] /\ stage[a] = "connect_inspect"
    /\ phase[a] = "active" =>
          /\ base[a].inventory # None => inventory[base[a].inventory] # "absent"
          /\ disturbed[a] => Drifted(a)

\* The inductive invariant.  Completion looks at what is current only once, at
\* the end; DriftTold is why that is enough for all the time before.
StudioIInv ==
    /\ IInv /\ StudioTypes
    /\ \A a \in Assessments : PassedInOrder(a) /\ CompletedUndisturbed(a) /\ DriftTold(a)

LEMMA StagesAre ==
    /\ Stages = {"connect_inspect", "document_current_state", "pm_interview",
                 "future_state_proposal", "design", "handoff", "approved_implementation"}
    /\ \A s \in Stages : Index[s] \in 1 .. 7
    /\ \A s, t \in Stages : Index[s] = Index[t] => s = t
    /\ Index["connect_inspect"] = 1
    /\ Index["future_state_proposal"] = 4
    /\ Index["approved_implementation"] = 7
  BY DEF Stages, Index

\* What may happen to the design and the inventories.
LEMMA SurroundingsDrift ==
    ASSUME IInv, [Next]_vars
    PROVE  /\ head \in Nat /\ head' \in Nat /\ head <= head'
           /\ \A i \in Inventories :
                /\ inventory[i] # "absent" => inventory'[i] # "absent"
                /\ inventory'[i] # inventory[i] /\ inventory[i] # "absent"
                      => inventory'[i] \in {"superseded", "revoked"}
                /\ inventory[i] \in {"superseded", "revoked"}
                      => inventory'[i] \in {"superseded", "revoked"}
  <1>1. TypeOK /\ TypeOK'
    BY NextIInv DEF IInv
  <1>2. CASE Surroundings \/ UNCHANGED vars
    <2>1. head \in Nat /\ head' \in Nat /\ (head' = head \/ head' = head + 1)
      BY <1>1, <1>2
      DEF TypeOK, Surroundings, CommitRevision, ArchiveDesign, RestoreArchivedDesign, UpdatePolicy,
          PersistRepositoryInventory, RevokeRepositoryInventory, vars, designVars
    <2>2. CASE UNCHANGED inventory
      BY <1>1, <2>1, <2>2 DEF TypeOK
    <2>3. ASSUME NEW j \in Inventories, PersistRepositoryInventory(j)
          PROVE  \A i \in Inventories :
                   \/ inventory'[i] = inventory[i]
                   \/ inventory[i] = "absent" /\ inventory'[i] = "active"
                   \/ inventory[i] = "active" /\ inventory'[i] = "superseded"
      BY <1>1, <2>3 DEF TypeOK, PersistRepositoryInventory
    <2>4. ASSUME NEW j \in Inventories, RevokeRepositoryInventory(j)
          PROVE  \A i \in Inventories :
                   \/ inventory'[i] = inventory[i]
                   \/ inventory[i] # "absent" /\ inventory'[i] = "revoked"
      BY <1>1, <2>4 DEF TypeOK, RevokeRepositoryInventory
    <2> QED
      BY <1>2, <2>1, <2>2, <2>3, <2>4
      DEF Surroundings, CommitRevision, ArchiveDesign, RestoreArchivedDesign, UpdatePolicy, vars,
          inventoryVars
  <1>3. CASE ~(Surroundings \/ UNCHANGED vars)
    <2>1. UNCHANGED designVars /\ UNCHANGED inventoryVars
      BY <1>3
      DEF Next, Surroundings, CreateHandoff, UpdateHandoff, SubmitHandoffForReview,
          ReturnHandoffToDraft, CancelHandoff, StartHandoffImplementation,
          CompleteHandoffImplementation, RecordHandoffExecutionDecision, ApproveHandoff, vars
    <2> QED
      BY <1>1, <2>1 DEF TypeOK, designVars, inventoryVars
  <1> QED
    BY <1>2, <1>3

\* Handoffs, commits, scans and revocations beside the assessments.
LEMMA BesideKeeps ==
    ASSUME StudioIInv, Next, Disturbing, UNCHANGED studioVars
    PROVE  StudioIInv'
  <1>1. IInv /\ IInv'
    BY NextIInv DEF StudioIInv
  <1>2. /\ head \in Nat /\ head' \in Nat /\ head <= head'
        /\ \A i \in Inventories :
             /\ inventory[i] # "absent" => inventory'[i] # "absent"
             /\ inventory'[i] # inventory[i] /\ inventory[i] # "absent"
                   => inventory'[i] \in {"superseded", "revoked"}
             /\ inventory[i] \in {"superseded", "revoked"}
                   => inventory'[i] \in {"superseded", "revoked"}
    BY <1>1, SurroundingsDrift
  <1>3. StudioTypes'
    <2>1. base' \in [Assessments -> [design : 0 .. head', inventory : Inventories \cup {None}]]
      BY <1>2 DEF StudioIInv, StudioTypes, studioVars
    <2>2. mapped' \subseteq (1 .. head') \X Inventories
      BY <1>2 DEF StudioIInv, StudioTypes, studioVars
    <2>3. disturbed' \in [Assessments -> BOOLEAN]
      BY Zenon DEF Disturbing
    <2> QED
      BY <2>1, <2>2, <2>3 DEF StudioIInv, StudioTypes, studioVars
  <1> SUFFICES ASSUME NEW a \in Assessments
               PROVE  (PassedInOrder(a) /\ CompletedUndisturbed(a) /\ DriftTold(a))'
    BY <1>1, <1>3 DEF StudioIInv
  <1>4. PassedInOrder(a)'
    BY DEF StudioIInv, PassedInOrder, FutureStateEvidence, studioVars
  <1>5. disturbed'[a] <=>
          \/ disturbed[a]
          \/ /\ phase[a] = "active"
             /\ \/ base[a].design # 0 /\ head' # head
                \/ base[a].inventory # None
                     /\ inventory'[base[a].inventory] # inventory[base[a].inventory]
    BY Zenon DEF Disturbing
  <1>6. CompletedUndisturbed(a)'
    BY <1>5 DEF StudioIInv, CompletedUndisturbed, studioVars
  <1>7. /\ base[a].design \in 0 .. head /\ base[a].inventory \in Inventories \cup {None}
        /\ DriftTold(a) /\ UNCHANGED <<phase, stage, base>>
    BY DEF StudioIInv, StudioTypes, studioVars
  <1>8. DriftTold(a)'
    <2>1. CASE phase[a] # "active"
      BY <1>5, <1>7, <2>1 DEF DriftTold
    <2>2. CASE phase[a] = "active"
      <3>1. Drifted(a) => Drifted(a)'
        BY <1>2, <1>7 DEF Drifted
      <3>2. base[a].design # 0 /\ head' # head => Drifted(a)'
        BY <1>2, <1>7 DEF Drifted
      <3>3. base[a].inventory # None
              /\ inventory'[base[a].inventory] # inventory[base[a].inventory] => Drifted(a)'
        BY <1>2, <1>7, <2>2 DEF Drifted, DriftTold
      <3>4. base[a].inventory # None => inventory'[base[a].inventory] # "absent"
        BY <1>2, <1>7, <2>2 DEF DriftTold
      <3> QED
        BY <1>5, <1>7, <2>2, <3>1, <3>2, <3>3, <3>4 DEF DriftTold
    <2> QED
      BY <2>1, <2>2
  <1> QED
    BY <1>4, <1>6, <1>8

\* What an operation of the studio leaves alone, and of the other assessments.
LEMMA StudioStepOthers ==
    ASSUME StudioIInv, UNCHANGED <<vars, mapped, disturbed>>, StudioTypes', NEW a \in Assessments,
           \A b \in Assessments \ {a} :
               /\ phase'[b] = phase[b] /\ stage'[b] = stage[b]
               /\ base'[b] = base[b] /\ artifacts'[b] = artifacts[b],
           PassedInOrder(a)', CompletedUndisturbed(a)', DriftTold(a)'
    PROVE  StudioIInv'
  <1>1. IInv'
    BY NextIInv DEF StudioIInv
  <1> SUFFICES ASSUME NEW b \in Assessments \ {a}
               PROVE  (PassedInOrder(b) /\ CompletedUndisturbed(b) /\ DriftTold(b))'
    BY <1>1 DEF StudioIInv
  <1>2. PassedInOrder(b) /\ CompletedUndisturbed(b) /\ DriftTold(b)
    BY DEF StudioIInv
  <1>3. UNCHANGED <<phase[b], stage[b], base[b], artifacts[b], mapped, disturbed, head, inventory>>
    BY DEF vars, designVars, inventoryVars
  <1>4. PassedInOrder(b)'
    BY <1>2, <1>3 DEF PassedInOrder, FutureStateEvidence
  <1>5. CompletedUndisturbed(b)'
    BY <1>2, <1>3 DEF CompletedUndisturbed
  <1>6. DriftTold(b)'
    BY <1>2, <1>3 DEF DriftTold, Drifted
  <1> QED
    BY <1>4, <1>5, <1>6

LEMMA MappingKeeps ==
    ASSUME StudioIInv, NEW i \in Inventories, NEW v \in 1 .. head,
           CreateImplementationMappings(v, i), UNCHANGED vars
    PROVE  StudioIInv'
  <1>1. /\ mapped' = mapped \cup {<<v, i>>}
        /\ UNCHANGED <<phase, stage, base, artifacts, disturbed, head, inventory>>
    BY DEF CreateImplementationMappings, vars, designVars, inventoryVars
  <1>2. IInv'
    BY NextIInv DEF StudioIInv
  <1>3. StudioTypes'
    BY <1>1 DEF StudioIInv, StudioTypes
  <1>4. \A a \in Assessments : PassedInOrder(a)'
    BY <1>1 DEF StudioIInv, PassedInOrder, FutureStateEvidence
  <1>5. \A a \in Assessments : CompletedUndisturbed(a)'
    BY <1>1 DEF StudioIInv, CompletedUndisturbed
  <1>6. \A a \in Assessments : DriftTold(a)'
    BY <1>1 DEF StudioIInv, DriftTold, Drifted
  <1> QED
    BY <1>2, <1>3, <1>4, <1>5, <1>6 DEF StudioIInv

LEMMA CreateAssessmentKeeps ==
    ASSUME StudioIInv, NEW a \in Assessments, NEW version \in {0, head},
           NEW i \in Inventories \cup {None}, CreateOneClickAssessment(a, version, i), UNCHANGED vars
    PROVE  StudioIInv'
  <1>1. /\ phase[a] = "none" /\ version \in 0 .. head
        /\ i # None => inventory[i] = "active"
        /\ phase' = [phase EXCEPT ![a] = "active"]
        /\ base' = [base EXCEPT ![a] = [design |-> version, inventory |-> i]]
        /\ UNCHANGED <<stage, artifacts, mapped, disturbed, head, inventory>>
    BY DEF CreateOneClickAssessment, vars, designVars, inventoryVars, StudioIInv, IInv, TypeOK
  <1>2. StudioTypes'
    BY <1>1 DEF StudioIInv, StudioTypes
  <1>3. /\ phase'[a] = "active" /\ base'[a] = [design |-> version, inventory |-> i]
        /\ \A b \in Assessments \ {a} : phase'[b] = phase[b] /\ base'[b] = base[b]
    BY <1>1 DEF StudioIInv, StudioTypes
  <1>4. DriftTold(a)'
    BY <1>1, <1>3 DEF StudioIInv, DriftTold
  <1>5. CompletedUndisturbed(a)'
    BY <1>3 DEF CompletedUndisturbed
  <1>6. PassedInOrder(a)'
    <2>1. stage[a] = "connect_inspect"
      BY <1>1 DEF StudioIInv, DriftTold
    <2> QED
      BY <1>1, <2>1, StagesAre DEF PassedInOrder
  <1> QED
    BY <1>1, <1>2, <1>3, <1>4, <1>5, <1>6, StudioStepOthers

LEMMA ReviseKeeps ==
    ASSUME StudioIInv, NEW a \in Assessments, NEW s \in Stages, NEW readiness \in Readiness,
           ReviseStageArtifact(a, s, readiness), UNCHANGED vars
    PROVE  StudioIInv'
  <1>1. /\ phase[a] = "active" /\ s = stage[a]
        /\ artifacts' = [artifacts EXCEPT ![a][s] = readiness]
        /\ UNCHANGED <<phase, stage, base, mapped, disturbed, head, inventory>>
    BY DEF ReviseStageArtifact, Open, vars, designVars, inventoryVars
  <1>2. StudioTypes'
    BY <1>1 DEF StudioIInv, StudioTypes
  <1>3. /\ \A t \in Stages \ {s} : artifacts'[a][t] = artifacts[a][t]
        /\ \A b \in Assessments \ {a} : artifacts'[b] = artifacts[b]
    BY <1>1 DEF StudioIInv, StudioTypes
  <1>4. PassedInOrder(a)'
    <2>1. PassedInOrder(a) /\ Index[s] \in 1 .. 7
      BY StagesAre DEF StudioIInv
    <2> QED
      BY <1>1, <1>3, <2>1 DEF PassedInOrder, FutureStateEvidence
  <1>5. CompletedUndisturbed(a)'
    BY <1>1 DEF CompletedUndisturbed
  <1>6. DriftTold(a)'
    BY <1>1 DEF StudioIInv, DriftTold, Drifted
  <1> QED
    BY <1>1, <1>2, <1>3, <1>4, <1>5, <1>6, StudioStepOthers

LEMMA MoveKeeps ==
    ASSUME StudioIInv, NEW a \in Assessments, NEW s \in Stages,
           Advance(a, s) \/ Return(a, s), UNCHANGED vars
    PROVE  StudioIInv'
  <1>1. /\ phase[a] = "active"
        /\ stage' = [stage EXCEPT ![a] = s]
        /\ UNCHANGED <<phase, base, artifacts, mapped, disturbed, head, inventory>>
    BY DEF Advance, Return, Open, vars, designVars, inventoryVars
  <1>2. StudioTypes'
    BY <1>1 DEF StudioIInv, StudioTypes
  <1>3. /\ stage[a] \in Stages /\ stage'[a] = s
        /\ \A b \in Assessments \ {a} : stage'[b] = stage[b]
        /\ PassedInOrder(a)
    BY <1>1 DEF StudioIInv, StudioTypes
  <1>4. PassedInOrder(a)'
    <2>1. CASE Return(a, s)
      <3>1. Index[s] < Index[stage[a]] /\ Index[s] \in 1 .. 7 /\ Index[stage[a]] \in 1 .. 7
        BY <1>3, <2>1, StagesAre DEF Return
      <3> QED
        BY <1>1, <1>3, <3>1, StagesAre DEF PassedInOrder, FutureStateEvidence
    <2>2. CASE Advance(a, s)
      <3>1. /\ Index[s] = Index[stage[a]] + 1 /\ artifacts[a][stage[a]] \in Required(stage[a])
            /\ s = "future_state_proposal" => FutureStateEvidence(a)
        BY <2>2 DEF Advance, CurrentStageReady
      <3>2. \A t \in Stages : Index[t] < Index[s] => t = stage[a] \/ Index[t] < Index[stage[a]]
        BY <1>3, <3>1, StagesAre
      <3>3. Index[s] >= Index["future_state_proposal"]
              => s = "future_state_proposal" \/ Index[stage[a]] >= Index["future_state_proposal"]
        BY <1>3, <3>1, StagesAre
      <3> QED
        BY <1>1, <1>3, <3>1, <3>2, <3>3 DEF PassedInOrder, FutureStateEvidence
    <2> QED
      BY <2>1, <2>2
  <1>5. CompletedUndisturbed(a)'
    BY <1>1 DEF CompletedUndisturbed
  <1>6. DriftTold(a)'
    BY <1>1 DEF StudioIInv, DriftTold, Drifted
  <1> QED
    BY <1>1, <1>2, <1>3, <1>4, <1>5, <1>6, StudioStepOthers

\* At the end of the seven stages both are bound and, being current, have been
\* so all along.
LEMMA CompleteAssessmentKeeps ==
    ASSUME StudioIInv, NEW a \in Assessments, Complete(a), UNCHANGED vars
    PROVE  StudioIInv'
  <1>1. /\ phase[a] = "active" /\ stage[a] = "approved_implementation"
        /\ artifacts[a][stage[a]] \in Required(stage[a])
        /\ SourceBindingsCurrent(a)
        /\ phase' = [phase EXCEPT ![a] = "completed"]
        /\ UNCHANGED <<stage, base, artifacts, mapped, disturbed, head, inventory>>
    BY DEF Complete, Open, CurrentStageReady, vars, designVars, inventoryVars
  <1>2. StudioTypes'
    BY <1>1 DEF StudioIInv, StudioTypes
  <1>3. /\ phase'[a] = "completed"
        /\ \A b \in Assessments \ {a} : phase'[b] = phase[b]
        /\ PassedInOrder(a) /\ DriftTold(a)
    BY <1>1 DEF StudioIInv, StudioTypes
  <1>4. base[a].design \in 1 .. head /\ base[a].inventory \in Inventories
    BY <1>1, <1>3, StagesAre DEF PassedInOrder, FutureStateEvidence, StudioIInv, StudioTypes
  <1>5. base[a].inventory # None
    BY <1>4, HandoffAssumption
  <1>6. head = base[a].design /\ inventory[base[a].inventory] = "active"
    BY <1>1, <1>4, <1>5 DEF SourceBindingsCurrent, SoleActive
  <1>7. ~disturbed[a]
    BY <1>1, <1>3, <1>4, <1>5, <1>6 DEF DriftTold, Drifted, StudioIInv, IInv, TypeOK
  <1>8. \A s \in Stages : artifacts[a][s] \in Required(s)
    <2>1. \A s \in Stages : s = stage[a] \/ Index[s] < Index[stage[a]]
      BY <1>1, StagesAre
    <2> QED
      BY <1>1, <1>3, <2>1 DEF PassedInOrder
  <1>9. CompletedUndisturbed(a)'
    BY <1>1, <1>4, <1>5, <1>7, <1>8 DEF CompletedUndisturbed
  <1>10. PassedInOrder(a)' /\ DriftTold(a)'
    BY <1>1, <1>3 DEF PassedInOrder, FutureStateEvidence, DriftTold
  <1> QED
    BY <1>1, <1>2, <1>3, <1>9, <1>10, StudioStepOthers

LEMMA CancelAssessmentKeeps ==
    ASSUME StudioIInv, NEW a \in Assessments, Cancel(a), UNCHANGED vars
    PROVE  StudioIInv'
  <1>1. /\ phase' = [phase EXCEPT ![a] = "cancelled"]
        /\ UNCHANGED <<stage, base, artifacts, mapped, disturbed, head, inventory>>
    BY DEF Cancel, vars, designVars, inventoryVars
  <1>2. StudioTypes'
    BY <1>1 DEF StudioIInv, StudioTypes
  <1>3. /\ phase'[a] = "cancelled"
        /\ \A b \in Assessments \ {a} : phase'[b] = phase[b]
    BY <1>1 DEF StudioIInv, StudioTypes
  <1>4. CompletedUndisturbed(a)' /\ DriftTold(a)'
    BY <1>3 DEF CompletedUndisturbed, DriftTold
  <1>5. PassedInOrder(a)'
    BY <1>1 DEF StudioIInv, PassedInOrder, FutureStateEvidence
  <1> QED
    BY <1>1, <1>2, <1>3, <1>4, <1>5, StudioStepOthers

LEMMA StudioInitIInv == StudioInit => StudioIInv
  <1> SUFFICES ASSUME StudioInit PROVE StudioIInv
    OBVIOUS
  <1>1. IInv /\ head = 1
    BY InitIInv DEF StudioInit, Init
  <1>2. StudioTypes
    BY <1>1, StagesAre DEF StudioInit, StudioTypes, Readiness
  <1> SUFFICES ASSUME NEW a \in Assessments
               PROVE  PassedInOrder(a) /\ CompletedUndisturbed(a) /\ DriftTold(a)
    BY <1>1, <1>2 DEF StudioIInv
  <1>3. phase[a] = "none" /\ stage[a] = "connect_inspect" /\ ~disturbed[a]
    BY DEF StudioInit
  <1> QED
    BY <1>3, StagesAre DEF PassedInOrder, CompletedUndisturbed, DriftTold

LEMMA StudioNextIInv ==
    StudioIInv /\ [StudioNext]_<<vars, studioVars, disturbed>> => StudioIInv'
  <1> SUFFICES ASSUME StudioIInv, [StudioNext]_<<vars, studioVars, disturbed>> PROVE StudioIInv'
    OBVIOUS
  <1>1. CASE Next /\ Disturbing /\ UNCHANGED studioVars
    BY <1>1, BesideKeeps
  <1>2. CASE StudioStep /\ UNCHANGED vars
    BY <1>2, MappingKeeps, CreateAssessmentKeeps, ReviseKeeps, MoveKeeps, CompleteAssessmentKeeps,
       CancelAssessmentKeeps
    DEF StudioStep
  <1>3. CASE UNCHANGED <<vars, studioVars, disturbed>>
    <2>1. IInv'
      BY <1>3, NextIInv DEF StudioIInv
    <2>2. UNCHANGED <<phase, stage, base, artifacts, mapped, disturbed, head, inventory>>
      BY <1>3 DEF vars, studioVars, designVars, inventoryVars
    <2>3. StudioTypes'
      BY <2>2 DEF StudioIInv, StudioTypes
    <2>4. \A a \in Assessments : PassedInOrder(a)' /\ CompletedUndisturbed(a)'
      BY <2>2 DEF StudioIInv, PassedInOrder, FutureStateEvidence, CompletedUndisturbed
    <2>5. \A a \in Assessments : DriftTold(a)'
      BY <2>2 DEF StudioIInv, DriftTold, Drifted
    <2> QED
      BY <2>1, <2>3, <2>4, <2>5 DEF StudioIInv
  <1> QED
    BY <1>1, <1>2, <1>3 DEF StudioNext

LEMMA StudioIInvAlways == StudioSpec => []StudioIInv
  BY StudioInitIInv, StudioNextIInv, PTL DEF StudioSpec

\* The rows of handoffs and assessments have the columns the schema allows, and
\* an assessment is never bound to a version the design has not had.
THEOREM StudioTypeCorrect == StudioSpec => []StudioTypeOK
  <1>1. StudioIInv => StudioTypeOK
    BY DEF StudioIInv, IInv, StudioTypes, StudioTypeOK
  <1> QED
    BY <1>1, StudioIInvAlways, PTL

\* A completed redesign passed its seven stages in order, however often it was
\* returned, on one version of the design and of the repository.
THEOREM RedesignSoundAlways == StudioSpec => []RedesignSound
  <1>1. StudioIInv => RedesignSound
    BY DEF StudioIInv, RedesignSound
  <1> QED
    BY <1>1, StudioIInvAlways, PTL

\* Beside assessments the handoffs do what they do alone, so that what is
\* proved of them holds here too.
THEOREM StudioKeepsHandoffs == StudioSpec => Spec
  <1>1. StudioInit => Init
    BY DEF StudioInit
  <1>2. [StudioNext]_<<vars, studioVars, disturbed>> => [Next]_vars
    BY DEF StudioNext, vars
  <1> QED
    BY <1>1, <1>2, PTL DEF StudioSpec, Spec
=============================================================================
