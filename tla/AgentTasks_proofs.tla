--------------------------- MODULE AgentTasks_proofs ---------------------------
(***************************************************************************)
(* Proofs about AgentTasks, for every set of agents, tasks and previews and *)
(* every bound.                                                            *)
(***************************************************************************)
EXTENDS AgentTasks, TLAPS, SequenceTheorems

\* What a task that is proposed or completed names is a preview there is.
ProposalsExist ==
    \A t \in TaskIds : tasks[t].status \in {"awaiting_approval", "completed"} =>
        /\ tasks[t].proposal \in PreviewIds
        /\ previews[tasks[t].proposal].status # "unused"

\* The inductive invariant.  Of a row that is not there nothing is known, so
\* what is said of proposals is kept by the creation of a preview only if
\* proposals exist; the type of a row that goes on needs its claimer.
IInv == TypeOK /\ ProposalsExist /\ OneActiveTask /\ ProposalSound /\ CompletedExactly

-----------------------------------------------------------------------------
(* Rows.                                                                   *)

LEMMA GraphEdges ==
    /\ DOMAIN Graph = Nonterminal \cup {"completed", "failed", "cancelled", "expired"}
    /\ Graph["queued"] = {"claimed", "cancelled", "expired"}
    /\ Graph["claimed"] = {"in_progress", "failed", "cancelled", "expired"}
    /\ Graph["in_progress"] = {"awaiting_approval", "completed", "failed", "cancelled", "expired"}
    /\ Graph["awaiting_approval"] = {"in_progress", "completed", "failed", "cancelled", "expired"}
  BY DEF Graph, Nonterminal

\* The rows that are there.
StoredTasks ==
    [status : DOMAIN Graph, base : Nat, expires : Nat,
     claimer : Agents \cup {None}, proposal : PreviewIds \cup {None}]

\* A row that is there and what its status says of the rest.
LEMMA TaskRow ==
    ASSUME NEW row \in TaskRows, row.status # "unused"
    PROVE  /\ row \in StoredTasks
           /\ row.claimer = None =>
                row.status \in {"queued", "cancelled", "expired"} /\ row.proposal = None
           /\ row.claimer # None => row.status # "queued"
  BY NoneAssumption, GraphEdges DEF TaskRows, StoredTasks, Nonterminal

\* With a claimer a task may go anywhere but back to the queue, without one only
\* to its end, and without a proposal.
LEMMA StoredTask ==
    ASSUME NEW row \in StoredTasks,
           IF row.claimer = None
           THEN row.status \in {"queued", "cancelled", "expired"} /\ row.proposal = None
           ELSE row.status # "queued"
    PROVE  row \in TaskRows
  BY NoneAssumption, GraphEdges DEF TaskRows, StoredTasks, Nonterminal

LEMMA PreviewRow ==
    ASSUME NEW row \in PreviewRows, row.status # "unused"
    PROVE  /\ row = [status |-> row.status, task |-> row.task, actor |-> row.actor,
                     base |-> row.base, engine |-> row.engine, expires |-> row.expires,
                     rendered |-> row.rendered]
           /\ row.status \in {"ready", "blocked", "expired", "committed"}
           /\ row.task \in TaskIds /\ row.actor \in Agents
           /\ row.base \in Nat /\ row.engine \in Nat /\ row.expires \in Nat
           /\ row.rendered \in BOOLEAN
  BY DEF PreviewRows

\* appendTaskTransition keeps rows what they have to be.
LEMMA MovedRow ==
    ASSUME TypeOK, NEW t \in TaskIds, tasks[t].status # "unused",
           NEW status \in DOMAIN Graph \ {"queued"},
           NEW proposal \in PreviewIds \cup {None},
           tasks[t].claimer = None => status \in {"cancelled", "expired"} /\ proposal = None
    PROVE  /\ Moved(t, status, proposal) \in TaskRows
           /\ Moved(t, status, proposal).status = status
           /\ Moved(t, status, proposal).proposal = proposal
           /\ Moved(t, status, proposal).base = tasks[t].base
           /\ Moved(t, status, proposal).expires = tasks[t].expires
           /\ Moved(t, status, proposal).claimer = tasks[t].claimer
  <1> DEFINE row == tasks[t]
  <1>1. row \in StoredTasks
    BY TaskRow DEF TypeOK
  <1>2. Moved(t, status, proposal) = [row EXCEPT !.status = status, !.proposal = proposal]
    BY DEF Moved
  <1>3. row = tasks[t]
    OBVIOUS
  <1>4. /\ Moved(t, status, proposal) \in StoredTasks
        /\ Moved(t, status, proposal).status = status
        /\ Moved(t, status, proposal).proposal = proposal
        /\ Moved(t, status, proposal).base = tasks[t].base
        /\ Moved(t, status, proposal).expires = tasks[t].expires
        /\ Moved(t, status, proposal).claimer = tasks[t].claimer
    <2> HIDE DEF row
    <2> QED
      BY <1>1, <1>2, <1>3 DEF StoredTasks
  <1>5. Moved(t, status, proposal) \in TaskRows
    BY <1>4, StoredTask
  <1> QED
    BY <1>4, <1>5

-----------------------------------------------------------------------------
(* Steps that propose and complete nothing.                                *)

\* A preview stays what it is, whoever expires or renders it, and is not committed.
PreviewKept(p) ==
    IF previews[p].status = "unused" THEN previews'[p].status # "committed"
    ELSE /\ previews'[p].status # "unused"
         /\ previews'[p].task = previews[p].task
         /\ previews'[p].actor = previews[p].actor
         /\ previews'[p].base = previews[p].base
         /\ previews[p].rendered => previews'[p].rendered
         /\ previews'[p].status = "committed" <=> previews[p].status = "committed"
         /\ previews[p].status = "expired" => previews'[p].status = "expired"

\* A task stays as it is, goes on, or is the new and only one.
TaskKept(t) ==
    \/ tasks'[t] = tasks[t]
    \/ /\ t \in Active
       /\ tasks'[t].status \in Graph[tasks[t].status] \ {"awaiting_approval", "completed"}
       /\ tasks'[t].base = tasks[t].base
       /\ tasks'[t].expires = tasks[t].expires
       /\ tasks[t].claimer # None => tasks'[t].claimer = tasks[t].claimer
    \/ tasks[t].status = "unused" /\ tasks'[t].status = "queued" /\ Active' \subseteq {t}

Quiet ==
    /\ TypeOK'
    /\ \A p \in PreviewIds : PreviewKept(p)
    /\ \A t \in TaskIds : TaskKept(t)
    /\ log' = log \/ log' = Append(log, None)

\* The step formula of TaskLifecycle.
LifecycleStep ==
    /\ \A t \in TaskIds : tasks[t].status # "unused" =>
          /\ tasks'[t].status # tasks[t].status
               => tasks'[t].status \in Graph[tasks[t].status]
          /\ tasks'[t].base = tasks[t].base
          /\ tasks'[t].expires = tasks[t].expires
          /\ tasks[t].claimer # None => tasks'[t].claimer = tasks[t].claimer
    /\ \A p \in PreviewIds :
          /\ previews[p].status \in {"expired", "committed"}
               => previews'[p].status = previews[p].status
          /\ previews[p].status # "committed" /\ previews'[p].status = "committed"
               => /\ tasks[previews[p].task].proposal = p
                  /\ previews[p].engine = engine

\* The log only grows.
LEMMA LogGrows ==
    ASSUME TypeOK, NEW x \in PreviewIds \cup {None}, log' = log \/ log' = Append(log, x)
    PROVE  /\ Len(log) \in Nat /\ Len(log') \in Nat /\ Len(log) <= Len(log')
           /\ \A v \in 1 .. Len(log) : log'[v] = log[v]
           /\ \A v \in 1 .. Len(log') : v \in 1 .. Len(log) \/ (v = Len(log) + 1 /\ log'[v] = x)
  BY AppendProperties, LenProperties DEF TypeOK

LEMMA QuietKeepsIInv ==
    ASSUME IInv, Quiet
    PROVE  IInv'
  <1> USE DEF IInv
  <1>1. \A t \in TaskIds : tasks[t] \in TaskRows /\ tasks'[t] \in TaskRows
    BY DEF TypeOK, Quiet
  <1>2. \A p \in PreviewIds : previews[p] \in PreviewRows /\ previews'[p] \in PreviewRows
    BY DEF TypeOK, Quiet
  <1>3. \A t \in TaskIds :
           tasks'[t].status \in {"awaiting_approval", "completed"} => tasks'[t] = tasks[t]
    BY DEF Quiet, TaskKept
  <1>4. \A t \in TaskIds : tasks[t].status = "completed" => tasks'[t] = tasks[t]
    BY DEF Quiet, TaskKept, Active, Nonterminal
  <1>5. ProposalsExist'
    BY <1>3 DEF ProposalsExist, Quiet, PreviewKept
  <1>6. OneActiveTask'
    <2>1. CASE \E t \in TaskIds : Active' \subseteq {t}
      BY <2>1 DEF OneActiveTask
    <2>2. CASE ~ \E t \in TaskIds : Active' \subseteq {t}
      <3>1. Active' \subseteq Active
        BY <2>2 DEF Active, Quiet, TaskKept
      <3> QED
        BY <3>1 DEF OneActiveTask
    <2> QED
      BY <2>1, <2>2
  <1>7. ProposalSound'
    BY <1>3 DEF ProposalSound, ProposalsExist, Quiet, PreviewKept
  <1>8. CompletedExactly'
    <2>1. \A t \in TaskIds : tasks'[t].status = "completed" =>
             /\ tasks'[t].base < CurrentVersion'
             /\ log'[tasks'[t].base + 1] = tasks'[t].proposal
             /\ previews'[tasks'[t].proposal].status = "committed"
      <3> SUFFICES ASSUME NEW t \in TaskIds, tasks'[t].status = "completed"
                   PROVE  /\ tasks'[t].base < CurrentVersion'
                          /\ log'[tasks'[t].base + 1] = tasks'[t].proposal
                          /\ previews'[tasks'[t].proposal].status = "committed"
        OBVIOUS
      <3>1. tasks'[t] = tasks[t] /\ tasks[t].status = "completed"
        BY <1>3
      <3>2. /\ tasks[t].base < Len(log) /\ log[tasks[t].base + 1] = tasks[t].proposal
            /\ previews[tasks[t].proposal].status = "committed"
            /\ tasks[t].proposal \in PreviewIds
        BY <3>1 DEF CompletedExactly, CurrentVersion, ProposalsExist
      <3>3. tasks[t].base \in Nat
        BY <1>1, <3>1, TaskRow DEF StoredTasks
      <3>4. tasks[t].base < Len(log') /\ log'[tasks[t].base + 1] = log[tasks[t].base + 1]
        BY <3>2, <3>3, LogGrows DEF Quiet
      <3>5. previews'[tasks[t].proposal].status = "committed"
        BY <3>2 DEF Quiet, PreviewKept
      <3> QED
        BY <3>1, <3>2, <3>4, <3>5 DEF CurrentVersion
    <2>2. \A p \in PreviewIds : previews'[p].status = "committed" =>
             /\ tasks'[previews'[p].task].status = "completed"
             /\ tasks'[previews'[p].task].proposal = p
             /\ previews'[p].rendered
      BY <1>2, <1>4, PreviewRow DEF CompletedExactly, Quiet, PreviewKept
    <2>3. \A v \in 1 .. CurrentVersion' : log'[v] # None => previews'[log'[v]].status = "committed"
      <3> SUFFICES ASSUME NEW v \in 1 .. Len(log'), log'[v] # None
                   PROVE  previews'[log'[v]].status = "committed"
        BY DEF CurrentVersion
      <3>1. v \in 1 .. Len(log) /\ log'[v] = log[v]
        BY LogGrows DEF Quiet
      <3>2. log[v] \in PreviewIds /\ previews[log[v]].status = "committed"
        BY <3>1, ElementOfSeq DEF CompletedExactly, CurrentVersion, TypeOK
      <3> QED
        BY <3>1, <3>2 DEF Quiet, PreviewKept
    <2> QED
      BY <2>1, <2>2, <2>3 DEF CompletedExactly
  <1> QED
    BY <1>5, <1>6, <1>7, <1>8 DEF Quiet

LEMMA QuietLifecycle ==
    ASSUME Quiet
    PROVE  LifecycleStep
  BY DEF Quiet, PreviewKept, TaskKept, LifecycleStep

-----------------------------------------------------------------------------
(* What the operations share.                                              *)

\* Expiring previews that are open leaves all of them what they are.
LEMMA ExpireAllKeeps ==
    ASSUME TypeOK, NEW P \in SUBSET PreviewIds, \A p \in P : Open(previews[p]),
           previews' = ExpireAll(P)
    PROVE  /\ previews' \in [PreviewIds -> PreviewRows]
           /\ \A p \in PreviewIds : PreviewKept(p)
  <1>1. ASSUME NEW p \in PreviewIds
        PROVE  previews'[p] \in PreviewRows /\ PreviewKept(p)
    <2>1. CASE p \in P
      <3> DEFINE row == previews[p]
      <3>1. /\ row \in [status : {"ready", "blocked", "expired", "committed"}, task : TaskIds,
                       actor : Agents, base : Nat, engine : Nat, expires : Nat,
                       rendered : BOOLEAN]
            /\ row.status \in {"ready", "blocked"}
        BY <2>1 DEF TypeOK, PreviewRows, Open
      <3>2. previews'[p] = [row EXCEPT !.status = "expired", !.expires = clock]
        BY <2>1 DEF ExpireAll
      <3>3. row = previews[p] /\ clock \in Nat
        BY DEF TypeOK
      <3> HIDE DEF row
      <3>4. /\ previews'[p] \in [status : {"expired"}, task : TaskIds,
                       actor : Agents, base : Nat, engine : Nat, expires : Nat,
                       rendered : BOOLEAN]
            /\ previews'[p].task = row.task /\ previews'[p].actor = row.actor
            /\ previews'[p].base = row.base /\ previews'[p].rendered = row.rendered
            /\ previews'[p].status = "expired"
        BY <3>1, <3>2, <3>3
      <3> QED
        BY <3>1, <3>3, <3>4 DEF PreviewRows, PreviewKept
    <2>2. CASE p \notin P
      BY <2>2 DEF ExpireAll, PreviewKept, TypeOK
    <2> QED
      BY <2>1, <2>2
  <1> QED
    BY <1>1 DEF ExpireAll

LEMMA AbandonedOpen ==
    ASSUME NEW t \in TaskIds, NEW p
    PROVE  Abandoned(t, p) \in SUBSET PreviewIds /\ \A x \in Abandoned(t, p) : Open(previews[x])
  BY DEF Abandoned

\* One task goes on.
LEMMA MovedKept ==
    ASSUME TypeOK, NEW t \in Active,
           NEW status \in Graph[tasks[t].status] \ {"awaiting_approval", "completed"},
           NEW proposal \in PreviewIds \cup {None},
           tasks[t].claimer = None => status \in {"cancelled", "expired"} /\ proposal = None,
           tasks' = [tasks EXCEPT ![t] = Moved(t, status, proposal)]
    PROVE  /\ tasks' \in [TaskIds -> TaskRows]
           /\ \A u \in TaskIds : TaskKept(u)
  <1>1. t \in TaskIds /\ tasks[t].status # "unused" /\ tasks[t].status \in Nonterminal
    BY DEF Active, Nonterminal
  <1>2. status \in DOMAIN Graph \ {"queued"}
    BY <1>1, GraphEdges DEF Nonterminal
  <1> DEFINE new == Moved(t, status, proposal)
  <1>3. /\ new \in TaskRows /\ new.status = status
        /\ new.base = tasks[t].base /\ new.expires = tasks[t].expires
        /\ new.claimer = tasks[t].claimer
    BY <1>1, <1>2, MovedRow
  <1> HIDE DEF new
  <1>4. tasks' = [tasks EXCEPT ![t] = new]
    BY DEF new
  <1> QED
    BY <1>1, <1>3, <1>4 DEF TaskKept, TypeOK

\* A task that has no claimer was not claimed and has no proposal.
LEMMA ActiveTask ==
    ASSUME TypeOK, NEW t \in Active
    PROVE  /\ tasks[t].status \in Nonterminal /\ tasks[t].status # "unused"
           /\ tasks[t].proposal \in PreviewIds \cup {None}
           /\ tasks[t].claimer = None <=> tasks[t].status = "queued"
           /\ tasks[t].claimer = None => tasks[t].proposal = None
           /\ {"cancelled", "expired"} \subseteq Graph[tasks[t].status]
  <1>1. tasks[t] \in TaskRows /\ tasks[t].status \in Nonterminal
    BY DEF Active, TypeOK
  <1> QED
    BY <1>1, TaskRow, GraphEdges DEF StoredTasks, Nonterminal

\* materializeTaskTerminalState and returnTaskToInProgressForPreviewRegeneration.
LEMMA GiveUpQuiet ==
    ASSUME TypeOK, NEW t \in Active,
           NEW status \in Graph[tasks[t].status] \ {"awaiting_approval", "completed"},
           NEW named \in PreviewIds \cup {None},
           tasks[t].claimer = None => status \in {"cancelled", "expired"} /\ named = None,
           GiveUp(t, status, named)
    PROVE  Quiet
  <1> DEFINE p == IF tasks[t].proposal # None THEN tasks[t].proposal ELSE named
  <1>1. /\ p \in PreviewIds \cup {None}
        /\ tasks[t].claimer = None => p = None
    BY ActiveTask
  <1>2. /\ tasks' = [tasks EXCEPT ![t] = Moved(t, status, p)]
        /\ previews' = ExpireAll(Abandoned(t, p))
        /\ UNCHANGED <<log, engine, clock>>
    BY DEF GiveUp
  <1> HIDE DEF p
  <1>3. tasks' \in [TaskIds -> TaskRows] /\ \A u \in TaskIds : TaskKept(u)
    BY <1>1, <1>2, MovedKept
  <1>4. /\ previews' \in [PreviewIds -> PreviewRows]
        /\ \A x \in PreviewIds : PreviewKept(x)
    BY <1>2, AbandonedOpen, ExpireAllKeeps DEF Active
  <1> QED
    BY <1>2, <1>3, <1>4 DEF Quiet, TypeOK

\* A task goes on and no preview changes.
LEMMA MoveQuiet ==
    ASSUME TypeOK, NEW t \in Active,
           NEW status \in Graph[tasks[t].status] \ {"awaiting_approval", "completed"},
           NEW proposal \in PreviewIds \cup {None},
           tasks[t].claimer = None => status \in {"cancelled", "expired"} /\ proposal = None,
           tasks' = [tasks EXCEPT ![t] = Moved(t, status, proposal)],
           UNCHANGED <<previews, log, engine, clock>>
    PROVE  Quiet
  <1>1. tasks' \in [TaskIds -> TaskRows] /\ \A u \in TaskIds : TaskKept(u)
    BY MovedKept
  <1> QED
    BY <1>1 DEF Quiet, PreviewKept, TypeOK

LEMMA ExpireInPlaceQuiet ==
    ASSUME TypeOK, NEW t \in Active, ExpireInPlace(t)
    PROVE  Quiet
  BY ActiveTask, MoveQuiet DEF ExpireInPlace

\* materializeDesignPreviewTaskStates: rows go where the graph lets them, with
\* what they name.
LEMMA SettledKeeps ==
    ASSUME TypeOK
    PROVE  /\ SettledTasks \in [TaskIds -> TaskRows]
           /\ \A t \in TaskIds :
                 \/ SettledTasks[t] = tasks[t]
                 \/ /\ t \in Active
                    /\ SettledTasks[t].status \in
                          Graph[tasks[t].status] \ {"awaiting_approval", "completed"}
                    /\ SettledTasks[t].base = tasks[t].base
                    /\ SettledTasks[t].expires = tasks[t].expires
                    /\ SettledTasks[t].claimer = tasks[t].claimer
  <1> SUFFICES ASSUME NEW t \in TaskIds, t \in Due
               PROVE  /\ SettledTasks[t] \in TaskRows
                      /\ t \in Active
                      /\ SettledTasks[t].status \in
                            Graph[tasks[t].status] \ {"awaiting_approval", "completed"}
                      /\ SettledTasks[t].base = tasks[t].base
                      /\ SettledTasks[t].expires = tasks[t].expires
                      /\ SettledTasks[t].claimer = tasks[t].claimer
    BY DEF SettledTasks, TypeOK
  <1>1. t \in Active
    BY DEF Due
  <1>2. /\ Outcome(t) \in {"expired", "in_progress", "cancelled"}
        /\ Outcome(t) = "in_progress" => tasks[t].status = "awaiting_approval"
    BY DEF Due, Outcome
  <1>3. Outcome(t) \in Graph[tasks[t].status] \ {"awaiting_approval", "completed"}
    BY <1>1, <1>2, ActiveTask, GraphEdges
  <1>4. SettledTasks[t] = Moved(t, Outcome(t), tasks[t].proposal)
    BY DEF SettledTasks
  <1>5. /\ tasks[t].status # "unused" /\ tasks[t].status \in Nonterminal
        /\ tasks[t].proposal \in PreviewIds \cup {None}
        /\ tasks[t].claimer = None =>
             Outcome(t) \in {"cancelled", "expired"} /\ tasks[t].proposal = None
    BY <1>1, <1>2, ActiveTask
  <1>6. Outcome(t) \in DOMAIN Graph \ {"queued"}
    BY <1>2, GraphEdges DEF Nonterminal
  <1> QED
    BY <1>1, <1>3, <1>4, <1>5, <1>6, MovedRow

LEMMA SettledPreviewsKept ==
    ASSUME TypeOK, previews' = SettledPreviews
    PROVE  /\ previews' \in [PreviewIds -> PreviewRows]
           /\ \A p \in PreviewIds : PreviewKept(p)
  <1> DEFINE P == UNION {Abandoned(t, tasks[t].proposal) : t \in Due}
  <1>1. P \in SUBSET PreviewIds /\ \A p \in P : Open(previews[p])
    BY DEF Abandoned
  <1>2. previews' = ExpireAll(P)
    BY DEF SettledPreviews
  <1> HIDE DEF P
  <1> QED
    BY <1>1, <1>2, ExpireAllKeeps

-----------------------------------------------------------------------------
(* The quiet operations.                                                   *)

LEMMA ReadQuiet ==
    ASSUME TypeOK, ReadAgentTasks
    PROVE  Quiet
  <1>1. tasks' = SettledTasks /\ previews' = SettledPreviews /\ UNCHANGED <<log, engine, clock>>
    BY DEF ReadAgentTasks
  <1>2. tasks' \in [TaskIds -> TaskRows] /\ \A t \in TaskIds : TaskKept(t)
    BY <1>1, SettledKeeps DEF TaskKept
  <1>3. previews' \in [PreviewIds -> PreviewRows] /\ \A p \in PreviewIds : PreviewKept(p)
    BY <1>1, SettledPreviewsKept
  <1> QED
    BY <1>1, <1>2, <1>3 DEF Quiet, TypeOK

LEMMA ClaimQuiet ==
    ASSUME TypeOK, NEW a \in Agents, NEW t \in TaskIds, ClaimAgentTask(a, t)
    PROVE  Quiet
  <1>1. t \in Active /\ tasks[t].status = "queued" /\ tasks[t] \in TaskRows
    BY DEF ClaimAgentTask, Active, Nonterminal, TypeOK
  <1>2. tasks[t].claimer = None /\ tasks[t].proposal = None
    BY <1>1, ActiveTask
  <1>3. CASE ExpireInPlace(t)
    BY <1>1, <1>3, ExpireInPlaceQuiet
  <1>4. CASE GiveUp(t, "cancelled", None)
    BY <1>1, <1>4, GiveUpQuiet, ActiveTask
  <1>5. CASE /\ tasks' = [tasks EXCEPT ![t].status = "claimed", ![t].claimer = a]
             /\ UNCHANGED <<previews, log, engine, clock>>
    <2> DEFINE row == tasks[t]
    <2>1. row \in StoredTasks
      BY <1>1, TaskRow
    <2>2. tasks' = [tasks EXCEPT ![t] = [row EXCEPT !.status = "claimed", !.claimer = a]]
      BY <1>5
    <2>3. row = tasks[t]
      OBVIOUS
    <2> DEFINE new == [row EXCEPT !.status = "claimed", !.claimer = a]
    <2> HIDE DEF row
    <2>4. /\ new \in StoredTasks /\ new.status = "claimed" /\ new.claimer = a
          /\ new.base = row.base /\ new.expires = row.expires /\ new.proposal = row.proposal
      BY <2>1, GraphEdges DEF StoredTasks, Nonterminal
    <2> HIDE DEF new
    <2>5. tasks' = [tasks EXCEPT ![t] = new]
      BY <2>2 DEF new
    <2>6. new \in TaskRows
      BY <2>4, StoredTask, NoneAssumption
    <2>7. tasks' \in [TaskIds -> TaskRows]
      BY <2>5, <2>6 DEF TypeOK
    <2>8. \A u \in TaskIds : TaskKept(u)
      BY <1>1, <1>2, <2>3, <2>4, <2>5, GraphEdges DEF TypeOK, TaskKept
    <2> QED
      BY <1>5, <2>7, <2>8 DEF Quiet, PreviewKept, TypeOK
  <1> QED
    BY <1>3, <1>4, <1>5 DEF ClaimAgentTask

LEMMA RefusePreviewWorkQuiet ==
    ASSUME TypeOK, NEW a \in Agents, NEW t \in TaskIds, RefusePreviewWork(a, t)
    PROVE  Quiet
  <1>1. t \in Active /\ tasks[t].claimer # None
    BY NoneAssumption DEF RefusePreviewWork
  <1> QED
    BY <1>1, ActiveTask, GiveUpQuiet DEF RefusePreviewWork

LEMMA RefuseTransitionQuiet ==
    ASSUME TypeOK, NEW t \in TaskIds, RefuseTransition(t)
    PROVE  Quiet
  <1>1. t \in Active
    BY DEF RefuseTransition
  <1>2. CASE ExpireInPlace(t)
    BY <1>1, <1>2, ExpireInPlaceQuiet
  <1>3. CASE Unreviewable(t) /\ GiveUp(t, "in_progress", None)
    <2>1. tasks[t].claimer # None /\ "in_progress" \in Graph[tasks[t].status]
      BY <1>1, <1>3, ActiveTask, GraphEdges DEF Unreviewable
    <2> QED
      BY <1>1, <1>3, <2>1, GiveUpQuiet
  <1> QED
    BY <1>2, <1>3 DEF RefuseTransition

LEMMA StartQuiet ==
    ASSUME TypeOK, NEW a \in Agents, NEW t \in TaskIds, NEW named \in PreviewIds \cup {None},
           StartAgentTask(a, t, named)
    PROVE  Quiet
  <1>1. t \in Active /\ tasks[t].claimer # None /\ "in_progress" \in Graph[tasks[t].status]
    BY NoneAssumption DEF StartAgentTask, MayTransition
  <1>2. CASE GiveUp(t, "cancelled", named)
    BY <1>1, <1>2, ActiveTask, GiveUpQuiet
  <1>3. CASE /\ tasks' = [tasks EXCEPT ![t] = Moved(t, "in_progress", named)]
             /\ UNCHANGED <<previews, log, engine, clock>>
    BY <1>1, <1>3, MoveQuiet
  <1> QED
    BY <1>2, <1>3 DEF StartAgentTask

LEMMA FailQuiet ==
    ASSUME TypeOK, NEW a \in Agents, NEW t \in TaskIds, FailAgentTask(a, t)
    PROVE  Quiet
  <1>1. t \in Active /\ tasks[t].claimer # None /\ "failed" \in Graph[tasks[t].status]
    BY NoneAssumption DEF FailAgentTask, MayTransition
  <1> QED
    BY <1>1, MoveQuiet DEF FailAgentTask

LEMMA CancelQuiet ==
    ASSUME TypeOK, NEW t \in TaskIds, CancelAgentTask(t)
    PROVE  Quiet
  <1>1. t \in Active
    BY DEF CancelAgentTask, MayTransition
  <1> QED
    BY <1>1, ActiveTask, MoveQuiet DEF CancelAgentTask

LEMMA RefuseApprovalQuiet ==
    ASSUME TypeOK, NEW t \in TaskIds, NEW p \in PreviewIds, RefuseApproval(t, p)
    PROVE  Quiet
  <1>1. t \in Active /\ tasks[t].status = "awaiting_approval"
    BY DEF RefuseApproval, Active, Nonterminal
  <1>2. tasks[t].claimer # None /\ {"in_progress", "expired"} \subseteq Graph[tasks[t].status]
    BY <1>1, ActiveTask, GraphEdges
  <1> QED
    BY <1>1, <1>2, GiveUpQuiet DEF RefuseApproval

\* The proposal that is discarded is not committed, or it would be un-committed.
LEMMA DiscardQuiet ==
    ASSUME IInv, NEW t \in TaskIds, NEW p \in PreviewIds, DiscardPreview(t, p)
    PROVE  Quiet
  <1> USE DEF IInv
  <1>1. /\ t \in Active /\ tasks[t].status = "awaiting_approval"
        /\ p \in PreviewIds /\ previews[p].status # "unused" /\ previews[p].status # "committed"
    BY DEF DiscardPreview, MayTransition, ProposalSound, ProposalsExist
  <1>2. tasks' \in [TaskIds -> TaskRows] /\ \A u \in TaskIds : TaskKept(u)
    <2>1. tasks[t].claimer # None /\ "cancelled" \in Graph[tasks[t].status]
      BY <1>1, ActiveTask
    <2> QED
      BY <1>1, <2>1, MovedKept DEF DiscardPreview
  <1>3. CASE Open(previews[p])
    <2>1. /\ previews' \in [PreviewIds -> PreviewRows]
          /\ \A x \in PreviewIds : PreviewKept(x)
      BY <1>3, ExpireAllKeeps DEF DiscardPreview
    <2> QED
      BY <1>2, <2>1 DEF Quiet, DiscardPreview, TypeOK
  <1>4. CASE ~Open(previews[p])
    <2> DEFINE row == previews[p]
    <2>1. /\ row \in [status : {"expired"}, task : TaskIds,
                     actor : Agents, base : Nat, engine : Nat, expires : Nat,
                     rendered : BOOLEAN]
      BY <1>1, <1>4 DEF TypeOK, PreviewRows, Open
    <2>2. /\ previews'[p] = [row EXCEPT !.status = "expired", !.expires = clock]
          /\ previews' = [x \in PreviewIds |-> IF x = p THEN previews'[p] ELSE previews[x]]
      BY DEF DiscardPreview, ExpireAll
    <2>3. row = previews[p] /\ clock \in Nat
      BY DEF TypeOK
    <2> HIDE DEF row
    <2>4. /\ previews'[p] \in [status : {"expired"}, task : TaskIds,
                     actor : Agents, base : Nat, engine : Nat, expires : Nat,
                     rendered : BOOLEAN]
          /\ previews'[p].task = row.task /\ previews'[p].actor = row.actor
          /\ previews'[p].base = row.base /\ previews'[p].rendered = row.rendered
          /\ previews'[p].status = "expired"
      BY <2>1, <2>2, <2>3
    <2>5. previews'[p] \in PreviewRows /\ PreviewKept(p)
      BY <2>1, <2>3, <2>4 DEF PreviewRows, PreviewKept
    <2>6. \A x \in PreviewIds : previews'[x] \in PreviewRows /\ PreviewKept(x)
      BY <2>2, <2>5 DEF PreviewKept, TypeOK
    <2>7. previews' \in [PreviewIds -> PreviewRows]
      BY <2>2, <2>6
    <2> QED
      BY <1>2, <2>6, <2>7 DEF Quiet, DiscardPreview, TypeOK
  <1> QED
    BY <1>3, <1>4

LEMMA ExpireDueKeeps ==
    ASSUME TypeOK, NEW p \in PreviewIds, previews'[p] = ExpireDue(previews[p])
    PROVE  previews'[p] \in PreviewRows /\ PreviewKept(p)
  <1>1. CASE previews'[p] = previews[p]
    BY <1>1 DEF PreviewKept, TypeOK
  <1>2. CASE Open(previews[p]) /\ previews'[p] = [previews[p] EXCEPT !.status = "expired"]
    BY <1>2 DEF TypeOK, PreviewRows, Open, PreviewKept
  <1> QED
    BY <1>1, <1>2 DEF ExpireDue

LEMMA CreatePreviewQuiet ==
    ASSUME TypeOK, NEW a \in Agents, NEW t \in TaskIds, NEW p \in PreviewIds,
           NEW ok \in BOOLEAN, NEW aligned \in BOOLEAN,
           CreateTaskPreview(a, t, p, ok, aligned)
    PROVE  Quiet
  <1> DEFINE new ==
        [status |-> IF ok THEN "ready" ELSE "blocked", task |-> t,
         actor |-> a, base |-> tasks[t].base, engine |-> engine,
         expires |-> IF aligned THEN tasks[t].expires ELSE clock + PreviewTTL,
         rendered |-> FALSE]
  <1>1. tasks[t].base \in Nat /\ tasks[t].expires \in Nat
    BY TaskRow DEF TypeOK, CreateTaskPreview, StoredTasks
  <1>2. new \in PreviewRows /\ new.status # "committed"
    BY <1>1, TTLAssumption DEF PreviewRows, TypeOK
  <1>3. /\ previews'[p] = new /\ previews[p].status = "unused"
        /\ previews' = [x \in PreviewIds |-> previews'[x]]
        /\ \A x \in PreviewIds \ {p} : previews'[x] = ExpireDue(previews[x])
        /\ UNCHANGED <<tasks, log, engine, clock>>
    BY DEF CreateTaskPreview
  <1> HIDE DEF new
  <1>4. \A x \in PreviewIds : previews'[x] \in PreviewRows /\ PreviewKept(x)
    BY <1>2, <1>3, ExpireDueKeeps DEF PreviewKept
  <1> QED
    BY <1>3, <1>4 DEF Quiet, TypeOK, TaskKept

LEMMA RenderQuiet ==
    ASSUME TypeOK, NEW p \in PreviewIds, RecordPreviewRender(p)
    PROVE  Quiet
  <1>1. /\ Open(previews[p]) /\ previews' = [previews EXCEPT ![p].rendered = TRUE]
        /\ UNCHANGED <<tasks, log, engine, clock>>
    BY DEF RecordPreviewRender
  <1>2. previews'[p] = [previews[p] EXCEPT !.rendered = TRUE]
    BY <1>1 DEF TypeOK
  <1>3. previews'[p] \in PreviewRows /\ PreviewKept(p)
    BY <1>1, <1>2 DEF TypeOK, PreviewRows, Open, PreviewKept
  <1> QED
    BY <1>1, <1>3 DEF Quiet, TypeOK, TaskKept, PreviewKept

LEMMA ReadPreviewQuiet ==
    ASSUME TypeOK, NEW p \in PreviewIds, ReadPreview(p)
    PROVE  Quiet
  <1>1. /\ previews' = [previews EXCEPT ![p] = ExpireDue(previews[p])]
        /\ UNCHANGED <<tasks, log, engine, clock>>
    BY DEF ReadPreview
  <1>2. previews'[p] \in PreviewRows /\ PreviewKept(p)
    BY <1>1, ExpireDueKeeps DEF TypeOK
  <1> QED
    BY <1>1, <1>2 DEF Quiet, TypeOK, TaskKept, PreviewKept

LEMMA EnvironmentQuiet ==
    ASSUME TypeOK, CommitRevision \/ Upgrade \/ Tick \/ UNCHANGED vars
    PROVE  Quiet
  <1>1. log' \in Seq(PreviewIds \cup {None}) /\ (log' = log \/ log' = Append(log, None))
    <2>1. CASE CommitRevision
      BY <2>1, AppendProperties DEF CommitRevision, TypeOK
    <2>2. CASE Upgrade \/ Tick \/ UNCHANGED vars
      <3>1. log' = log
        BY <2>2 DEF Upgrade, Tick, vars
      <3> QED
        BY <3>1 DEF TypeOK
    <2> QED
      BY <2>1, <2>2
  <1>2. UNCHANGED <<tasks, previews>> /\ engine' \in Nat /\ clock' \in Nat
    BY DEF CommitRevision, Upgrade, Tick, vars, TypeOK
  <1> QED
    BY <1>1, <1>2 DEF Quiet, PreviewKept, TaskKept, TypeOK

\* createAgentTask settles the tasks there are before it looks for one.
LEMMA CreateTaskQuiet ==
    ASSUME TypeOK, NEW t \in TaskIds, CreateAgentTask(t)
    PROVE  Quiet
  <1> DEFINE new ==
        [status |-> "queued", base |-> CurrentVersion, expires |-> clock + TaskTTL,
         claimer |-> None, proposal |-> None]
  <1>1. new \in TaskRows /\ new.status = "queued"
    BY TTLAssumption, LenProperties DEF TaskRows, TypeOK, CurrentVersion
  <1>2. /\ tasks[t].status = "unused" /\ NoActiveTask
        /\ tasks' = [SettledTasks EXCEPT ![t] = new]
        /\ previews' = SettledPreviews /\ UNCHANGED <<log, engine, clock>>
    BY DEF CreateAgentTask
  <1> HIDE DEF new
  <1>3. SettledTasks \in [TaskIds -> TaskRows]
    BY SettledKeeps
  <1>4. tasks' \in [TaskIds -> TaskRows] /\ tasks'[t] = new
        /\ \A u \in TaskIds \ {t} : tasks'[u] = SettledTasks[u]
    BY <1>1, <1>2, <1>3
  <1>5. Active' \subseteq {t}
    BY <1>2, <1>4 DEF Active, NoActiveTask
  <1>6. \A u \in TaskIds : TaskKept(u)
    BY <1>1, <1>2, <1>4, <1>5, SettledKeeps DEF TaskKept
  <1>7. previews' \in [PreviewIds -> PreviewRows] /\ \A p \in PreviewIds : PreviewKept(p)
    BY <1>2, SettledPreviewsKept
  <1> QED
    BY <1>2, <1>4, <1>6, <1>7 DEF Quiet, TypeOK

-----------------------------------------------------------------------------
(* Proposal and approval.                                                  *)

\* What is proposed is not committed: a committed preview is that of a completed
\* task, and this one is not completed.
LEMMA ProposeKeeps ==
    ASSUME IInv, NEW a \in Agents, NEW t \in TaskIds, NEW p \in PreviewIds,
           ProposePreview(a, t, p)
    PROVE  IInv' /\ LifecycleStep
  <1> USE DEF IInv
  <1>1. /\ t \in Active /\ tasks[t].claimer # None
        /\ "awaiting_approval" \in Graph[tasks[t].status]
    BY NoneAssumption DEF ProposePreview, MayTransition
  <1>2. CASE GiveUp(t, "cancelled", p)
    BY <1>1, <1>2, ActiveTask, GiveUpQuiet, QuietKeepsIInv, QuietLifecycle
  <1>3. CASE /\ Proposable(t, p)
             /\ tasks' = [tasks EXCEPT ![t] = Moved(t, "awaiting_approval", p)]
             /\ UNCHANGED <<previews, log, engine, clock>>
    <2> DEFINE new == Moved(t, "awaiting_approval", p)
    <2>1. /\ new \in TaskRows /\ new.status = "awaiting_approval" /\ new.proposal = p
          /\ new.base = tasks[t].base /\ new.expires = tasks[t].expires
          /\ new.claimer = tasks[t].claimer
      BY <1>1, ActiveTask, GraphEdges, MovedRow DEF Active, Nonterminal
    <2> HIDE DEF new
    <2>2. tasks' = [tasks EXCEPT ![t] = new] /\ UNCHANGED <<previews, log, engine, clock>>
      BY <1>3 DEF new
    <2>3. tasks[t].status = "in_progress"
      BY <1>1, ActiveTask, GraphEdges DEF Nonterminal
    <2>4. previews[p].status # "unused" /\ previews[p].status # "committed"
      BY <1>3, <2>3 DEF Proposable, CompletedExactly
    <2>5. TypeOK'
      BY <2>1, <2>2 DEF TypeOK
    <2>6. ProposalsExist'
      BY <2>1, <2>2, <2>4 DEF ProposalsExist, TypeOK
    <2>7. OneActiveTask'
      BY <1>1, <2>2 DEF OneActiveTask, Active, TypeOK
    <2>8. ProposalSound'
      BY <1>3, <2>1, <2>2, <2>4, NoneAssumption DEF ProposalSound, Proposable, TypeOK
    <2>9. CompletedExactly'
      BY <2>1, <2>2, <2>3 DEF CompletedExactly, TypeOK, CurrentVersion
    <2>10. LifecycleStep
      BY <1>1, <2>1, <2>2 DEF LifecycleStep, TypeOK
    <2> QED
      BY <2>5, <2>6, <2>7, <2>8, <2>9, <2>10
  <1> QED
    BY <1>2, <1>3 DEF ProposePreview

LEMMA ApproveKeeps ==
    ASSUME IInv, NEW t \in TaskIds, NEW p \in PreviewIds, ApproveTask(t, p)
    PROVE  IInv' /\ LifecycleStep
  <1> USE DEF IInv
  <1>1. /\ tasks[t].status = "awaiting_approval" /\ tasks[t].proposal = p
        /\ previews[p].status = "ready" /\ previews[p].engine = engine
        /\ previews[p].task = t /\ previews[p].rendered
        /\ tasks[t].base = Len(log)
        /\ log' = Append(log, p) /\ UNCHANGED <<engine, clock>>
    BY DEF ApproveTask, Approvable, Proposable, Stale, CurrentVersion
  <1>2. t \in Active
    BY <1>1 DEF Active, Nonterminal
  <1> DEFINE new == Moved(t, "completed", p)
             shown == [previews[p] EXCEPT !.status = "committed"]
  <1>3. /\ new \in TaskRows /\ new.status = "completed" /\ new.proposal = p
        /\ new.base = tasks[t].base /\ new.expires = tasks[t].expires
        /\ new.claimer = tasks[t].claimer
    BY <1>1, <1>2, ActiveTask, GraphEdges, MovedRow DEF Active, Nonterminal
  <1>4. /\ shown \in PreviewRows /\ shown.status = "committed" /\ shown.rendered
        /\ shown.task = t
    BY <1>1 DEF TypeOK, PreviewRows
  <1> HIDE DEF new, shown
  <1>5. /\ tasks' = [tasks EXCEPT ![t] = new]
        /\ previews' = [previews EXCEPT ![p] = shown]
    BY DEF ApproveTask, TypeOK, new, shown
  <1>6. /\ \A u \in TaskIds \ {t} : tasks'[u] = tasks[u]
        /\ \A x \in PreviewIds \ {p} : previews'[x] = previews[x]
        /\ tasks'[t] = new /\ previews'[p] = shown
    BY <1>5 DEF TypeOK
  <1>7. TypeOK'
    BY <1>1, <1>3, <1>4, <1>5, AppendProperties DEF TypeOK
  <1>8. \A u \in TaskIds \ {t} : tasks[u].status \in {"awaiting_approval", "completed"}
           => tasks[u].proposal # p
    BY <1>1 DEF ProposalSound, CompletedExactly
  <1>9. ProposalsExist' /\ ProposalSound'
    BY <1>3, <1>4, <1>6, <1>8 DEF ProposalsExist, ProposalSound
  <1>10. OneActiveTask'
    BY <1>2, <1>6 DEF OneActiveTask, Active
  <1>11. CompletedExactly'
    <2>1. /\ Len(log) \in Nat /\ Len(log') = Len(log) + 1 /\ log'[Len(log) + 1] = p
          /\ \A v \in 1 .. Len(log) : log'[v] = log[v]
      BY <1>1, AppendProperties, LenProperties DEF TypeOK
    <2>2. \A u \in TaskIds : tasks'[u].status = "completed" =>
             /\ tasks'[u].base < Len(log')
             /\ log'[tasks'[u].base + 1] = tasks'[u].proposal
             /\ previews'[tasks'[u].proposal].status = "committed"
      <3> SUFFICES ASSUME NEW u \in TaskIds, tasks'[u].status = "completed"
                   PROVE  /\ tasks'[u].base < Len(log')
                          /\ log'[tasks'[u].base + 1] = tasks'[u].proposal
                          /\ previews'[tasks'[u].proposal].status = "committed"
        OBVIOUS
      <3>1. CASE u = t
        BY <1>1, <1>3, <1>4, <1>6, <2>1, <3>1
      <3>2. CASE u # t
        <4>1. /\ tasks'[u] = tasks[u] /\ tasks[u].base < Len(log)
              /\ log[tasks[u].base + 1] = tasks[u].proposal
              /\ previews[tasks[u].proposal].status = "committed"
              /\ tasks[u].proposal \in PreviewIds /\ tasks[u].proposal # p
          BY <1>6, <1>8, <3>2 DEF CompletedExactly, CurrentVersion, ProposalsExist
        <4>2. tasks[u].base \in Nat
          BY <3>2, <1>6, TaskRow DEF TypeOK, StoredTasks
        <4> QED
          BY <1>6, <2>1, <4>1, <4>2
      <3> QED
        BY <3>1, <3>2
    <2>3. \A x \in PreviewIds : previews'[x].status = "committed" =>
             /\ tasks'[previews'[x].task].status = "completed"
             /\ tasks'[previews'[x].task].proposal = x
             /\ previews'[x].rendered
      <3> SUFFICES ASSUME NEW x \in PreviewIds \ {p}, previews[x].status = "committed"
                   PROVE  /\ tasks'[previews[x].task] = tasks[previews[x].task]
                          /\ tasks[previews[x].task].status = "completed"
                          /\ tasks[previews[x].task].proposal = x
                          /\ previews[x].rendered
        BY <1>3, <1>4, <1>6
      <3>1. previews[x].task \in TaskIds
        BY PreviewRow DEF TypeOK
      <3> QED
        BY <1>1, <1>6, <3>1 DEF CompletedExactly
    <2>4. \A v \in 1 .. Len(log') : log'[v] # None => previews'[log'[v]].status = "committed"
      <3> SUFFICES ASSUME NEW v \in 1 .. Len(log), log[v] # None
                   PROVE  previews'[log[v]].status = "committed"
        BY <1>4, <1>6, <2>1
      <3>1. log[v] \in PreviewIds /\ previews[log[v]].status = "committed"
        BY ElementOfSeq DEF CompletedExactly, CurrentVersion, TypeOK
      <3> QED
        BY <1>4, <1>6, <3>1
    <2> QED
      BY <2>2, <2>3, <2>4 DEF CompletedExactly, CurrentVersion
  <1>12. LifecycleStep
    BY <1>1, <1>2, <1>3, <1>6, ActiveTask, GraphEdges DEF LifecycleStep
  <1> QED
    BY <1>7, <1>9, <1>10, <1>11, <1>12

-----------------------------------------------------------------------------
LEMMA InitIInv == Init => IInv
  BY NoneAssumption
     DEF Init, IInv, TypeOK, TaskRows, PreviewRows, ProposalsExist, OneActiveTask, Active,
         Nonterminal, ProposalSound, CompletedExactly, CurrentVersion

LEMMA NextIInv == IInv /\ [Next]_vars => IInv' /\ LifecycleStep
  <1> SUFFICES ASSUME IInv, [Next]_vars
               PROVE  IInv' /\ LifecycleStep
    OBVIOUS
  <1>1. TypeOK
    BY DEF IInv
  <1>2. CASE Quiet
    BY <1>2, QuietKeepsIInv, QuietLifecycle
  <1>3. ASSUME NEW a \in Agents, NEW t \in TaskIds,
               \/ ClaimAgentTask(a, t)
               \/ RefusePreviewWork(a, t)
               \/ \E named \in PreviewIds \cup {None} : StartAgentTask(a, t, named)
               \/ FailAgentTask(a, t)
               \/ \E p \in PreviewIds, ok, aligned \in BOOLEAN :
                       CreateTaskPreview(a, t, p, ok, aligned)
        PROVE  Quiet
    BY <1>1, <1>3, ClaimQuiet, RefusePreviewWorkQuiet, StartQuiet, FailQuiet, CreatePreviewQuiet
  <1>4. ASSUME NEW t \in TaskIds,
               \/ CreateAgentTask(t)
               \/ RefuseTransition(t)
               \/ CancelAgentTask(t)
               \/ \E p \in PreviewIds : DiscardPreview(t, p) \/ RefuseApproval(t, p)
        PROVE  Quiet
    BY <1>1, <1>4, CreateTaskQuiet, RefuseTransitionQuiet, CancelQuiet, DiscardQuiet,
       RefuseApprovalQuiet
  <1>5. ASSUME \/ ReadAgentTasks
               \/ \E p \in PreviewIds : RecordPreviewRender(p) \/ ReadPreview(p)
               \/ CommitRevision \/ Upgrade \/ Tick \/ UNCHANGED vars
        PROVE  Quiet
    BY <1>1, <1>5, ReadQuiet, RenderQuiet, ReadPreviewQuiet, EnvironmentQuiet
  <1>6. ASSUME NEW a \in Agents, NEW t \in TaskIds, NEW p \in PreviewIds,
               ProposePreview(a, t, p) \/ ApproveTask(t, p)
        PROVE  IInv' /\ LifecycleStep
    BY <1>6, ProposeKeeps, ApproveKeeps
  <1>7. ASSUME NEW t \in TaskIds, NEW p \in PreviewIds, ApproveTask(t, p)
        PROVE  IInv' /\ LifecycleStep
    BY <1>7, ApproveKeeps
  <1> QED
    BY <1>2, <1>3, <1>4, <1>5, <1>6, <1>7 DEF Next, AgentNext, HumanNext

\* The inductive invariant holds in every state the server reaches.
THEOREM IInvAlways == Spec => []IInv
  BY InitIInv, NextIInv, PTL DEF Spec

\* Every row has its type: a task that left the queue has the agent that claimed it.
THEOREM TypeCorrect == Spec => []TypeOK
  BY IInvAlways, PTL DEF IInv

\* However agents, humans, expiry, upgrades and edits interleave, there is one
\* unfinished task, what awaits approval is a rendered preview of it, and a
\* completed task is one revision made of its proposal (approveAgentTaskDesignPreview).
THEOREM ProposalExactAlways == Spec => []ProposalExact
  <1>1. IInv => ProposalExact
    BY DEF IInv, ProposalExact
  <1> QED
    BY <1>1, IInvAlways, PTL

\* Tasks move along their graph, previews end once, and one is committed only as
\* the proposal of its task under the engine it was made with.
THEOREM TaskLifecycleAlways == Spec => TaskLifecycle
  <1>1. IInv /\ [Next]_vars => [LifecycleStep]_vars
    BY NextIInv
  <1>2. TaskLifecycle <=> [][LifecycleStep]_vars
    BY DEF TaskLifecycle, LifecycleStep
  <1> QED
    BY <1>1, <1>2, IInvAlways, PTL DEF Spec
===============================================================================
