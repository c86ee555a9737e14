------------------------------ MODULE AgentTasks ------------------------------
(***************************************************************************)
(* The design-preview tasks of one design (enterprise-service.ts): a human *)
(* asks, an agent claims, makes previews bound to the task and proposes    *)
(* one, a human approves that very preview or discards it.                 *)
(*                                                                         *)
(* States are materialised when somebody looks: a task past its time or on *)
(* a stale base stays as it is until a request meets it.  The render of a  *)
(* preview is asynchronous: whatever other requests do, they may do it     *)
(* between the creation of a preview and the recording of its render.      *)
(* A task's row is its latest transition.  An archived design, under which *)
(* every request is refused, is left to DesignStore.                       *)
(***************************************************************************)
EXTENDS Naturals, Sequences

CONSTANTS
    Agents,       \* principals of agent connections
    TaskIds,      \* bounds the tasks ever created
    PreviewIds,   \* bounds the previews ever created
    None,         \* no claimer, no preview
    TaskTTL,      \* expiresInSeconds
    PreviewTTL,   \* previewTtlSeconds, until alignAgentTaskPreviewExpiry
    MaxVersion,   \* bound of the versions of the design
    MaxEngine,    \* bound of the server upgrades
    MaxTime       \* bound of the clock

ASSUME NoneAssumption == None \notin Agents \cup PreviewIds
ASSUME TTLAssumption == {TaskTTL, PreviewTTL} \subseteq Nat

VARIABLES
    tasks,     \* tasks[t]: the row with its latest transition
    previews,  \* previews[p]: the row with its task binding
    log,       \* log[v]: the preview that made version v, or None
    engine,    \* the engine, renderer and font versions now running
    clock

vars == <<tasks, previews, log, engine, clock>>

-----------------------------------------------------------------------------
\* taskTransitionGraph
Graph ==
    [queued |-> {"claimed", "cancelled", "expired"},
     claimed |-> {"in_progress", "failed", "cancelled", "expired"},
     in_progress |-> {"awaiting_approval", "completed", "failed", "cancelled",
                      "expired"},
     awaiting_approval |-> {"in_progress", "completed", "failed", "cancelled",
                            "expired"},
     completed |-> {}, failed |-> {}, cancelled |-> {}, expired |-> {}]

Nonterminal == {"queued", "claimed", "in_progress", "awaiting_approval"}

\* "proposal" is the previewId in the data of the latest transition.
TaskRows ==
    [status : {"unused"}]
    \cup [status : {"queued", "cancelled", "expired"}, base : Nat, expires : Nat,
          claimer : {None}, proposal : {None}]
    \cup [status : DOMAIN Graph \ {"queued"}, base : Nat, expires : Nat,
          claimer : Agents, proposal : PreviewIds \cup {None}]

PreviewRows ==
    [status : {"unused"}]
    \cup [status : {"ready", "blocked", "expired", "committed"}, task : TaskIds,
          actor : Agents, base : Nat, engine : Nat, expires : Nat,
          rendered : BOOLEAN]

CurrentVersion == Len(log)
Active == {t \in TaskIds : tasks[t].status \in Nonterminal}

TaskDue(t) == tasks[t].expires <= clock
Stale(t) == tasks[t].base # CurrentVersion

Open(row) == row.status \in {"ready", "blocked"}

\* A preview a human can still review.
Reviewable(t, p) ==
    /\ previews[p].status = "ready"
    /\ previews[p].task = t
    /\ previews[p].base = tasks[t].base
    /\ previews[p].expires > clock
    /\ previews[p].rendered

\* appendTaskTransition
Moved(t, status, proposal) ==
    [tasks[t] EXCEPT !.status = status, !.proposal = proposal]

\* The preview a task that ends gives up: found by its id and its base alone.
Abandoned(t, p) ==
    {x \in {p} \cap PreviewIds :
        Open(previews[x]) /\ previews[x].base = tasks[t].base}

ExpireAll(P) ==
    [p \in PreviewIds |->
        IF p \in P
        THEN [previews[p] EXCEPT !.status = "expired", !.expires = clock]
        ELSE previews[p]]

-----------------------------------------------------------------------------
(* materializeDesignPreviewTaskStates, which every read and creation runs. *)

Outcome(t) ==
    CASE TaskDue(t) -> "expired"
      [] /\ ~TaskDue(t)
         /\ tasks[t].status = "awaiting_approval"
         /\ ~Reviewable(t, tasks[t].proposal) -> "in_progress"
      [] /\ ~TaskDue(t)
         /\ tasks[t].status = "awaiting_approval"
              => Reviewable(t, tasks[t].proposal)
         /\ Stale(t) -> "cancelled"
      [] OTHER -> "keep"

Due == {t \in Active : Outcome(t) # "keep"}

SettledTasks ==
    [t \in TaskIds |->
        IF t \in Due THEN Moved(t, Outcome(t), tasks[t].proposal) ELSE tasks[t]]

SettledPreviews == ExpireAll(UNION {Abandoned(t, tasks[t].proposal) : t \in Due})

\* readAgentTask, listAgentTasks, and a creation that is refused.
ReadAgentTasks ==
    /\ tasks' = SettledTasks
    /\ previews' = SettledPreviews
    /\ UNCHANGED <<log, engine, clock>>

\* createAgentTask: one unfinished task for a design.
NoActiveTask == {t \in TaskIds : SettledTasks[t].status \in Nonterminal} = {}

CreateAgentTask(t) ==
    /\ tasks[t].status = "unused"
    /\ NoActiveTask
    /\ tasks' = [SettledTasks EXCEPT ![t] =
          [status |-> "queued", base |-> CurrentVersion, expires |-> clock + TaskTTL,
           claimer |-> None, proposal |-> None]]
    /\ previews' = SettledPreviews
    /\ UNCHANGED <<log, engine, clock>>

-----------------------------------------------------------------------------
(* The agent's side.                                                       *)

\* materializeTaskTerminalState and returnTaskToInProgressForPreviewRegeneration:
\* a request that meets a task past its time, on a stale base or with a proposal
\* nobody can review says so in the row and fails.  The preview given up is the
\* one the row names; if it names none, the one the request does.
GiveUp(t, status, named) ==
    LET p == IF tasks[t].proposal # None THEN tasks[t].proposal ELSE named
    IN  /\ tasks' = [tasks EXCEPT ![t] = Moved(t, status, p)]
        /\ previews' = ExpireAll(Abandoned(t, p))
        /\ UNCHANGED <<log, engine, clock>>

\* The expiry that claims and transitions write leaves the preview alone.
ExpireInPlace(t) ==
    /\ TaskDue(t)
    /\ tasks' = [tasks EXCEPT ![t] = Moved(t, "expired", None)]
    /\ UNCHANGED <<previews, log, engine, clock>>

\* Mutant: who claimed is not written down.
ClaimAgentTask_Anonymous(a, t) ==
    /\ tasks[t].status = "queued"
    /\ ~TaskDue(t) /\ ~Stale(t)
    /\ tasks' = [tasks EXCEPT ![t].status = "claimed"]
    /\ UNCHANGED <<previews, log, engine, clock>>

ClaimAgentTask(a, t) ==
    /\ tasks[t].status = "queued"
    /\ \/ ExpireInPlace(t)
       \/ ~TaskDue(t) /\ Stale(t) /\ GiveUp(t, "cancelled", None)
       \/ /\ ~TaskDue(t) /\ ~Stale(t)
          /\ tasks' = [tasks EXCEPT ![t].status = "claimed", ![t].claimer = a]
          /\ UNCHANGED <<previews, log, engine, clock>>

\* authorizeAgentTaskDesignPreviewWork where it writes.
RefusePreviewWork(a, t) ==
    /\ t \in Active
    /\ tasks[t].claimer = a
    /\ \/ TaskDue(t) /\ GiveUp(t, "expired", None)
       \/ /\ ~TaskDue(t)
          /\ tasks[t].status = "in_progress"
          /\ Stale(t)
          /\ GiveUp(t, "cancelled", None)

\* Mutant: the status is not looked at.
ExpireDue_Any(row) ==
    IF row.status # "unused" /\ row.expires <= clock
    THEN [row EXCEPT !.status = "expired"] ELSE row

ExpireDue(row) ==
    IF Open(row) /\ row.expires <= clock
    THEN [row EXCEPT !.status = "expired"] ELSE row

\* createPreview or its refinement for a task, then alignAgentTaskPreviewExpiry,
\* unless the process ends between the two.
CreateTaskPreview(a, t, p, ok, aligned) ==
    /\ tasks[t].status = "in_progress"
    /\ tasks[t].claimer = a
    /\ ~TaskDue(t)
    /\ ~Stale(t)
    /\ previews[p].status = "unused"
    /\ previews' = [x \in PreviewIds |->
          IF x # p THEN ExpireDue(previews[x])
          ELSE [status |-> IF ok THEN "ready" ELSE "blocked", task |-> t,
                actor |-> a, base |-> tasks[t].base, engine |-> engine,
                expires |-> IF aligned THEN tasks[t].expires
                            ELSE clock + PreviewTTL,
                rendered |-> FALSE]]
    /\ UNCHANGED <<tasks, log, engine, clock>>

\* recordPreviewRenderMetadata, when the render is done.
RecordPreviewRender(p) ==
    LET t == previews[p].task
    IN  /\ Open(previews[p])
        /\ previews[p].expires > clock
        /\ ~previews[p].rendered
        /\ tasks[t].status = "in_progress"
        /\ ~TaskDue(t)
        /\ tasks[t].claimer = previews[p].actor
        /\ previews' = [previews EXCEPT ![p].rendered = TRUE]
        /\ UNCHANGED <<tasks, log, engine, clock>>

\* requirePreviewForRead
ReadPreview(p) ==
    /\ previews[p].status # "unused"
    /\ previews' = [previews EXCEPT ![p] = ExpireDue(@)]
    /\ UNCHANGED <<tasks, log, engine, clock>>

-----------------------------------------------------------------------------
(* transitionAgentTask.                                                    *)

\* What any transition request does first, whoever sends it.
Unreviewable(t) ==
    /\ tasks[t].status = "awaiting_approval"
    /\ ~Reviewable(t, tasks[t].proposal)

RefuseTransition(t) ==
    /\ t \in Active
    /\ \/ ExpireInPlace(t)
       \/ ~TaskDue(t) /\ Unreviewable(t) /\ GiveUp(t, "in_progress", None)

MayTransition(t, status) ==
    /\ t \in Active
    /\ ~TaskDue(t)
    /\ ~Unreviewable(t)
    /\ status \in Graph[tasks[t].status]

\* The claimer starts, or takes its proposal back.  The data it sends is kept as
\* it is: it may name any preview there is.
StartAgentTask(a, t, named) ==
    /\ MayTransition(t, "in_progress")
    /\ tasks[t].claimer = a
    /\ named # None => previews[named].status # "unused"
    /\ \/ Stale(t) /\ GiveUp(t, "cancelled", named)
       \/ /\ ~Stale(t)
          /\ tasks' = [tasks EXCEPT ![t] = Moved(t, "in_progress", named)]
          /\ UNCHANGED <<previews, log, engine, clock>>

\* validateTaskCompletion
Proposable(t, p) ==
    /\ previews[p].status \in {"ready", "committed"}
    /\ previews[p].task = t
    /\ previews[p].base = tasks[t].base
    /\ previews[p].actor = tasks[t].claimer
    /\ previews[p].expires > clock
    /\ previews[p].rendered
    /\ previews[p].engine = engine

ProposePreview(a, t, p) ==
    /\ MayTransition(t, "awaiting_approval")
    /\ tasks[t].claimer = a
    /\ \/ Stale(t) /\ GiveUp(t, "cancelled", p)
       \/ /\ ~Stale(t)
          /\ Proposable(t, p)
          /\ tasks' = [tasks EXCEPT ![t] =
                Moved(t, "awaiting_approval", p)]
          /\ UNCHANGED <<previews, log, engine, clock>>

\* Nothing reads the preview the data of a failure or a cancellation may name.
FailAgentTask(a, t) ==
    /\ MayTransition(t, "failed")
    /\ tasks[t].claimer = a
    /\ tasks' = [tasks EXCEPT ![t] = Moved(t, "failed", None)]
    /\ UNCHANGED <<previews, log, engine, clock>>

\* By the claimer or a human; a discard names the proposal and expires it.
CancelAgentTask(t) ==
    /\ MayTransition(t, "cancelled")
    /\ tasks' = [tasks EXCEPT ![t] = Moved(t, "cancelled", None)]
    /\ UNCHANGED <<previews, log, engine, clock>>

DiscardPreview(t, p) ==
    /\ MayTransition(t, "cancelled")
    /\ tasks[t].status = "awaiting_approval"
    /\ tasks[t].proposal = p
    /\ previews[p].actor = tasks[t].claimer
    /\ tasks' = [tasks EXCEPT ![t] = Moved(t, "cancelled", p)]
    /\ previews' = ExpireAll({p})
    /\ UNCHANGED <<log, engine, clock>>

-----------------------------------------------------------------------------
(* approveAgentTaskDesignPreview: the human names the preview reviewed.    *)

\* expireAwaitingTaskPreviewApproval, a transaction before that of the approval.
RefuseApproval(t, p) ==
    /\ tasks[t].status = "awaiting_approval"
    /\ tasks[t].proposal = p
    /\ \/ TaskDue(t) /\ GiveUp(t, "expired", p)
       \/ /\ ~TaskDue(t)
          /\ previews[p].status # "ready" \/ previews[p].expires <= clock
          /\ GiveUp(t, "in_progress", p)

Approvable(t, p) ==
    /\ tasks[t].status = "awaiting_approval"
    /\ tasks[t].proposal = p
    /\ ~TaskDue(t)
    /\ previews[p].status = "ready"
    /\ Proposable(t, p)

\* Mutant: the proposal is committed on top of what came after its base.
ApproveTask_Stale(t, p) ==
    /\ Approvable(t, p)
    /\ CurrentVersion < MaxVersion
    /\ log' = Append(log, p)
    /\ previews' = [previews EXCEPT ![p].status = "committed"]
    /\ tasks' = [tasks EXCEPT ![t] = Moved(t, "completed", p)]
    /\ UNCHANGED <<engine, clock>>

ApproveTask(t, p) ==
    /\ Approvable(t, p)
    /\ ~Stale(t)
    /\ CurrentVersion < MaxVersion
    /\ log' = Append(log, p)
    /\ previews' = [previews EXCEPT ![p].status = "committed"]
    /\ tasks' = [tasks EXCEPT ![t] = Moved(t, "completed", p)]
    /\ UNCHANGED <<engine, clock>>

-----------------------------------------------------------------------------
\* Any revision a human makes of the design meanwhile.
CommitRevision ==
    /\ CurrentVersion < MaxVersion
    /\ log' = Append(log, None)
    /\ UNCHANGED <<tasks, previews, engine, clock>>

Upgrade ==
    /\ engine < MaxEngine
    /\ engine' = engine + 1
    /\ UNCHANGED <<tasks, previews, log, clock>>

Tick ==
    /\ clock < MaxTime
    /\ clock' = clock + 1
    /\ UNCHANGED <<tasks, previews, log, engine>>

Init ==
    /\ tasks = [t \in TaskIds |-> [status |-> "unused"]]
    /\ previews = [p \in PreviewIds |-> [status |-> "unused"]]
    /\ log = <<None>>
    /\ engine = 1
    /\ clock = 0

AgentNext ==
    \E a \in Agents, t \in TaskIds :
        \/ ClaimAgentTask(a, t)
        \/ RefusePreviewWork(a, t)
        \/ \E named \in PreviewIds \cup {None} : StartAgentTask(a, t, named)
        \/ FailAgentTask(a, t)
        \/ \E p \in PreviewIds :
              \/ \E ok, aligned \in BOOLEAN : CreateTaskPreview(a, t, p, ok, aligned)
              \/ ProposePreview(a, t, p)

HumanNext ==
    \/ ReadAgentTasks
    \/ CommitRevision
    \/ \E t \in TaskIds :
          \/ CreateAgentTask(t)
          \/ RefuseTransition(t)
          \/ CancelAgentTask(t)
          \/ \E p \in PreviewIds :
                DiscardPreview(t, p) \/ RefuseApproval(t, p) \/ ApproveTask(t, p)

Next ==
    \/ AgentNext
    \/ HumanNext
    \/ \E p \in PreviewIds : RecordPreviewRender(p) \/ ReadPreview(p)
    \/ Upgrade
    \/ Tick

Spec == Init /\ [][Next]_vars

-----------------------------------------------------------------------------
(* Properties.                                                             *)

\* Every variable has its type; a task that went further than the queue has the
\* agent that claimed it.
TypeOK ==
    /\ tasks \in [TaskIds -> TaskRows]
    /\ previews \in [PreviewIds -> PreviewRows]
    /\ log \in Seq(PreviewIds \cup {None})
    /\ engine \in Nat
    /\ clock \in Nat

\* A design never has two unfinished tasks, though nothing but the creation of
\* a task looks for the others (createAgentTask, enterprise-service.ts:1016-1038).
OneActiveTask ==
    \A t, u \in Active : t = u

\* What waits for approval is a rendered preview of this very task, by the agent
\* that claimed it, on the base of the task: it cannot have been replaced.
ProposalSound ==
    \A t \in TaskIds : tasks[t].status = "awaiting_approval" =>
        /\ tasks[t].proposal # None
        /\ previews[tasks[t].proposal].task = t
        /\ previews[tasks[t].proposal].actor = tasks[t].claimer
        /\ previews[tasks[t].proposal].base = tasks[t].base
        /\ previews[tasks[t].proposal].rendered
        /\ previews[tasks[t].proposal].status # "committed"

\* A completed task is one revision, made by its proposal right on its base, and
\* no revision comes from a preview in any other way: not from one discarded,
\* expired, or left over by a task that ended otherwise.
CompletedExactly ==
    /\ \A t \in TaskIds : tasks[t].status = "completed" =>
          /\ tasks[t].base < CurrentVersion
          /\ log[tasks[t].base + 1] = tasks[t].proposal
          /\ previews[tasks[t].proposal].status = "committed"
    /\ \A p \in PreviewIds : previews[p].status = "committed" =>
          /\ tasks[previews[p].task].status = "completed"
          /\ tasks[previews[p].task].proposal = p
          /\ previews[p].rendered
    /\ \A v \in 1..CurrentVersion : log[v] # None => previews[log[v]].status = "committed"

\* From the creation of a task to the revision it ends in, no other task, agent or
\* preview takes its part.
ProposalExact == OneActiveTask /\ ProposalSound /\ CompletedExactly

\* A task moves only along the graph, its base, its time and, once it has one,
\* its claimer never change; an expired or committed preview stays so, and one
\* is committed only while it is the proposal of its task and the server runs
\* the engine it was made with.
TaskLifecycle ==
    [][/\ \A t \in TaskIds : tasks[t].status # "unused" =>
             /\ tasks'[t].status # tasks[t].status
                  => tasks'[t].status \in Graph[tasks[t].status]
             /\ tasks'[t].base = tasks[t].base
             /\ tasks'[t].expires = tasks[t].expires
             /\ tasks[t].claimer # None => tasks'[t].claimer = tasks[t].claimer
       /\ \A p \in PreviewIds :
             /\ previews[p].status \in {"expired", "committed"}
                  => previews'[p].status = previews[p].status
             /\ previews[p].status # "committed" /\ previews'[p].status = "committed"
                  => /\ tasks[previews[p].task].proposal = p
                     /\ previews[p].engine = engine]_vars
=============================================================================
