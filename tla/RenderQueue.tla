---------------------------- MODULE RenderQueue ----------------------------
(***************************************************************************)
(* Render jobs: the slots and the queue of a PngRenderer (render.ts), the    *)
(* rows that record its jobs under the lease of the API process that asked   *)
(* for them (render-job-store.ts), and the worker that renders behind a       *)
(* socket (renderer-ipc.ts).                                                *)
(*                                                                         *)
(* The renderer works in the API process itself, or, when "remote", in the   *)
(* worker.  What a process does between two awaits is one step.  Processes    *)
(* crash; new ones are started beside slow ones on the same database.         *)
(***************************************************************************)
EXTENDS Naturals, Sequences, FiniteSets, SequencesExt

CONSTANTS
    Jobs,
    Processes,       \* API processes, each started once
    Caller,          \* Caller[j]: the process that asks for j
    Worker,          \* the host of the renderer when it is remote
    Concurrency,     \* slots of a renderer
    QueueLimit,      \* waiters it admits
    MaxConnections,  \* sockets the worker serves at a time
    MaxCrashes       \* bound: stops of the worker

ASSUME RenderQueueAssumption ==
    /\ Worker \notin Processes
    /\ Caller \in [Jobs -> Processes]
    /\ Concurrency \in Nat \ {0}
    /\ {QueueLimit, MaxConnections, MaxCrashes} \subseteq Nat
    /\ IsFiniteSet(Jobs)

VARIABLES
    remote,   \* whether the API renders through the socket
    up,       \* up[h]: "new", "up" or "down"
    crashes,  \* how often the worker stopped
    row,      \* row[j]: its render_jobs row
    call,     \* call[j]: what render has come to for its caller
    socket,   \* socket[j]: whether its connection is open at the worker
    task,     \* task[j]: where it is in the renderer
    result,   \* result[j]: what came back of the renderer
    active,   \* #active of the renderer at a host
    waiters   \* #waiters

hostVars == <<remote, up, crashes>>
rendererVars == <<task, active, waiters>>
vars == <<hostVars, row, call, socket, rendererVars, result>>

Hosts == Processes \cup {Worker}
NoRow == [status |-> "none", owner |-> Worker, fresh |-> FALSE]
Open(j) == row[j].status \in {"queued", "running"}

\* Where j is rendered.
Host(j) == IF remote THEN Worker ELSE row[j].owner
Pending(j) == call[j] = "pending"
Tasks(h, places) == {j \in Jobs : Host(j) = h /\ task[j] \in places}

-----------------------------------------------------------------------------
(* The rows.                                                                *)

\* A row without a lease any more.
Ended(r, status) == [r EXCEPT !.status = status, !.fresh = FALSE]

\* Mutant: only running rows are recovered.
Recovered_Running(r) ==
    IF r.status = "running" /\ ~r.fresh THEN Ended(r, "failed") ELSE r

\* recoverExpired: rows whose lease ran out are failed, whoever owns them.
Recovered(r) ==
    IF r.status \in {"queued", "running"} /\ ~r.fresh THEN Ended(r, "failed") ELSE r

\* heartbeat
Renewed(p, r) ==
    IF r.owner = p /\ r.status \in {"queued", "running"} THEN [r EXCEPT !.fresh = TRUE] ELSE r

\* start: renews the lease; it throws when the row is not queued.
Started(r) == [r EXCEPT !.status = "running", !.fresh = TRUE]

\* A process comes up: createApp recovers before anything else.
StartProcess(p) ==
    /\ up[p] = "new"
    /\ up' = [up EXCEPT ![p] = "up"]
    /\ row' = [j \in Jobs |-> Recovered(row[j])]
    /\ UNCHANGED <<remote, crashes, call, socket, rendererVars, result>>

\* The timer of the leases.
Tick(p) ==
    /\ up[p] = "up"
    /\ row' = [j \in Jobs |-> Recovered(Renewed(p, row[j]))]
    /\ UNCHANGED <<hostVars, call, socket, rendererVars, result>>

\* Forty-five seconds pass in which p does not renew: it is slow, or dead.
Lapse(p) ==
    /\ \E j \in Jobs : row[j].owner = p /\ row[j].fresh
    /\ row' = [j \in Jobs |-> IF row[j].owner = p THEN [row[j] EXCEPT !.fresh = FALSE] ELSE row[j]]
    /\ UNCHANGED <<hostVars, call, socket, rendererVars, result>>

-----------------------------------------------------------------------------
(* The slots.  A waiter that is woken takes its slot when its continuation    *)
(* runs; whatever was due before it runs first, and may take the slot.        *)

\* #acquire at host h: a slot, a place in the queue, or RATE_LIMITED.
Acquire(h, j) ==
    \/ /\ active[h] < Concurrency
       /\ active' = [active EXCEPT ![h] = @ + 1]
       /\ task' = [task EXCEPT ![j] = "active"]
       /\ UNCHANGED <<waiters, result>>
    \/ /\ active[h] >= Concurrency /\ Len(waiters[h]) < QueueLimit
       /\ waiters' = [waiters EXCEPT ![h] = Append(@, j)]
       /\ task' = [task EXCEPT ![j] = "waiting"]
       /\ UNCHANGED <<active, result>>
    \/ /\ active[h] >= Concurrency /\ Len(waiters[h]) >= QueueLimit
       /\ result' = [result EXCEPT ![j] = "error"]
       /\ task' = [task EXCEPT ![j] = "over"]
       /\ UNCHANGED <<active, waiters>>

\* Mutant: the slot goes back and nobody is woken.
Release_Silent(h, j) ==
    /\ active' = [active EXCEPT ![h] = @ - 1]
    /\ waiters' = waiters
    /\ task' = [task EXCEPT ![j] = "over"]

\* The function #acquire returns: the slot goes back and the first waiter is
\* woken.
Release(h, j) ==
    /\ active' = [active EXCEPT ![h] = @ - 1]
    /\ waiters' = [waiters EXCEPT ![h] = IF @ = <<>> THEN @ ELSE Tail(@)]
    /\ task' = [i \in Jobs |-> IF i = j THEN "over"
                               ELSE IF waiters[h] # <<>> /\ i = Head(waiters[h]) THEN "woken"
                               ELSE task[i]]

\* Mutant: a woken waiter takes the slot it was given without counting it.
Wake_Uncounted(j) ==
    /\ task[j] = "woken"
    /\ remote \/ row[j].status = "queued"
    /\ task' = [task EXCEPT ![j] = "active"]
    /\ row' = [row EXCEPT ![j] = IF remote THEN @ ELSE Started(@)]
    /\ UNCHANGED <<hostVars, call, socket, result, active, waiters>>

\* A woken waiter goes on: here onStarted runs, which throws when its row was
\* recovered meanwhile; then the task is active with an error to end in.
Wake(j) ==
    /\ task[j] = "woken"
    /\ active' = [active EXCEPT ![Host(j)] = @ + 1]
    /\ \/ /\ remote \/ row[j].status = "queued"
          /\ task' = [task EXCEPT ![j] = "active"]
          /\ row' = [row EXCEPT ![j] = IF remote THEN @ ELSE Started(@)]
       \/ /\ ~remote /\ row[j].status # "queued"
          /\ task' = [task EXCEPT ![j] = "refused"]
          /\ row' = row
    /\ UNCHANGED <<hostVars, call, socket, result, waiters>>

\* Chromium answers, fails or is timed out; the finally clause gives the slot
\* back.  An answer for a client that left goes nowhere.
Finish(j) ==
    /\ task[j] \in {"active", "refused"}
    /\ Release(Host(j), j)
    /\ result' \in {[result EXCEPT ![j] = o] :
                        o \in IF ~Pending(j) \/ result[j] # "none" THEN {result[j]}
                              ELSE IF task[j] = "refused" THEN {"error"} ELSE {"png", "error"}}
    /\ UNCHANGED <<hostVars, row, call, socket>>

-----------------------------------------------------------------------------
(* A call of render or normalizeRaster.                                     *)

\* queue, and in the same step #acquire or, when remote, onStarted.
Render(p, j) ==
    LET queued == [status |-> "queued", owner |-> p, fresh |-> TRUE]
    IN /\ up[p] = "up" /\ call[j] = "none"
       /\ call' = [call EXCEPT ![j] = "pending"]
       /\ \/ remote /\ UNCHANGED <<rendererVars, result>>
          \/ ~remote /\ Acquire(p, j)
       /\ row' = [row EXCEPT ![j] =
                     IF remote \/ task'[j] = "active" THEN Started(queued) ELSE queued]
       /\ UNCHANGED <<hostVars, socket>>

Connections == {j \in Jobs : socket[j]}

\* The worker serves a connection; one too many is destroyed, and there is
\* none to make when the worker is down.
Connect(j) ==
    /\ remote /\ Pending(j) /\ task[j] = "none" /\ result[j] = "none"
    /\ \/ /\ up[Worker] = "up" /\ Cardinality(Connections) < MaxConnections
          /\ Acquire(Worker, j)
          /\ socket' = [socket EXCEPT ![j] = TRUE]
       \/ /\ up[Worker] # "up" \/ Cardinality(Connections) >= MaxConnections
          /\ result' = [result EXCEPT ![j] = "error"]
          /\ UNCHANGED <<rendererVars, socket>>
    /\ UNCHANGED <<hostVars, row, call>>

\* The client's timer: it leaves, the worker goes on.
ClientTimeout(j) ==
    /\ remote /\ Pending(j) /\ result[j] = "none"
    /\ result' = [result EXCEPT ![j] = "error"]
    /\ socket' = [socket EXCEPT ![j] = FALSE]
    /\ UNCHANGED <<hostVars, row, call, rendererVars>>

\* Mutant: what the store says is not asked.
Settle_Anyway(j) ==
    /\ Pending(j) /\ result[j] # "none"
    /\ call' = [call EXCEPT ![j] = result[j]]
    /\ row' = [row EXCEPT ![j] =
                  IF ~Open(j) THEN @
                  ELSE Ended(@, IF result[j] = "png" THEN "succeeded" ELSE "failed")]
    /\ socket' = [socket EXCEPT ![j] = FALSE]
    /\ result' = [result EXCEPT ![j] = "none"]
    /\ UNCHANGED <<hostVars, rendererVars>>

\* succeed or fail, and the answer.  Both change an open row of this owner
\* only; succeed wants it running.  When succeed throws so does the fail that
\* follows, and the caller is told INTERNAL_ERROR.
Settle(j) ==
    /\ Pending(j) /\ result[j] # "none"
    /\ \/ /\ result[j] = "png" /\ row[j].status = "running"
          /\ row' = [row EXCEPT ![j] = Ended(@, "succeeded")]
          /\ call' = [call EXCEPT ![j] = "png"]
       \/ /\ result[j] = "error" /\ Open(j)
          /\ row' = [row EXCEPT ![j] = Ended(@, "failed")]
          /\ call' = [call EXCEPT ![j] = "error"]
       \/ /\ ~Open(j)
          /\ row' = row
          /\ call' = [call EXCEPT ![j] = "error"]
    /\ socket' = [socket EXCEPT ![j] = FALSE]
    /\ result' = [result EXCEPT ![j] = "none"]
    /\ UNCHANGED <<hostVars, rendererVars>>

-----------------------------------------------------------------------------
(* Crashes.                                                                 *)

\* Nothing is left of the renderer at h.
Emptied(h) ==
    /\ task' = [j \in Jobs |-> IF Host(j) = h /\ task[j] # "none" THEN "over" ELSE task[j]]
    /\ active' = [active EXCEPT ![h] = 0]
    /\ waiters' = [waiters EXCEPT ![h] = <<>>]

\* Another process is there to be started.
CrashProcess(p) ==
    /\ up[p] = "up"
    /\ \E o \in Processes : up[o] = "new"
    /\ up' = [up EXCEPT ![p] = "down"]
    /\ LET mine == {j \in Jobs : Pending(j) /\ row[j].owner = p}
       IN /\ call' = [j \in Jobs |-> IF j \in mine THEN "lost" ELSE call[j]]
          /\ socket' = [j \in Jobs |-> socket[j] /\ j \notin mine]
          /\ result' = [j \in Jobs |-> IF j \in mine THEN "none" ELSE result[j]]
    /\ IF remote THEN UNCHANGED rendererVars ELSE Emptied(p)
    /\ UNCHANGED <<remote, crashes, row>>

CrashWorker ==
    /\ remote /\ up[Worker] = "up" /\ crashes < MaxCrashes
    /\ up' = [up EXCEPT ![Worker] = "down"]
    /\ crashes' = crashes + 1
    /\ Emptied(Worker)
    /\ result' = [j \in Jobs |-> IF socket[j] /\ result[j] = "none" THEN "error" ELSE result[j]]
    /\ socket' = [j \in Jobs |-> FALSE]
    /\ UNCHANGED <<remote, row, call>>

StartWorker ==
    /\ remote /\ up[Worker] # "up"
    /\ up' = [up EXCEPT ![Worker] = "up"]
    /\ UNCHANGED <<remote, crashes, row, call, socket, rendererVars, result>>

-----------------------------------------------------------------------------
Init ==
    /\ remote \in BOOLEAN
    /\ up = [h \in Hosts |-> "new"]
    /\ crashes = 0
    /\ row = [j \in Jobs |-> NoRow]
    /\ call = [j \in Jobs |-> "none"]
    /\ socket = [j \in Jobs |-> FALSE]
    /\ task = [j \in Jobs |-> "none"]
    /\ result = [j \in Jobs |-> "none"]
    /\ active = [h \in Hosts |-> 0]
    /\ waiters = [h \in Hosts |-> <<>>]

Next ==
    \/ \E p \in Processes :
        \/ StartProcess(p) \/ Tick(p) \/ Lapse(p) \/ CrashProcess(p)
    \/ \E j \in Jobs :
        \/ Render(Caller[j], j)
        \/ Wake(j) \/ Finish(j) \/ Connect(j) \/ ClientTimeout(j) \/ Settle(j)
    \/ CrashWorker \/ StartWorker

\* Timers fire: that of the leases in a process that is up, those of Chromium
\* and of the client; continuations run; a process that is down is started
\* anew and the clock goes on.  That anybody asks for a render, or that a
\* process or the worker crashes or lags, is not assumed.
Fairness ==
    /\ \A p \in Processes :
        /\ WF_vars(StartProcess(p)) /\ WF_vars(Tick(p))
        /\ WF_vars(up[p] = "down" /\ Lapse(p))
    /\ \A j \in Jobs :
        WF_vars(Wake(j)) /\ WF_vars(Finish(j)) /\ WF_vars(Connect(j)) /\ WF_vars(Settle(j))

Spec == Init /\ [][Next]_vars /\ Fairness

-----------------------------------------------------------------------------
(* Properties.                                                              *)

TypeOK ==
    /\ remote \in BOOLEAN /\ crashes \in 0 .. MaxCrashes
    /\ up \in [Hosts -> {"new", "up", "down"}]
    /\ row \in [Jobs -> [status : {"none", "queued", "running", "succeeded", "failed"},
                         owner : Hosts, fresh : BOOLEAN]]
    /\ call \in [Jobs -> {"none", "pending", "png", "error", "lost"}]
    /\ socket \in [Jobs -> BOOLEAN]
    /\ task \in [Jobs -> {"none", "waiting", "woken", "active", "refused", "over"}]
    /\ result \in [Jobs -> {"none", "png", "error"}]
    /\ active \in [Hosts -> Nat]
    /\ waiters \in [Hosts -> Seq(Jobs)]

\* What a caller is told is what its row says, though the row may have been
\* failed by another process in between: a picture is handed out only with a
\* row that succeeded, an error only with one that failed (render in render.ts).
AnsweredAsRecorded ==
    \A j \in Jobs :
        /\ call[j] = "png" => row[j].status = "succeeded"
        /\ call[j] = "error" => row[j].status = "failed"

\* No slot is lost and no waiter forgotten: the counter is that of the tasks
\* that hold a slot, the queue is that of the tasks that wait, and while one
\* waits the slots are taken or about to be (#acquire and its release).
NoSlotLost ==
    \A h \in Hosts :
        /\ active[h] = Cardinality(Tasks(h, {"active", "refused"}))
        /\ ToSet(waiters[h]) = Tasks(h, {"waiting"}) /\ IsInjective(waiters[h])
        /\ waiters[h] # <<>> =>
               active[h] + Cardinality(Tasks(h, {"woken"})) >= Concurrency

\* Every call is answered and every row comes to an end, whichever process or
\* worker crashes: at the latest when another process finds its lease run out.
EveryJobEnds == \A j \in Jobs : (Pending(j) \/ Open(j)) ~> ~(Pending(j) \/ Open(j))
=============================================================================
