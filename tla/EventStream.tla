----------------------------- MODULE EventStream -----------------------------
(***************************************************************************)
(* The durable outbox, its flush through the in-process EventHub, the SSE  *)
(* streams that resume from Last-Event-ID, and the retention that deletes  *)
(* old published rows (service.ts, events.ts, http-routes.ts,              *)
(* organization-policy-service.ts).                                        *)
(*                                                                         *)
(* The process is single-threaded and the flush and the opening of a       *)
(* stream are synchronous, so each is one action; a crash can stop a flush *)
(* between the publication of a row and the UPDATE that marks it.  What    *)
(* the server writes to a socket may be lost with the connection.          *)
(***************************************************************************)
EXTENDS Naturals, Sequences, FiniteSetsExt

CONSTANTS
    Clients,    \* browsers with an EventSource
    Kinds,      \* kinds of event
    Retained,   \* kinds the retention never deletes (governance evidence)
    Evidence,   \* the retained kind a retention run itself emits
    Visible,    \* Visible[c]: the kinds client c is authorized to read
    Limit,      \* the bound of a replay (500 rows)
    Cutoffs,    \* the ages, as event ids, at which a retention run may cut
    MaxEvents   \* bound of the events ever emitted

ASSUME KindsAssumption ==
    /\ Retained \subseteq Kinds
    /\ Evidence \in Retained
    /\ Visible \in [Clients -> SUBSET Kinds]
ASSUME BoundsAssumption == Limit \in Nat \ {0} /\ MaxEvents \in Nat

VARIABLES
    issued,     \* history: the kind of every event, by id (AUTOINCREMENT)
    stored,     \* the ids of the rows in event_outbox
    pending,    \* those with published_at NULL
    up,         \* the server process runs
    open,       \* the clients with an open stream
    cursor,     \* cursor[c]: the id last written to c's stream, in sendSse
    wire,       \* wire[c]: written and not yet received
    lastSeen,   \* lastSeen[c]: the Last-Event-ID c will send; 0: it sends none
    start,      \* history: the id from which c has to be told
    received,   \* history: the ids of the events c received, in order
    excused,    \* history: the id up to which c was told of a gap
    forgotten   \* history: the published rows that retention deleted

serverVars == <<issued, stored, pending, up, forgotten>>
streamVars == <<open, cursor, wire>>
clientVars == <<lastSeen, start, received, excused>>
vars == <<serverVars, streamVars, clientVars>>

Ids == 1..Len(issued)
CanRead(c, id) == issued[id] \in Visible[c]

Message(id, gap) == [id |-> id, gap |-> gap]

\* The rows of S in the order of their ids (ORDER BY id).
InOrder(S) ==
    CHOOSE ids \in [1..Cardinality(S) -> S] :
        \A i, j \in 1..Cardinality(S) : i < j => ids[i] < ids[j]

Messages(S) == [i \in 1..Cardinality(S) |-> Message(InOrder(S)[i], FALSE)]

-----------------------------------------------------------------------------
(* The outbox and its flush.                                               *)

\* Mutant: an event is queued that has no row.
Emit_NotStored(kind) ==
    /\ up
    /\ Len(issued) < MaxEvents
    /\ issued' = Append(issued, kind)
    /\ pending' = pending \cup {Len(issued) + 1}
    /\ UNCHANGED <<stored, up, forgotten, streamVars, clientVars>>

\* A transaction of some component commits; its event is a row of the outbox.
Emit(kind) ==
    /\ up
    /\ Len(issued) < MaxEvents
    /\ issued' = Append(issued, kind)
    /\ stored' = stored \cup {Len(issued) + 1}
    /\ pending' = pending \cup {Len(issued) + 1}
    /\ UNCHANGED <<up, forgotten, streamVars, clientVars>>

\* Mutant: the cursor of the stream is not compared.
Writable_NoCursor(c, S) == {id \in S : CanRead(c, id)}

\* writeEvent for the rows of S, in the order of their ids: nothing at or
\* below the cursor, nothing the client may not read.
Writable(c, S) == {id \in S : id > cursor[c] /\ CanRead(c, id)}

\* publishPersisted hands each row of S to every open stream.
Publish(S) ==
    /\ cursor' = [c \in Clients |->
          IF c \in open /\ Writable(c, S) # {}
          THEN Max(Writable(c, S)) ELSE cursor[c]]
    /\ wire' = [c \in Clients |->
          IF c \in open THEN wire[c] \o Messages(Writable(c, S)) ELSE wire[c]]

\* Mutant: rows are marked and handed to nobody.
Flush_MarksOnly ==
    /\ up
    /\ pending # {}
    /\ pending' = {}
    /\ UNCHANGED <<issued, stored, up, forgotten, streamVars, clientVars>>

\* flushPendingEvents, flushPersistedEventOutbox: after every write and when a
\* response is sent.
Flush ==
    /\ up
    /\ pending # {}
    /\ Publish(pending)
    /\ pending' = {}
    /\ UNCHANGED <<issued, stored, up, forgotten, open, clientVars>>

\* The process dies, perhaps in a flush: the rows below id are published and
\* marked, row id is published and not marked.
Crash ==
    /\ up
    /\ up' = FALSE
    /\ open' = {}
    /\ \/ UNCHANGED <<pending, cursor, wire>>
       \/ \E id \in pending :
             /\ Publish({x \in pending : x <= id})
             /\ pending' = {x \in pending : x >= id}
    /\ UNCHANGED <<issued, stored, forgotten, clientVars>>

\* The constructor of DesignerService flushes; nobody is subscribed yet.
Start ==
    /\ ~up
    /\ up' = TRUE
    /\ pending' = {}
    /\ UNCHANGED <<issued, stored, forgotten, streamVars, clientVars>>

\* executeAuditRetention: published rows older than the cutoff go, except the
\* governance evidence; the run leaves evidence of its own.
Retain(cut) ==
    LET old == {id \in stored \ pending : id <= cut /\ issued[id] \notin Retained}
    IN  /\ up
        /\ Len(issued) < MaxEvents
        /\ old # {}
        /\ issued' = Append(issued, Evidence)
        /\ stored' = (stored \ old) \cup {Len(issued) + 1}
        /\ pending' = pending \cup {Len(issued) + 1}
        /\ forgotten' = forgotten \cup old
        /\ UNCHANGED <<up, streamVars, clientVars>>

-----------------------------------------------------------------------------
(* Streams.                                                                *)

Rows(c) == {id \in stored : CanRead(c, id)}

LatestEventId(c) == IF Rows(c) = {} THEN 0 ELSE Max(Rows(c))

\* The result of eventsSince.
After(c, id) == {x \in Rows(c) : x > id}
Gap(c, id) == id > 0 /\ Rows(c) # {} /\ id + 1 < Min(Rows(c))
HasMore(c, id) == Cardinality(After(c, id)) > Limit

\* What an opened stream writes first: the rows after the id the client sent,
\* or the gap event under the id of the latest row.
Replay(c, id) ==
    IF Gap(c, id) \/ HasMore(c, id)
    THEN IF LatestEventId(c) > id THEN <<Message(LatestEventId(c), TRUE)>> ELSE <<>>
    ELSE Messages(After(c, id))

\* sendSse without a Last-Event-ID: told from here on.
Connect(c) ==
    /\ up
    /\ c \notin open
    /\ lastSeen[c] = 0
    /\ open' = open \cup {c}
    /\ cursor' = [cursor EXCEPT ![c] = LatestEventId(c)]
    /\ wire' = [wire EXCEPT ![c] = <<>>]
    /\ start' = [start EXCEPT ![c] = LatestEventId(c)]
    /\ UNCHANGED <<serverVars, lastSeen, received, excused>>

\* sendSse with one: replayed, or told of the gap.  What was on the wire of the
\* old connection is lost.
Resume(c) ==
    LET replay == Replay(c, lastSeen[c])
    IN  /\ up
        /\ c \notin open
        /\ lastSeen[c] > 0
        /\ open' = open \cup {c}
        /\ cursor' = [cursor EXCEPT ![c] =
              IF replay = <<>> THEN lastSeen[c] ELSE replay[Len(replay)].id]
        /\ wire' = [wire EXCEPT ![c] = replay]
        /\ UNCHANGED <<serverVars, clientVars>>

Disconnect(c) ==
    /\ c \in open
    /\ open' = open \ {c}
    /\ UNCHANGED <<serverVars, cursor, wire, clientVars>>

\* EventSource: the id of what it got is the Last-Event-ID of its next request.
Receive(c) ==
    /\ wire[c] # <<>>
    /\ wire' = [wire EXCEPT ![c] = Tail(@)]
    /\ lastSeen' = [lastSeen EXCEPT ![c] = Head(wire[c]).id]
    /\ IF Head(wire[c]).gap
       THEN /\ excused' = [excused EXCEPT ![c] = Head(wire[c]).id]
            /\ UNCHANGED received
       ELSE /\ received' = [received EXCEPT ![c] = Append(@, Head(wire[c]).id)]
            /\ UNCHANGED excused
    /\ UNCHANGED <<serverVars, open, cursor, start>>

-----------------------------------------------------------------------------
Init ==
    /\ issued = <<>>
    /\ stored = {}
    /\ pending = {}
    /\ up = TRUE
    /\ open = {}
    /\ cursor = [c \in Clients |-> 0]
    /\ wire = [c \in Clients |-> <<>>]
    /\ lastSeen = [c \in Clients |-> 0]
    /\ start = [c \in Clients |-> 0]
    /\ received = [c \in Clients |-> <<>>]
    /\ excused = [c \in Clients |-> 0]
    /\ forgotten = {}

Next ==
    \/ \E kind \in Kinds : Emit(kind)
    \/ Flush
    \/ Crash
    \/ Start
    \/ \E cut \in Cutoffs : Retain(cut)
    \/ \E c \in Clients : Connect(c) \/ Resume(c) \/ Disconnect(c) \/ Receive(c)

\* The flush runs with the next response of any request, a supervisor restarts
\* the process; an EventSource that tries again and again finds the server up in
\* one of its attempts, and one of its connections lasts long enough to carry a
\* message.
Fairness ==
    /\ WF_vars(Flush)
    /\ WF_vars(Start)
    /\ \A c \in Clients : SF_vars(Connect(c) \/ Resume(c)) /\ SF_vars(Receive(c))

Spec == Init /\ [][Next]_vars /\ Fairness

-----------------------------------------------------------------------------
(* Properties.                                                             *)

\* Every variable has its type.
TypeOK ==
    /\ issued \in Seq(Kinds)
    /\ stored \subseteq Ids
    /\ pending \subseteq stored
    /\ up \in BOOLEAN
    /\ open \subseteq Clients
    /\ cursor \in [Clients -> Nat]
    /\ wire \in [Clients -> Seq([id : Nat, gap : BOOLEAN])]
    /\ lastSeen \in [Clients -> Nat]
    /\ start \in [Clients -> Nat]
    /\ received \in [Clients -> Seq(Nat)]
    /\ excused \in [Clients -> Nat]
    /\ forgotten \subseteq Ids \ stored

\* A client never gets an event twice nor an older one after a newer one, over
\* all its connections: not from a replay that overlaps the live stream, not
\* from a row published again after a crash (the cursor, http-routes.ts:219-243).
OrderedDelivery ==
    \A c \in Clients : \A i, j \in 1..Len(received[c]) :
        i < j => received[c][i] < received[c][j]

\* Whatever id a client can resume from, it was given everything it may read up
\* to that id, or told of a gap, over any crashes, replays and overlaps with the
\* live stream (eventsSince and sendSse), but for rows that retention deleted once
\* they were published.
NoSilentLoss ==
    \A c \in Clients : \A id \in start[c] + 1 .. lastSeen[c] :
        CanRead(c, id) =>
            \/ id <= excused[c]
            \/ id \in forgotten
            \/ \E i \in 1..Len(received[c]) : received[c][i] = id

\* What a client is told, it is told once and in order, with nothing left out.
ToldOnce == OrderedDelivery /\ NoSilentLoss

\* Every event of which a client that has a Last-Event-ID has to be told reaches
\* it, or a gap does, whatever connections and processes break on the way; unless
\* retention comes first.
EventuallyTold ==
    \A c \in Clients : \A id \in 1..MaxEvents :
        (id \in Ids /\ CanRead(c, id) /\ start[c] < id)
            ~> (lastSeen[c] >= id \/ start[c] >= id \/ id \in forgotten)
=============================================================================
