--------------------------- MODULE AgentConnections ---------------------------
(***************************************************************************)
(* The agent connections of one organization (enterprise-service.ts): an   *)
(* administrator creates, renews and revokes them, a bridge that holds the *)
(* one-time nonce pairs and receives a grant, requests use the grant.      *)
(*                                                                         *)
(* A new connection may stand in for others.  It is staged: while it is    *)
(* pending an intent in system_metadata names the connections it replaces, *)
(* those stay usable, and they do not count towards the limit.  Pairing it *)
(* activates it and revokes them in one transaction.                       *)
(*                                                                         *)
(* Pairing always makes a new principal for the connection, so a grant     *)
(* here names the connection.  What a connection asks for (adapter, scopes *)
(* and projects) is one value, which the policy allows or not.             *)
(***************************************************************************)
EXTENDS Naturals, FiniteSets

CONSTANTS
    Connections,  \* bounds the connections ever created
    Names,        \* an adapter with a display name
    Managed,      \* INSTALLER_MANAGED_CODEX_RECONCILIATION_NAMES
    Asks,         \* what a connection may ask for
    Policies,     \* the "agents" sections an administrator may set
    Lifetimes,    \* expiresInSeconds of createAgentConnection
    PairingTTL,   \* pairingTtlSeconds
    MaxReplaced,  \* replaced connections a readable intent may name
    MaxTime       \* bound of the clock

\* An empty "allowed" is a policy under which agents are disabled.
PolicyType == [allowed : SUBSET Asks, limit : Nat, longest : Nat]

ASSUME NamesAssumption == Managed \subseteq Names
ASSUME PoliciesAssumption == Policies \subseteq PolicyType
ASSUME TimesAssumption == Lifetimes \subseteq Nat /\ PairingTTL \in Nat
ASSUME ConnectionsAssumption == IsFiniteSet(Connections)

VARIABLES
    connections,  \* connections[c]: the row with its pairing nonce
    intents,      \* intents[c]: the connections that c will replace, if any
    grants,       \* the rows of agent_grants
    policy,       \* the "agents" section of the organization's policy
    closed,       \* the asks that name a project which is not active
    clock

vars == <<connections, intents, grants, policy, closed, clock>>

-----------------------------------------------------------------------------
StoredRows ==
    [status : {"pending", "active", "expired", "revoked"}, name : Names,
     ask : Asks, expires : Nat, nonceExpires : Nat, consumed : BOOLEAN,
     nonceRevoked : BOOLEAN]

\* A row that a restored backup did not have is "gone", for good: if another
\* backup brought it back it would be revoked.
ConnectionRows == [status : {"unused", "gone"}] \cup StoredRows

GrantRows ==
    [connection : Connections, serial : Nat, expires : Nat, revoked : BOOLEAN]

Status(c) == connections[c].status
Exists(c) == Status(c) \notin {"unused", "gone"}
Unexpired(c) == connections[c].expires > clock
Live(c) == Status(c) \in {"pending", "active"} /\ Unexpired(c)

\* resolveAccess: what a request that carries the grant is checked for.
Usable(g) ==
    /\ ~g.revoked
    /\ g.expires > clock
    /\ Status(g.connection) = "active"
    /\ Unexpired(g.connection)
    /\ connections[g.connection].ask \in policy.allowed

\* parseReplacementIntent throws INTERNAL_ERROR on a longer list.
ReadableIntent(c) == Cardinality(intents[c]) <= MaxReplaced

LivePending == {c \in Connections : Status(c) = "pending" /\ Live(c)}

\* The live connections that no staged replacement, nor "extra", stands for.
LogicalConnections(extra) ==
    {c \in Connections : Live(c)}
    \ (extra \cup UNION {intents[c] : c \in LivePending})

\* Mutant: the connection to add is not counted.
HasCapacity_BeforeAdding(extra, adding) ==
    /\ \A c \in LivePending : ReadableIntent(c)
    /\ Cardinality(LogicalConnections(extra)) <= policy.limit

\* assertAgentConnectionCapacity
HasCapacity(extra, adding) ==
    /\ \A c \in LivePending : ReadableIntent(c)
    /\ Cardinality(LogicalConnections(extra)) + adding <= policy.limit

Permitted(ask, seconds) ==
    /\ ask \in policy.allowed
    /\ ask \notin closed
    /\ seconds <= policy.longest

-----------------------------------------------------------------------------
\* revokeAgentConnectionRow, of every connection in R.
RowsRevoked(R, rows) ==
    [c \in Connections |->
        IF c \in R
        THEN [rows[c] EXCEPT !.status = "revoked", !.nonceRevoked = TRUE]
        ELSE rows[c]]

IntentsCleared(R) ==
    [c \in Connections |-> IF c \in R THEN {} ELSE intents[c]]

GrantsRevoked(R, rows) ==
    {IF g.connection \in R THEN [g EXCEPT !.revoked = TRUE] ELSE g : g \in rows}

\* Mutant: what will be replaced is revoked when its successor is staged.
StagePending_Eager(c, name, ask, expires, replaced) ==
    /\ Status(c) = "unused"
    /\ HasCapacity(replaced, 1)
    /\ connections' = RowsRevoked(replaced, [connections EXCEPT ![c] =
           [status |-> "pending", name |-> name, ask |-> ask,
            expires |-> expires, nonceExpires |-> clock + PairingTTL,
            consumed |-> FALSE, nonceRevoked |-> FALSE]])
    /\ intents' = [intents EXCEPT ![c] = replaced]
    /\ grants' = GrantsRevoked(replaced, grants)
    /\ UNCHANGED <<policy, closed, clock>>

\* createPendingAgentConnectionRow, after the capacity was checked.
StagePending(c, name, ask, expires, replaced) ==
    /\ Status(c) = "unused"
    /\ HasCapacity(replaced, 1)
    /\ connections' = [connections EXCEPT ![c] =
           [status |-> "pending", name |-> name, ask |-> ask,
            expires |-> expires, nonceExpires |-> clock + PairingTTL,
            consumed |-> FALSE, nonceRevoked |-> FALSE]]
    /\ intents' = [intents EXCEPT ![c] = replaced]
    /\ UNCHANGED <<grants, policy, closed, clock>>

\* The two names the installer has given its connections stand for each other.
ReplacementNames(name) == IF name \in Managed THEN Managed ELSE {name}

\* The live connections that a request to replace the existing ones is about.
Existing(name) ==
    {c \in Connections : Live(c) /\ connections[c].name \in ReplacementNames(name)}

CreateAgentConnection(c, name, ask, seconds, replaceExisting) ==
    /\ Permitted(ask, seconds)
    /\ StagePending(c, name, ask, clock + seconds,
                    IF replaceExisting THEN Existing(name) ELSE {})

\* Mutant: the successor does not inherit what its source was to replace.
RenewAgentConnectionPairing_OnlySource(source, c) ==
    /\ Live(source)
    /\ Permitted(connections[source].ask, connections[source].expires - clock)
    /\ StagePending(c, connections[source].name, connections[source].ask,
                    connections[source].expires, {source})

\* Reconnect: a staged successor, until the same time, of a connection and of
\* what that one was to replace.
RenewAgentConnectionPairing(source, c) ==
    /\ Exists(source)
    /\ Status(source) \notin {"revoked", "expired"}
    /\ Unexpired(source)
    /\ Permitted(connections[source].ask, connections[source].expires - clock)
    /\ ReadableIntent(source)
    /\ StagePending(c, connections[source].name, connections[source].ask,
                    connections[source].expires, {source} \cup intents[source])

-----------------------------------------------------------------------------
NonceOpen(c) ==
    /\ Exists(c)
    /\ Status(c) # "revoked"
    /\ ~connections[c].nonceRevoked
    /\ ~connections[c].consumed

NonceDue(c) == connections[c].nonceExpires <= clock \/ ~Unexpired(c)

\* A late pairing: the transaction commits, the caller gets PAIRING_EXPIRED.
ExpirePairing(c) ==
    /\ NonceOpen(c)
    /\ NonceDue(c)
    /\ connections' = [connections EXCEPT ![c].status = "expired",
                                          ![c].nonceRevoked = TRUE]
    /\ intents' = [intents EXCEPT ![c] = {}]
    /\ UNCHANGED <<grants, policy, closed, clock>>

NewGrant(c) ==
    [connection |-> c,
     serial |-> Cardinality({g \in grants : g.connection = c}) + 1,
     expires |-> connections[c].expires, revoked |-> FALSE]

PairAgentConnection(c) ==
    /\ NonceOpen(c)
    /\ ~NonceDue(c)
    /\ Status(c) = "pending"
    /\ ReadableIntent(c)
    /\ \A p \in intents[c] : Exists(p)
    /\ Permitted(connections[c].ask, connections[c].expires - clock)
    /\ HasCapacity({}, 0)
    /\ connections' = RowsRevoked(intents[c],
           [connections EXCEPT ![c].status = "active", ![c].consumed = TRUE])
    /\ grants' = GrantsRevoked(intents[c], grants \cup {NewGrant(c)})
    /\ intents' = IntentsCleared(intents[c] \cup {c})
    /\ UNCHANGED <<policy, closed, clock>>

RevokeAgentConnection(c) ==
    /\ Exists(c)
    /\ connections' = RowsRevoked({c}, connections)
    /\ grants' = GrantsRevoked({c}, grants)
    /\ intents' = IntentsCleared({c})
    /\ UNCHANGED <<policy, closed, clock>>

-----------------------------------------------------------------------------
\* A backup holds some of the rows; the restore worker revokes what it brought
\* back.  (The policy it brings back is as good as a later update.)
RestoreBackup(kept) ==
    /\ \A c \in kept : Exists(c)
    /\ connections' = [c \in Connections |->
           IF c \in kept THEN RowsRevoked(kept, connections)[c]
           ELSE [status |-> IF Status(c) = "unused" THEN "unused" ELSE "gone"]]
    /\ grants' = {g \in GrantsRevoked(kept, grants) : g.connection \in kept}
    /\ intents' = IntentsCleared(Connections)
    /\ UNCHANGED <<policy, closed, clock>>

\* Mutant: a policy is stored without being parsed.
UpdatePolicy_Unparsed(p) ==
    /\ policy' = [p EXCEPT !.allowed = @ \cup {"*"}]
    /\ UNCHANGED <<connections, intents, grants, closed, clock>>

UpdatePolicy(p) ==
    /\ policy' = p
    /\ UNCHANGED <<connections, intents, grants, closed, clock>>

\* Somebody archives or restores the designs of some connections.
ArchiveProjects(asks) ==
    /\ closed' = asks
    /\ UNCHANGED <<connections, intents, grants, policy, clock>>

Tick ==
    /\ clock < MaxTime
    /\ clock' = clock + 1
    /\ UNCHANGED <<connections, intents, grants, policy, closed>>

-----------------------------------------------------------------------------
Init ==
    /\ connections = [c \in Connections |-> [status |-> "unused"]]
    /\ intents = [c \in Connections |-> {}]
    /\ grants = {}
    /\ policy \in Policies
    /\ closed = {}
    /\ clock = 0

ConnectionOperation ==
    \/ \E c \in Connections :
        \/ \E name \in Names, ask \in Asks, seconds \in Lifetimes,
              replaceExisting \in BOOLEAN :
              CreateAgentConnection(c, name, ask, seconds, replaceExisting)
        \/ \E source \in Connections : RenewAgentConnectionPairing(source, c)
        \/ PairAgentConnection(c)
        \/ ExpirePairing(c)
        \/ RevokeAgentConnection(c)
    \/ \E p \in Policies : UpdatePolicy(p)
    \/ \E asks \in SUBSET Asks : ArchiveProjects(asks)

Next ==
    \/ ConnectionOperation
    \/ \E kept \in SUBSET Connections : RestoreBackup(kept)
    \/ Tick

Spec == Init /\ [][Next]_vars

-----------------------------------------------------------------------------
\* Every variable has its type.
TypeOK ==
    /\ connections \in [Connections -> ConnectionRows]
    /\ intents \in [Connections -> SUBSET Connections]
    /\ grants \subseteq GrantRows
    /\ policy \in PolicyType
    /\ closed \subseteq Asks
    /\ clock \in Nat

\* A nonce buys one grant: a connection never has two, and the one it has is
\* unrevoked exactly while the connection is active.
OneGrant ==
    /\ \A g \in grants :
        /\ Exists(g.connection)
        /\ connections[g.connection].consumed
        /\ g.revoked <=> Status(g.connection) # "active"
        /\ \A h \in grants : h.connection = g.connection => h = g
    /\ \A c \in Connections :
        Status(c) = "active" => \E g \in grants : g.connection = c

\* Only a connection that can still be paired replaces others: never itself, of
\* no name but its own or, when it has one of the installer's two names, the other
\* one, and all that the connections it replaces would still replace, so that
\* revoking those lets nothing live reappear.
IntentSound ==
    \A c \in Connections : intents[c] # {} =>
        /\ Status(c) = "pending" /\ NonceOpen(c)
        /\ c \notin intents[c]
        /\ \A p \in intents[c] :
            /\ Exists(p) /\ connections[p].name \in ReplacementNames(connections[c].name)
            /\ {q \in intents[p] : Live(q)} \subseteq intents[c]

\* What pairing relies on and leaves behind (pairAgentConnection).
PairingSound == OneGrant /\ IntentSound

Activated == {c \in Connections : Status(c) # "active" /\ Status(c)' = "active"}

Served(c) == \E g \in grants : g.connection = c /\ Usable(g)

OnlyChanged(S) ==
    /\ \A c \in Connections \ S :
        connections'[c] = connections[c] /\ intents'[c] = intents[c]
    /\ \A g \in grants : g.connection \notin S => g \in grants'

HandoverStep ==
    /\ \A c \in Activated :
        /\ OnlyChanged(intents[c] \cup {c})
        /\ \A p \in intents[c] : Status(p)' = "revoked"
    /\ \A c \in Connections :
        Served(c) /\ ~Served(c)' =>
            \/ clock' # clock \/ policy' # policy
            \/ \E d \in Activated : c \in intents[d]
            \/ OnlyChanged({c})
            \/ \A d \in Connections : ~Live(d)'
    /\ \A c \in Connections :
        (Status(c) # "expired" /\ Status(c)' = "expired") => OnlyChanged({c})

\* When a connection becomes active, all it replaces, and nothing else, is
\* revoked in that step; a grant stops being usable in no other way than by
\* such a step, by the revocation of its own connection, by a restore, by time
\* or by policy; and a pairing that comes too late leaves the other connections
\* as they are (docs/AGENT_CONNECTIONS.md, "Reconnect and revoke").
Handover == [][HandoverStep]_vars

AdmissionStep ==
    (\E c \in Connections : ~Live(c) /\ Live(c)') \/ Activated # {} =>
        Cardinality(LogicalConnections({}))' <= policy'.limit

\* A step that stages or activates a connection leaves no more logical
\* connections than the policy allows.
AdmissionWithinLimit == [][AdmissionStep]_vars
===============================================================================
