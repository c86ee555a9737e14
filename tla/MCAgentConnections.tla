-------------------------- MODULE MCAgentConnections --------------------------
(***************************************************************************)
(* Instances of AgentConnections and BrowserSessions.  Connections are     *)
(* model values nothing tells apart, and so are the installer's two names. *)
(***************************************************************************)
EXTENDS BrowserSessions, TLC

ConnectionSymmetry == Permutations(Connections) \cup Permutations(Managed)

\* The limit leaves room for two connections.  An administrator may lower it
\* below what is connected and shorten lifetimes.
Roomy == [allowed |-> Asks, limit |-> 2, longest |-> 3]
Strict == [allowed |-> Asks, limit |-> 1, longest |-> 1]

SomePolicies == {Roomy, Strict}

\* The fourth connection comes when all have one of the installer's names and no
\* project is archived; three may have any names.
FewKinds ==
    \/ Cardinality({c \in Connections : Status(c) # "unused"}) <= 3
    \/ closed = {} /\ \A c \in Connections : Exists(c) => connections[c].name \in Managed

\* Connections and sessions share the clock, the process and its restores, and
\* read nothing of each other: a behaviour has traffic of one kind.
ConnectionsOnly ==
    /\ \A l \in Attempts : attempts[l].status = "unused"
    /\ backup[2].status = "none"
    /\ configured \subseteq {CHOOSE t \in Tokens : TRUE}
    /\ serving \/ clock < MaxTime
    /\ FewKinds

SessionsOnly ==
    /\ \A c \in Connections : Status(c) = "unused"
    /\ policy = Roomy /\ closed = {}

OneKindOfTraffic == ConnectionsOnly \/ SessionsOnly
===============================================================================
