---------------------------- MODULE MCDesignStore ----------------------------
(***************************************************************************)
(* Instances of DesignStore for TLC.  Each run chooses which requests may  *)
(* arrive; every one of them may arrive in every state, again and again.   *)
(***************************************************************************)
EXTENDS DesignStore, TLC

CONSTANTS d1, d2, a1, a2, k1, k2, e1, e2, p1, p2

Revise(a, k, d, base, e) ==
    [op |-> "revise", actor |-> a, key |-> k, design |-> d, base |-> base,
     edit |-> e]
Commit(a, k, d, base, p, kind) ==
    [op |-> "commit", actor |-> a, key |-> k, design |-> d, base |-> base,
     preview |-> p, kind |-> kind]
RestoreTo(a, k, d, base, v) ==
    [op |-> "restore", actor |-> a, key |-> k, design |-> d, base |-> base,
     target |-> v]
Archive(a, k, d, base) ==
    [op |-> "archive", actor |-> a, key |-> k, design |-> d, base |-> base]
Unarchive(a, k, d, base, at) ==
    [op |-> "unarchive", actor |-> a, key |-> k, design |-> d, base |-> base,
     archivedAt |-> at]
Create(a, k) == [op |-> "create", actor |-> a, key |-> k]

\* Two actors edit, restore and archive two designs; a key is used again with
\* other input, and the same key by another actor.
WriteRequests ==
    {Create(a1, k1), Create(a2, k1)}
    \cup {Revise(a1, k1, d1, v, e1) : v \in 1..2}
    \cup {Revise(a2, k1, d, 1, e2) : d \in {d1, d2}}
    \cup {RestoreTo(a1, k1, d1, v, 1) : v \in 2..3}
    \cup {Archive(a1, k1, d1, v) : v \in 1..2}
    \cup {Unarchive(a1, k1, d1, 1, t) : t \in 0..2}

\* Previews committed by their authors, with the right base and with a stale
\* one, in a race with a plain revision and an archival.
PreviewRequests ==
    {Create(a1, k1), Revise(a1, k1, d1, 1, e1), Archive(a1, k1, d1, 1),
     Unarchive(a1, k1, d1, 1, 0)}
    \cup {Commit(a1, k1, d1, v, p, "ordinary") : v \in 1..2, p \in {p1, p2}}
    \cup {Commit(a1, k2, d1, 1, p, "archive") : p \in {p1, p2}}

\* Nothing but equality is asked of preview ids.
PreviewSymmetry == Permutations(PreviewIds)

AllRequests == WriteRequests \cup PreviewRequests

Only(requests) == \A q \in Requests \ requests : effects[q] = <<>>

\* Either kind of traffic is explored for itself, previews on one design with
\* upgrades of the server, writes on two without.
OneKindOfTraffic ==
    \/ /\ Only(WriteRequests)
       /\ engine = 1
       /\ \A p \in PreviewIds : previews[p].status = "unused"
    \/ /\ Only(PreviewRequests)
       /\ designs[d2].version = 0
       /\ \A r \in revisions : r.id # 4
       /\ \A p \in PreviewIds : InTable(previews[p]) => previews[p].actor = a1
==============================================================================
