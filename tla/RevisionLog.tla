----------------------------- MODULE RevisionLog -----------------------------
(***************************************************************************)
(* What the design store promises its users, with nothing of how it keeps  *)
(* the promise: every design is an append-only log of contents, an         *)
(* ordinary step appends a content that keeps everything the last one had, *)
(* a restore appends the content of an earlier version, and a design that  *)
(* is closed (archived) does not grow until it is opened again.            *)
(* DesignStore implements this specification.                              *)
(***************************************************************************)
EXTENDS Naturals, SequencesExt

CONSTANTS
    Designs,    \* identities of designs
    Edits       \* the changes a user can make to a document

VARIABLES
    log,        \* log[d]: the contents of design d, oldest first
    closed      \* the archived designs

vars == <<log, closed>>

Init ==
    /\ log = [d \in Designs |-> <<>>]
    /\ closed = {}

Create(d) ==
    /\ log[d] = <<>>
    /\ log' = [log EXCEPT ![d] = << {} >>]
    /\ UNCHANGED closed

\* A new version holds every edit of the version it follows.
Extend(d) ==
    /\ log[d] # <<>>
    /\ d \notin closed
    /\ \E new \in SUBSET Edits :
          log' = [log EXCEPT ![d] = Append(@, Last(log[d]) \cup new)]
    /\ UNCHANGED closed

\* A restore is a new version too: history is never cut.
Revert(d) ==
    /\ d \notin closed
    /\ \E v \in 1..Len(log[d]) :
          log' = [log EXCEPT ![d] = Append(@, log[d][v])]
    /\ UNCHANGED closed

Close(d) ==
    /\ log[d] # <<>>
    /\ closed' = closed \cup {d}
    /\ UNCHANGED log

Open(d) ==
    /\ d \in closed
    /\ closed' = closed \ {d}
    /\ UNCHANGED log

Next ==
    \E d \in Designs : Create(d) \/ Extend(d) \/ Revert(d) \/ Close(d) \/ Open(d)

Spec == Init /\ [][Next]_vars
==============================================================================
