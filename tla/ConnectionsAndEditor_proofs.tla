-------------------- MODULE ConnectionsAndEditor_proofs ---------------------
(***************************************************************************)
(* Proofs about AgentConnections and BrowserSessions, for every set of     *)
(* connections, names, policies, attempts and tokens, every lifetime and   *)
(* every clock, and about EditorStore and EditorGestures, for every number *)
(* of edits, revisions and keys and whichever edits are destructive.       *)
(***************************************************************************)
EXTENDS BrowserSessions, EditorGestures, TLAPS, FiniteSetTheorems, SequenceTheorems

-----------------------------------------------------------------------------
(* Connections: the inductive invariant.                                   *)

\* The inductive invariant: that a grant is new needs OneGrant, that a row to
\* revoke is there needs IntentSound.
IInv == TypeOK /\ OneGrant /\ IntentSound

-----------------------------------------------------------------------------
(* Rows and their revocation.                                              *)

\* A connection that exists has a row with all its columns.
LEMMA StoredRow ==
    ASSUME NEW rows \in [Connections -> ConnectionRows], NEW c \in Connections,
           rows[c].status \notin {"unused", "gone"}
    PROVE  rows[c] \in StoredRows
  <1>1. rows[c] \in ConnectionRows
    OBVIOUS
  <1>2. CASE rows[c] \in [status : {"unused", "gone"}]
    BY <1>2
  <1> QED
    BY <1>1, <1>2 DEF ConnectionRows

\* What revokeAgentConnectionRow makes of a row.
LEMMA RevokedRow ==
    ASSUME NEW r \in StoredRows
    PROVE  LET s == [r EXCEPT !.status = "revoked", !.nonceRevoked = TRUE]
           IN  /\ s \in StoredRows
               /\ s.status = "revoked"
               /\ s.name = r.name
               /\ s.expires = r.expires
               /\ s.consumed = r.consumed
  BY DEF StoredRows

\* What pairing makes of the row of the connection.
LEMMA ActiveRow ==
    ASSUME NEW r \in StoredRows
    PROVE  LET s == [r EXCEPT !.status = "active", !.consumed = TRUE]
           IN  /\ s \in StoredRows
               /\ s.status = "active"
               /\ s.consumed
               /\ s.name = r.name
               /\ s.expires = r.expires
  BY DEF StoredRows

\* Revoking connections touches their rows only.
LEMMA RowsRevokedFacts ==
    ASSUME NEW rows \in [Connections -> ConnectionRows],
           NEW R \in SUBSET Connections,
           \A c \in R : rows[c] \in StoredRows
    PROVE  /\ RowsRevoked(R, rows) \in [Connections -> ConnectionRows]
           /\ \A c \in R :
                /\ RowsRevoked(R, rows)[c] \in StoredRows
                /\ RowsRevoked(R, rows)[c].status = "revoked"
                /\ RowsRevoked(R, rows)[c].name = rows[c].name
                /\ RowsRevoked(R, rows)[c].expires = rows[c].expires
                /\ RowsRevoked(R, rows)[c].consumed = rows[c].consumed
           /\ \A c \in Connections \ R : RowsRevoked(R, rows)[c] = rows[c]
  <1> DEFINE new == RowsRevoked(R, rows)
  <1>1. \A c \in R : new[c] = [rows[c] EXCEPT !.status = "revoked",
                                              !.nonceRevoked = TRUE]
    BY DEF RowsRevoked
  <1>2. \A c \in Connections \ R : new[c] = rows[c]
    BY DEF RowsRevoked
  <1>3. \A c \in R : /\ new[c] \in StoredRows
                     /\ new[c].status = "revoked"
                     /\ new[c].name = rows[c].name
                     /\ new[c].expires = rows[c].expires
                     /\ new[c].consumed = rows[c].consumed
    <2> TAKE c \in R
    <2>1. rows[c] \in StoredRows
      OBVIOUS
    <2> QED
      BY <1>1, <2>1, RevokedRow
  <1>4. \A c \in Connections : new[c] \in ConnectionRows
    BY <1>2, <1>3 DEF ConnectionRows
  <1>5. new \in [Connections -> ConnectionRows]
    <2>1. new = [c \in Connections |-> new[c]]
      BY DEF RowsRevoked
    <2> QED
      BY <1>4, <2>1
  <1> QED
    BY <1>2, <1>3, <1>5

\* A grant after a revocation is a grant from before it, revoked if its
\* connection is among the revoked ones.
LEMMA GrantsRevokedFacts ==
    ASSUME NEW gs \in SUBSET GrantRows, NEW R
    PROVE  /\ GrantsRevoked(R, gs) \subseteq GrantRows
           /\ \A h \in GrantsRevoked(R, gs) : \E g \in gs :
                /\ h.connection = g.connection
                /\ g.connection \notin R => h = g
                /\ g.connection \in R =>
                     h = [g EXCEPT !.revoked = TRUE] /\ h.revoked
           /\ \A g \in gs : \E h \in GrantsRevoked(R, gs) :
                h.connection = g.connection
  <1>1. \A g \in gs : /\ [g EXCEPT !.revoked = TRUE] \in GrantRows
                      /\ [g EXCEPT !.revoked = TRUE].connection = g.connection
                      /\ [g EXCEPT !.revoked = TRUE].revoked
    BY DEF GrantRows
  <1> QED
    BY <1>1 DEF GrantsRevoked

-----------------------------------------------------------------------------
(* Grants.                                                                 *)

\* OneGrant, of any rows and grants.
GrantsSound(rows, gs) ==
    /\ \A g \in gs :
        /\ rows[g.connection].status \notin {"unused", "gone"}
        /\ rows[g.connection].consumed
        /\ g.revoked <=> rows[g.connection].status # "active"
        /\ \A h \in gs : h.connection = g.connection => h = g
    /\ \A c \in Connections :
        rows[c].status = "active" => \E g \in gs : g.connection = c

\* The revocation of connections that exist keeps one grant per pairing.
LEMMA RevocationKeepsGrants ==
    ASSUME NEW rows \in [Connections -> ConnectionRows],
           NEW gs \in SUBSET GrantRows, NEW R \in SUBSET Connections,
           \A c \in R : rows[c] \in StoredRows,
           GrantsSound(rows, gs)
    PROVE  GrantsSound(RowsRevoked(R, rows), GrantsRevoked(R, gs))
  <1> DEFINE new == RowsRevoked(R, rows)
             ngs == GrantsRevoked(R, gs)
  <1>1. /\ \A c \in R : /\ new[c].status = "revoked"
                        /\ new[c].consumed = rows[c].consumed
        /\ \A c \in Connections \ R : new[c] = rows[c]
    BY RowsRevokedFacts
  <1>2. /\ \A h \in ngs : \E g \in gs :
             /\ h.connection = g.connection
             /\ g.connection \notin R => h = g
             /\ g.connection \in R =>
                  h = [g EXCEPT !.revoked = TRUE] /\ h.revoked
        /\ \A g \in gs : \E h \in ngs : h.connection = g.connection
    BY GrantsRevokedFacts
  <1>3. \A g \in gs : g.connection \in Connections /\ g.revoked \in BOOLEAN
    BY DEF GrantRows
  <1> HIDE DEF new, ngs
  <1>4. ASSUME NEW h \in ngs
        PROVE  /\ new[h.connection].status \notin {"unused", "gone"}
               /\ new[h.connection].consumed
               /\ h.revoked <=> new[h.connection].status # "active"
               /\ \A k \in ngs : k.connection = h.connection => k = h
    <2>1. PICK g \in gs : /\ h.connection = g.connection
                          /\ g.connection \notin R => h = g
                          /\ g.connection \in R =>
                               h = [g EXCEPT !.revoked = TRUE] /\ h.revoked
      BY <1>2
    <2>2. /\ rows[g.connection].status \notin {"unused", "gone"}
          /\ rows[g.connection].consumed
          /\ g.revoked <=> rows[g.connection].status # "active"
          /\ \A k \in gs : k.connection = g.connection => k = g
      BY DEF GrantsSound
    <2>3. \A k \in ngs : k.connection = h.connection => k = h
      <3> SUFFICES ASSUME NEW k \in ngs, k.connection = h.connection
                   PROVE  k = h
        OBVIOUS
      <3>1. PICK f \in gs : /\ k.connection = f.connection
                            /\ f.connection \notin R => k = f
                            /\ f.connection \in R =>
                                 k = [f EXCEPT !.revoked = TRUE]
        BY <1>2
      <3>2. f = g
        BY <2>1, <2>2, <3>1
      <3> QED
        BY <2>1, <3>1, <3>2
    <2>4. CASE g.connection \in R
      BY <1>1, <2>1, <2>2, <2>3, <2>4
    <2>5. CASE g.connection \notin R
      BY <1>1, <1>3, <2>1, <2>2, <2>3, <2>5
    <2> QED
      BY <2>4, <2>5
  <1>5. ASSUME NEW c \in Connections, new[c].status = "active"
        PROVE  \E h \in ngs : h.connection = c
    <2>1. c \notin R /\ rows[c].status = "active"
      BY <1>1, <1>5
    <2>2. PICK g \in gs : g.connection = c
      BY <2>1 DEF GrantsSound
    <2> QED
      BY <1>2, <2>2
  <1> QED
    BY <1>4, <1>5 DEF GrantsSound, new, ngs

\* The first grant of a connection that becomes active.
LEMMA ActivationKeepsGrants ==
    ASSUME TypeOK, OneGrant, NEW c \in Connections,
           Status(c) = "pending", ~connections[c].consumed
    PROVE  LET rows == [connections EXCEPT ![c].status = "active",
                                           ![c].consumed = TRUE]
           IN  /\ rows \in [Connections -> ConnectionRows]
               /\ \A d \in Connections \ {c} : rows[d] = connections[d]
               /\ rows[c] \in StoredRows
               /\ rows[c].status = "active"
               /\ rows[c].name = connections[c].name
               /\ rows[c].expires = connections[c].expires
               /\ NewGrant(c) \in GrantRows
               /\ GrantsSound(rows, grants \cup {NewGrant(c)})
  <1> DEFINE rows == [connections EXCEPT ![c].status = "active",
                                         ![c].consumed = TRUE]
             r == connections[c]
  <1>1. r \in StoredRows
    BY StoredRow DEF TypeOK, Status
  <1>2. rows[c] = [r EXCEPT !.status = "active", !.consumed = TRUE]
    BY DEF TypeOK
  <1>3. \A d \in Connections \ {c} : rows[d] = connections[d]
    BY DEF TypeOK
  <1>4. /\ rows[c] \in StoredRows
        /\ rows[c].status = "active"
        /\ rows[c].consumed
        /\ rows[c].name = r.name
        /\ rows[c].expires = r.expires
    <2> HIDE DEF rows, r
    <2> QED
      BY <1>1, <1>2, ActiveRow
  <1>5. rows \in [Connections -> ConnectionRows]
    <2>1. \A d \in Connections : rows[d] \in ConnectionRows
      BY <1>3, <1>4 DEF TypeOK, ConnectionRows
    <2>2. rows = [d \in Connections |-> rows[d]]
      BY DEF TypeOK
    <2> QED
      BY <2>1, <2>2
  <1>6. \A g \in grants : g.connection # c
    BY DEF OneGrant
  <1>7. /\ NewGrant(c) \in GrantRows
        /\ NewGrant(c).connection = c
        /\ NewGrant(c).revoked = FALSE
    <2>1. {g \in grants : g.connection = c} = {}
      BY <1>6
    <2>2. Cardinality({g \in grants : g.connection = c}) = 0
      BY <2>1, FS_EmptySet
    <2>3. r.expires \in Nat
      BY <1>1 DEF StoredRows
    <2> QED
      BY <2>2, <2>3 DEF NewGrant, GrantRows
  <1> HIDE DEF rows
  <1>8. GrantsSound(rows, grants \cup {NewGrant(c)})
    <2>1. \A g \in grants : g.connection \in Connections
      BY DEF TypeOK, GrantRows
    <2>2. ASSUME NEW g \in grants
          PROVE  /\ rows[g.connection].status \notin {"unused", "gone"}
                 /\ rows[g.connection].consumed
                 /\ g.revoked <=> rows[g.connection].status # "active"
                 /\ \A h \in grants \cup {NewGrant(c)} :
                      h.connection = g.connection => h = g
      BY <1>3, <1>6, <1>7, <2>1 DEF OneGrant, Exists, Status
    <2>3. \A h \in grants \cup {NewGrant(c)} :
            h.connection = NewGrant(c).connection => h = NewGrant(c)
      BY <1>6, <1>7
    <2>4. \A d \in Connections : rows[d].status = "active" =>
            \E g \in grants \cup {NewGrant(c)} : g.connection = d
      BY <1>3, <1>7 DEF OneGrant, Status
    <2> QED
      BY <1>4, <1>7, <2>2, <2>3, <2>4 DEF GrantsSound
  <1> QED
    BY <1>1, <1>3, <1>4, <1>5, <1>7, <1>8 DEF rows

-----------------------------------------------------------------------------
(* Intents.                                                                *)

\* A name stands for itself, and what it stands for stands for nothing else.
LEMMA ReplacementNamesClass ==
    /\ \A n \in Names : n \in ReplacementNames(n)
    /\ \A n \in Names : \A m \in ReplacementNames(n) : ReplacementNames(m) = ReplacementNames(n)
  BY NamesAssumption DEF ReplacementNames

\* Intents stay sound in a step that clears some of them, keeps the rows of
\* those that it leaves and brings no connection back to life.
LEMMA IntentsKept ==
    ASSUME TypeOK, IntentSound, 
           connections' \in [Connections -> ConnectionRows],
           \A c \in Connections :
             \/ intents'[c] = {}
             \/ intents'[c] = intents[c] /\ connections'[c] = connections[c],
           \A c \in Connections : Exists(c) =>
             /\ Exists(c)'
             /\ connections'[c].name = connections[c].name
             /\ Live(c)' => Live(c)
    PROVE  IntentSound'
  <1> SUFFICES ASSUME NEW c \in Connections, intents'[c] # {}
               PROVE  /\ (Status(c) = "pending" /\ NonceOpen(c))'
                      /\ c \notin intents'[c]
                      /\ \A p \in intents'[c] :
                           /\ Exists(p)'
                           /\ connections'[p].name \in ReplacementNames(connections'[c].name)
                           /\ {q \in intents'[p] : Live(q)'} \subseteq intents'[c]
    BY DEF IntentSound
  <1>1. intents'[c] = intents[c] /\ connections'[c] = connections[c]
    OBVIOUS
  <1>2. Status(c) = "pending" /\ NonceOpen(c) /\ c \notin intents[c]
    BY <1>1 DEF IntentSound
  <1>3. (Status(c) = "pending" /\ NonceOpen(c))'
    BY <1>1, <1>2 DEF Status, NonceOpen, Exists
  <1>4. ASSUME NEW p \in intents[c]
        PROVE  /\ Exists(p)'
               /\ connections'[p].name \in ReplacementNames(connections[c].name)
               /\ {q \in intents'[p] : Live(q)'} \subseteq intents[c]
    <2>1. p \in Connections
      BY DEF TypeOK
    <2>2. /\ Exists(p) /\ connections[p].name \in ReplacementNames(connections[c].name)
          /\ {q \in intents[p] : Live(q)} \subseteq intents[c]
      BY <1>1 DEF IntentSound
    <2>3. ASSUME NEW q \in intents'[p], Live(q)'
          PROVE  q \in intents[c]
      <3>1. q \in intents[p] /\ intents'[p] = intents[p]
        BY <2>1, <2>3
      <3>2. q \in Connections /\ Exists(q)
        BY <2>1, <3>1 DEF TypeOK, IntentSound
      <3>3. Live(q)
        BY <2>3, <3>2
      <3> QED
        BY <2>2, <3>1, <3>3
    <2> QED
      BY <2>1, <2>2, <2>3
  <1> QED
    BY <1>1, <1>2, <1>3, <1>4

-----------------------------------------------------------------------------
(* The steps.                                                              *)

\* A staged connection that replaces existing ones of its name, or of those that are
\* reconciled with it, and all that those would still replace.
LEMMA StagingKeepsIInv ==
    ASSUME IInv, NEW c \in Connections, NEW name \in Names, NEW ask \in Asks,
           NEW expires \in Nat, NEW replaced \in SUBSET Connections,
           StagePending(c, name, ask, expires, replaced),
           \A p \in replaced :
             /\ Exists(p) /\ connections[p].name \in ReplacementNames(name)
             /\ {q \in intents[p] : Live(q)} \subseteq replaced
    PROVE  IInv'
  <1> USE DEF IInv
  <1> DEFINE row == [status |-> "pending", name |-> name, ask |-> ask,
                     expires |-> expires, nonceExpires |-> clock + PairingTTL,
                     consumed |-> FALSE, nonceRevoked |-> FALSE]
  <1>1. /\ Status(c) = "unused"
        /\ connections' = [connections EXCEPT ![c] = row]
        /\ intents' = [intents EXCEPT ![c] = replaced]
        /\ grants' = grants /\ policy' = policy
        /\ closed' = closed /\ clock' = clock
    BY DEF StagePending
  <1>2. row \in StoredRows
    BY TimesAssumption DEF StoredRows, TypeOK
  <1>3. /\ row.status = "pending" /\ row.name = name
        /\ row.consumed = FALSE /\ row.nonceRevoked = FALSE
    OBVIOUS
  <1> HIDE DEF row
  <1>4. /\ connections' \in [Connections -> ConnectionRows]
        /\ connections'[c] = row
        /\ \A d \in Connections \ {c} : connections'[d] = connections[d]
        /\ intents' \in [Connections -> SUBSET Connections]
        /\ intents'[c] = replaced
        /\ \A d \in Connections \ {c} : intents'[d] = intents[d]
    BY <1>1, <1>2 DEF TypeOK, ConnectionRows
  <1>5. TypeOK'
    BY <1>1, <1>4 DEF TypeOK
  <1>6. OneGrant'
    <2>1. \A g \in grants : g.connection \in Connections /\ g.connection # c
      BY <1>1 DEF TypeOK, GrantRows, OneGrant, Exists
    <2>2. Status(c)' # "active"
      BY <1>3, <1>4 DEF Status
    <2>3. \A d \in Connections \ {c} : Status(d)' = Status(d)
      BY <1>4 DEF Status
    <2>4. \A g \in grants' :
            /\ Exists(g.connection)'
            /\ connections'[g.connection].consumed
            /\ g.revoked <=> Status(g.connection)' # "active"
            /\ \A h \in grants' : h.connection = g.connection => h = g
      BY <1>1, <1>4, <2>1, <2>3 DEF OneGrant, Exists
    <2>5. \A d \in Connections :
            Status(d)' = "active" => \E g \in grants' : g.connection = d
      BY <1>1, <2>2, <2>3 DEF OneGrant
    <2> QED
      BY <2>4, <2>5 DEF OneGrant
  <1>7. IntentSound'
    <2>1. ASSUME NEW p \in Connections, Exists(p)
          PROVE  /\ p # c
                 /\ Exists(p)'
                 /\ connections'[p] = connections[p]
                 /\ intents'[p] = intents[p]
                 /\ Live(p)' => Live(p)
      <3>1. p # c
        BY <1>1, <2>1 DEF Exists
      <3> QED
        BY <1>1, <1>4, <2>1, <3>1 DEF Exists, Status, Live, Unexpired
    <2>2. \A p \in Connections : \A q \in intents[p] :
            q \in Connections /\ Exists(q)
      BY DEF TypeOK, IntentSound
    <2>3. (Status(c) = "pending" /\ NonceOpen(c))' /\ c \notin replaced
      BY <1>3, <1>4, <2>1 DEF Status, NonceOpen, Exists
    <2>4. ASSUME NEW p \in replaced
          PROVE  /\ Exists(p)'
                 /\ connections'[p].name \in ReplacementNames(name)
                 /\ {q \in intents'[p] : Live(q)'} \subseteq replaced
      BY <2>1, <2>2
    <2>5. ASSUME NEW d \in Connections \ {c}, intents'[d] # {}
          PROVE  /\ (Status(d) = "pending" /\ NonceOpen(d))'
                 /\ d \notin intents'[d]
                 /\ \A p \in intents'[d] :
                      /\ Exists(p)'
                      /\ connections'[p].name \in ReplacementNames(connections'[d].name)
                      /\ {q \in intents'[p] : Live(q)'} \subseteq intents'[d]
      <3>1. intents'[d] = intents[d] /\ connections'[d] = connections[d]
        BY <1>4
      <3>2. /\ Status(d) = "pending" /\ NonceOpen(d) /\ d \notin intents[d]
            /\ \A p \in intents[d] :
                 /\ Exists(p) /\ connections[p].name \in ReplacementNames(connections[d].name)
                 /\ {q \in intents[p] : Live(q)} \subseteq intents[d]
        BY <2>5, <3>1 DEF IntentSound
      <3>3. (Status(d) = "pending" /\ NonceOpen(d))'
        BY <3>1, <3>2 DEF Status, NonceOpen, Exists
      <3>4. ASSUME NEW p \in intents[d]
            PROVE  /\ Exists(p)'
                   /\ connections'[p].name \in ReplacementNames(connections[d].name)
                   /\ {q \in intents'[p] : Live(q)'} \subseteq intents[d]
        BY <2>1, <2>2, <3>2
      <3> QED
        BY <3>1, <3>2, <3>3, <3>4
    <2> QED
      BY <1>3, <1>4, <2>3, <2>4, <2>5 DEF IntentSound
  <1> QED
    BY <1>5, <1>6, <1>7

\* createAgentConnection.
LEMMA CreateKeepsIInv ==
    ASSUME IInv, NEW c \in Connections, NEW name \in Names, NEW ask \in Asks,
           NEW seconds \in Lifetimes, NEW replaceExisting \in BOOLEAN,
           CreateAgentConnection(c, name, ask, seconds, replaceExisting)
    PROVE  IInv'
  <1> DEFINE replaced == IF replaceExisting THEN Existing(name) ELSE {}
  <1>1. StagePending(c, name, ask, clock + seconds, replaced)
    BY DEF CreateAgentConnection
  <1>2. clock + seconds \in Nat
    BY TimesAssumption DEF IInv, TypeOK
  <1>3. replaced \in SUBSET Connections
    BY DEF Existing
  <1>4. ASSUME NEW p \in replaced
        PROVE  /\ Exists(p) /\ connections[p].name \in ReplacementNames(name)
               /\ {q \in intents[p] : Live(q)} \subseteq replaced
    <2>1. replaced = Existing(name)
      BY <1>4
    <2>2. p \in Connections /\ Live(p) /\ connections[p].name \in ReplacementNames(name)
      BY <1>4, <2>1 DEF Existing
    <2>3. \A q \in intents[p] : q \in Connections /\ connections[q].name \in ReplacementNames(name)
      BY <2>2, ReplacementNamesClass DEF IInv, TypeOK, IntentSound
    <2>4. Exists(p)
      BY <2>2 DEF Live, Exists
    <2> QED
      BY <2>1, <2>2, <2>3, <2>4 DEF Existing
  <1> HIDE DEF replaced
  <1> QED
    BY <1>1, <1>2, <1>3, <1>4, StagingKeepsIInv

\* renewAgentConnectionPairing.
LEMMA RenewKeepsIInv ==
    ASSUME IInv, NEW c \in Connections, NEW source \in Connections,
           RenewAgentConnectionPairing(source, c)
    PROVE  IInv'
  <1> DEFINE row == connections[source]
             replaced == {source} \cup intents[source]
  <1>1. Exists(source) /\ StagePending(c, row.name, row.ask, row.expires, replaced)
    BY DEF RenewAgentConnectionPairing
  <1>2. row \in StoredRows
    BY <1>1, StoredRow DEF IInv, TypeOK, Exists, Status
  <1>3. row.name \in Names /\ row.ask \in Asks /\ row.expires \in Nat
    BY <1>2 DEF StoredRows
  <1>4. replaced \in SUBSET Connections
    BY DEF IInv, TypeOK
  <1>5. ASSUME NEW p \in replaced
        PROVE  /\ Exists(p) /\ connections[p].name \in ReplacementNames(row.name)
               /\ {q \in intents[p] : Live(q)} \subseteq replaced
    <2>1. CASE p = source
      BY <1>1, <1>3, <2>1, ReplacementNamesClass DEF IInv, IntentSound
    <2>2. CASE p \in intents[source]
      BY <2>2 DEF IInv, IntentSound
    <2> QED
      BY <2>1, <2>2
  <1> HIDE DEF row, replaced
  <1> QED
    BY <1>1, <1>3, <1>4, <1>5, StagingKeepsIInv

\* OneGrant is GrantsSound of the tables.
LEMMA OneGrantIsGrantsSound ==
    /\ OneGrant <=> GrantsSound(connections, grants)
    /\ OneGrant' <=> GrantsSound(connections', grants')
  BY DEF OneGrant, GrantsSound, Exists, Status

\* pairAgentConnection, too late.
LEMMA ExpireKeepsIInv ==
    ASSUME IInv, NEW c \in Connections, ExpirePairing(c)
    PROVE  IInv'
  <1> USE DEF IInv
  <1> DEFINE r == connections[c]
             s == [r EXCEPT !.status = "expired", !.nonceRevoked = TRUE]
  <1>1. /\ Exists(c) /\ Status(c) # "revoked" /\ ~r.consumed
        /\ connections' = [connections EXCEPT ![c] = s]
        /\ intents' = [intents EXCEPT ![c] = {}]
        /\ grants' = grants /\ policy' = policy
        /\ closed' = closed /\ clock' = clock
    BY DEF ExpirePairing, NonceOpen, TypeOK
  <1>2. r \in StoredRows
    BY <1>1, StoredRow DEF TypeOK, Exists, Status
  <1>3. /\ s \in StoredRows /\ s.status = "expired" /\ s.name = r.name
    BY <1>2 DEF StoredRows
  <1> HIDE DEF s
  <1>4. /\ connections' \in [Connections -> ConnectionRows]
        /\ connections'[c] = s
        /\ \A d \in Connections \ {c} : connections'[d] = connections[d]
        /\ intents' \in [Connections -> SUBSET Connections]
        /\ intents'[c] = {}
        /\ \A d \in Connections \ {c} : intents'[d] = intents[d]
    BY <1>1, <1>3 DEF TypeOK, ConnectionRows
  <1>5. TypeOK'
    BY <1>1, <1>4 DEF TypeOK
  <1>6. OneGrant'
    <2>1. \A g \in grants : g.connection \in Connections /\ g.connection # c
      BY <1>1 DEF TypeOK, GrantRows, OneGrant
    <2>2. Status(c)' # "active"
      BY <1>3, <1>4 DEF Status
    <2>3. \A d \in Connections \ {c} : Status(d)' = Status(d)
      BY <1>4 DEF Status
    <2>4. \A g \in grants' :
            /\ Exists(g.connection)'
            /\ connections'[g.connection].consumed
            /\ g.revoked <=> Status(g.connection)' # "active"
            /\ \A h \in grants' : h.connection = g.connection => h = g
      BY <1>1, <1>4, <2>1, <2>3 DEF OneGrant, Exists
    <2>5. \A d \in Connections :
            Status(d)' = "active" => \E g \in grants' : g.connection = d
      BY <1>1, <2>2, <2>3 DEF OneGrant
    <2> QED
      BY <2>4, <2>5 DEF OneGrant
  <1>7. IntentSound'
    <2>1. \A d \in Connections :
            \/ intents'[d] = {}
            \/ intents'[d] = intents[d] /\ connections'[d] = connections[d]
      BY <1>4
    <2>2. \A d \in Connections : Exists(d) =>
            /\ Exists(d)'
            /\ connections'[d].name = connections[d].name
            /\ Live(d)' => Live(d)
      BY <1>1, <1>3, <1>4 DEF Exists, Status, Live, Unexpired
    <2> QED
      BY <1>4, <2>1, <2>2, IntentsKept
  <1> QED
    BY <1>5, <1>6, <1>7

\* pairAgentConnection, in time.
LEMMA PairKeepsIInv ==
    ASSUME IInv, NEW c \in Connections, PairAgentConnection(c)
    PROVE  IInv'
  <1> USE DEF IInv
  <1> DEFINE R == intents[c]
             rows == [connections EXCEPT ![c].status = "active",
                                         ![c].consumed = TRUE]
             gs == grants \cup {NewGrant(c)}
  <1>1. /\ Status(c) = "pending" /\ ~connections[c].consumed
        /\ Unexpired(c)
        /\ \A p \in R : Exists(p)
        /\ connections' = RowsRevoked(R, rows)
        /\ grants' = GrantsRevoked(R, gs)
        /\ intents' = IntentsCleared(R \cup {c})
        /\ policy' = policy /\ closed' = closed /\ clock' = clock
    BY DEF PairAgentConnection, NonceOpen, NonceDue
  <1>2. R \in SUBSET Connections /\ c \notin R
    BY DEF TypeOK, IntentSound
  <1>3. /\ rows \in [Connections -> ConnectionRows]
        /\ \A d \in Connections \ {c} : rows[d] = connections[d]
        /\ rows[c] \in StoredRows
        /\ rows[c].status = "active"
        /\ rows[c].name = connections[c].name
        /\ rows[c].expires = connections[c].expires
        /\ NewGrant(c) \in GrantRows
        /\ GrantsSound(rows, gs)
    BY <1>1, ActivationKeepsGrants
  <1>4. gs \in SUBSET GrantRows
    BY <1>3 DEF TypeOK
  <1> HIDE DEF rows, gs
  <1>5. \A d \in R : rows[d] \in StoredRows
    <2> TAKE d \in R
    <2>1. d \in Connections /\ d # c /\ Exists(d)
      BY <1>1, <1>2
    <2>2. connections[d] \in StoredRows
      BY <2>1, StoredRow DEF TypeOK, Exists, Status
    <2> QED
      BY <1>3, <2>1, <2>2
  <1>6. /\ connections' \in [Connections -> ConnectionRows]
        /\ \A d \in R :
             /\ connections'[d].status = "revoked"
             /\ connections'[d].name = rows[d].name
        /\ \A d \in Connections \ R : connections'[d] = rows[d]
    BY <1>1, <1>2, <1>3, <1>5, RowsRevokedFacts
  <1>7. /\ intents' \in [Connections -> SUBSET Connections]
        /\ \A d \in R \cup {c} : intents'[d] = {}
        /\ \A d \in Connections \ (R \cup {c}) : intents'[d] = intents[d]
    BY <1>1, <1>2 DEF IntentsCleared, TypeOK
  <1>8. TypeOK'
    <2>1. grants' \subseteq GrantRows
      BY <1>1, <1>4, GrantsRevokedFacts
    <2> QED
      BY <1>1, <1>6, <1>7, <2>1 DEF TypeOK
  <1>9. OneGrant'
    BY <1>1, <1>2, <1>3, <1>4, <1>5, RevocationKeepsGrants,
       OneGrantIsGrantsSound
  <1>10. IntentSound'
    <2>1. \A d \in Connections :
            \/ intents'[d] = {}
            \/ intents'[d] = intents[d] /\ connections'[d] = connections[d]
      BY <1>3, <1>6, <1>7
    <2>2. ASSUME NEW d \in Connections, Exists(d)
          PROVE  /\ Exists(d)'
                 /\ connections'[d].name = connections[d].name
                 /\ Live(d)' => Live(d)
      <3>1. CASE d = c
        BY <1>1, <1>2, <1>3, <1>6, <3>1 DEF Exists, Status, Live, Unexpired
      <3>2. CASE d \in R
        BY <1>2, <1>3, <1>6, <3>2 DEF Exists, Status, Live
      <3>3. CASE d \notin R \cup {c}
        BY <1>1, <1>3, <1>6, <2>2, <3>3 DEF Exists, Status, Live, Unexpired
      <3> QED
        BY <3>1, <3>2, <3>3
    <2> QED
      BY <1>6, <2>1, <2>2, IntentsKept
  <1> QED
    BY <1>8, <1>9, <1>10

\* revokeAgentConnection.
LEMMA RevokeKeepsIInv ==
    ASSUME IInv, NEW c \in Connections, RevokeAgentConnection(c)
    PROVE  IInv'
  <1> USE DEF IInv
  <1>1. /\ Exists(c)
        /\ connections' = RowsRevoked({c}, connections)
        /\ grants' = GrantsRevoked({c}, grants)
        /\ intents' = IntentsCleared({c})
        /\ policy' = policy /\ closed' = closed /\ clock' = clock
    BY DEF RevokeAgentConnection
  <1>2. /\ connections \in [Connections -> ConnectionRows]
        /\ grants \in SUBSET GrantRows
        /\ {c} \in SUBSET Connections
        /\ \A d \in {c} : connections[d] \in StoredRows
    BY <1>1, StoredRow DEF TypeOK, Exists, Status
  <1>3. /\ connections' \in [Connections -> ConnectionRows]
        /\ connections'[c].status = "revoked"
        /\ connections'[c].name = connections[c].name
        /\ \A d \in Connections \ {c} : connections'[d] = connections[d]
    BY <1>1, <1>2, RowsRevokedFacts
  <1>4. /\ intents' \in [Connections -> SUBSET Connections]
        /\ intents'[c] = {}
        /\ \A d \in Connections \ {c} : intents'[d] = intents[d]
    BY <1>1 DEF IntentsCleared, TypeOK
  <1>5. TypeOK'
    <2>1. grants' \subseteq GrantRows
      BY <1>1, <1>2, GrantsRevokedFacts
    <2> QED
      BY <1>1, <1>3, <1>4, <2>1 DEF TypeOK
  <1>6. OneGrant'
    BY <1>1, <1>2, RevocationKeepsGrants, OneGrantIsGrantsSound
  <1>7. IntentSound'
    <2>1. \A d \in Connections :
            \/ intents'[d] = {}
            \/ intents'[d] = intents[d] /\ connections'[d] = connections[d]
      BY <1>3, <1>4
    <2>2. \A d \in Connections : Exists(d) =>
            /\ Exists(d)'
            /\ connections'[d].name = connections[d].name
            /\ Live(d)' => Live(d)
      BY <1>1, <1>3 DEF Exists, Status, Live, Unexpired
    <2> QED
      BY <1>3, <2>1, <2>2, IntentsKept
  <1> QED
    BY <1>5, <1>6, <1>7

\* The restore of a backup.
LEMMA RestoreKeepsIInv ==
    ASSUME IInv, NEW kept \in SUBSET Connections, RestoreBackup(kept)
    PROVE  IInv'
  <1> USE DEF IInv
  <1> DEFINE rows == RowsRevoked(kept, connections)
             gs == GrantsRevoked(kept, grants)
             lost(c) ==
               [status |-> IF Status(c) = "unused" THEN "unused" ELSE "gone"]
  <1>1. /\ \A c \in kept : Exists(c)
        /\ connections' =
             [c \in Connections |-> IF c \in kept THEN rows[c] ELSE lost(c)]
        /\ grants' = {g \in gs : g.connection \in kept}
        /\ intents' = [c \in Connections |-> {}]
        /\ policy' = policy /\ closed' = closed /\ clock' = clock
    BY DEF RestoreBackup, IntentsCleared
  <1>2. \A c \in kept : connections[c] \in StoredRows
    BY <1>1, StoredRow DEF TypeOK, Exists, Status
  <1>3. \A c \in kept : rows[c] \in StoredRows /\ rows[c].status = "revoked"
    BY <1>2, RowsRevokedFacts DEF TypeOK
  <1>4. gs \subseteq GrantRows /\ GrantsSound(rows, gs)
    BY <1>2, GrantsRevokedFacts, RevocationKeepsGrants, OneGrantIsGrantsSound
       DEF TypeOK
  <1>5. \A c \in Connections : /\ lost(c) \in ConnectionRows
                               /\ lost(c).status \in {"unused", "gone"}
    BY DEF ConnectionRows
  <1> HIDE DEF rows, gs, lost
  <1>6. /\ \A c \in kept : connections'[c] = rows[c]
        /\ \A c \in Connections \ kept : connections'[c] = lost(c)
    BY <1>1
  <1>7. TypeOK'
    <2>1. connections' \in [Connections -> ConnectionRows]
      BY <1>1, <1>3, <1>5 DEF ConnectionRows
    <2>2. intents' \in [Connections -> SUBSET Connections]
      BY <1>1
    <2> QED
      BY <1>1, <1>4, <2>1, <2>2 DEF TypeOK
  <1>8. OneGrant'
    <2>1. \A g \in grants' :
            /\ Exists(g.connection)'
            /\ connections'[g.connection].consumed
            /\ g.revoked <=> Status(g.connection)' # "active"
            /\ \A h \in grants' : h.connection = g.connection => h = g
      BY <1>1, <1>4, <1>6 DEF GrantsSound, Exists, Status
    <2>2. \A c \in Connections : Status(c)' # "active"
      BY <1>3, <1>5, <1>6 DEF Status
    <2> QED
      BY <2>1, <2>2 DEF OneGrant
  <1>9. IntentSound'
    BY <1>1 DEF IntentSound
  <1> QED
    BY <1>7, <1>8, <1>9

\* Time, policy and projects: what is live may only become fewer.
LEMMA EnvironmentKeepsIInv ==
    ASSUME IInv, UNCHANGED <<connections, intents, grants>>,
           policy' \in PolicyType, closed' \subseteq Asks,
           clock' \in Nat, clock <= clock'
    PROVE  IInv'
  <1> USE DEF IInv
  <1>1. TypeOK'
    BY DEF TypeOK
  <1>2. OneGrant'
    BY OneGrantIsGrantsSound
  <1>3. IntentSound'
    <2>1. ASSUME NEW c \in Connections, Exists(c)
          PROVE  /\ Exists(c)'
                 /\ connections'[c].name = connections[c].name
                 /\ Live(c)' => Live(c)
      <3>1. connections[c] \in StoredRows
        BY <2>1, StoredRow DEF TypeOK, Exists, Status
      <3>2. connections[c].expires \in Nat /\ clock \in Nat
        BY <3>1 DEF StoredRows, TypeOK
      <3> QED
        BY <2>1, <3>2 DEF Exists, Status, Live, Unexpired
    <2> QED
      BY <2>1, IntentsKept DEF TypeOK
  <1> QED
    BY <1>1, <1>2, <1>3

-----------------------------------------------------------------------------
(* The invariant.                                                          *)

LEMMA InitIInv == Init => IInv
  BY PoliciesAssumption
     DEF Init, IInv, TypeOK, OneGrant, IntentSound, ConnectionRows, Status

LEMMA NextIInv == IInv /\ [Next]_vars => IInv'
  <1> SUFFICES ASSUME IInv, [Next]_vars
               PROVE  IInv'
    OBVIOUS
  <1>1. ASSUME NEW c \in Connections, NEW name \in Names, NEW ask \in Asks,
               NEW seconds \in Lifetimes, NEW replaceExisting \in BOOLEAN,
               CreateAgentConnection(c, name, ask, seconds, replaceExisting)
        PROVE  IInv'
    BY <1>1, CreateKeepsIInv
  <1>2. ASSUME NEW c \in Connections, NEW source \in Connections,
               RenewAgentConnectionPairing(source, c)
        PROVE  IInv'
    BY <1>2, RenewKeepsIInv
  <1>3. ASSUME NEW c \in Connections, PairAgentConnection(c)
        PROVE  IInv'
    BY <1>3, PairKeepsIInv
  <1>4. ASSUME NEW c \in Connections, ExpirePairing(c)
        PROVE  IInv'
    BY <1>4, ExpireKeepsIInv
  <1>5. ASSUME NEW c \in Connections, RevokeAgentConnection(c)
        PROVE  IInv'
    BY <1>5, RevokeKeepsIInv
  <1>6. ASSUME NEW kept \in SUBSET Connections, RestoreBackup(kept)
        PROVE  IInv'
    BY <1>6, RestoreKeepsIInv
  <1>7. ASSUME NEW p \in Policies, UpdatePolicy(p)
        PROVE  IInv'
    BY <1>7, PoliciesAssumption, EnvironmentKeepsIInv
       DEF UpdatePolicy, IInv, TypeOK
  <1>8. ASSUME NEW asks \in SUBSET Asks, ArchiveProjects(asks)
        PROVE  IInv'
    BY <1>8, EnvironmentKeepsIInv DEF ArchiveProjects, IInv, TypeOK
  <1>9. CASE Tick
    BY <1>9, EnvironmentKeepsIInv DEF Tick, IInv, TypeOK
  <1>10. CASE UNCHANGED vars
    BY <1>10, EnvironmentKeepsIInv DEF vars, IInv, TypeOK
  <1> QED
    BY <1>1, <1>2, <1>3, <1>4, <1>5, <1>6, <1>7, <1>8, <1>9, <1>10 DEF Next, ConnectionOperation

\* A nonce buys one grant, which lives as long as its connection; intents stay
\* with connections that can still be paired and are closed under replacement.
\* The inductive invariant holds in every state the server reaches.
THEOREM IInvAlways == Spec => []IInv
  BY InitIInv, NextIInv, PTL DEF Spec

\* The types are right in every reachable state.
THEOREM TypeCorrect == Spec => []TypeOK
  BY IInvAlways, PTL DEF IInv

\* A connection never has two grants, and none that is not revoked once the
\* connection is not active.
THEOREM OneGrantAlways == Spec => []OneGrant
  BY IInvAlways, PTL DEF IInv

\* A staged replacement covers all that what it replaces would still replace.
THEOREM IntentSoundAlways == Spec => []IntentSound
  BY IInvAlways, PTL DEF IInv

\* What pairing relies on and leaves behind: at most one grant serves a
\* connection, and an intent to replace is whole until it is consumed.
THEOREM PairingSoundAlways == Spec => []PairingSound
  BY OneGrantAlways, IntentSoundAlways, PTL DEF PairingSound

-----------------------------------------------------------------------------
(* Admission.                                                              *)

\* A step in which no connection comes to life or becomes active.
Quiet ==
    \A c \in Connections : /\ Live(c)' => Live(c)
                           /\ Status(c)' = "active" => Status(c) = "active"

LEMMA QuietAdmission ==
    ASSUME Quiet
    PROVE  AdmissionStep /\ Activated = {}
  BY DEF Quiet, AdmissionStep, Activated

\* What stays as it is while the clock does not go back is not live anew.
LEMMA UnchangedIsQuiet ==
    ASSUME TypeOK, TypeOK', NEW c \in Connections,
           connections'[c] = connections[c], clock <= clock'
    PROVE  /\ Status(c)' = Status(c)
           /\ Live(c)' => Live(c)
  <1>1. CASE Status(c) \in {"pending", "active"}
    <2>1. connections[c] \in StoredRows
      BY <1>1, StoredRow DEF TypeOK, Status
    <2>2. connections[c].expires \in Nat /\ clock \in Nat /\ clock' \in Nat
      BY <2>1 DEF StoredRows, TypeOK
    <2> QED
      BY <2>2 DEF Status, Live, Unexpired
  <1>2. CASE Status(c) \notin {"pending", "active"}
    BY <1>2 DEF Status, Live
  <1> QED
    BY <1>1, <1>2

LEMMA UnchangedIsAsLive ==
    ASSUME NEW c \in Connections,
           connections'[c] = connections[c], clock' = clock
    PROVE  /\ Status(c)' = Status(c)
           /\ Live(c)' <=> Live(c)
  BY DEF Status, Live, Unexpired

LEMMA ExpireIsQuiet ==
    ASSUME IInv, IInv', NEW c \in Connections, ExpirePairing(c)
    PROVE  /\ Quiet
           /\ Status(c)' = "expired"
           /\ \A d \in Connections \ {c} :
                connections'[d] = connections[d] /\ intents'[d] = intents[d]
  <1> USE DEF IInv
  <1>1. \A d \in Connections \ {c} :
          connections'[d] = connections[d] /\ intents'[d] = intents[d]
    BY DEF ExpirePairing, TypeOK
  <1>2. Status(c)' = "expired"
    <2>1. connections[c] \in StoredRows
      BY StoredRow DEF ExpirePairing, NonceOpen, TypeOK, Exists, Status
    <2>2. connections'[c] = [connections[c] EXCEPT !.status = "expired",
                                                   !.nonceRevoked = TRUE]
      BY DEF ExpirePairing, TypeOK
    <2> QED
      BY <2>1, <2>2 DEF StoredRows, Status
  <1>3. clock' = clock /\ clock \in Nat
    BY DEF ExpirePairing, TypeOK
  <1>4. Quiet
    <2> SUFFICES ASSUME NEW d \in Connections
                 PROVE  /\ Live(d)' => Live(d)
                        /\ Status(d)' = "active" => Status(d) = "active"
      BY DEF Quiet
    <2>1. CASE d = c
      BY <1>2, <2>1 DEF Live, Status
    <2>2. CASE d # c
      <3>1. Status(d)' = Status(d) /\ (Live(d)' => Live(d))
        BY <1>1, <1>3, <2>2, UnchangedIsQuiet
      <3> QED
        BY <3>1
    <2> QED
      BY <2>1, <2>2
  <1> QED
    BY <1>1, <1>2, <1>4

LEMMA RevokeIsQuiet ==
    ASSUME IInv, IInv', NEW c \in Connections, RevokeAgentConnection(c)
    PROVE  /\ Quiet
           /\ Status(c)' = "revoked"
           /\ \A d \in Connections \ {c} :
                connections'[d] = connections[d] /\ intents'[d] = intents[d]
  <1> USE DEF IInv
  <1>1. \A d \in Connections \ {c} :
          connections'[d] = connections[d] /\ intents'[d] = intents[d]
    BY DEF RevokeAgentConnection, RowsRevoked, IntentsCleared
  <1>2. Status(c)' = "revoked"
    <2>1. connections[c] \in StoredRows
      BY StoredRow DEF RevokeAgentConnection, TypeOK, Exists, Status
    <2>2. connections'[c] = [connections[c] EXCEPT !.status = "revoked",
                                                   !.nonceRevoked = TRUE]
      BY DEF RevokeAgentConnection, RowsRevoked
    <2> QED
      BY <2>1, <2>2, RevokedRow DEF Status
  <1>3. clock' = clock /\ clock \in Nat
    BY DEF RevokeAgentConnection, TypeOK
  <1>4. Quiet
    <2> SUFFICES ASSUME NEW d \in Connections
                 PROVE  /\ Live(d)' => Live(d)
                        /\ Status(d)' = "active" => Status(d) = "active"
      BY DEF Quiet
    <2>1. CASE d = c
      BY <1>2, <2>1 DEF Live, Status
    <2>2. CASE d # c
      <3>1. Status(d)' = Status(d) /\ (Live(d)' => Live(d))
        BY <1>1, <1>3, <2>2, UnchangedIsQuiet
      <3> QED
        BY <3>1
    <2> QED
      BY <2>1, <2>2
  <1> QED
    BY <1>1, <1>2, <1>4

LEMMA RestoreIsQuiet ==
    ASSUME IInv, IInv', NEW kept \in SUBSET Connections, RestoreBackup(kept)
    PROVE  /\ Quiet
           /\ \A c \in Connections :
                ~Live(c)' /\ Status(c)' \in {"unused", "gone", "revoked"}
  <1> USE DEF IInv
  <1>1. \A c \in Connections :
          connections'[c] = IF c \in kept THEN RowsRevoked(kept, connections)[c]
                            ELSE [status |-> IF Status(c) = "unused"
                                             THEN "unused" ELSE "gone"]
    BY DEF RestoreBackup
  <1>2. \A c \in kept : connections[c] \in StoredRows
    BY StoredRow DEF RestoreBackup, TypeOK, Exists, Status
  <1>3. \A c \in kept : RowsRevoked(kept, connections)[c].status = "revoked"
    BY <1>2, RowsRevokedFacts DEF TypeOK
  <1>4. \A c \in Connections : Status(c)' \in {"unused", "gone", "revoked"}
    <2> TAKE c \in Connections
    <2>1. CASE c \in kept
      BY <1>1, <1>3, <2>1 DEF Status
    <2>2. CASE c \notin kept
      <3>1. \/ connections'[c] = [status |-> "unused"]
            \/ connections'[c] = [status |-> "gone"]
        BY <1>1, <2>2
      <3> QED
        BY <3>1 DEF Status
    <2> QED
      BY <2>1, <2>2
  <1> QED
    BY <1>4 DEF Quiet, Live

LEMMA EnvironmentIsQuiet ==
    ASSUME IInv, IInv', UNCHANGED connections, clock <= clock'
    PROVE  Quiet
  BY UnchangedIsQuiet DEF IInv, Quiet

\* What a stage or a pairing counts is finite.
LEMMA LogicalFinite ==
    ASSUME NEW extra
    PROVE  IsFiniteSet(LogicalConnections(extra))
  BY ConnectionsAssumption, FS_Subset DEF LogicalConnections

\* Staging: the count it was admitted with is the one it leaves behind.
LEMMA StagingAdmission ==
    ASSUME IInv, IInv', NEW c \in Connections, NEW name, NEW ask,
           NEW expires \in Nat, NEW replaced \in SUBSET Connections,
           StagePending(c, name, ask, expires, replaced)
    PROVE  AdmissionStep
  <1> USE DEF IInv
  <1> DEFINE before == LogicalConnections(replaced)
             after == LogicalConnections({})'
  <1>1. /\ Status(c) = "unused"
        /\ Cardinality(before) + 1 <= policy.limit
        /\ intents' = [intents EXCEPT ![c] = replaced]
        /\ policy' = policy /\ clock' = clock
    BY DEF StagePending, HasCapacity
  <1>2. /\ connections'[c].status = "pending"
        /\ \A d \in Connections \ {c} : connections'[d] = connections[d]
        /\ intents'[c] = replaced
        /\ \A d \in Connections \ {c} : intents'[d] = intents[d]
    BY DEF StagePending, TypeOK
  <1>3. Status(c)' = "pending" /\ ~Live(c)
    BY <1>1, <1>2 DEF Status, Live
  <1>4. CASE ~Live(c)'
    <2>1. ASSUME NEW d \in Connections
          PROVE  /\ ~(~Live(d) /\ Live(d)')
                 /\ ~(Status(d) # "active" /\ Status(d)' = "active")
      <3>1. CASE d = c
        BY <1>3, <1>4, <3>1
      <3>2. CASE d # c
        BY <1>1, <1>2, <3>2, UnchangedIsAsLive
      <3> QED
        BY <3>1, <3>2
    <2>2. Activated = {}
      BY <2>1 DEF Activated
    <2> QED
      BY <2>1, <2>2 DEF AdmissionStep
  <1>5. CASE Live(c)'
    <2>1. after \subseteq before \cup {c}
      <3> SUFFICES ASSUME NEW d \in after, d # c
                   PROVE  d \in before
        OBVIOUS
      <3>1. /\ d \in Connections /\ Live(d)'
            /\ \A e \in Connections :
                 Status(e)' = "pending" /\ Live(e)' => d \notin intents'[e]
        BY DEF LogicalConnections, LivePending
      <3>2. Live(d)
        BY <1>1, <1>2, <3>1, UnchangedIsAsLive
      <3>3. d \notin replaced
        BY <1>2, <1>3, <1>5, <3>1
      <3>4. ASSUME NEW e \in LivePending
            PROVE  d \notin intents[e]
        <4>1. e \in Connections /\ Status(e) = "pending" /\ Live(e) /\ e # c
          BY <1>3 DEF LivePending
        <4>2. Status(e)' = "pending" /\ Live(e)' /\ intents'[e] = intents[e]
          BY <1>1, <1>2, <4>1, UnchangedIsAsLive
        <4> QED
          BY <3>1, <4>1, <4>2
      <3> QED
        BY <3>1, <3>2, <3>3, <3>4 DEF LogicalConnections
    <2>2. IsFiniteSet(before)
      BY LogicalFinite
    <2> HIDE DEF before, after
    <2>3. /\ IsFiniteSet(before \cup {c})
          /\ Cardinality(before \cup {c}) \in Nat
          /\ Cardinality(before \cup {c}) <= Cardinality(before) + 1
      <3>1. Cardinality(before) \in Nat
        BY <2>2, FS_CardinalityType
      <3>2. /\ IsFiniteSet(before \cup {c})
            /\ \/ Cardinality(before \cup {c}) = Cardinality(before)
               \/ Cardinality(before \cup {c}) = Cardinality(before) + 1
        BY <2>2, FS_AddElement
      <3> QED
        BY <3>1, <3>2
    <2>4. /\ Cardinality(after) \in Nat
          /\ Cardinality(after) <= Cardinality(before \cup {c})
      BY <2>1, <2>3, FS_Subset, FS_CardinalityType
    <2>5. Cardinality(before) \in Nat /\ policy.limit \in Nat
      BY <2>2, FS_CardinalityType DEF TypeOK, PolicyType
    <2>6. Cardinality(after) <= policy'.limit
      BY <1>1, <2>3, <2>4, <2>5
    <2> QED
      BY <2>6 DEF AdmissionStep, after
  <1> QED
    BY <1>4, <1>5

\* Pairing: what the intents of the revoked connections stood for is revoked
\* with them, so nothing is counted that was not counted before.
LEMMA PairAdmission ==
    ASSUME IInv, IInv', NEW c \in Connections, PairAgentConnection(c)
    PROVE  /\ AdmissionStep
           /\ Status(c) = "pending" /\ Status(c)' = "active"
           /\ \A d \in intents[c] : d \in Connections /\ Status(d)' = "revoked"
           /\ \A d \in Connections \ (intents[c] \cup {c}) :
                connections'[d] = connections[d] /\ intents'[d] = intents[d]
  <1> USE DEF IInv
  <1> DEFINE R == intents[c]
             rows == [connections EXCEPT ![c].status = "active",
                                         ![c].consumed = TRUE]
             before == LogicalConnections({})
             after == LogicalConnections({})'
  <1>1. /\ Status(c) = "pending" /\ ~connections[c].consumed
        /\ Unexpired(c)
        /\ \A p \in R : Exists(p)
        /\ connections' = RowsRevoked(R, rows)
        /\ intents' = IntentsCleared(R \cup {c})
        /\ Cardinality(before) + 0 <= policy.limit
        /\ policy' = policy /\ clock' = clock
    BY DEF PairAgentConnection, NonceOpen, NonceDue, HasCapacity
  <1>2. R \in SUBSET Connections /\ c \notin R
    BY DEF TypeOK, IntentSound
  <1>3. /\ rows \in [Connections -> ConnectionRows]
        /\ \A d \in Connections \ {c} : rows[d] = connections[d]
        /\ rows[c].status = "active"
        /\ rows[c].expires = connections[c].expires
    BY <1>1, ActivationKeepsGrants
  <1>4. \A d \in R : rows[d] \in StoredRows
    <2> SUFFICES ASSUME NEW d \in R
                 PROVE  rows[d] \in StoredRows
      OBVIOUS
    <2>1. d \in Connections /\ d # c /\ connections[d] \in StoredRows
      BY <1>1, <1>2, StoredRow DEF TypeOK, Exists, Status
    <2> HIDE DEF rows
    <2> QED
      BY <1>3, <2>1
  <1> HIDE DEF rows
  <1>5. /\ \A d \in R : Status(d)' = "revoked"
        /\ \A d \in Connections \ R : connections'[d] = rows[d]
    BY <1>1, <1>2, <1>3, <1>4, RowsRevokedFacts DEF Status
  <1>6. \A d \in Connections \ (R \cup {c}) :
          connections'[d] = connections[d] /\ intents'[d] = intents[d]
    BY <1>1, <1>3, <1>5 DEF IntentsCleared
  <1>7. Status(c)' = "active" /\ Live(c)
    BY <1>1, <1>2, <1>3, <1>5 DEF Status, Live
  <1>8. after \subseteq before
    <2> SUFFICES ASSUME NEW d \in after
                 PROVE  d \in before
      OBVIOUS
    <2>1. /\ d \in Connections /\ Live(d)'
          /\ \A e \in Connections :
               Status(e)' = "pending" /\ Live(e)' => d \notin intents'[e]
      BY DEF LogicalConnections, LivePending
    <2>2. d \notin R
      BY <1>5, <2>1 DEF Live
    <2>3. Live(d)
      <3>1. CASE d = c
        BY <1>7, <3>1
      <3>2. CASE d # c
        BY <1>1, <1>6, <2>1, <2>2, <3>2 DEF Live, Status, Unexpired
      <3> QED
        BY <3>1, <3>2
    <2>4. ASSUME NEW e \in LivePending, d \in intents[e]
          PROVE  FALSE
      <3>1. e \in Connections /\ Status(e) = "pending" /\ Live(e)
        BY DEF LivePending
      <3>2. e # c
        BY <2>2, <2>4
      <3>3. CASE e \in R
        <4>1. {q \in intents[e] : Live(q)} \subseteq intents[c]
          BY <3>3 DEF IntentSound
        <4> QED
          BY <2>2, <2>3, <2>4, <4>1
      <3>4. CASE e \notin R
        <4>1. connections'[e] = connections[e] /\ intents'[e] = intents[e]
          BY <1>6, <3>1, <3>2, <3>4
        <4>2. Status(e)' = "pending" /\ Live(e)'
          BY <1>1, <3>1, <4>1 DEF Status, Live, Unexpired
        <4> QED
          BY <2>1, <2>4, <3>1, <4>1, <4>2
      <3> QED
        BY <3>3, <3>4
    <2> QED
      BY <2>1, <2>3, <2>4 DEF LogicalConnections
  <1>9. Cardinality(after) <= policy'.limit
    <2>1. IsFiniteSet(before)
      BY LogicalFinite
    <2>2. policy.limit \in Nat
      BY DEF TypeOK, PolicyType
    <2> HIDE DEF before, after
    <2>3. /\ IsFiniteSet(after)
          /\ Cardinality(after) <= Cardinality(before)
      BY <1>8, <2>1, FS_Subset
    <2>4. Cardinality(before) \in Nat /\ Cardinality(after) \in Nat
      BY <2>1, <2>3, FS_CardinalityType
    <2> QED
      BY <1>1, <2>2, <2>3, <2>4
  <1> QED
    BY <1>1, <1>2, <1>5, <1>6, <1>7, <1>9 DEF AdmissionStep

\* Every step admits within the limit.
LEMMA NextAdmission == IInv /\ IInv' /\ [Next]_vars => AdmissionStep
  <1> SUFFICES ASSUME IInv, IInv', [Next]_vars
               PROVE  AdmissionStep
    OBVIOUS
  <1> USE DEF IInv
  <1>1. ASSUME NEW c \in Connections, NEW name \in Names, NEW ask \in Asks,
               NEW seconds \in Lifetimes, NEW replaceExisting \in BOOLEAN,
               CreateAgentConnection(c, name, ask, seconds, replaceExisting)
        PROVE  AdmissionStep
    <2> DEFINE replaced == IF replaceExisting THEN Existing(name) ELSE {}
    <2>1. StagePending(c, name, ask, clock + seconds, replaced)
      BY <1>1 DEF CreateAgentConnection
    <2>2. clock + seconds \in Nat /\ replaced \in SUBSET Connections
      BY TimesAssumption DEF TypeOK, Existing
    <2> HIDE DEF replaced
    <2> QED
      BY <2>1, <2>2, StagingAdmission
  <1>2. ASSUME NEW c \in Connections, NEW source \in Connections,
               RenewAgentConnectionPairing(source, c)
        PROVE  AdmissionStep
    <2> DEFINE row == connections[source]
               replaced == {source} \cup intents[source]
    <2>1. Exists(source)
          /\ StagePending(c, row.name, row.ask, row.expires, replaced)
      BY <1>2 DEF RenewAgentConnectionPairing
    <2>2. row \in StoredRows
      BY <2>1, StoredRow DEF TypeOK, Exists, Status
    <2>3. row.expires \in Nat /\ replaced \in SUBSET Connections
      BY <2>2 DEF StoredRows, TypeOK
    <2> HIDE DEF row, replaced
    <2> QED
      BY <2>1, <2>3, StagingAdmission
  <1>3. ASSUME NEW c \in Connections, PairAgentConnection(c)
        PROVE  AdmissionStep
    BY <1>3, PairAdmission
  <1>4. ASSUME NEW c \in Connections, ExpirePairing(c)
        PROVE  AdmissionStep
    BY <1>4, ExpireIsQuiet, QuietAdmission
  <1>5. ASSUME NEW c \in Connections, RevokeAgentConnection(c)
        PROVE  AdmissionStep
    BY <1>5, RevokeIsQuiet, QuietAdmission
  <1>6. ASSUME NEW kept \in SUBSET Connections, RestoreBackup(kept)
        PROVE  AdmissionStep
    BY <1>6, RestoreIsQuiet, QuietAdmission
  <1>7. CASE UNCHANGED connections /\ clock <= clock'
    BY <1>7, EnvironmentIsQuiet, QuietAdmission
  <1>8. CASE \/ \E p \in Policies : UpdatePolicy(p)
             \/ \E asks \in SUBSET Asks : ArchiveProjects(asks)
             \/ Tick
             \/ UNCHANGED vars
    <2>1. UNCHANGED connections /\ clock <= clock'
      BY <1>8 DEF UpdatePolicy, ArchiveProjects, Tick, vars, TypeOK
    <2> QED
      BY <1>7, <2>1
  <1> QED
    BY <1>1, <1>2, <1>3, <1>4, <1>5, <1>6, <1>8 DEF Next, ConnectionOperation

-----------------------------------------------------------------------------
(* Handover.                                                               *)

\* What becomes of the service of a connection that a step does not touch.
LEMMA ServedKept ==
    ASSUME NEW c \in Connections, Served(c),
           connections'[c] = connections[c],
           \A g \in grants : g.connection = c => g \in grants',
           policy' = policy, clock' = clock
    PROVE  Served(c)'
  <1>1. PICK g \in grants : g.connection = c /\ Usable(g)
    BY DEF Served
  <1>2. Usable(g)'
    BY <1>1 DEF Usable, Status, Unexpired
  <1> QED
    BY <1>1, <1>2 DEF Served

\* Only an active connection is served.
LEMMA ServedActive ==
    ASSUME NEW c \in Connections, Served(c)
    PROVE  Status(c) = "active" /\ \E g \in grants : g.connection = c
  BY DEF Served, Usable

\* Grants of connections that are not revoked stay.
LEMMA GrantsKept ==
    ASSUME NEW R, NEW gs, NEW g \in gs, g.connection \notin R
    PROVE  g \in GrantsRevoked(R, gs)
  BY DEF GrantsRevoked

LEMMA StagingHandover ==
    ASSUME IInv, NEW c \in Connections, NEW name, NEW ask, NEW expires,
           NEW replaced, StagePending(c, name, ask, expires, replaced)
    PROVE  HandoverStep
  <1> USE DEF IInv
  <1>1. /\ Status(c) = "unused" /\ connections'[c].status = "pending"
        /\ \A d \in Connections \ {c} : connections'[d] = connections[d]
        /\ grants' = grants /\ policy' = policy /\ clock' = clock
    BY DEF StagePending, TypeOK
  <1>2. ASSUME NEW d \in Connections
        PROVE  \/ Status(d)' = Status(d)
               \/ Status(d)' = "pending"
    BY <1>1 DEF Status
  <1>3. ASSUME NEW d \in Connections, Served(d)
        PROVE  Served(d)'
    <2>1. d # c
      BY <1>1, <1>3, ServedActive
    <2> QED
      BY <1>1, <1>3, <2>1, ServedKept
  <1>4. Activated = {}
    BY <1>2 DEF Activated
  <1> QED
    BY <1>2, <1>3, <1>4 DEF HandoverStep

LEMMA ExpireHandover ==
    ASSUME IInv, IInv', NEW c \in Connections, ExpirePairing(c)
    PROVE  HandoverStep
  <1> USE DEF IInv
  <1>1. /\ Activated = {}
        /\ \A d \in Connections \ {c} :
             connections'[d] = connections[d] /\ intents'[d] = intents[d]
    BY ExpireIsQuiet, QuietAdmission
  <1>2. /\ ~connections[c].consumed
        /\ grants' = grants /\ policy' = policy /\ clock' = clock
    BY DEF ExpirePairing, NonceOpen
  <1>3. OnlyChanged({c})
    BY <1>1, <1>2 DEF OnlyChanged
  <1>4. ASSUME NEW d \in Connections, Served(d)
        PROVE  Served(d)'
    <2>1. d # c
      BY <1>2, <1>4, ServedActive DEF OneGrant
    <2> QED
      BY <1>1, <1>2, <1>4, <2>1, ServedKept
  <1>5. ASSUME NEW d \in Connections, Status(d) # "expired",
               Status(d)' = "expired"
        PROVE  OnlyChanged({d})
    <2>1. d = c
      BY <1>1, <1>5 DEF Status
    <2> QED
      BY <1>3, <2>1
  <1> QED
    BY <1>1, <1>4, <1>5 DEF HandoverStep

LEMMA RevokeHandover ==
    ASSUME IInv, IInv', NEW c \in Connections, RevokeAgentConnection(c)
    PROVE  HandoverStep
  <1> USE DEF IInv
  <1>1. /\ Activated = {}
        /\ Status(c)' = "revoked"
        /\ \A d \in Connections \ {c} :
             connections'[d] = connections[d] /\ intents'[d] = intents[d]
    BY RevokeIsQuiet, QuietAdmission
  <1>2. /\ grants' = GrantsRevoked({c}, grants)
        /\ policy' = policy /\ clock' = clock
    BY DEF RevokeAgentConnection
  <1>3. \A g \in grants : g.connection \notin {c} => g \in grants'
    BY <1>2, GrantsKept
  <1>4. OnlyChanged({c})
    BY <1>1, <1>3 DEF OnlyChanged
  <1>5. ASSUME NEW d \in Connections, Served(d), ~Served(d)'
        PROVE  d = c
    <2> SUFFICES ASSUME d # c
                 PROVE  FALSE
      OBVIOUS
    <2>1. \A g \in grants : g.connection = d => g \in grants'
      BY <1>3
    <2> QED
      BY <1>1, <1>2, <1>5, <2>1, ServedKept
  <1>6. ASSUME NEW d \in Connections, Status(d) # "expired",
               Status(d)' = "expired"
        PROVE  FALSE
    <2>1. CASE d = c
      BY <1>1, <1>6, <2>1
    <2>2. CASE d # c
      BY <1>1, <1>6, <2>2 DEF Status
    <2> QED
      BY <2>1, <2>2
  <1> QED
    BY <1>1, <1>4, <1>5, <1>6 DEF HandoverStep

LEMMA RestoreHandover ==
    ASSUME IInv, IInv', NEW kept \in SUBSET Connections, RestoreBackup(kept)
    PROVE  HandoverStep
  <1>1. Activated = {}
    BY RestoreIsQuiet, QuietAdmission
  <1>2. ASSUME NEW c \in Connections
        PROVE  ~Live(c)' /\ ~(Status(c)' = "expired")
    BY RestoreIsQuiet
  <1> QED
    BY <1>1, <1>2 DEF HandoverStep

LEMMA PairHandover ==
    ASSUME IInv, IInv', NEW c \in Connections, PairAgentConnection(c)
    PROVE  HandoverStep
  <1> DEFINE R == intents[c]
  <1>1. /\ Status(c) = "pending" /\ Status(c)' = "active"
        /\ \A d \in R : d \in Connections /\ Status(d)' = "revoked"
        /\ \A d \in Connections \ (R \cup {c}) :
             connections'[d] = connections[d] /\ intents'[d] = intents[d]
    BY PairAdmission
  <1>2. /\ grants' = GrantsRevoked(R, grants \cup {NewGrant(c)})
        /\ policy' = policy /\ clock' = clock
    BY DEF PairAgentConnection
  <1>3. \A g \in grants : g.connection \notin R => g \in grants'
    BY <1>2, GrantsKept
  <1>4. OnlyChanged(R \cup {c})
    BY <1>1, <1>3 DEF OnlyChanged
  <1>5. ASSUME NEW d \in Connections
        PROVE  \/ d = c
               \/ d \in R /\ Status(d)' = "revoked"
               \/ Status(d)' = Status(d)
    BY <1>1 DEF Status
  <1>6. Activated = {c}
    <2>1. c \in Activated
      BY <1>1 DEF Activated
    <2>2. ASSUME NEW d \in Activated
          PROVE  d = c
      BY <1>5 DEF Activated
    <2> QED
      BY <2>1, <2>2
  <1>7. ASSUME NEW d \in Connections, Served(d), ~Served(d)'
        PROVE  d \in R
    <2>1. d # c
      BY <1>1, <1>7, ServedActive
    <2> SUFFICES ASSUME d \notin R
                 PROVE  FALSE
      OBVIOUS
    <2>2. \A g \in grants : g.connection = d => g \in grants'
      BY <1>3
    <2> QED
      BY <1>1, <1>2, <1>7, <2>1, <2>2, ServedKept
  <1>8. ASSUME NEW d \in Connections, Status(d) # "expired",
               Status(d)' = "expired"
        PROVE  FALSE
    BY <1>1, <1>5, <1>8
  <1> QED
    BY <1>1, <1>4, <1>6, <1>7, <1>8 DEF HandoverStep

\* Time, policy and projects activate and expire nothing.
LEMMA EnvironmentHandover ==
    ASSUME UNCHANGED <<connections, intents, grants>>
    PROVE  HandoverStep
  <1>1. ASSUME NEW c \in Connections
        PROVE  Status(c)' = Status(c)
    BY DEF Status
  <1>2. Activated = {}
    BY <1>1 DEF Activated
  <1>3. ASSUME NEW c \in Connections, Served(c), ~Served(c)'
        PROVE  clock' # clock \/ policy' # policy
    BY <1>3, ServedKept
  <1> QED
    BY <1>1, <1>2, <1>3 DEF HandoverStep

LEMMA NextHandover == IInv /\ IInv' /\ [Next]_vars => HandoverStep
  <1> SUFFICES ASSUME IInv, IInv', [Next]_vars
               PROVE  HandoverStep
    OBVIOUS
  <1>1. ASSUME NEW c \in Connections, NEW name \in Names, NEW ask \in Asks,
               NEW seconds \in Lifetimes, NEW replaceExisting \in BOOLEAN,
               CreateAgentConnection(c, name, ask, seconds, replaceExisting)
        PROVE  HandoverStep
    BY <1>1, StagingHandover DEF CreateAgentConnection
  <1>2. ASSUME NEW c \in Connections, NEW source \in Connections,
               RenewAgentConnectionPairing(source, c)
        PROVE  HandoverStep
    BY <1>2, StagingHandover DEF RenewAgentConnectionPairing
  <1>3. ASSUME NEW c \in Connections, PairAgentConnection(c)
        PROVE  HandoverStep
    BY <1>3, PairHandover
  <1>4. ASSUME NEW c \in Connections, ExpirePairing(c)
        PROVE  HandoverStep
    BY <1>4, ExpireHandover
  <1>5. ASSUME NEW c \in Connections, RevokeAgentConnection(c)
        PROVE  HandoverStep
    BY <1>5, RevokeHandover
  <1>6. ASSUME NEW kept \in SUBSET Connections, RestoreBackup(kept)
        PROVE  HandoverStep
    BY <1>6, RestoreHandover
  <1>7. CASE \/ \E p \in Policies : UpdatePolicy(p)
             \/ \E asks \in SUBSET Asks : ArchiveProjects(asks)
             \/ Tick
             \/ UNCHANGED vars
    <2>1. UNCHANGED <<connections, intents, grants>>
      BY <1>7 DEF UpdatePolicy, ArchiveProjects, Tick, vars
    <2> QED
      BY <2>1, EnvironmentHandover
  <1> QED
    BY <1>1, <1>2, <1>3, <1>4, <1>5, <1>6, <1>7 DEF Next, ConnectionOperation

-----------------------------------------------------------------------------
(* The action properties.                                                  *)

\* No step that stages or activates a connection exceeds the limit.
THEOREM AdmissionAlways == Spec => AdmissionWithinLimit
  BY IInvAlways, NextAdmission, PTL DEF Spec, AdmissionWithinLimit

\* Replaced connections are served until their successor is active and not a
\* step longer; nothing else takes a grant away.
THEOREM HandoverAlways == Spec => Handover
  BY IInvAlways, NextHandover, PTL DEF Spec, Handover

-----------------------------------------------------------------------------
(* Browser sessions.                                                       *)

SessionTypes ==
    /\ account \in BOOLEAN
    /\ credential \in CredentialRows
    /\ sessions \in [Attempts -> SessionRows]
    /\ attempts \in [Attempts -> AttemptRows]
    /\ configured \in MaybeToken
    /\ serving \in BOOLEAN
    /\ backup \in BOOLEAN \X CredentialRows \X [Attempts -> SessionRows]
    /\ clock \in Nat

\* Who waits for a hash waits in a running process, and was let in by an account
\* that is still there.
WaitingSound ==
    /\ \A l \in Attempts :
          attempts[l].status = "checking" /\ attempts[l].right => account
    /\ ~serving => \A l \in Attempts : attempts[l].status \in {"unused", "over"}

\* A process that may still bootstrap was given a token where one is required,
\* and a backup is as sound as the database it was taken of.
SessionIInv ==
    /\ SessionTypes
    /\ AccessInv
    /\ WaitingSound
    /\ Required /\ serving /\ ~account => configured # {}
    /\ BootstrapSound(backup[1], backup[2])
    /\ ~backup[1] => \A l \in Attempts : backup[3][l].status = "none"

\* What the two makers of sessions write is a live row.
LEMMA NewSessionRow ==
    ASSUME NEW at \in Nat
    PROVE  NewSession(at) \in SessionRows /\ NewSession(at).status = "live"
  BY SessionsAssumption DEF NewSession, SessionRows

\* Revoking all leaves rows of the same type and none of them live; what was
\* not there is still not there.
LEMMA AllRevokedRows ==
    ASSUME NEW rows \in [Attempts -> SessionRows]
    PROVE  /\ AllRevoked(rows) \in [Attempts -> SessionRows]
           /\ \A l \in Attempts :
                /\ AllRevoked(rows)[l].status # "live"
                /\ rows[l].status = "none" => AllRevoked(rows)[l].status = "none"
  <1>1. ASSUME NEW l \in Attempts
        PROVE  /\ AllRevoked(rows)[l] \in SessionRows
               /\ AllRevoked(rows)[l].status # "live"
               /\ rows[l].status = "none" => AllRevoked(rows)[l].status = "none"
    <2>1. rows[l] \in SessionRows
      OBVIOUS
    <2>2. CASE rows[l].status = "live"
      BY <2>1, <2>2 DEF AllRevoked, SessionRows
    <2>3. CASE rows[l].status # "live"
      BY <2>1, <2>3 DEF AllRevoked
    <2> QED
      BY <2>2, <2>3
  <1>2. DOMAIN AllRevoked(rows) = Attempts
    BY DEF AllRevoked
  <1>3. AllRevoked(rows) = [l \in Attempts |-> AllRevoked(rows)[l]]
    BY DEF AllRevoked
  <1> QED
    BY <1>1, <1>3

LEMMA InitSessionIInv == AccessInit => SessionIInv
  <1> SUFFICES ASSUME AccessInit
               PROVE  SessionIInv
    OBVIOUS
  <1> DEFINE noSessions == [l \in Attempts |-> [status |-> "none"]]
  <1>1. noSessions \in [Attempts -> SessionRows]
    BY DEF SessionRows
  <1>2. [status |-> "none"] \in CredentialRows
    BY DEF CredentialRows
  <1>3. attempts \in [Attempts -> AttemptRows]
    BY DEF AccessInit, AttemptRows
  <1>4. SessionTypes
    BY <1>1, <1>2, <1>3 DEF AccessInit, Init, SessionTypes, MaybeToken
  <1>5. AccessInv /\ WaitingSound
    BY DEF AccessInit, AccessInv, OneSession, LiveSession, BootstrapSound, WaitingSound
  <1> QED
    BY <1>4, <1>5 DEF AccessInit, SessionIInv, BootstrapSound

\* A step that makes no session: it touches attempts, the process or the backup.
LEMMA WaitingKeepsSessionIInv ==
    ASSUME SessionIInv, NEW l \in Attempts, NEW right \in BOOLEAN, UNCHANGED vars,
           BeginBootstrap(l) \/ BeginLogin(l, right) \/ RefuseAttempt(l)
    PROVE  SessionIInv'
  <1>1. attempts' \in [Attempts -> AttemptRows]
    BY DEF SessionIInv, SessionTypes, BeginBootstrap, BeginLogin, RefuseAttempt,
           Over, AttemptRows
  <1>2. WaitingSound'
    BY DEF SessionIInv, SessionTypes, WaitingSound, BeginBootstrap, BeginLogin,
           RefuseAttempt, Over, database
  <1> QED
    BY <1>1, <1>2
       DEF SessionIInv, SessionTypes, AccessInv, OneSession, LiveSession, vars,
           database, BeginBootstrap, BeginLogin, RefuseAttempt

\* The first session is the only one: there was no account to have others.
LEMMA BootstrapKeepsSessionIInv ==
    ASSUME SessionIInv, NEW l \in Attempts, FinishBootstrap(l), UNCHANGED vars
    PROVE  SessionIInv'
  <1> USE DEF SessionIInv, SessionTypes, FinishBootstrap, MayBootstrap
  <1>1. attempts' \in [Attempts -> AttemptRows]
    BY DEF Over, AttemptRows
  <1>2. sessions' \in [Attempts -> SessionRows]
    BY NewSessionRow
  <1>3. credential' \in CredentialRows
    BY DEF CredentialRows
  <1>4. OneSession'
    <2>1. \A k \in Attempts : k # l => sessions'[k].status = "none"
      BY DEF AccessInv
    <2> QED
      BY <2>1 DEF OneSession, LiveSession
  <1>5. BootstrapSound(account, credential)'
    <2>1. CASE configured = {}
      BY <2>1 DEF AccessInv, BootstrapSound
    <2>2. CASE configured # {}
      <3>1. credential \in [status : {"open", "consumed"}, token : Tokens]
        BY <2>2 DEF CredentialRows
      <3>2. credential'.status = "consumed"
        BY <2>2, <3>1
      <3> QED
        BY <3>2 DEF BootstrapSound
    <2> QED
      BY <2>1, <2>2
  <1>6. UNCHANGED <<configured, serving, backup, clock>>
    BY DEF vars
  <1>7. WaitingSound'
    BY <1>6 DEF WaitingSound, Over
  <1> QED
    BY <1>1, <1>2, <1>3, <1>4, <1>5, <1>6, <1>7 DEF AccessInv, BootstrapSound

\* A login revokes whatever was live before it adds its own session.
LEMMA LoginKeepsSessionIInv ==
    ASSUME SessionIInv, NEW l \in Attempts, FinishLogin(l), UNCHANGED vars
    PROVE  SessionIInv'
  <1> USE DEF SessionIInv, SessionTypes, FinishLogin
  <1>1. attempts' \in [Attempts -> AttemptRows]
    BY DEF Over, AttemptRows
  <1>2. attempts[l].began \in Nat
    BY DEF AttemptRows
  <1>3. sessions' \in [Attempts -> SessionRows]
    BY <1>2, NewSessionRow, AllRevokedRows
  <1>4. OneSession'
    <2>1. \A k \in Attempts : k # l => sessions'[k].status # "live"
      BY AllRevokedRows
    <2> QED
      BY <2>1 DEF OneSession, LiveSession
  <1>5. account
    BY DEF WaitingSound
  <1>6. WaitingSound'
    BY <1>5 DEF WaitingSound, Over
  <1> QED
    BY <1>1, <1>3, <1>4, <1>5, <1>6 DEF AccessInv, BootstrapSound, vars

\* Requests and logouts make no session live.
LEMMA UseKeepsSessionIInv ==
    ASSUME SessionIInv, NEW l \in Attempts, ReadSession(l) \/ Logout(l),
           UNCHANGED vars
    PROVE  SessionIInv'
  <1> USE DEF SessionIInv, SessionTypes
  <1>1. sessions[l] \in [status : {"live", "revoked"}, created : Nat, idle : Nat,
                          expires : Nat]
    BY DEF ReadSession, Logout, LiveSession, SessionRows
  <1>2. Earlier(clock + IdleTTL, sessions[l].expires) \in Nat
    BY <1>1, SessionsAssumption DEF Earlier
  <1>3. /\ sessions' \in [Attempts -> SessionRows]
        /\ \A k \in Attempts :
              /\ sessions'[k].status = "live" => sessions[k].status = "live"
              /\ sessions[k].status = "none" => sessions'[k].status = "none"
    <2>1. CASE ReadSession(l)
      BY <1>1, <1>2, <2>1 DEF ReadSession, SessionRows
    <2>2. CASE Logout(l)
      BY <1>1, <2>2 DEF Logout, SessionRows
    <2> QED
      BY <2>1, <2>2
  <1>4. UNCHANGED <<account, credential, attempts, configured, serving, backup, clock>>
    BY DEF ReadSession, Logout, vars
  <1>5. WaitingSound'
    BY <1>4 DEF WaitingSound
  <1> QED
    BY <1>3, <1>4, <1>5 DEF AccessInv, OneSession, LiveSession, BootstrapSound

\* A start consumes a credential left open beside an account, and never finds
\* one consumed without.
LEMMA StartKeepsSessionIInv ==
    ASSUME SessionIInv, NEW tokens \in MaybeToken, StartServer(tokens),
           UNCHANGED vars
    PROVE  SessionIInv'
  <1> USE DEF SessionIInv, SessionTypes, StartServer
  <1>1. /\ credential' \in CredentialRows
        /\ BootstrapSound(account, credential)'
        /\ Required /\ ~account => tokens # {}
    <2>1. CASE account
      BY <2>1 DEF AccessInv, BootstrapSound, CredentialRows
    <2>2. CASE ~account /\ tokens = {} /\ ~Required /\ UNCHANGED credential
      BY <2>2 DEF AccessInv, BootstrapSound
    <2>3. CASE /\ ~account
               /\ \E t \in tokens : credential' = [status |-> "open", token |-> t]
      BY <2>3 DEF BootstrapSound, CredentialRows, MaybeToken
    <2> QED
      BY <2>1, <2>2, <2>3
  <1>2. WaitingSound'
    BY DEF WaitingSound
  <1> QED
    BY <1>1, <1>2 DEF AccessInv, OneSession, LiveSession, vars

LEMMA StopKeepsSessionIInv ==
    ASSUME SessionIInv, StopServer \/ TakeBackup, UNCHANGED vars
    PROVE  SessionIInv'
  <1> USE DEF SessionIInv, SessionTypes, database
  <1>1. CASE StopServer
    <2>1. attempts' \in [Attempts -> AttemptRows]
      BY <1>1 DEF StopServer, AttemptRows
    <2>2. WaitingSound'
      BY <1>1 DEF StopServer, WaitingSound
    <2> QED
      BY <1>1, <2>1, <2>2 DEF StopServer, AccessInv, OneSession, LiveSession, vars
  <1>2. CASE TakeBackup
    BY <1>2 DEF TakeBackup, AccessInv, OneSession, LiveSession, WaitingSound, vars
  <1> QED
    BY <1>1, <1>2

\* What is restored has no live session, and was sound when it was saved.
LEMMA RestoreKeepsSessionIInv ==
    ASSUME SessionIInv, RestoreSessions, clock' = clock
    PROVE  SessionIInv'
  <1> USE DEF SessionIInv, SessionTypes, RestoreSessions
  <1>1. /\ sessions' \in [Attempts -> SessionRows]
        /\ \A l \in Attempts :
              /\ sessions'[l].status # "live"
              /\ backup[3][l].status = "none" => sessions'[l].status = "none"
    BY AllRevokedRows
  <1>2. WaitingSound'
    BY DEF WaitingSound
  <1> QED
    BY <1>1, <1>2 DEF AccessInv, OneSession, LiveSession

LEMMA NextSessionIInv ==
    ASSUME SessionIInv, [AccessNext]_<<vars, sessionVars>>
    PROVE  SessionIInv'
  <1>1. ASSUME UNCHANGED sessionVars, clock' \in Nat
        PROVE  SessionIInv'
    BY <1>1 DEF SessionIInv, SessionTypes, AccessInv, OneSession, LiveSession,
                WaitingSound, sessionVars
  <1>2. CASE serving /\ ConnectionOperation /\ UNCHANGED sessionVars
    <2>1. clock' = clock
      BY <1>2 DEF ConnectionOperation, CreateAgentConnection, StagePending,
                  RenewAgentConnectionPairing, PairAgentConnection, ExpirePairing,
                  RevokeAgentConnection, UpdatePolicy, ArchiveProjects
    <2> QED
      BY <1>1, <1>2, <2>1 DEF SessionIInv, SessionTypes
  <1>3. CASE SessionOperation /\ UNCHANGED vars
    BY <1>3, WaitingKeepsSessionIInv, BootstrapKeepsSessionIInv,
       LoginKeepsSessionIInv, UseKeepsSessionIInv, StartKeepsSessionIInv,
       StopKeepsSessionIInv
       DEF SessionOperation
  <1>4. ASSUME NEW kept \in SUBSET Connections, RestoreBackup(kept), RestoreSessions
        PROVE  SessionIInv'
    BY <1>4, RestoreKeepsSessionIInv DEF RestoreBackup
  <1>5. CASE Tick /\ UNCHANGED sessionVars
    BY <1>1, <1>5 DEF Tick, SessionIInv, SessionTypes
  <1>6. CASE UNCHANGED <<vars, sessionVars>>
    BY <1>1, <1>6 DEF vars, SessionIInv, SessionTypes
  <1> QED
    BY <1>2, <1>3, <1>4, <1>5, <1>6 DEF AccessNext

\* A session is served after a step only if it was before, or if the step is
\* the end of the attempt it belongs to.
LEMMA NextEnded ==
    ASSUME SessionIInv, SessionIInv', [AccessNext]_<<vars, sessionVars>>
    PROVE  EndedStaysEnded
  <1> USE DEF SessionIInv, SessionTypes, Servable, LiveSession
  <1> SUFFICES ASSUME NEW l \in Attempts, attempts[l].status = "over",
                      Servable(l)'
               PROVE  Servable(l)
    BY DEF EndedStaysEnded
  <1>1. sessions[l] \in SessionRows /\ sessions'[l] \in SessionRows
    OBVIOUS
  <1>2. ASSUME sessions'[l] = sessions[l], clock' >= clock
        PROVE  Servable(l)
    <2>1. sessions[l] \in [status : {"live", "revoked"}, created : Nat, idle : Nat,
                            expires : Nat]
      BY <1>1, <1>2 DEF SessionRows
    <2> QED
      BY <1>2, <2>1
  <1>3. CASE serving /\ ConnectionOperation /\ UNCHANGED sessionVars
    <2>1. clock' = clock
      BY <1>3 DEF ConnectionOperation, CreateAgentConnection, StagePending,
                  RenewAgentConnectionPairing, PairAgentConnection, ExpirePairing,
                  RevokeAgentConnection, UpdatePolicy, ArchiveProjects
    <2> QED
      BY <1>2, <1>3, <2>1 DEF sessionVars
  <1>4. CASE SessionOperation /\ UNCHANGED vars
    <2>1. clock' = clock
      BY <1>4 DEF vars
    <2>2. ASSUME NEW k \in Attempts, FinishBootstrap(k)
          PROVE  Servable(l)
      <3>1. k # l
        BY <2>2 DEF FinishBootstrap
      <3> QED
        BY <1>2, <2>1, <2>2, <3>1 DEF FinishBootstrap
    <2>3. ASSUME NEW k \in Attempts, FinishLogin(k)
          PROVE  Servable(l)
      <3>1. k # l
        BY <2>3 DEF FinishLogin
      <3>2. sessions'[l].status # "live"
        BY <2>3, <3>1, AllRevokedRows DEF FinishLogin
      <3> QED
        BY <3>2
    <2>4. ASSUME NEW k \in Attempts, ReadSession(k)
          PROVE  Servable(l)
      <3>1. CASE k # l
        BY <1>2, <2>1, <2>4, <3>1 DEF ReadSession
      <3>2. CASE k = l /\ ~Servable(l)
        <4>1. sessions'[l].status = "revoked"
          BY <1>1, <2>4, <3>2 DEF ReadSession, SessionRows
        <4> QED
          BY <4>1
      <3> QED
        BY <3>1, <3>2
    <2>5. ASSUME NEW k \in Attempts, Logout(k)
          PROVE  Servable(l)
      <3>1. CASE k # l
        BY <1>2, <2>1, <2>5, <3>1 DEF Logout
      <3>2. CASE k = l
        <4>1. sessions'[l].status = "revoked"
          BY <1>1, <2>5, <3>2 DEF Logout, SessionRows
        <4> QED
          BY <4>1
      <3> QED
        BY <3>1, <3>2
    <2>6. ASSUME sessions' = sessions
          PROVE  Servable(l)
      BY <1>2, <2>1, <2>6
    <2> QED
      BY <1>4, <2>2, <2>3, <2>4, <2>5, <2>6
         DEF SessionOperation, BeginBootstrap, BeginLogin, RefuseAttempt,
             StartServer, StopServer, TakeBackup, database
  <1>5. CASE RestoreSessions
    <2>1. sessions'[l].status # "live"
      BY <1>5, AllRevokedRows DEF RestoreSessions
    <2> QED
      BY <2>1
  <1>6. CASE Tick /\ UNCHANGED sessionVars
    BY <1>2, <1>6 DEF Tick, sessionVars
  <1>7. CASE UNCHANGED <<vars, sessionVars>>
    BY <1>2, <1>7 DEF vars, sessionVars
  <1> QED
    BY <1>3, <1>4, <1>5, <1>6, <1>7 DEF AccessNext

\* The invariant of connections and sessions holds in every state the server
\* reaches, restores of a backup among them.
THEOREM SessionIInvAlways == AccessSpec => []SessionIInv
  BY InitSessionIInv, NextSessionIInv, PTL DEF AccessSpec

\* With the sessions beside them the connections behave as they do alone, so
\* that the theorems above hold in the composition.
THEOREM AccessKeepsConnections == AccessSpec => Spec
  <1>1. AccessInit => Init
    BY DEF AccessInit
  <1>2. [AccessNext]_<<vars, sessionVars>> => [Next]_vars
    BY DEF AccessNext, Next, vars
  <1> QED
    BY <1>1, <1>2, PTL DEF AccessSpec, Spec

\* Every variable of connections and sessions keeps its type.
THEOREM AccessTypeCorrect == AccessSpec => []AccessTypeOK
  <1>1. TypeOK /\ SessionIInv => AccessTypeOK
    BY DEF SessionIInv, SessionTypes, AccessTypeOK
  <1> QED
    BY <1>1, TypeCorrect, AccessKeepsConnections, SessionIInvAlways, PTL

\* One live session at most, an account exactly for a consumed credential, and
\* no session served after its end, for every overlap of bootstraps, logins,
\* restarts and restores.
THEOREM SessionsSoundAlways == AccessSpec => SessionsSound
  <1>1. SessionIInv => AccessInv
    BY DEF SessionIInv
  <1>2. SessionIInv /\ SessionIInv' /\ [AccessNext]_<<vars, sessionVars>>
            => [EndedStaysEnded]_<<vars, sessionVars>>
    BY NextEnded
  <1> QED
    BY <1>1, <1>2, SessionIInvAlways, PTL DEF AccessSpec, SessionsSound

-----------------------------------------------------------------------------
(* The editor: the inductive invariant of its store.                       *)

\* What holds of every store: only edits that were made are anywhere, and a
\* request is where its kind allows it to be.
Protections(latest, n) == [base : 0..latest, operations : Seq(1..n), key : 0..MaxKeys]
RequestsOf(latest, n) ==
    [at : {"idle", "sent", "done", "conflict", "refused", "lost", "capturing"}, base : 0..latest,
     operations : Seq(1..n), key : 0..MaxKeys, version : 0..latest]

ServerWell ==
    /\ Latest \in Versions
    /\ revisions \in Seq(Seq(0..made))
    /\ replies \in [1..MaxKeys -> 0..Latest]

CanvasWell ==
    /\ document \in Documents
    /\ ~left => document \in Seq(0..made)
    /\ baseVersion \in 0..Latest
    /\ Open => baseVersion # 0
    /\ pendingOperations \in Seq(1..made)

KeptWell ==
    /\ archiveReview \in Protections(Latest, made)
    /\ conflictRecovery \in Protections(Latest, made)
    /\ conflictRecovery.key = 0 /\ (conflictRecovery # None => conflictRecovery.base # 0)
    /\ stored \in Protections(Latest, made)
    /\ attempt \in Protections(Latest, made)
    /\ nextKey \in 1..MaxKeys + 1

Fits(c, r) ==
    /\ IF r.at = "idle" THEN r = Idle ELSE r.base # 0
    /\ r.at = "done" => r.version # 0
    /\ r.at = "capturing" => c \in {"save", "approve"}
    /\ c \in {"restore", "latest", "discard"} /\ r.at = "sent" => r.version # 0
    /\ c \in {"latest", "discard"} => r.at \in {"idle", "sent", "lost"}
    /\ c \notin {"save", "approve"} => r.key = 0
LoadingWell ==
    /\ loading <=> Busy("latest") \/ Busy("discard")
    /\ ~(Busy("latest") /\ Busy("discard"))
CallsWell ==
    /\ calls \in [Calls -> RequestsOf(Latest, made)]
    /\ \A c \in Calls : Fits(c, calls[c])
    /\ LoadingWell

StatusWell ==
    /\ saveState \in {"idle", "dirty", "saving", "saved", "review", "error", "conflict"}
    /\ saving \in BOOLEAN /\ loading \in BOOLEAN /\ left \in BOOLEAN
    /\ crossed \in BOOLEAN /\ overtaken \in BOOLEAN
    /\ refreshes \subseteq Versions
    /\ made \in 0..MaxEdits
    /\ givenUp \subseteq Edits

Well == ServerWell /\ CanvasWell /\ KeptWell /\ CallsWell /\ StatusWell

\* Whatever holds a key: the last undecided save, the review, a save or an
\* approval under way.
Claim(c) == [base |-> calls[c].base, operations |-> calls[c].operations, key |-> calls[c].key]
Claiming(c) == calls[c].at \notin {"idle", "capturing"}
Claims ==
    ({attempt, archiveReview} \cup {Claim(c) : c \in {d \in {"save", "approve"} : Claiming(d)}}) \ {None}

\* A key stands for one set of operations on one version, and so does the
\* revision it was answered with.
KeysWell ==
    /\ \A k \in 1..MaxKeys : replies[k] # 0 => k < nextKey
    /\ \A r \in Claims :
          /\ r.key \in 1..nextKey - 1
          /\ r.base # 0
          /\ replies[r.key] # 0 => revisions[replies[r.key]] = revisions[r.base] \o r.operations
    /\ \A r, s \in Claims : r.key = s.key => r = s
    /\ \A c \in {"save", "approve"} :
          calls[c].at = "done" /\ ~WantsPreview(c) =>
              revisions[calls[c].version] = revisions[calls[c].base] \o calls[c].operations

\* Where the edits are, as long as nothing was started in the middle of another:
\* one of the places that hold them is used at a time.
Committers == {"save", "approve", "restore"}
Recovery(c) == [base |-> calls[c].base, operations |-> calls[c].operations, key |-> 0]

OneCommitter == \A c, d \in Committers : Busy(c) /\ Busy(d) => c = d
Undisturbed ==
    Busy("save") \/ Busy("approve") =>
        /\ conflictRecovery = None /\ stored.operations = <<>>
        /\ ~Busy("latest") /\ ~Busy("discard")
DiscardHolds ==
    Busy("discard") => Elements(stored.operations) \subseteq Elements(calls["discard"].operations)
LeftBehind ==
    left => /\ 1..made \subseteq givenUp \cup Elements(stored.operations)
            /\ Busy("latest") => conflictRecovery = None
ReviewHolds ==
    ~left => /\ Busy("save") => archiveReview = None
             /\ Claiming("approve") => saving /\ archiveReview = Claim("approve")
             /\ calls["approve"].at = "capturing" => archiveReview = None
RecoveryHolds ==
    ~left => /\ archiveReview # None => conflictRecovery = None
             /\ Elements(stored.operations) \subseteq Elements(conflictRecovery.operations)
             /\ conflictRecovery # None =>
                   Elements(pendingOperations) \subseteq Elements(conflictRecovery.operations)
             /\ \A c \in {"latest", "discard"} : Busy(c) => conflictRecovery = Recovery(c)
RestoreHolds == calls["restore"].operations = <<>>
\* What is on its way shows as saving, or is pending again.
Noticed ==
    ~left => \A c \in {"save", "approve"} :
                Busy(c) => saving \/ Elements(calls[c].operations) \subseteq Elements(pendingOperations)
Holding ==
    /\ OneCommitter /\ Undisturbed /\ DiscardHolds /\ LeftBehind
    /\ ReviewHolds /\ RecoveryHolds /\ RestoreHolds /\ Noticed

\* Edits are numbered as they are made: what is saved is in their order, and what
\* is still to be saved comes after everything that was.
Sorted(s) == \A i, j \in 1..Len(s) : i < j /\ s[i] # 0 /\ s[j] # 0 => s[i] < s[j]
Precede(A, B) == \A a \in A \ {0}, b \in B \ {0} : a < b
New(t) == Precede(Saved, Elements(t))
Follow(ops) == New(pendingOperations) /\ Precede(Elements(ops), Elements(pendingOperations))

RevisionsSorted == \A v \in 1..Latest : Sorted(revisions[v])
PendingSorted ==
    ~left => Sorted(pendingOperations) /\ (Latest = baseVersion => New(pendingOperations))
SaveSorted ==
    Busy("save") =>
        /\ ~left \/ calls["save"].at # "capturing" => Sorted(calls["save"].operations)
        /\ calls["save"].base = Latest => New(calls["save"].operations)
        /\ calls["save"].at \in {"conflict", "capturing"} => calls["save"].base # Latest
        /\ calls["save"].at = "sent" /\ WantsPreview("save") => replies[calls["save"].key] = 0
        /\ calls["save"].at = "done" /\ WantsPreview("save") => New(calls["save"].operations)
        /\ ~left => baseVersion = calls["save"].base
        /\ ~left /\ calls["save"].at # "capturing" => Follow(calls["save"].operations)
ReviewSorted ==
    ~left /\ archiveReview # None =>
        /\ Sorted(archiveReview.operations)
        /\ replies[archiveReview.key] # 0 \/ New(archiveReview.operations)
        /\ Follow(archiveReview.operations)
ApproveSorted ==
    Busy("approve") =>
        /\ ~left \/ calls["approve"].at # "capturing" => Sorted(calls["approve"].operations)
        /\ calls["approve"].at = "sent" =>
              replies[calls["approve"].key] # 0 \/ New(calls["approve"].operations)
        /\ ~left /\ calls["approve"].at \in {"conflict", "capturing"} => New(calls["approve"].operations)
Ordered == RevisionsSorted /\ PendingSorted /\ SaveSorted /\ ReviewSorted /\ ApproveSorted

StoreInv ==
    /\ Well /\ KeysWell
    /\ crossed \/ (Holding /\ EditsKept)
    /\ crossed \/ overtaken \/ Ordered

-----------------------------------------------------------------------------
(* Sequences of edits.                                                     *)

LEMMA ElementsEmpty == Elements(<<>>) = {}
  BY DEF Elements, ToSet

LEMMA ElementsIn ==
    ASSUME NEW S, NEW s \in Seq(S)
    PROVE  /\ Elements(s) \subseteq S
           /\ \A i \in 1..Len(s) : s[i] \in Elements(s)
           /\ \A e \in Elements(s) : \E i \in 1..Len(s) : s[i] = e
  BY DEF Elements, ToSet

LEMMA ElementsAppend ==
    ASSUME NEW S, NEW s \in Seq(S), NEW e \in S
    PROVE  Elements(Append(s, e)) = Elements(s) \cup {e}
  <1> DEFINE t == Append(s, e)
  <1>1. /\ t \in Seq(S) /\ Len(t) = Len(s) + 1 /\ t[Len(s) + 1] = e
        /\ \A i \in 1..Len(s) : t[i] = s[i]
    OBVIOUS
  <1> HIDE DEF t
  <1>2. Elements(t) \subseteq Elements(s) \cup {e}
    BY <1>1, ElementsIn
  <1>3. Elements(s) \cup {e} \subseteq Elements(t)
    BY <1>1, ElementsIn
  <1> QED
    BY <1>2, <1>3 DEF t

LEMMA ElementsConcat ==
    ASSUME NEW S, NEW s \in Seq(S), NEW t \in Seq(S)
    PROVE  Elements(s \o t) = Elements(s) \cup Elements(t)
  <1> DEFINE u == s \o t
  <1>1. /\ u \in Seq(S) /\ Len(u) = Len(s) + Len(t)
        /\ \A i \in 1..Len(s) + Len(t) : u[i] = IF i <= Len(s) THEN s[i] ELSE t[i - Len(s)]
    BY ConcatProperties
  <1> HIDE DEF u
  <1>0. Len(s) \in Nat /\ Len(t) \in Nat
    OBVIOUS
  <1>2. Elements(u) \subseteq Elements(s) \cup Elements(t)
    <2> SUFFICES ASSUME NEW i \in 1..Len(u) PROVE u[i] \in Elements(s) \cup Elements(t)
      BY <1>1, ElementsIn
    <2>1. CASE i <= Len(s)
      BY <2>1, <1>0, <1>1, ElementsIn
    <2>2. CASE i > Len(s)
      <3>1. u[i] = t[i - Len(s)] /\ i - Len(s) \in 1..Len(t)
        BY <2>2, <1>0, <1>1
      <3> QED
        BY <3>1, ElementsIn
    <2> QED
      BY <2>1, <2>2, <1>0, <1>1
  <1>3. \A i \in 1..Len(s) : s[i] \in Elements(u)
    <2> TAKE i \in 1..Len(s)
    <2>1. i \in 1..Len(u) /\ u[i] = s[i]
      BY <1>0, <1>1
    <2> QED
      BY <2>1, <1>1, ElementsIn
  <1>4. \A i \in 1..Len(t) : t[i] \in Elements(u)
    <2> TAKE i \in 1..Len(t)
    <2>1. /\ Len(s) + i \in 1..Len(s) + Len(t) /\ ~(Len(s) + i <= Len(s))
          /\ (Len(s) + i) - Len(s) = i
      BY <1>0
    <2>2. Len(s) + i \in 1..Len(u) /\ u[Len(s) + i] = t[i]
      BY <2>1, <1>1
    <2> QED
      BY <2>2, <1>1, ElementsIn
  <1>5. Elements(s) \subseteq Elements(u)
    BY <1>3, ElementsIn
  <1>6. Elements(t) \subseteq Elements(u)
    BY <1>4, ElementsIn
  <1>7. Elements(u) = Elements(s) \cup Elements(t)
    BY ONLY <1>2, <1>5, <1>6
  <1> QED
    BY <1>7 DEF u

\* Everything the revisions hold.
AllOf(log) == UNION {Elements(log[v]) : v \in 1..Len(log)}

LEMMA AllOfHolds ==
    ASSUME NEW S, NEW log \in Seq(Seq(S)), NEW v \in 1..Len(log)
    PROVE  Elements(log[v]) \subseteq AllOf(log) /\ log[v] \in Seq(S)
  BY DEF AllOf

LEMMA AllOfAppend ==
    ASSUME NEW S, NEW log \in Seq(Seq(S)), NEW s \in Seq(S)
    PROVE  AllOf(Append(log, s)) = AllOf(log) \cup Elements(s)
  <1> DEFINE more == Append(log, s)
  <1>1. /\ more \in Seq(Seq(S)) /\ Len(more) = Len(log) + 1 /\ more[Len(log) + 1] = s
        /\ \A i \in 1..Len(log) : more[i] = log[i]
        /\ Len(log) \in Nat
    OBVIOUS
  <1> HIDE DEF more
  <1>2. 1..Len(more) = 1..Len(log) \cup {Len(log) + 1}
    BY <1>1
  <1> QED
    BY <1>1, <1>2 DEF AllOf, more

LEMMA AllOfIn ==
    ASSUME NEW S, NEW log \in Seq(Seq(S))
    PROVE  AllOf(log) \subseteq S
  BY ElementsIn DEF AllOf

LEMMA SavedIsAllOf == Saved = AllOf(revisions)
  BY DEF Saved, AllOf, Latest

LEMMA SortedEmpty == Sorted(<<>>)
  BY DEF Sorted

LEMMA SortedConcat ==
    ASSUME NEW S \in SUBSET Nat, NEW s \in Seq(S), NEW t \in Seq(S),
           Sorted(s), Sorted(t), Precede(Elements(s), Elements(t))
    PROVE  Sorted(s \o t)
  <1> DEFINE u == s \o t
  <1>1. /\ u \in Seq(S) /\ Len(u) = Len(s) + Len(t)
        /\ \A i \in 1..Len(s) + Len(t) : u[i] = IF i <= Len(s) THEN s[i] ELSE t[i - Len(s)]
        /\ Len(s) \in Nat /\ Len(t) \in Nat
    BY ConcatProperties
  <1> HIDE DEF u
  <1> SUFFICES ASSUME NEW i \in 1..Len(u), NEW j \in 1..Len(u), i < j, u[i] # 0, u[j] # 0
               PROVE  u[i] < u[j]
    BY DEF Sorted, u
  <1>2. CASE j <= Len(s)
    BY <1>1, <1>2 DEF Sorted
  <1>3. CASE i > Len(s)
    <2>1. /\ u[i] = t[i - Len(s)] /\ u[j] = t[j - Len(s)]
          /\ i - Len(s) \in 1..Len(t) /\ j - Len(s) \in 1..Len(t) /\ i - Len(s) < j - Len(s)
      BY <1>1, <1>3
    <2> QED
      BY <2>1 DEF Sorted
  <1>4. CASE i <= Len(s) /\ j > Len(s)
    <2>1. u[i] = s[i] /\ u[j] = t[j - Len(s)] /\ i \in 1..Len(s) /\ j - Len(s) \in 1..Len(t)
      BY <1>1, <1>4
    <2>2. u[i] \in Elements(s) /\ u[j] \in Elements(t)
      BY <2>1, ElementsIn
    <2> QED
      BY <2>2 DEF Precede
  <1> QED
    BY <1>1, <1>2, <1>3, <1>4

LEMMA SortedAppend ==
    ASSUME NEW S \in SUBSET Nat, NEW s \in Seq(S), NEW e \in S, Sorted(s),
           \A a \in Elements(s) : e # 0 => a < e
    PROVE  Sorted(Append(s, e))
  <1>1. /\ Len(Append(s, e)) = Len(s) + 1 /\ Append(s, e)[Len(s) + 1] = e
        /\ \A i \in 1..Len(s) : Append(s, e)[i] = s[i]
        /\ Len(s) \in Nat
    OBVIOUS
  <1>2. \A i \in 1..Len(s) : s[i] \in Elements(s)
    BY ElementsIn
  <1> QED
    BY <1>1, <1>2 DEF Sorted

\* A sorted sequence holds no edit twice.
LEMMA SortedOnce ==
    ASSUME NEW s \in Seq(Nat), Sorted(s), NEW i \in 1..Len(s), NEW j \in 1..Len(s),
           s[i] = s[j], s[i] # 0
    PROVE  i = j
  BY DEF Sorted

-----------------------------------------------------------------------------
(* Types.                                                                  *)

\* More edits and more revisions make all types larger.
LEMMA Grows ==
    ASSUME NEW l \in Nat, NEW n \in Nat, NEW l2 \in Nat, NEW n2 \in Nat, l <= l2, n <= n2
    PROVE  /\ Seq(1..n) \subseteq Seq(1..n2) /\ Seq(0..n) \subseteq Seq(0..n2)
           /\ Seq(Seq(0..n)) \subseteq Seq(Seq(0..n2))
           /\ Seq(1..n) \subseteq Seq(0..n)
           /\ Protections(l, n) \subseteq Protections(l2, n2)
           /\ RequestsOf(l, n) \subseteq RequestsOf(l2, n2)
  <1>1. 1..n \subseteq 1..n2 /\ 0..n \subseteq 0..n2 /\ 1..n \subseteq 0..n /\ 0..l \subseteq 0..l2
    OBVIOUS
  <1>2. Seq(1..n) \subseteq Seq(1..n2) /\ Seq(0..n) \subseteq Seq(0..n2) /\ Seq(1..n) \subseteq Seq(0..n)
    BY <1>1, SeqMonotonic
  <1>3. Seq(Seq(0..n)) \subseteq Seq(Seq(0..n2))
    BY <1>2, SeqMonotonic
  <1>4. Protections(l, n) \subseteq Protections(l2, n2)
    BY <1>1, <1>2 DEF Protections
  <1>5. RequestsOf(l, n) \subseteq RequestsOf(l2, n2)
    BY <1>1, <1>2 DEF RequestsOf
  <1> QED
    BY <1>2, <1>3, <1>4, <1>5

LEMMA WellTypes ==
    ASSUME Well
    PROVE  StoreTypeOK
  <1> USE EditorAssumption
  <1>1. /\ Latest \in 1..MaxVersion /\ made \in 0..MaxEdits /\ MaxEdits \in Nat /\ MaxVersion \in Nat
        /\ MaxKeys \in Nat
    BY DEF Well, ServerWell, StatusWell, Versions
  <1>2. /\ Seq(1..made) \subseteq Operations /\ Seq(0..made) \subseteq Documents
        /\ Seq(Seq(0..made)) \subseteq Seq(Documents)
    <2>1. 1..made \subseteq Edits /\ 0..made \subseteq 0..MaxEdits + 1
      BY <1>1 DEF Edits
    <2>2. Seq(1..made) \subseteq Operations /\ Seq(0..made) \subseteq Documents
      BY <2>1, SeqMonotonic DEF Operations, Documents
    <2> QED
      BY <2>2, SeqMonotonic
  <1>3. Protections(Latest, made) \subseteq Recoveries
    BY <1>1, <1>2 DEF Protections, Recoveries
  <1>4. RequestsOf(Latest, made) \subseteq CallRows
    BY <1>1, <1>2 DEF RequestsOf, CallRows
  <1>5. revisions \in Seq(Documents) /\ Latest \in Versions /\ replies \in [1..MaxKeys -> 0..Latest]
    BY <1>2 DEF Well, ServerWell
  <1>6. document \in Documents /\ baseVersion \in 0..Latest /\ pendingOperations \in Operations
    BY <1>2 DEF Well, CanvasWell
  <1>7. {archiveReview, conflictRecovery, stored, attempt} \subseteq Recoveries /\ nextKey \in 1..MaxKeys + 1
    BY <1>3 DEF Well, KeptWell
  <1>8. /\ calls \in [Calls -> CallRows]
        /\ \A c \in Calls : {calls[c].base, calls[c].version} \subseteq 0..Latest
    BY <1>4 DEF Well, CallsWell, RequestsOf
  <1>9. StatusWell
    BY DEF Well
  <1> QED
    BY <1>5, <1>6, <1>7, <1>8, <1>9 DEF StoreTypeOK, StatusWell

LEMMA InitWell ==
    ASSUME StoreInit
    PROVE  Well /\ KeysWell
  <1> USE EditorAssumption
  <1>1. /\ Latest = 1 /\ 1 \in 1..MaxVersion /\ made = 0 /\ 0 \in 0..MaxEdits
        /\ <<>> \in Seq(1..0) /\ <<>> \in Seq(0..0)
    BY DEF StoreInit, Latest
  <1>2. /\ None \in Protections(1, 0) /\ Idle \in RequestsOf(1, 0) /\ Idle.at = "idle" /\ None.key = 0
        /\ Idle.key = 0
    BY <1>1, EditorAssumption DEF None, Idle, Protections, RequestsOf
  <1>3. ServerWell
    BY <1>1 DEF ServerWell, StoreInit, Versions
  <1>4. CanvasWell
    BY <1>1 DEF CanvasWell, StoreInit, Documents
  <1>5. KeptWell
    BY <1>1, <1>2 DEF KeptWell, StoreInit
  <1>6. CallsWell
    BY <1>1, <1>2 DEF CallsWell, Fits, LoadingWell, StoreInit, Busy, Calls
  <1>7. StatusWell
    BY <1>1 DEF StatusWell, StoreInit
  <1>8. Claims = {}
    BY <1>2 DEF Claims, StoreInit, Claiming, Calls, Idle
  <1>9. KeysWell
    BY <1>2, <1>8 DEF KeysWell, StoreInit, Calls, Idle
  <1> QED
    BY <1>3, <1>4, <1>5, <1>6, <1>7, <1>9 DEF Well

-----------------------------------------------------------------------------
(* Requests.                                                               *)

OthersStay(c) == \A d \in Calls : d # c => calls'[d] = calls[d]

LEMMA EndCall ==
    ASSUME Well, NEW c \in Calls, End(c)
    PROVE  calls' \in [Calls -> RequestsOf(Latest, made)] /\ calls'[c] = Idle /\ OthersStay(c)
  <1>1. <<>> \in Seq(1..made) /\ 0 \in 0..Latest /\ 0 \in 0..MaxKeys
    BY EditorAssumption DEF Well, ServerWell, Versions
  <1>2. Idle \in RequestsOf(Latest, made)
    BY <1>1 DEF Idle, RequestsOf
  <1> QED
    BY <1>2 DEF Well, CallsWell, End, OthersStay

LEMMA StartCall ==
    ASSUME Well, NEW c \in Calls, NEW base \in 0..Latest, NEW ops \in Seq(1..made),
           NEW key \in 0..MaxKeys, NEW version \in 0..Latest, Start(c, base, ops, key, version)
    PROVE  /\ calls' \in [Calls -> RequestsOf(Latest, made)]
           /\ calls'[c] = [at |-> "sent", base |-> base, operations |-> ops, key |-> key, version |-> version]
           /\ OthersStay(c)
  <1>1. [at |-> "sent", base |-> base, operations |-> ops, key |-> key, version |-> version]
            \in RequestsOf(Latest, made)
    BY DEF RequestsOf
  <1> QED
    BY <1>1 DEF Well, CallsWell, Start, OthersStay

LEMMA CallRow ==
    ASSUME Well, NEW c \in Calls
    PROVE  /\ calls[c].at \in {"idle", "sent", "done", "conflict", "refused", "lost", "capturing"}
           /\ calls[c].base \in 0..Latest /\ calls[c].operations \in Seq(1..made)
           /\ calls[c].key \in 0..MaxKeys /\ calls[c].version \in 0..Latest
           /\ Fits(c, calls[c])
           /\ Busy(c) => calls[c].base # 0
           /\ ~Busy(c) => calls[c] = Idle
  BY DEF Well, CallsWell, RequestsOf, Fits, Busy

LEMMA AnswerCall ==
    ASSUME Well, NEW c \in Calls, NEW at \in {"done", "conflict", "refused", "lost", "capturing"},
           NEW ops \in Seq(1..made), NEW latest \in Nat, Latest <= latest, NEW version \in 0..latest,
           Becomes(c, at, ops, version)
    PROVE  /\ calls' \in [Calls -> RequestsOf(latest, made)]
           /\ calls'[c] = [at |-> at, base |-> calls[c].base, operations |-> ops,
                           key |-> calls[c].key, version |-> version]
           /\ OthersStay(c)
  <1>1. Latest \in Nat /\ made \in Nat
    BY DEF Well, ServerWell, StatusWell, Versions
  <1>2. RequestsOf(Latest, made) \subseteq RequestsOf(latest, made)
    BY <1>1, Grows
  <1>3. calls \in [Calls -> RequestsOf(latest, made)]
    BY <1>2 DEF Well, CallsWell
  <1>4. [at |-> at, base |-> calls[c].base, operations |-> ops, key |-> calls[c].key, version |-> version]
            \in RequestsOf(latest, made)
    BY <1>1, CallRow DEF RequestsOf
  <1> QED
    BY <1>3, <1>4 DEF OthersStay, Becomes

LEMMA CaptureCall ==
    ASSUME Well, NEW c \in Calls, NEW back \in Seq(1..made), Becomes(c, "capturing", back, 0)
    PROVE  /\ calls' \in [Calls -> RequestsOf(Latest, made)]
           /\ calls'[c].at = "capturing" /\ calls'[c].base = calls[c].base
           /\ calls'[c].operations = back
           /\ OthersStay(c)
  <1>1. /\ Latest \in Nat /\ Latest <= Latest /\ 0 \in 0..Latest
        /\ "capturing" \in {"done", "conflict", "refused", "lost", "capturing"}
    BY EditorAssumption DEF Well, ServerWell, Versions
  <1>2. /\ calls' \in [Calls -> RequestsOf(Latest, made)]
        /\ calls'[c] = [at |-> "capturing", base |-> calls[c].base, operations |-> back,
                        key |-> calls[c].key, version |-> 0]
        /\ OthersStay(c)
    BY <1>1, AnswerCall
  <1> QED
    BY <1>2

\* One request moves on, and the others stay as they are.
LEMMA OneCall ==
    ASSUME Well, NEW c \in Calls, calls' \in [Calls -> RequestsOf(Latest', made')],
           OthersStay(c), Fits(c, calls'[c]), LoadingWell'
    PROVE  CallsWell'
  BY DEF Well, CallsWell, OthersStay

LEMMA KeysKept ==
    ASSUME KeysWell, revisions' = revisions, replies' = replies, nextKey' = nextKey,
           attempt' \in {attempt, None} \cup Claims, archiveReview' \in {archiveReview, None} \cup Claims,
           \A c \in {"save", "approve"} :
              \/ calls'[c] = calls[c]
              \/ calls'[c].at \in {"idle", "capturing"}
              \/ /\ calls'[c].at # "done"
                 /\ [base |-> calls'[c].base, operations |-> calls'[c].operations, key |-> calls'[c].key]
                        \in Claims
    PROVE  KeysWell'
  <1>1. Claims' \subseteq Claims
    BY DEF Claims, Claim, Claiming
  <1>2. \A c \in {"save", "approve"} : calls'[c].at = "done" => calls'[c] = calls[c]
    OBVIOUS
  <1>3. \A c \in {"save", "approve"} : calls'[c].at = "done" /\ ~WantsPreview(c)' =>
              revisions[calls'[c].version] = revisions[calls'[c].base] \o calls'[c].operations
    BY <1>2 DEF KeysWell, WantsPreview
  <1> QED
    BY <1>1, <1>3 DEF KeysWell

LEMMA Numbers ==
    ASSUME Well
    PROVE  /\ Latest \in Nat \ {0} /\ Latest \in 1..Latest /\ Latest <= MaxVersion
           /\ made \in Nat /\ made <= MaxEdits /\ 1..made \subseteq Edits
           /\ MaxEdits \in Nat \ {0} /\ MaxVersion \in Nat \ {0} /\ MaxKeys \in Nat \ {0}
  BY EditorAssumption DEF Well, ServerWell, StatusWell, Versions, Edits

LEMMA Contents ==
    ASSUME Well
    PROVE  /\ \A v \in 1..Latest : revisions[v] \in Seq(0..made)
           /\ pendingOperations \in Seq(0..made)
           /\ Seq(0..made) \subseteq Documents /\ Seq(1..made) \subseteq Seq(0..made)
           /\ \A d \in Seq(0..made) : d # Closed
  <1> USE Numbers
  <1>1. \A v \in 1..Latest : revisions[v] \in Seq(0..made)
    BY DEF Well, ServerWell, Latest
  <1>2. 1..made \subseteq 0..made /\ 0..made \subseteq 0..MaxEdits + 1
    OBVIOUS
  <1>3. Seq(0..made) \subseteq Documents /\ Seq(1..made) \subseteq Seq(0..made)
    BY <1>2, SeqMonotonic DEF Documents
  <1>4. \A d \in Seq(0..made) : d # Closed
    <2> SUFFICES ASSUME Closed \in Seq(0..made) PROVE FALSE
      OBVIOUS
    <2>1. Len(Closed) = 1 /\ Closed[1] = MaxEdits + 1
      BY DEF Closed
    <2>2. Closed[1] \in 0..made
      <3>1. 1 \in 1..Len(Closed)
        BY <2>1
      <3> QED
        BY <3>1, ElementOfSeq
    <2> QED
      BY <2>1, <2>2
  <1> QED
    BY <1>1, <1>3, <1>4 DEF Well, CanvasWell

\* A version is shown, with or without what is pending on top of it.
LEMMA Showing ==
    ASSUME Well, made' = made, Latest' = Latest, NEW v \in 1..Latest,
           baseVersion' = v, pendingOperations' \in Seq(1..made),
           \/ document' = revisions[v]
           \/ document' = revisions[v] \o pendingOperations
    PROVE  CanvasWell'
  <1>1. document' \in Seq(0..made)
    <2>1. revisions[v] \in Seq(0..made) /\ pendingOperations \in Seq(0..made)
      BY Contents
    <2>2. revisions[v] \o pendingOperations \in Seq(0..made)
      BY ONLY <2>1, ConcatProperties
    <2> QED
      BY <2>1, <2>2
  <1>2. document' \in Documents /\ document' # Closed
    BY <1>1, Contents
  <1> QED
    BY <1>1, <1>2, Numbers DEF CanvasWell

LEMMA Reopened ==
    ASSUME Well, ~left
    PROVE  Open /\ baseVersion \in 1..Latest
  BY Contents, Numbers DEF Well, CanvasWell, Open

-----------------------------------------------------------------------------
(* Types and keys: answers.                                                *)

LEMMA NoneTyped ==
    ASSUME Well
    PROVE  /\ None \in Protections(Latest, made) /\ None.key = 0
           /\ Elements(None.operations) = {} /\ <<>> \in Seq(1..made)
           /\ Idle.at = "idle" /\ Idle.operations = <<>>
  BY Numbers, ElementsEmpty DEF None, Protections, Idle

\* What most steps have in common: the server, the edits made and the next key are
\* left alone, and no key gets another meaning.
LEMMA StepWell ==
    ASSUME Well, KeysWell, UNCHANGED serverVars, UNCHANGED <<made, nextKey>>,
           CanvasWell', CallsWell',
           {archiveReview', conflictRecovery', stored', attempt'} \subseteq Protections(Latest, made),
           conflictRecovery'.key = 0, conflictRecovery' # None => conflictRecovery'.base # 0,
           saveState' \in {"idle", "dirty", "saving", "saved", "review", "error", "conflict"},
           saving' \in BOOLEAN, loading' \in BOOLEAN, left' \in BOOLEAN, crossed' \in BOOLEAN,
           overtaken' \in BOOLEAN, refreshes' \subseteq Versions, givenUp' \subseteq Edits,
           attempt' \in {attempt, None}, archiveReview' \in {archiveReview, None} \cup Claims,
           \A c \in {"save", "approve"} :
              \/ calls'[c] = calls[c]
              \/ calls'[c].at \in {"idle", "capturing"}
              \/ /\ calls'[c].at # "done"
                 /\ [base |-> calls'[c].base, operations |-> calls'[c].operations, key |-> calls'[c].key]
                        \in Claims
    PROVE  Well' /\ KeysWell'
  <1>0. Latest' = Latest
    BY DEF serverVars, Latest
  <1>1. ServerWell'
    BY <1>0 DEF Well, ServerWell, serverVars
  <1>2. KeptWell'
    BY <1>0 DEF Well, KeptWell
  <1>3. StatusWell'
    BY DEF Well, StatusWell
  <1>4. KeysWell'
    BY KeysKept DEF serverVars
  <1> QED
    BY <1>1, <1>2, <1>3, <1>4 DEF Well

LEMMA SaveCommittedWell ==
    ASSUME Well, KeysWell, SaveCommitted
    PROVE  Well' /\ KeysWell'
  <1> "save" \in Calls
    BY DEF Calls
  <1>0. Latest' = Latest /\ made' = made
    BY DEF SaveCommitted, serverVars, historyVars, Latest
  <1>1. calls' \in [Calls -> RequestsOf(Latest, made)] /\ calls'["save"] = Idle /\ OthersStay("save")
    BY EndCall DEF SaveCommitted
  <1>2. CanvasWell'
    <2>1. calls["save"].version \in 1..Latest
      BY CallRow, Numbers DEF SaveCommitted, Fits
    <2>2. CASE Open
      BY <1>0, <2>1, <2>2, Showing DEF SaveCommitted, Rebase, Well, CanvasWell
    <2>3. CASE ~Open
      BY <1>0, <2>3 DEF SaveCommitted, Well, CanvasWell, Open
    <2> QED
      BY <2>2, <2>3
  <1>3. CallsWell'
    BY <1>0, <1>1, OneCall DEF SaveCommitted, Well, CallsWell, LoadingWell, Busy, OthersStay, Fits, Idle,
       Calls
  <1>4. saveState' \in {"idle", "dirty", "saving", "saved", "review", "error", "conflict"}
    BY DEF SaveCommitted, Rebase, StateAfter, Well, StatusWell
  <1>5. /\ UNCHANGED serverVars /\ UNCHANGED <<made, nextKey, left, refreshes, crossed, overtaken>>
        /\ UNCHANGED <<archiveReview, conflictRecovery, stored, loading, givenUp>> /\ saving' = FALSE
        /\ attempt' \in {attempt, None}
    BY DEF SaveCommitted, Decided, keptVars, historyVars
  <1>6. \A c \in {"save", "approve"} : calls'[c] = calls[c] \/ calls'[c].at = "idle"
    BY <1>1 DEF OthersStay, Calls, Idle
  <1> QED
    BY <1>2, <1>3, <1>4, <1>5, <1>6, StepWell, NoneTyped DEF Well, KeptWell, StatusWell

LEMMA ClaimTyped ==
    ASSUME Well, NEW c \in {"save", "approve"}
    PROVE  Claim(c) \in Protections(Latest, made)
  BY CallRow DEF Claim, Protections, Calls

LEMMA SavePreviewedWell ==
    ASSUME Well, KeysWell, SavePreviewed
    PROVE  Well' /\ KeysWell'
  <1> "save" \in Calls
    BY DEF Calls
  <1>0. Latest' = Latest /\ made' = made
    BY DEF SavePreviewed, serverVars, historyVars, Latest
  <1>1. calls' \in [Calls -> RequestsOf(Latest, made)] /\ calls'["save"] = Idle /\ OthersStay("save")
    BY EndCall DEF SavePreviewed
  <1>2. CanvasWell'
    BY <1>0 DEF SavePreviewed, Well, CanvasWell, canvasVars, Open
  <1>3. CallsWell'
    BY <1>0, <1>1, OneCall DEF SavePreviewed, Well, CallsWell, LoadingWell, Busy, OthersStay, Fits, Idle,
       Calls
  <1>4. /\ archiveReview' \in {archiveReview, None} \cup Claims
        /\ archiveReview' \in Protections(Latest, made)
    <2>1. Claim("save") \in Claims
      <3>1. Claim("save").base # 0
        BY CallRow DEF SavePreviewed, Claim, Fits
      <3> QED
        BY <3>1 DEF SavePreviewed, Claims, Claiming, None
    <2> QED
      BY <2>1, ClaimTyped DEF SavePreviewed, Well, KeptWell, Claim
  <1>5. saveState' \in {"idle", "dirty", "saving", "saved", "review", "error", "conflict"}
    BY DEF SavePreviewed, Well, StatusWell
  <1>6. /\ UNCHANGED serverVars /\ UNCHANGED <<made, nextKey, left, refreshes, crossed, overtaken>>
        /\ UNCHANGED <<attempt, conflictRecovery, stored, loading, givenUp>> /\ saving' = FALSE
        /\ attempt' \in {attempt, None}
    BY DEF SavePreviewed, keyVars, historyVars
  <1>7. \A c \in {"save", "approve"} :
              calls'[c] = calls[c] \/ calls'[c].at \in {"idle", "capturing"}
    BY <1>1 DEF OthersStay, Calls, Idle
  <1> QED
    BY <1>2, <1>3, <1>4, <1>5, <1>6, <1>7, StepWell DEF Well, KeptWell, StatusWell

LEMMA SaveConflictsWell ==
    ASSUME Well, KeysWell, SaveConflicts
    PROVE  Well' /\ KeysWell'
  <1> "save" \in Calls
    BY DEF Calls
  <1>0. Latest' = Latest /\ made' = made
    BY DEF SaveConflicts, serverVars, historyVars, Latest
  <1>a. calls["save"].operations \o pendingOperations \in Seq(1..made)
    BY CallRow, ConcatProperties DEF Well, CanvasWell
  <1>b. calls["save"].base # 0
    BY CallRow DEF SaveConflicts, Fits
  <1>1. /\ calls' \in [Calls -> RequestsOf(Latest, made)] /\ OthersStay("save")
        /\ calls'["save"].at \in {"idle", "capturing"} /\ Fits("save", calls'["save"])
    <2>1. CASE Open
      <3>1. /\ calls' \in [Calls -> RequestsOf(Latest, made)] /\ OthersStay("save")
            /\ calls'["save"] = [at |-> "capturing", base |-> calls["save"].base,
                                 operations |-> calls["save"].operations \o pendingOperations,
                                 key |-> calls["save"].key, version |-> 0]
        <4>1. PICK back \in Seq(1..made) : back = calls["save"].operations \o pendingOperations
          BY <1>a
        <4>2. Becomes("save", "capturing", back, 0)
          BY <2>1, <4>1 DEF SaveConflicts
        <4>3. Latest \in Nat /\ Latest <= Latest /\ 0 \in 0..Latest
          BY Numbers
        <4>4. /\ calls' \in [Calls -> RequestsOf(Latest, made)] /\ OthersStay("save")
              /\ calls'["save"] = [at |-> "capturing", base |-> calls["save"].base,
                                   operations |-> back, key |-> calls["save"].key, version |-> 0]
          BY <4>2, <4>3, AnswerCall
        <4> QED
          BY <4>1, <4>4
      <3> QED
        BY <3>1, <1>b DEF Fits
    <2>2. CASE ~Open
      BY <2>2, EndCall DEF SaveConflicts, Fits, Idle
    <2> QED
      BY <2>1, <2>2
  <1>2. CanvasWell'
    BY <1>0, <1>a DEF SaveConflicts, Well, CanvasWell, Open
  <1>3. CallsWell'
    BY <1>0, <1>1, OneCall DEF SaveConflicts, Well, CallsWell, LoadingWell, Busy, OthersStay, Calls
  <1>4. saveState' \in {"idle", "dirty", "saving", "saved", "review", "error", "conflict"}
    BY DEF SaveConflicts, Rebase, StateAfter, Well, StatusWell
  <1>5. /\ UNCHANGED serverVars /\ UNCHANGED <<made, nextKey, crossed, overtaken, left, loading, refreshes, archiveReview, conflictRecovery, stored, givenUp>>
        /\ saving' \in BOOLEAN /\ attempt' \in {attempt, None}
    BY DEF SaveConflicts, Decided, keptVars, keyVars, historyVars, Well, StatusWell
  <1>6. \A c \in {"save", "approve"} : calls'[c] = calls[c] \/ calls'[c].at \in {"idle", "capturing"}
    BY <1>1 DEF OthersStay, Calls
  <1> QED
    BY <1>2, <1>3, <1>4, <1>5, <1>6, StepWell, NoneTyped DEF Well, KeptWell, StatusWell

LEMMA SaveFailsWell ==
    ASSUME Well, KeysWell, SaveFails
    PROVE  Well' /\ KeysWell'
  <1> "save" \in Calls
    BY DEF Calls
  <1>0. Latest' = Latest /\ made' = made
    BY DEF SaveFails, serverVars, historyVars, Latest
  <1>1. calls' \in [Calls -> RequestsOf(Latest, made)] /\ calls'["save"] = Idle /\ OthersStay("save")
    BY EndCall DEF SaveFails
  <1>2. CanvasWell'
    <2>1. calls["save"].operations \o pendingOperations \in Seq(1..made)
      BY CallRow, ConcatProperties DEF Well, CanvasWell
    <2> QED
      BY <1>0, <2>1 DEF SaveFails, Well, CanvasWell, Open
  <1>3. CallsWell'
    BY <1>0, <1>1, OneCall DEF SaveFails, statusVars, Well, CallsWell, LoadingWell, Busy, OthersStay, Fits, Idle,
       Calls
  <1>4. saveState' \in {"idle", "dirty", "saving", "saved", "review", "error", "conflict"}
    BY DEF SaveFails, Rebase, StateAfter, Well, StatusWell
  <1>5. /\ UNCHANGED serverVars /\ UNCHANGED <<made, nextKey, crossed, overtaken, left, loading, refreshes, archiveReview, conflictRecovery, stored, givenUp>>
        /\ saving' \in BOOLEAN /\ attempt' \in {attempt, None}
    BY DEF SaveFails, Decided, keptVars, keyVars, historyVars, Well, StatusWell
  <1>6. \A c \in {"save", "approve"} : calls'[c] = calls[c] \/ calls'[c].at = "idle"
    BY <1>1 DEF OthersStay, Calls, Idle
  <1> QED
    BY <1>2, <1>3, <1>4, <1>5, <1>6, StepWell, NoneTyped DEF Well, KeptWell, StatusWell

LEMMA ApproveCommittedWell ==
    ASSUME Well, KeysWell, ApproveCommitted
    PROVE  Well' /\ KeysWell'
  <1> "approve" \in Calls
    BY DEF Calls
  <1>0. Latest' = Latest /\ made' = made
    BY DEF ApproveCommitted, serverVars, historyVars, Latest
  <1>1. calls' \in [Calls -> RequestsOf(Latest, made)] /\ calls'["approve"] = Idle /\ OthersStay("approve")
    BY EndCall DEF ApproveCommitted
  <1>2. CanvasWell'
    <2>1. calls["approve"].version \in 1..Latest
      BY CallRow, Numbers DEF ApproveCommitted, Fits
    <2>2. CASE Open
      BY <1>0, <2>1, <2>2, Showing DEF ApproveCommitted, Rebase, Well, CanvasWell
    <2>3. CASE ~Open
      BY <1>0, <2>3 DEF ApproveCommitted, Well, CanvasWell, Open
    <2> QED
      BY <2>2, <2>3
  <1>3. CallsWell'
    BY <1>0, <1>1, OneCall DEF ApproveCommitted, statusVars, Well, CallsWell, LoadingWell, Busy, OthersStay, Fits, Idle,
       Calls
  <1>4. saveState' \in {"idle", "dirty", "saving", "saved", "review", "error", "conflict"}
    BY DEF ApproveCommitted, Rebase, StateAfter, Well, StatusWell
  <1>5. /\ UNCHANGED serverVars /\ UNCHANGED <<made, nextKey, crossed, overtaken, left, loading, refreshes, attempt, conflictRecovery, stored, givenUp>>
        /\ saving' \in BOOLEAN /\ archiveReview' = None
    BY DEF ApproveCommitted, Decided, keptVars, keyVars, historyVars, Well, StatusWell
  <1>6. \A c \in {"save", "approve"} : calls'[c] = calls[c] \/ calls'[c].at = "idle"
    BY <1>1 DEF OthersStay, Calls, Idle
  <1> QED
    BY <1>2, <1>3, <1>4, <1>5, <1>6, StepWell, NoneTyped DEF Well, KeptWell, StatusWell

LEMMA ApproveConflictsWell ==
    ASSUME Well, KeysWell, ApproveConflicts
    PROVE  Well' /\ KeysWell'
  <1> "approve" \in Calls
    BY DEF Calls
  <1>0. Latest' = Latest /\ made' = made
    BY DEF ApproveConflicts, serverVars, historyVars, Latest
  <1>a. calls["approve"].operations \o pendingOperations \in Seq(1..made)
    BY CallRow, ConcatProperties DEF Well, CanvasWell
  <1>b. calls["approve"].base # 0
    BY CallRow DEF ApproveConflicts, Fits
  <1>1. /\ calls' \in [Calls -> RequestsOf(Latest, made)] /\ OthersStay("approve")
        /\ calls'["approve"].at = "capturing" /\ Fits("approve", calls'["approve"])
    <2>1. /\ calls' \in [Calls -> RequestsOf(Latest, made)] /\ OthersStay("approve")
          /\ calls'["approve"] = [at |-> "capturing", base |-> calls["approve"].base,
                                  operations |-> calls["approve"].operations \o pendingOperations,
                                  key |-> calls["approve"].key, version |-> 0]
      <3>1. PICK back \in Seq(1..made) : back = calls["approve"].operations \o pendingOperations
        BY <1>a
      <3>2. Becomes("approve", "capturing", back, 0)
        BY <3>1 DEF ApproveConflicts
      <3>3. Latest \in Nat /\ Latest <= Latest /\ 0 \in 0..Latest
        BY Numbers
      <3>4. /\ calls' \in [Calls -> RequestsOf(Latest, made)] /\ OthersStay("approve")
            /\ calls'["approve"] = [at |-> "capturing", base |-> calls["approve"].base,
                                    operations |-> back, key |-> calls["approve"].key, version |-> 0]
        BY <3>2, <3>3, AnswerCall
      <3> QED
        BY <3>1, <3>4
    <2> QED
      BY <2>1, <1>b DEF Fits
  <1>2. CanvasWell'
    BY <1>0, <1>a DEF ApproveConflicts, Well, CanvasWell, Open
  <1>3. CallsWell'
    BY <1>0, <1>1, OneCall DEF ApproveConflicts, Well, CallsWell, LoadingWell, Busy, OthersStay, Calls
  <1>4. saveState' \in {"idle", "dirty", "saving", "saved", "review", "error", "conflict"}
    BY DEF ApproveConflicts, Rebase, StateAfter, Well, StatusWell
  <1>5. /\ UNCHANGED serverVars /\ UNCHANGED <<made, nextKey, crossed, overtaken, left, loading, refreshes, attempt, conflictRecovery, stored, givenUp>>
        /\ saving' \in BOOLEAN /\ archiveReview' = None
    BY DEF ApproveConflicts, Decided, keptVars, keyVars, historyVars, Well, StatusWell
  <1>6. \A c \in {"save", "approve"} : calls'[c] = calls[c] \/ calls'[c].at = "capturing"
    BY <1>1 DEF OthersStay, Calls
  <1> QED
    BY <1>2, <1>3, <1>4, <1>5, <1>6, StepWell, NoneTyped DEF Well, KeptWell, StatusWell

LEMMA ApproveFailsWell ==
    ASSUME Well, KeysWell, ApproveFails
    PROVE  Well' /\ KeysWell'
  <1> "approve" \in Calls
    BY DEF Calls
  <1>0. Latest' = Latest /\ made' = made
    BY DEF ApproveFails, serverVars, historyVars, Latest
  <1>1. calls' \in [Calls -> RequestsOf(Latest, made)] /\ calls'["approve"] = Idle /\ OthersStay("approve")
    BY EndCall DEF ApproveFails
  <1>2. CanvasWell'
    BY <1>0 DEF ApproveFails, Well, CanvasWell, canvasVars, statusVars, Open
  <1>3. CallsWell'
    BY <1>0, <1>1, OneCall DEF ApproveFails, statusVars, Well, CallsWell, LoadingWell, Busy, OthersStay, Fits, Idle,
       Calls
  <1>4. saveState' \in {"idle", "dirty", "saving", "saved", "review", "error", "conflict"}
    BY DEF ApproveFails, Rebase, StateAfter, Well, StatusWell
  <1>5. /\ UNCHANGED serverVars /\ UNCHANGED <<made, nextKey, crossed, overtaken, left, loading, refreshes, attempt, archiveReview, conflictRecovery, stored, givenUp>>
        /\ saving' \in BOOLEAN
    BY DEF ApproveFails, Decided, keptVars, keyVars, historyVars, Well, StatusWell
  <1>6. \A c \in {"save", "approve"} : calls'[c] = calls[c] \/ calls'[c].at = "idle"
    BY <1>1 DEF OthersStay, Calls, Idle
  <1> QED
    BY <1>2, <1>3, <1>4, <1>5, <1>6, StepWell, NoneTyped DEF Well, KeptWell, StatusWell

LEMMA RestoreCommittedWell ==
    ASSUME Well, KeysWell, RestoreCommitted
    PROVE  Well' /\ KeysWell'
  <1> "restore" \in Calls
    BY DEF Calls
  <1>0. Latest' = Latest /\ made' = made
    BY DEF RestoreCommitted, serverVars, historyVars, Latest
  <1>1. calls' \in [Calls -> RequestsOf(Latest, made)] /\ calls'["restore"] = Idle /\ OthersStay("restore")
    BY EndCall DEF RestoreCommitted
  <1>2. CanvasWell'
    <2>1. calls["restore"].version \in 1..Latest
      BY CallRow, Numbers DEF RestoreCommitted, Fits
    <2> QED
      BY <1>0, <2>1, Showing, NoneTyped DEF RestoreCommitted
  <1>3. CallsWell'
    BY <1>0, <1>1, OneCall DEF RestoreCommitted, statusVars, Well, CallsWell, LoadingWell, Busy, OthersStay, Fits, Idle,
       Calls
  <1>4. saveState' \in {"idle", "dirty", "saving", "saved", "review", "error", "conflict"}
    BY DEF RestoreCommitted, Rebase, StateAfter, Well, StatusWell
  <1>7. Elements(pendingOperations) \subseteq Edits
    BY ElementsIn, Numbers DEF Well, CanvasWell
  <1>5. /\ UNCHANGED serverVars /\ UNCHANGED <<made, nextKey, crossed, overtaken, left, loading, refreshes, attempt, archiveReview, conflictRecovery, stored>>
        /\ saving' \in BOOLEAN /\ givenUp' \subseteq Edits
    BY <1>7 DEF RestoreCommitted, Decided, WritesOver, keptVars, keyVars, historyVars, Well, StatusWell
  <1>6. \A c \in {"save", "approve"} : calls'[c] = calls[c] \/ calls'[c].at = "idle"
    BY <1>1 DEF OthersStay, Calls, Idle
  <1> QED
    BY <1>2, <1>3, <1>4, <1>5, <1>6, StepWell, NoneTyped DEF Well, KeptWell, StatusWell

LEMMA RestoreFailsWell ==
    ASSUME Well, KeysWell, RestoreFails
    PROVE  Well' /\ KeysWell'
  <1> "restore" \in Calls
    BY DEF Calls
  <1>0. Latest' = Latest /\ made' = made
    BY DEF RestoreFails, serverVars, historyVars, Latest
  <1>1. calls' \in [Calls -> RequestsOf(Latest, made)] /\ calls'["restore"] = Idle /\ OthersStay("restore")
    BY EndCall DEF RestoreFails
  <1>2. CanvasWell'
    BY <1>0 DEF RestoreFails, Well, CanvasWell, canvasVars, statusVars, Open
  <1>3. CallsWell'
    BY <1>0, <1>1, OneCall DEF RestoreFails, statusVars, Well, CallsWell, LoadingWell, Busy, OthersStay, Fits, Idle,
       Calls
  <1>4. saveState' \in {"idle", "dirty", "saving", "saved", "review", "error", "conflict"}
    BY DEF RestoreFails, Rebase, StateAfter, Well, StatusWell
  <1>5. /\ UNCHANGED serverVars /\ UNCHANGED <<made, nextKey, crossed, overtaken, left, loading, refreshes, attempt, archiveReview, conflictRecovery, stored, givenUp>>
        /\ saving' \in BOOLEAN
    BY DEF RestoreFails, Decided, keptVars, keyVars, historyVars, Well, StatusWell
  <1>6. \A c \in {"save", "approve"} : calls'[c] = calls[c] \/ calls'[c].at = "idle"
    BY <1>1 DEF OthersStay, Calls, Idle
  <1> QED
    BY <1>2, <1>3, <1>4, <1>5, <1>6, StepWell, NoneTyped DEF Well, KeptWell, StatusWell

LEMMA CapturedWell ==
    ASSUME Well, KeysWell, NEW c \in {"save", "approve"}, Captured(c)
    PROVE  Well' /\ KeysWell'
  <1> c \in Calls
    BY DEF Calls
  <1>0. Latest' = Latest /\ made' = made
    BY DEF Captured, serverVars, historyVars, Latest
  <1>a. calls[c].operations \in Seq(1..made) /\ calls[c].base \in 0..Latest
    BY CallRow
  <1>1. calls' \in [Calls -> RequestsOf(Latest, made)] /\ calls'[c] = Idle /\ OthersStay(c)
    BY EndCall DEF Captured
  <1>2. CanvasWell'
    BY <1>0, <1>a DEF Captured, Well, CanvasWell, Open
  <1>3. CallsWell'
    BY <1>0, <1>1, OneCall DEF Captured, statusVars, Well, CallsWell, LoadingWell, Busy, OthersStay, Fits, Idle,
       Calls
  <1>4. saveState' \in {"idle", "dirty", "saving", "saved", "review", "error", "conflict"}
    BY DEF Captured, Rebase, StateAfter, Well, StatusWell
  <1>7. Elements(pendingOperations) \subseteq Edits
    BY ElementsIn, Numbers DEF Well, CanvasWell
  <1>8. Recovery(c) \in Protections(Latest, made) /\ Recovery(c).key = 0 /\ Recovery(c).base # 0
    BY <1>a, CallRow, Numbers DEF Captured, Fits, Recovery, Protections
  <1>5. /\ UNCHANGED serverVars
        /\ UNCHANGED <<made, nextKey, crossed, overtaken, left, loading, refreshes, attempt, archiveReview>>
        /\ saving' \in BOOLEAN /\ givenUp' \subseteq Edits
        /\ stored' \in {stored, Recovery(c)} /\ conflictRecovery' \in {conflictRecovery, Recovery(c)}
    BY <1>7 DEF Captured, WritesOver, Recovery, keyVars, Well, StatusWell
  <1>6. \A d \in {"save", "approve"} : calls'[d] = calls[d] \/ calls'[d].at = "idle"
    BY <1>1 DEF OthersStay, Calls, Idle
  <1> QED
    BY <1>2, <1>3, <1>4, <1>5, <1>6, <1>8, StepWell, NoneTyped DEF Well, KeptWell, StatusWell

LEMMA LatestLoadedWell ==
    ASSUME Well, KeysWell, NEW v \in Versions, LatestLoaded(v)
    PROVE  Well' /\ KeysWell'
  <1> "latest" \in Calls
    BY DEF Calls
  <1>0. Latest' = Latest /\ made' = made
    BY DEF LatestLoaded, serverVars, historyVars, Latest
  <1>1. calls' \in [Calls -> RequestsOf(Latest, made)] /\ calls'["latest"] = Idle /\ OthersStay("latest")
    BY EndCall DEF LatestLoaded
  <1>2. CanvasWell'
    <2>1. v \in 1..Latest
      BY CallRow, Numbers DEF LatestLoaded, Fits
    <2> QED
      BY <1>0, <2>1, Showing, NoneTyped DEF LatestLoaded, Show
  <1>3. CallsWell'
    <2>1. ~Busy("discard") /\ calls'["discard"] = calls["discard"] /\ loading' = FALSE
      BY <1>1 DEF LatestLoaded, Well, CallsWell, LoadingWell, Busy, OthersStay, Calls
    <2>2. LoadingWell'
      BY <1>1, <2>1 DEF LoadingWell, Busy, Idle
    <2> QED
      BY <1>0, <1>1, <2>2, OneCall DEF Fits, Idle
  <1>4. saveState' \in {"idle", "dirty", "saving", "saved", "review", "error", "conflict"}
    BY DEF LatestLoaded, Rebase, StateAfter, Well, StatusWell
  <1>8. /\ Recovery("latest") \in Protections(Latest, made) /\ Recovery("latest").key = 0
        /\ Recovery("latest").base # 0
    BY CallRow, Numbers DEF LatestLoaded, Fits, Recovery, Protections
  <1>5. /\ UNCHANGED serverVars
        /\ UNCHANGED <<made, nextKey, crossed, overtaken, left, refreshes, attempt, archiveReview, stored, givenUp>>
        /\ saving' = FALSE /\ loading' = FALSE /\ conflictRecovery' = Recovery("latest")
    BY DEF LatestLoaded, Recovery, keyVars, historyVars
  <1>6. \A c \in {"save", "approve"} : calls'[c] = calls[c] \/ calls'[c].at = "idle"
    BY <1>1 DEF OthersStay, Calls, Idle
  <1> QED
    BY <1>2, <1>3, <1>4, <1>5, <1>6, <1>8, StepWell, NoneTyped DEF Well, KeptWell, StatusWell

LEMMA RecoveryDiscardedWell ==
    ASSUME Well, KeysWell, NEW v \in Versions, RecoveryDiscarded(v)
    PROVE  Well' /\ KeysWell'
  <1> "discard" \in Calls
    BY DEF Calls
  <1>0. Latest' = Latest /\ made' = made
    BY DEF RecoveryDiscarded, serverVars, historyVars, Latest
  <1>1. calls' \in [Calls -> RequestsOf(Latest, made)] /\ calls'["discard"] = Idle /\ OthersStay("discard")
    BY EndCall DEF RecoveryDiscarded
  <1>2. CanvasWell'
    <2>1. v \in 1..Latest
      BY CallRow, Numbers DEF RecoveryDiscarded, Fits
    <2> QED
      BY <1>0, <2>1, Showing, NoneTyped DEF RecoveryDiscarded, Show
  <1>3. CallsWell'
    <2>1. ~Busy("latest") /\ calls'["latest"] = calls["latest"] /\ loading' = FALSE
      BY <1>1 DEF RecoveryDiscarded, Well, CallsWell, LoadingWell, Busy, OthersStay, Calls
    <2>2. LoadingWell'
      BY <1>1, <2>1 DEF LoadingWell, Busy, Idle
    <2> QED
      BY <1>0, <1>1, <2>2, OneCall DEF Fits, Idle
  <1>4. saveState' \in {"idle", "dirty", "saving", "saved", "review", "error", "conflict"}
    BY DEF RecoveryDiscarded, Rebase, StateAfter, Well, StatusWell
  <1>8. Elements(calls["discard"].operations) \subseteq Edits
    <2>1. calls["discard"].operations \in Seq(1..made)
      BY CallRow
    <2> QED
      BY <2>1, ElementsIn, Numbers
  <1>5. /\ UNCHANGED serverVars
        /\ UNCHANGED <<made, nextKey, crossed, overtaken, left, refreshes, attempt, archiveReview>>
        /\ saving' = FALSE /\ loading' = FALSE /\ conflictRecovery' = None /\ stored' = None
        /\ givenUp' \subseteq Edits
    BY <1>8 DEF RecoveryDiscarded, GivesUp, keyVars, Well, StatusWell
  <1>6. \A c \in {"save", "approve"} : calls'[c] = calls[c] \/ calls'[c].at = "idle"
    BY <1>1 DEF OthersStay, Calls, Idle
  <1> QED
    BY <1>2, <1>3, <1>4, <1>5, <1>6, <1>8, StepWell, NoneTyped DEF Well, KeptWell, StatusWell

LEMMA ReadFailsWell ==
    ASSUME Well, KeysWell, ReadFails
    PROVE  Well' /\ KeysWell'
  <1> PICK c \in {"latest", "discard"} :
        /\ calls[c].at = "lost" /\ saveState' = "conflict" /\ loading' = FALSE /\ End(c)
        /\ UNCHANGED <<serverVars, canvasVars, saving, left, keptVars, keyVars, refreshes, historyVars>>
    BY DEF ReadFails
  <1> c \in Calls
    BY DEF Calls
  <1>0. Latest' = Latest /\ made' = made
    BY DEF serverVars, historyVars, Latest
  <1>1. calls' \in [Calls -> RequestsOf(Latest, made)] /\ calls'[c] = Idle /\ OthersStay(c)
    BY EndCall
  <1>2. CanvasWell'
    BY <1>0 DEF Well, CanvasWell, canvasVars, Open
  <1>3. CallsWell'
    BY <1>0, <1>1, OneCall DEF Well, CallsWell, LoadingWell, Busy, OthersStay, Fits, Idle, Calls
  <1>4. /\ UNCHANGED serverVars /\ UNCHANGED <<made, nextKey, crossed, overtaken, left, refreshes, saving>>
        /\ UNCHANGED <<attempt, archiveReview, conflictRecovery, stored, givenUp>>
    BY DEF keptVars, keyVars, historyVars
  <1>5. \A d \in {"save", "approve"} : calls'[d] = calls[d]
    BY <1>1 DEF OthersStay, Calls
  <1> QED
    BY <1>2, <1>3, <1>4, <1>5, StepWell, NoneTyped DEF Well, KeptWell, StatusWell

LEMMA ClaimsTyped ==
    ASSUME Well
    PROVE  Claims \subseteq Protections(Latest, made)
  BY ClaimTyped DEF Claims, Well, KeptWell

-----------------------------------------------------------------------------
(* Types and keys: the user.                                               *)

LEMMA ReviewTyped ==
    ASSUME Well, KeysWell, archiveReview # None
    PROVE  /\ archiveReview \in Claims /\ archiveReview.base \in 1..Latest
           /\ archiveReview.operations \in Seq(1..made) /\ archiveReview.key \in 1..MaxKeys
  <1>1. archiveReview \in Claims
    BY DEF Claims
  <1>2. archiveReview.base # 0 /\ archiveReview.key \in 1..nextKey - 1
    BY <1>1 DEF KeysWell
  <1>3. /\ archiveReview.base \in 0..Latest /\ archiveReview.operations \in Seq(1..made)
        /\ nextKey \in 1..MaxKeys + 1
    BY DEF Well, KeptWell, Protections
  <1> QED
    BY <1>1, <1>2, <1>3, Numbers

LEMMA RecoveryTyped ==
    ASSUME Well, conflictRecovery # None
    PROVE  /\ conflictRecovery.base \in 1..Latest /\ conflictRecovery.base # 0
           /\ conflictRecovery.operations \in Seq(1..made)
  <1>1. /\ conflictRecovery.base \in 0..Latest /\ conflictRecovery.operations \in Seq(1..made)
        /\ conflictRecovery.base # 0
    BY DEF Well, KeptWell, Protections
  <1> QED
    BY <1>1, Numbers

LEMMA EditWell ==
    ASSUME Well, KeysWell, Edit
    PROVE  Well' /\ KeysWell'
  <1>0. /\ Latest' = Latest /\ made' = made + 1 /\ made + 1 \in 0..MaxEdits /\ made + 1 \in 1..made + 1
        /\ Latest \in Nat /\ made \in Nat /\ made + 1 \in Nat
    BY Numbers DEF Edit, serverVars, Latest
  <1>1. /\ Seq(1..made) \subseteq Seq(1..made + 1) /\ Seq(0..made) \subseteq Seq(0..made + 1)
        /\ Seq(Seq(0..made)) \subseteq Seq(Seq(0..made + 1))
        /\ Protections(Latest, made) \subseteq Protections(Latest, made + 1)
        /\ RequestsOf(Latest, made) \subseteq RequestsOf(Latest, made + 1)
    BY <1>0, Grows
  <1>2. ServerWell'
    BY <1>0, <1>1 DEF Edit, Well, ServerWell, serverVars
  <1>3. CanvasWell'
    <2>1. ~left /\ Open /\ document \in Seq(0..made) /\ pendingOperations \in Seq(1..made)
      BY DEF Edit, Shown, Well, CanvasWell
    <2>2. document' \in Seq(0..made + 1) /\ pendingOperations' \in Seq(1..made + 1)
      BY <1>0, <1>1, <2>1, AppendProperties DEF Edit
    <2>3. 0..made + 1 \subseteq 0..MaxEdits + 1
      BY <1>0, Numbers
    <2>4. document' \in Documents
      BY <2>2, <2>3, SeqMonotonic DEF Documents
    <2> QED
      BY <1>0, <2>1, <2>2, <2>4 DEF Edit, Well, CanvasWell, Open
  <1>4. KeptWell'
    BY <1>0, <1>1 DEF Edit, Well, KeptWell, keptVars, keyVars
  <1>5. CallsWell'
    BY <1>0, <1>1 DEF Edit, Well, CallsWell, LoadingWell, Busy
  <1>6. StatusWell'
    BY <1>0 DEF Edit, Well, StatusWell
  <1>7. KeysWell'
    BY KeysKept DEF Edit, serverVars, keptVars, keyVars
  <1> QED
    BY <1>2, <1>3, <1>4, <1>5, <1>6, <1>7 DEF Well

LEMMA SaveWell ==
    ASSUME Well, KeysWell, Save
    PROVE  Well' /\ KeysWell'
  <1> "save" \in Calls
    BY DEF Calls
  <1> DEFINE again == ~IsDestructive(pendingOperations) /\ SameAttempt(baseVersion, pendingOperations)
  <1>a. PICK key : key = IF again THEN attempt.key ELSE nextKey
    OBVIOUS
  <1>b. PICK new : new = [base |-> baseVersion, operations |-> pendingOperations, key |-> key]
    OBVIOUS
  <1>0. /\ Latest' = Latest /\ made' = made
        /\ key <= MaxKeys /\ Start("save", baseVersion, pendingOperations, key, 0)
        /\ nextKey' = IF again THEN nextKey ELSE nextKey + 1
        /\ attempt' \in {attempt, new}
    BY <1>a, <1>b DEF Save, serverVars, Latest
  <1>2. baseVersion \in 1..Latest /\ pendingOperations \in Seq(1..made)
    BY Reopened DEF Save, Shown, Well, CanvasWell
  <1>3. key \in 1..MaxKeys
    <2>1. CASE again
      <3>1. attempt.key \in 0..MaxKeys
        BY DEF Well, KeptWell, Protections
      <3>2. key = attempt.key /\ key # 0 /\ key <= MaxKeys /\ MaxKeys \in Nat
        BY <1>a, <1>0, <2>1, Numbers DEF SameAttempt
      <3> QED
        BY ONLY <3>1, <3>2
    <2>2. CASE ~again
      BY <1>a, <1>0, <2>2, Numbers DEF Well, KeptWell
    <2> QED
      BY <2>1, <2>2
  <1>4. new \in Protections(Latest, made)
    BY <1>b, <1>2, <1>3, Numbers DEF Protections
  <1>1. /\ calls' \in [Calls -> RequestsOf(Latest, made)] /\ OthersStay("save")
        /\ calls'["save"] = [at |-> "sent", base |-> baseVersion, operations |-> pendingOperations,
                             key |-> key, version |-> 0]
    <2>1. baseVersion \in 0..Latest /\ key \in 0..MaxKeys /\ 0 \in 0..Latest
      BY <1>2, <1>3, Numbers
    <2> QED
      BY <1>0, <1>2, <2>1, StartCall
  <1>5. ServerWell'
    BY <1>0 DEF Save, Well, ServerWell, serverVars
  <1>6. CanvasWell'
    BY <1>0, NoneTyped DEF Save, Well, CanvasWell, Open
  <1>7. KeptWell'
    <2>1. nextKey' \in 1..MaxKeys + 1
      BY <1>a, <1>0, <1>3, Numbers DEF Well, KeptWell
    <2> QED
      BY <1>0, <1>4, <2>1 DEF Save, Well, KeptWell, keptVars
  <1>8. CallsWell'
    <2>1. Fits("save", calls'["save"]) /\ calls' \in [Calls -> RequestsOf(Latest', made')]
      BY <1>0, <1>1, <1>2 DEF Fits
    <2>2. LoadingWell'
      BY <1>1 DEF Save, Well, CallsWell, LoadingWell, Busy, OthersStay, Calls
    <2> QED
      BY <1>1, <2>1, <2>2, OneCall
  <1>9. StatusWell'
    BY DEF Save, Crosses, Well, StatusWell
  <1>10. KeysWell'
    <2>1. Claims' \subseteq Claims \cup {new} /\ UNCHANGED serverVars
      <3>1. Claim("save")' = new
        BY <1>1, <1>b DEF Claim
      <3>2. Claim("approve")' = Claim("approve") /\ (Claiming("approve")' <=> Claiming("approve"))
        BY <1>1 DEF Claim, Claiming, OthersStay, Calls
      <3> QED
        BY <1>0, <3>1, <3>2 DEF Save, Claims, keptVars
    <2>2. \A c \in {"save", "approve"} : calls'[c].at = "done" => calls'[c] = calls[c]
      BY <1>1 DEF OthersStay, Calls
    <2>3. \A c \in {"save", "approve"} : calls'[c].at = "done" /\ ~WantsPreview(c)' =>
              revisions[calls'[c].version] = revisions[calls'[c].base] \o calls'[c].operations
      BY <2>2 DEF KeysWell, WantsPreview
    <2>4. CASE again
      <3>1. new = attempt
        BY <1>a, <1>b, <2>4 DEF SameAttempt, Well, KeptWell, Protections
      <3>2. attempt \in Claims
        BY <2>4 DEF Claims, SameAttempt, None
      <3> QED
        BY <1>0, <2>1, <2>3, <2>4, <3>1, <3>2 DEF KeysWell, serverVars
    <2>5. CASE ~again
      <3>1. key = nextKey /\ nextKey' = nextKey + 1 /\ new.key = nextKey /\ new.base # 0
        BY <1>a, <1>b, <1>0, <1>2, <2>5
      <3>2. nextKey \in 1..MaxKeys /\ replies[nextKey] = 0
        BY <1>3, <3>1, Numbers DEF KeysWell, Well, KeptWell
      <3>3. \A r \in Claims :
              /\ r.key \in 1..nextKey - 1 /\ r.key # nextKey /\ r.key \in 1..nextKey' - 1 /\ r.base # 0
              /\ replies[r.key] # 0 => revisions[replies[r.key]] = revisions[r.base] \o r.operations
        <4>1. \A r \in Claims :
                /\ r.key \in 1..nextKey - 1 /\ r.base # 0
                /\ replies[r.key] # 0 => revisions[replies[r.key]] = revisions[r.base] \o r.operations
          BY DEF KeysWell
        <4>2. \A n \in 1..nextKey - 1 : n # nextKey /\ n \in 1..nextKey' - 1
          BY <3>1, <3>2
        <4> QED
          BY <4>1, <4>2
      <3>4. \A k \in 1..MaxKeys : replies[k] # 0 => k < nextKey'
        <4>1. \A k \in 1..MaxKeys : replies[k] # 0 => k < nextKey
          BY DEF KeysWell
        <4> QED
          BY <4>1, <3>1, <3>2
      <3>5. \A r \in Claims' :
              /\ r.key \in 1..nextKey' - 1
              /\ r.base # 0
              /\ replies[r.key] # 0 => revisions[replies[r.key]] = revisions[r.base] \o r.operations
        <4>1. new.key \in 1..nextKey' - 1 /\ replies[new.key] = 0
          BY <3>1, <3>2
        <4> QED
          BY <2>1, <3>1, <3>3, <4>1
      <3>6. \A r, t \in Claims' : r.key = t.key => r = t
        BY <2>1, <3>1, <3>3 DEF KeysWell
      <3> QED
        BY <2>1, <2>3, <3>4, <3>5, <3>6 DEF KeysWell, serverVars
    <2> QED
      BY <2>4, <2>5
  <1> QED
    BY <1>5, <1>6, <1>7, <1>8, <1>9, <1>10 DEF Well

LEMMA ApproveReviewWell ==
    ASSUME Well, KeysWell, ApproveReview
    PROVE  Well' /\ KeysWell'
  <1> "approve" \in Calls
    BY DEF Calls
  <1>0. Latest' = Latest /\ made' = made
    BY DEF ApproveReview, serverVars, historyVars, Latest
  <1>a. /\ archiveReview.base \in 1..Latest /\ archiveReview.operations \in Seq(1..made)
        /\ archiveReview.key \in 0..MaxKeys /\ 0 \in 0..Latest
    BY ReviewTyped, Numbers DEF ApproveReview
  <1>b. archiveReview \in Claims
    BY ReviewTyped DEF ApproveReview
  <1>1. /\ calls' \in [Calls -> RequestsOf(Latest, made)] /\ OthersStay("approve")
        /\ calls'["approve"] = [at |-> "sent", base |-> archiveReview.base, operations |-> archiveReview.operations,
                             key |-> archiveReview.key, version |-> 0]
    <2>1. archiveReview.base \in 0..Latest
      BY <1>a
    <2> QED
      BY <1>a, <2>1, StartCall DEF ApproveReview
  <1>2. CanvasWell'
    BY <1>0 DEF ApproveReview, Well, CanvasWell, canvasVars, statusVars, Open
  <1>3. CallsWell'
    <2>1. Fits("approve", calls'["approve"]) /\ calls' \in [Calls -> RequestsOf(Latest', made')]
      BY <1>0, <1>1, <1>a DEF Fits
    <2>2. LoadingWell'
      BY <1>1 DEF ApproveReview, Shown, Well, CallsWell, LoadingWell, Busy, OthersStay, Calls
    <2> QED
      BY <1>1, <2>1, <2>2, OneCall
  <1>4. saveState' \in {"idle", "dirty", "saving", "saved", "review", "error", "conflict"}
    BY DEF ApproveReview, Rebase, StateAfter, Well, StatusWell
  <1>5. /\ UNCHANGED serverVars
        /\ UNCHANGED <<made, nextKey, overtaken, left, loading, refreshes, attempt, archiveReview,
                       conflictRecovery, stored, givenUp>>
        /\ saving' \in BOOLEAN /\ crossed' \in BOOLEAN
    BY DEF ApproveReview, Crosses, keptVars, keyVars, Well, StatusWell
  <1>6. /\ calls'["save"] = calls["save"] /\ calls'["approve"].at = "sent"
        /\ [base |-> calls'["approve"].base, operations |-> calls'["approve"].operations,
            key |-> calls'["approve"].key] = archiveReview
    BY <1>1 DEF OthersStay, Calls, Well, KeptWell, Protections
  <1>7. \A c \in {"save", "approve"} :
            \/ calls'[c] = calls[c]
            \/ /\ calls'[c].at # "done"
               /\ [base |-> calls'[c].base, operations |-> calls'[c].operations, key |-> calls'[c].key]
                      \in Claims
    BY <1>b, <1>6
  <1> QED
    BY <1>2, <1>3, <1>4, <1>5, <1>7, StepWell, NoneTyped DEF Well, KeptWell, StatusWell

LEMMA RestoreWell ==
    ASSUME Well, KeysWell, NEW target \in Versions, Restore(target)
    PROVE  Well' /\ KeysWell'
  <1> "restore" \in Calls
    BY DEF Calls
  <1>0. Latest' = Latest /\ made' = made
    BY DEF Restore, serverVars, historyVars, Latest
  <1>a. /\ baseVersion \in 1..Latest /\ <<>> \in Seq(1..made) /\ 0 \in 0..MaxKeys
        /\ target \in 0..Latest
    BY Reopened, NoneTyped, Numbers DEF Restore, Shown, Versions
  <1>1. /\ calls' \in [Calls -> RequestsOf(Latest, made)] /\ OthersStay("restore")
        /\ calls'["restore"] = [at |-> "sent", base |-> baseVersion, operations |-> <<>>,
                             key |-> 0, version |-> target]
    <2>1. baseVersion \in 0..Latest
      BY <1>a
    <2> QED
      BY <1>a, <2>1, StartCall DEF Restore
  <1>2. CanvasWell'
    BY <1>0 DEF Restore, Well, CanvasWell, canvasVars, statusVars, Open
  <1>b. target # 0
    BY Numbers DEF Versions
  <1>3. CallsWell'
    <2>1. Fits("restore", calls'["restore"]) /\ calls' \in [Calls -> RequestsOf(Latest', made')]
      BY <1>0, <1>1, <1>a, <1>b DEF Fits
    <2>2. LoadingWell'
      BY <1>1 DEF Restore, Shown, Well, CallsWell, LoadingWell, Busy, OthersStay, Calls
    <2> QED
      BY <1>1, <2>1, <2>2, OneCall
  <1>4. saveState' \in {"idle", "dirty", "saving", "saved", "review", "error", "conflict"}
    BY DEF Restore, Rebase, StateAfter, Well, StatusWell
  <1>5. /\ UNCHANGED serverVars
        /\ UNCHANGED <<made, nextKey, overtaken, left, loading, refreshes, attempt, archiveReview,
                       conflictRecovery, stored, givenUp>>
        /\ saving' \in BOOLEAN /\ crossed' \in BOOLEAN
    BY DEF Restore, Crosses, keptVars, keyVars, Well, StatusWell
  <1>6. \A c \in {"save", "approve"} : calls'[c] = calls[c]
    BY <1>1 DEF OthersStay, Calls
  <1> QED
    BY <1>2, <1>3, <1>4, <1>5, <1>6, StepWell, NoneTyped DEF Well, KeptWell, StatusWell

LEMMA LoadLatestWell ==
    ASSUME Well, KeysWell, LoadLatest
    PROVE  Well' /\ KeysWell'
  <1> "latest" \in Calls
    BY DEF Calls
  <1>0. Latest' = Latest /\ made' = made
    BY DEF LoadLatest, serverVars, historyVars, Latest
  <1>a. /\ conflictRecovery.base \in 1..Latest /\ conflictRecovery.operations \in Seq(1..made)
        /\ conflictRecovery.base # 0 /\ 0 \in 0..MaxKeys /\ Latest \in 0..Latest
    BY RecoveryTyped, Numbers DEF LoadLatest
  <1>1. /\ calls' \in [Calls -> RequestsOf(Latest, made)] /\ OthersStay("latest")
        /\ calls'["latest"] = [at |-> "sent", base |-> conflictRecovery.base, operations |-> conflictRecovery.operations,
                             key |-> 0, version |-> Latest]
    <2>1. conflictRecovery.base \in 0..Latest
      BY <1>a
    <2> QED
      BY <1>a, <2>1, StartCall DEF LoadLatest
  <1>2. CanvasWell'
    BY <1>0 DEF LoadLatest, Well, CanvasWell, canvasVars, statusVars, Open
  <1>3. CallsWell'
    <2>1. Fits("latest", calls'["latest"]) /\ calls' \in [Calls -> RequestsOf(Latest', made')]
      BY <1>0, <1>1, <1>a, Numbers DEF Fits
    <2>2. LoadingWell'
      BY <1>1 DEF LoadLatest, Well, CallsWell, LoadingWell, Busy, OthersStay, Calls
    <2> QED
      BY <1>1, <2>1, <2>2, OneCall
  <1>4. saveState' \in {"idle", "dirty", "saving", "saved", "review", "error", "conflict"}
    BY DEF LoadLatest, Rebase, StateAfter, Well, StatusWell
  <1>5. /\ UNCHANGED serverVars
        /\ UNCHANGED <<made, nextKey, crossed, overtaken, left, refreshes, attempt, archiveReview,
                       conflictRecovery, stored, saving, givenUp>>
        /\ loading' = TRUE
    BY DEF LoadLatest, keptVars, keyVars, historyVars
  <1>6. \A c \in {"save", "approve"} : calls'[c] = calls[c]
    BY <1>1 DEF OthersStay, Calls
  <1> QED
    BY <1>2, <1>3, <1>4, <1>5, <1>6, StepWell, NoneTyped DEF Well, KeptWell, StatusWell

LEMMA DiscardRecoveryWell ==
    ASSUME Well, KeysWell, DiscardRecovery
    PROVE  Well' /\ KeysWell'
  <1> "discard" \in Calls
    BY DEF Calls
  <1>0. Latest' = Latest /\ made' = made
    BY DEF DiscardRecovery, serverVars, Latest
  <1>2. CanvasWell'
    BY <1>0 DEF DiscardRecovery, Well, CanvasWell, canvasVars, Open
  <1>3. CallsWell' /\ \A c \in {"save", "approve"} : calls'[c] = calls[c]
    <2>1. CASE saveState = "conflict"
      <3>a. /\ conflictRecovery.base \in 1..Latest /\ conflictRecovery.operations \in Seq(1..made)
            /\ conflictRecovery.base # 0 /\ 0 \in 0..MaxKeys
        BY RecoveryTyped, Numbers DEF DiscardRecovery
      <3>1. /\ calls' \in [Calls -> RequestsOf(Latest, made)] /\ OthersStay("discard")
            /\ calls'["discard"] = [at |-> "sent", base |-> conflictRecovery.base,
                                    operations |-> conflictRecovery.operations,
                                    key |-> 0, version |-> Latest]
        <4>1. conflictRecovery.base \in 0..Latest /\ Latest \in 0..Latest
          BY <3>a, Numbers
        <4> QED
          BY <2>1, <3>a, <4>1, StartCall DEF DiscardRecovery
      <3>2. Fits("discard", calls'["discard"]) /\ calls' \in [Calls -> RequestsOf(Latest', made')]
        BY <1>0, <3>1, <3>a, Numbers DEF Fits
      <3>3. LoadingWell'
        BY <2>1, <3>1 DEF DiscardRecovery, Well, CallsWell, LoadingWell, Busy, OthersStay, Calls
      <3> QED
        BY <3>1, <3>2, <3>3, OneCall DEF OthersStay, Calls
    <2>2. CASE saveState # "conflict"
      BY <1>0, <2>2 DEF DiscardRecovery, Well, CallsWell, LoadingWell, Busy
    <2> QED
      BY <2>1, <2>2
  <1>4. Elements(conflictRecovery.operations) \subseteq Edits
    <2>1. conflictRecovery.operations \in Seq(1..made)
      BY DEF Well, KeptWell, Protections
    <2> QED
      BY <2>1, ElementsIn, Numbers
  <1>5. /\ UNCHANGED serverVars
        /\ UNCHANGED <<made, nextKey, crossed, overtaken, left, refreshes, attempt, archiveReview,
                       saveState, saving>>
        /\ loading' \in BOOLEAN /\ givenUp' \subseteq Edits
        /\ conflictRecovery' \in {conflictRecovery, None} /\ stored' \in {stored, None}
    BY <1>4 DEF DiscardRecovery, GivesUp, keptVars, keyVars, Well, StatusWell
  <1> QED
    BY <1>2, <1>3, <1>5, StepWell, NoneTyped DEF Well, KeptWell, StatusWell

LEMMA DiscardReviewWell ==
    ASSUME Well, KeysWell, DiscardReview
    PROVE  Well' /\ KeysWell'
  <1>0. Latest' = Latest /\ made' = made
    BY DEF DiscardReview, serverVars, Latest
  <1>1. archiveReview.base \in 1..Latest /\ archiveReview.operations \in Seq(1..made)
    BY ReviewTyped DEF DiscardReview
  <1>2. CanvasWell'
    <2>1. document' \in Seq(0..made)
      <3>1. revisions[archiveReview.base] \in Seq(0..made) /\ pendingOperations \in Seq(0..made)
        BY <1>1, Contents
      <3>2. revisions[archiveReview.base] \o pendingOperations \in Seq(0..made)
        BY ONLY <3>1, ConcatProperties
      <3> QED
        BY <3>1, <3>2 DEF DiscardReview
    <2>2. pendingOperations' \in Seq(1..made)
      BY NoneTyped DEF DiscardReview, Well, CanvasWell
    <2> QED
      BY <1>0, <2>1, <2>2, Contents, Reopened DEF DiscardReview, Shown, Well, CanvasWell
  <1>3. CallsWell'
    BY <1>0 DEF DiscardReview, Well, CallsWell, LoadingWell, Busy
  <1>4. /\ UNCHANGED serverVars
        /\ UNCHANGED <<made, nextKey, crossed, overtaken, left, loading, refreshes, attempt, conflictRecovery,
                       stored, saving, calls>>
        /\ archiveReview' = None
        /\ saveState' \in {"idle", "dirty", "saving", "saved", "review", "error", "conflict"}
    BY DEF DiscardReview, StateAfter, keyVars
  <1>5. givenUp' \subseteq Edits
    <2>1. Elements(archiveReview.operations) \subseteq Edits
      BY <1>1, ElementsIn, Numbers
    <2>2. Elements(pendingOperations) \subseteq Edits
      BY ElementsIn, Numbers DEF Well, CanvasWell
    <2> QED
      BY <2>1, <2>2 DEF DiscardReview, GivesUp, WritesOver, Well, StatusWell
  <1> QED
    BY <1>2, <1>3, <1>4, <1>5, StepWell, NoneTyped DEF Well, KeptWell, StatusWell

\* The user leaves, or the design is archived: the store is cleared either way.
LEMMA Clearing ==
    ASSUME Leave \/ ArchivedElsewhere
    PROVE  Cleared /\ givenUp' = givenUp \cup (1..made \ Elements(stored.operations))
  BY DEF Leave, ArchivedElsewhere, GivesUp, WritesOver

LEMMA ClearedWell ==
    ASSUME Well, KeysWell, Leave \/ ArchivedElsewhere
    PROVE  Well' /\ KeysWell'
  <1> Cleared /\ givenUp' = givenUp \cup (1..made \ Elements(stored.operations))
    BY Clearing
  <1>0. Latest' = Latest /\ made' = made /\ left' = TRUE
    BY DEF Cleared, serverVars, Latest
  <1>2. CanvasWell'
    <2>1. document' = Closed /\ ~Open' /\ baseVersion' = 0 /\ pendingOperations' = <<>>
      BY DEF Cleared, Open
    <2>2. Closed \in Documents
      BY Numbers DEF Closed, Documents
    <2> QED
      BY <1>0, <2>1, <2>2, NoneTyped, Numbers DEF CanvasWell
  <1>3. CallsWell'
    BY <1>0 DEF Cleared, Well, CallsWell, LoadingWell, Busy
  <1>4. /\ UNCHANGED serverVars
        /\ UNCHANGED <<made, nextKey, crossed, overtaken, loading, refreshes, attempt, stored, calls>>
        /\ archiveReview' = None /\ conflictRecovery' = None /\ saving' = FALSE /\ saveState' = "idle"
    BY DEF Cleared, keyVars
  <1>5. givenUp' \subseteq Edits
    BY Numbers DEF Well, StatusWell
  <1> QED
    BY <1>0, <1>2, <1>3, <1>4, <1>5, StepWell, NoneTyped DEF Well, KeptWell, StatusWell

-----------------------------------------------------------------------------
(* Types and keys: the server and the network.                             *)

\* The revisions there are stay as they are.
LEMMA LogAppend ==
    ASSUME Well, NEW s \in Seq(0..made), revisions' = Append(revisions, s), Latest < MaxVersion, made' = made
    PROVE  /\ Latest' = Latest + 1 /\ revisions' \in Seq(Seq(0..made)) /\ Latest' \in Versions
           /\ revisions'[Latest + 1] = s
           /\ \A v \in 1..Latest : revisions'[v] = revisions[v]
           /\ 0..Latest \subseteq 0..Latest'
           /\ Latest \in Nat /\ Latest' \in Nat /\ Latest <= Latest'
  <1>1. revisions \in Seq(Seq(0..made)) /\ Len(revisions) = Latest /\ Latest \in Nat
    BY Numbers DEF Well, ServerWell, Latest
  <1>2. /\ revisions' \in Seq(Seq(0..made)) /\ Len(revisions') = Latest + 1
        /\ revisions'[Latest + 1] = s
        /\ \A v \in 1..Latest : revisions'[v] = revisions[v]
    BY <1>1, AppendProperties
  <1>3. Latest' = Latest + 1
    BY <1>2 DEF Latest
  <1> QED
    BY <1>1, <1>2, <1>3, Numbers DEF Versions

LEMMA ProtectionsGrow ==
    ASSUME Well, NEW latest \in Nat, Latest <= latest
    PROVE  /\ Protections(Latest, made) \subseteq Protections(latest, made)
           /\ RequestsOf(Latest, made) \subseteq RequestsOf(latest, made)
  BY Numbers, Grows

LEMMA OtherCommitsWell ==
    ASSUME Well, KeysWell, OtherCommits
    PROVE  Well' /\ KeysWell'
  <1>0. made' = made /\ replies' = replies
    BY DEF OtherCommits, historyVars
  <1>1. PICK s \in Seq(0..made) : s = Append(revisions[Latest], OtherEdit)
    <2>1. revisions[Latest] \in Seq(0..made) /\ OtherEdit \in 0..made
      BY Contents, Numbers DEF OtherEdit
    <2> QED
      BY <2>1, AppendProperties
  <1>2. /\ Latest' = Latest + 1 /\ revisions' \in Seq(Seq(0..made)) /\ Latest' \in Versions
        /\ \A v \in 1..Latest : revisions'[v] = revisions[v]
        /\ 0..Latest \subseteq 0..Latest' /\ Latest \in Nat /\ Latest' \in Nat /\ Latest <= Latest'
    BY <1>0, <1>1, LogAppend DEF OtherCommits
  <1>3. /\ Protections(Latest, made) \subseteq Protections(Latest', made)
        /\ RequestsOf(Latest, made) \subseteq RequestsOf(Latest', made)
    BY <1>2, ProtectionsGrow
  <1>4. ServerWell'
    BY <1>0, <1>2 DEF Well, ServerWell
  <1>5. CanvasWell'
    BY <1>0, <1>2 DEF OtherCommits, Well, CanvasWell, canvasVars, statusVars, Open
  <1>6. KeptWell'
    BY <1>0, <1>3 DEF OtherCommits, Well, KeptWell, keptVars, keyVars
  <1>7. CallsWell'
    BY <1>0, <1>3 DEF OtherCommits, Well, CallsWell, LoadingWell, Busy, statusVars
  <1>8. StatusWell'
    BY DEF OtherCommits, Well, StatusWell, statusVars, historyVars
  <1>9. KeysWell'
    <2>1. Claims' = Claims /\ nextKey' = nextKey /\ calls' = calls
      BY DEF OtherCommits, Claims, Claim, Claiming, keptVars, keyVars
    <2>2. \A r \in Claims : r.base \in 1..Latest /\ r.key \in 1..MaxKeys
      <3>1. \A r \in Claims : r.base \in 0..Latest /\ r.key \in 0..MaxKeys
        BY ClaimsTyped DEF Protections
      <3>2. \A r \in Claims : r.base # 0 /\ r.key \in 1..nextKey - 1
        BY DEF KeysWell
      <3> QED
        BY <3>1, <3>2, Numbers
    <2>3. \A r \in Claims : replies[r.key] # 0 =>
                replies[r.key] \in 1..Latest /\ revisions[replies[r.key]] = revisions[r.base] \o r.operations
      <3>1. \A r \in Claims : replies[r.key] # 0 => revisions[replies[r.key]] = revisions[r.base] \o r.operations
        BY DEF KeysWell
      <3>2. ASSUME NEW r \in Claims, replies[r.key] # 0
            PROVE  replies[r.key] \in 1..Latest
        <4>1. r.key \in 1..MaxKeys /\ replies \in [1..MaxKeys -> 0..Latest]
          BY <2>2 DEF Well, ServerWell
        <4>2. PICK v \in 0..Latest : v = replies[r.key]
          BY <4>1
        <4>3. v # 0 /\ Latest \in Nat
          BY <3>2, <4>2, Numbers
        <4>4. v \in 1..Latest
          BY ONLY <4>2, <4>3
        <4> QED
          BY <4>2, <4>4
      <3> QED
        BY <3>1, <3>2
    <2>4. \A c \in {"save", "approve"} : calls[c].at = "done" =>
              calls[c].version \in 1..Latest /\ calls[c].base \in 1..Latest
      <3> TAKE c \in {"save", "approve"}
      <3>1. /\ calls[c].base \in 0..Latest /\ calls[c].version \in 0..Latest
            /\ calls[c].at = "done" => calls[c].version # 0 /\ calls[c].base # 0
        BY CallRow DEF Calls, Fits
      <3> QED
        BY <3>1, Numbers
    <2>5. \A r \in Claims : replies[r.key] # 0 =>
                revisions'[replies[r.key]] = revisions'[r.base] \o r.operations
      BY <1>2, <2>2, <2>3
    <2>6. \A c \in {"save", "approve"} :
          calls[c].at = "done" /\ ~WantsPreview(c) =>
              revisions'[calls[c].version] = revisions'[calls[c].base] \o calls[c].operations
      BY <1>2, <2>4 DEF KeysWell
    <2> QED
      BY <1>0, <2>1, <2>5, <2>6 DEF KeysWell, WantsPreview
  <1> QED
    BY <1>4, <1>5, <1>6, <1>7, <1>8, <1>9 DEF Well

LEMMA LoseWell ==
    ASSUME Well, KeysWell, NEW c \in Calls, Lose(c)
    PROVE  Well' /\ KeysWell'
  <1>0. Latest' = Latest /\ made' = made
    BY DEF Lose, serverVars, historyVars, Latest
  <1>1. /\ calls' \in [Calls -> RequestsOf(Latest, made)] /\ OthersStay(c)
        /\ calls'[c] = [at |-> "lost", base |-> calls[c].base, operations |-> calls[c].operations,
                        key |-> calls[c].key, version |-> 0]
    <2>1. /\ Becomes(c, "lost", calls[c].operations, 0) /\ calls[c].operations \in Seq(1..made)
          /\ Latest \in Nat /\ Latest <= Latest /\ 0 \in 0..Latest
      BY CallRow, Numbers DEF Lose, Answered
    <2> QED
      BY <2>1, AnswerCall
  <1>2. CanvasWell'
    BY <1>0 DEF Lose, Well, CanvasWell, canvasVars, statusVars, Open
  <1>3. CallsWell'
    <2>1. Fits(c, calls'[c]) /\ calls' \in [Calls -> RequestsOf(Latest', made')]
      BY <1>0, <1>1, CallRow DEF Lose, Fits
    <2>2. LoadingWell'
      <3>1. \A d \in Calls : Busy(d)' <=> Busy(d)
        BY <1>1 DEF Lose, Busy, OthersStay
      <3> QED
        BY <3>1 DEF Lose, Well, CallsWell, LoadingWell, statusVars, Calls
    <2> QED
      BY <1>1, <2>1, <2>2, OneCall
  <1>4. \A d \in {"save", "approve"} :
            \/ calls'[d] = calls[d]
            \/ /\ calls'[d].at # "done"
               /\ [base |-> calls'[d].base, operations |-> calls'[d].operations, key |-> calls'[d].key]
                      \in Claims
    <2> SUFFICES ASSUME c \in {"save", "approve"}
                 PROVE  [base |-> calls'[c].base, operations |-> calls'[c].operations, key |-> calls'[c].key]
                            \in Claims
      BY <1>1 DEF OthersStay, Calls
    <2>1. Claiming(c) /\ calls[c].base # 0
      BY CallRow DEF Lose, Claiming, Fits
    <2>2. Claim(c) \in Claims
      BY <2>1 DEF Claims, Claim, None
    <2> QED
      BY <1>1, <2>2 DEF Claim
  <1>5. /\ UNCHANGED serverVars /\ UNCHANGED <<made, nextKey, crossed, overtaken, left, loading, refreshes>>
        /\ UNCHANGED <<attempt, archiveReview, conflictRecovery, stored, saving, saveState, givenUp>>
    BY DEF Lose, statusVars, keptVars, keyVars, historyVars
  <1> QED
    BY <1>2, <1>3, <1>4, <1>5, StepWell DEF Well, KeptWell, StatusWell

LEMMA RefreshWell ==
    ASSUME Well, KeysWell, Refresh \/ \E from \in refreshes : RefreshFails(from)
    PROVE  Well' /\ KeysWell'
  <1>1. /\ UNCHANGED serverVars /\ UNCHANGED canvasVars /\ UNCHANGED statusVars /\ UNCHANGED keptVars
        /\ UNCHANGED keyVars /\ UNCHANGED calls /\ UNCHANGED historyVars /\ refreshes' \subseteq Versions
    BY DEF Refresh, RefreshFails, Well, ServerWell, StatusWell
  <1>0. Latest' = Latest /\ made' = made /\ left' = left
    BY <1>1 DEF serverVars, statusVars, historyVars, Latest
  <1>2. CanvasWell'
    BY <1>0, <1>1 DEF Well, CanvasWell, canvasVars, Open
  <1>3. CallsWell'
    BY <1>0, <1>1 DEF Well, CallsWell, LoadingWell, Busy, statusVars
  <1> QED
    BY <1>1, <1>2, <1>3, StepWell DEF Well, KeptWell, StatusWell, statusVars, keptVars, keyVars, historyVars

LEMMA RefreshedWell ==
    ASSUME Well, KeysWell, NEW from \in refreshes, NEW v \in Versions, Refreshed(from, v)
    PROVE  Well' /\ KeysWell'
  <1>0. Latest' = Latest /\ made' = made
    BY DEF Refreshed, serverVars, Latest
  <1>2. CanvasWell'
    <2>1. v \in 1..Latest
      BY Numbers DEF Refreshed, Versions
    <2>2. CASE Open
      BY <1>0, <2>1, <2>2, Showing DEF Refreshed, Show, Well, CanvasWell
    <2>3. CASE ~Open
      BY <1>0, <2>3 DEF Refreshed, Well, CanvasWell, statusVars, Open
    <2> QED
      BY <2>2, <2>3
  <1>3. CallsWell'
    BY <1>0 DEF Refreshed, Well, CallsWell, LoadingWell, Busy, statusVars
  <1>4. /\ UNCHANGED serverVars /\ UNCHANGED <<made, nextKey, crossed, left, loading>>
        /\ UNCHANGED <<attempt, archiveReview, conflictRecovery, stored, saving, saveState, givenUp, calls>>
        /\ overtaken' \in BOOLEAN /\ refreshes' \subseteq Versions
    BY DEF Refreshed, statusVars, keptVars, keyVars, Well, StatusWell
  <1> QED
    BY <1>2, <1>3, <1>4, StepWell DEF Well, KeptWell, StatusWell

\* What a claim stands for.
LEMMA ClaimsGood ==
    ASSUME Well, KeysWell, NEW r \in Claims
    PROVE  /\ r.base \in 1..Latest /\ r.key \in 1..MaxKeys /\ r.key < nextKey
           /\ replies[r.key] \in 0..Latest
           /\ replies[r.key] # 0 => replies[r.key] \in 1..Latest
           /\ replies[r.key] # 0 => revisions[replies[r.key]] = revisions[r.base] \o r.operations
  <1>1. r.base \in 0..Latest /\ r.key \in 0..MaxKeys
    BY ClaimsTyped DEF Protections
  <1>2. /\ r.key \in 1..nextKey - 1 /\ r.base # 0
        /\ replies[r.key] # 0 => revisions[replies[r.key]] = revisions[r.base] \o r.operations
    BY DEF KeysWell
  <1>3. replies \in [1..MaxKeys -> 0..Latest] /\ nextKey \in 1..MaxKeys + 1
    BY DEF Well, ServerWell, KeptWell
  <1>4. r.base \in 1..Latest /\ r.key \in 1..MaxKeys /\ r.key < nextKey
    BY <1>1, <1>2, <1>3, Numbers
  <1>5. replies[r.key] \in 0..Latest
    BY <1>3, <1>4
  <1>6. ASSUME replies[r.key] # 0
        PROVE  replies[r.key] \in 1..Latest
    <2>1. PICK v : v = replies[r.key]
      OBVIOUS
    <2>2. v \in 0..Latest /\ v # 0 /\ Latest \in Nat
      BY <1>5, <1>6, <2>1, Numbers
    <2>3. v \in 1..Latest
      BY ONLY <2>2
    <2> QED
      BY <2>1, <2>3
  <1> QED
    BY <1>2, <1>4, <1>5, <1>6

LEMMA SenderClaims ==
    ASSUME Well, NEW c \in {"save", "approve"}, Claiming(c)
    PROVE  Claim(c) \in Claims
  BY CallRow DEF Claims, Claim, Claiming, None, Fits, Calls

\* A request is answered; if that commits a revision, its key stands for it.
LEMMA ServedWell ==
    ASSUME Well, KeysWell, NEW c \in {"save", "approve", "restore"}, calls[c].at = "sent",
           UNCHANGED <<canvasVars, statusVars, keptVars, keyVars, refreshes, historyVars>>,
           NEW at \in {"done", "conflict", "refused"}, NEW version \in 0..Latest',
           Answered(c, at, version), at = "done" => version # 0,
           Latest' \in Nat, Latest <= Latest', ServerWell',
           \A v \in 1..Latest : revisions'[v] = revisions[v],
           \A k \in 1..MaxKeys :
              \/ replies'[k] = replies[k]
              \/ k = calls[c].key /\ revisions'[replies'[k]] = revisions[calls[c].base] \o calls[c].operations,
           at = "done" /\ c # "restore" /\ ~WantsPreview(c) =>
              revisions'[version] = revisions[calls[c].base] \o calls[c].operations
    PROVE  Well' /\ KeysWell'
  <1> c \in Calls
    BY DEF Calls
  <1>0. made' = made /\ left' = left /\ loading' = loading /\ nextKey' = nextKey
    BY DEF historyVars, statusVars, keyVars
  <1>1. /\ calls' \in [Calls -> RequestsOf(Latest', made')] /\ OthersStay(c)
        /\ calls'[c] = [at |-> at, base |-> calls[c].base, operations |-> calls[c].operations,
                        key |-> calls[c].key, version |-> version]
    BY <1>0, CallRow, AnswerCall DEF Answered
  <1>2. /\ Protections(Latest, made) \subseteq Protections(Latest', made)
        /\ RequestsOf(Latest, made) \subseteq RequestsOf(Latest', made)
        /\ 0..Latest \subseteq 0..Latest'
    BY ProtectionsGrow, Numbers
  <1>3. CanvasWell'
    BY <1>0, <1>2 DEF Well, CanvasWell, canvasVars, Open
  <1>4. KeptWell'
    BY <1>0, <1>2 DEF Well, KeptWell, keptVars, keyVars
  <1>5. CallsWell'
    <2>1. Fits(c, calls'[c])
      BY <1>1, CallRow DEF Fits
    <2>2. LoadingWell'
      <3>1. \A d \in Calls : Busy(d)' <=> Busy(d)
        BY <1>1 DEF Busy, OthersStay
      <3> QED
        BY <1>0, <3>1 DEF Well, CallsWell, LoadingWell, Calls
    <2> QED
      BY <1>1, <2>1, <2>2, OneCall
  <1>6. StatusWell'
    BY DEF Well, StatusWell, statusVars, historyVars
  <1>7. Claims' = Claims
    <2>1. \A d \in {"save", "approve"} : Claim(d)' = Claim(d) /\ (Claiming(d)' <=> Claiming(d))
      BY <1>1 DEF Claim, Claiming, OthersStay, Calls
    <2>2. attempt' = attempt /\ archiveReview' = archiveReview
      BY DEF keyVars, keptVars
    <2> QED
      BY <2>1, <2>2 DEF Claims
  <1>8. calls[c].key \in 1..MaxKeys => Claim(c) \in Claims
    BY CallRow, SenderClaims DEF Fits, Claiming
  <1>9. KeysWell'
    <2>1. \A k \in 1..MaxKeys : replies'[k] # 0 => k < nextKey'
      <3> TAKE k \in 1..MaxKeys
      <3>1. CASE replies'[k] = replies[k]
        BY <1>0, <3>1 DEF KeysWell
      <3>2. CASE k = calls[c].key
        <4>1. Claim(c) \in Claims /\ Claim(c).key = k
          BY <1>8, <3>2 DEF Claim
        <4> QED
          BY <1>0, <4>1, ClaimsGood
      <3> QED
        BY <3>1, <3>2
    <2>2. ASSUME NEW r \in Claims'
          PROVE  /\ r.key \in 1..nextKey' - 1 /\ r.base # 0
                 /\ replies'[r.key] # 0 => revisions'[replies'[r.key]] = revisions'[r.base] \o r.operations
      <3>0. r \in Claims
        BY <1>7
      <3>1. r.key \in 1..nextKey' - 1 /\ r.base # 0
        BY <1>0, <3>0 DEF KeysWell
      <3>2. /\ r.base \in 1..Latest /\ r.key \in 1..MaxKeys
            /\ replies[r.key] # 0 => replies[r.key] \in 1..Latest
            /\ replies[r.key] # 0 => revisions[replies[r.key]] = revisions[r.base] \o r.operations
        BY <3>0, ClaimsGood
      <3>3. CASE replies'[r.key] = replies[r.key]
        BY <3>1, <3>2, <3>3
      <3>4. CASE r.key = calls[c].key /\ revisions'[replies'[r.key]] = revisions[calls[c].base] \o calls[c].operations
        <4>1. Claim(c) \in Claims /\ Claim(c).key = r.key
          BY <1>8, <3>2, <3>4 DEF Claim
        <4>2. r = Claim(c)
          BY <3>0, <4>1 DEF KeysWell
        <4> QED
          BY <3>1, <3>2, <3>4, <4>2 DEF Claim
      <3> QED
        BY <3>2, <3>3, <3>4
    <2>3. \A r, s \in Claims' : r.key = s.key => r = s
      BY <1>7 DEF KeysWell
    <2>4. ASSUME NEW d \in {"save", "approve"}, calls'[d].at = "done", ~WantsPreview(d)'
          PROVE  revisions'[calls'[d].version] = revisions'[calls'[d].base] \o calls'[d].operations
      <3>1. CASE d = c
        <4>1. calls[c].base \in 1..Latest
          BY CallRow, Numbers DEF Fits
        <4>2. at = "done" /\ ~WantsPreview(c)
          BY <1>1, <2>4, <3>1 DEF WantsPreview
        <4>3. /\ calls'[d].version = version /\ calls'[d].base = calls[c].base
              /\ calls'[d].operations = calls[c].operations
          BY <1>1, <3>1
        <4>4. revisions'[calls[c].base] = revisions[calls[c].base]
          BY <4>1
        <4>5. at = "done" /\ c # "restore"
          BY <2>4, <3>1, <1>1
        <4>6. revisions'[version] = revisions[calls[c].base] \o calls[c].operations
          BY <4>2, <4>5
        <4> QED
          BY <4>3, <4>4, <4>6
      <3>2. CASE d # c
        <4>1. calls'[d] = calls[d] /\ d \in Calls
          BY <1>1, <3>2 DEF OthersStay, Calls
        <4>2. calls[d].base \in 0..Latest /\ calls[d].version \in 0..Latest /\ calls[d].base # 0 /\ calls[d].version # 0
          BY <2>4, <4>1, CallRow DEF Fits
        <4>3. calls[d].base \in 1..Latest /\ calls[d].version \in 1..Latest
          BY <4>2, Numbers
        <4>4. revisions[calls[d].version] = revisions[calls[d].base] \o calls[d].operations
          BY <2>4, <4>1 DEF KeysWell, WantsPreview
        <4> QED
          BY <4>1, <4>3, <4>4
      <3> QED
        BY <3>1, <3>2
    <2> QED
      BY <2>1, <2>2, <2>3, <2>4 DEF KeysWell
  <1> QED
    BY <1>3, <1>4, <1>5, <1>6, <1>9 DEF Well

LEMMA ServeWell ==
    ASSUME Well, KeysWell, NEW c \in Calls, Serve(c)
    PROVE  Well' /\ KeysWell'
  <1>0. /\ c \in {"save", "approve", "restore"} /\ calls[c].at = "sent" /\ made' = made
        /\ UNCHANGED <<canvasVars, statusVars, keptVars, keyVars, refreshes, historyVars>>
    BY DEF Serve, Calls, historyVars
  <1>1. /\ calls[c].base \in 0..Latest /\ calls[c].base # 0 /\ calls[c].operations \in Seq(1..made)
        /\ calls[c].version \in 0..Latest /\ calls[c].key \in 0..MaxKeys
        /\ c = "restore" => calls[c].version # 0 /\ calls[c].key = 0
    BY <1>0, CallRow DEF Fits
  <1>2. calls[c].base \in 1..Latest /\ (c = "restore" => calls[c].version \in 1..Latest)
    BY <1>1, Numbers
  <1>3. CASE UNCHANGED serverVars
    <2>1. /\ Latest' = Latest /\ ServerWell' /\ Latest' \in Nat /\ Latest <= Latest'
          /\ revisions' = revisions /\ replies' = replies
      BY <1>0, <1>3, Numbers DEF Well, ServerWell, serverVars, Latest
    <2>2. PICK at \in {"done", "conflict", "refused"}, version \in 0..Latest :
              /\ Answered(c, at, version) /\ (at = "done" => version # 0)
              /\ at = "done" /\ c # "restore" /\ ~WantsPreview(c) =>
                    revisions[version] = revisions[calls[c].base] \o calls[c].operations
      <3>1. CASE Known(calls[c].key) # 0 /\ Answered(c, "done", Known(calls[c].key))
        <4>1. calls[c].key \in 1..MaxKeys /\ Known(calls[c].key) = replies[calls[c].key]
          BY <1>1, <3>1, Numbers DEF Known
        <4>2. c \in {"save", "approve"}
          BY <1>0, <1>1, <4>1
        <4>3. Claim(c) \in Claims /\ Claim(c).key = calls[c].key /\ Claim(c).base = calls[c].base
              /\ Claim(c).operations = calls[c].operations
          BY <1>0, <4>2, SenderClaims DEF Claiming, Claim
        <4>4. /\ replies[calls[c].key] \in 0..Latest
              /\ replies[calls[c].key] # 0 =>
                    revisions[replies[calls[c].key]] = revisions[calls[c].base] \o calls[c].operations
          BY <4>3, ClaimsGood
        <4> QED
          BY <3>1, <4>1, <4>4
      <3>2. CASE WantsPreview(c) /\ Answered(c, "done", Latest)
        BY <3>2, Numbers
      <3>3. CASE Answered(c, "conflict", 0)
        <4>1. "conflict" \in {"done", "conflict", "refused"} /\ 0 \in 0..Latest /\ "conflict" # "done"
          BY Numbers
        <4> QED
          BY <3>3, <4>1, Zenon
      <3>4. CASE Answered(c, "refused", 0)
        <4>1. "refused" \in {"done", "conflict", "refused"} /\ 0 \in 0..Latest /\ "refused" # "done"
          BY Numbers
        <4> QED
          BY <3>4, <4>1, Zenon
      <3>5. ~Commit(c)
        <4>1. SUFFICES ASSUME revisions = Append(revisions, Content(c)) PROVE FALSE
          BY <1>3 DEF Commit, serverVars
        <4>2. Len(Append(revisions, Content(c))) = Len(revisions) + 1
          BY DEF Well, ServerWell
        <4> QED
          BY <4>1, <4>2, Numbers DEF Latest
      <3> QED
        BY <3>1, <3>2, <3>3, <3>4, <3>5 DEF Serve
    <2> HIDE DEF Answered
    <2> QED
      BY <1>0, <2>1, <2>2, ServedWell
  <1>4. CASE ~UNCHANGED serverVars
    <2>1. /\ Known(calls[c].key) = 0 /\ ~WantsPreview(c) /\ Commit(c) /\ Answered(c, "done", Latest + 1)
      BY <1>4 DEF Serve
    <2>2. PICK s \in Seq(0..made) : /\ s = Content(c)
                                    /\ c # "restore" => s = revisions[calls[c].base] \o calls[c].operations
      <3>1. Content(c) \in Seq(0..made)
        BY <1>0, <1>1, <1>2, Contents, ConcatProperties DEF Content
      <3> QED
        BY <3>1 DEF Content
    <2>3. /\ Latest' = Latest + 1 /\ revisions' \in Seq(Seq(0..made)) /\ Latest' \in Versions
          /\ revisions'[Latest + 1] = s
          /\ \A v \in 1..Latest : revisions'[v] = revisions[v]
          /\ 0..Latest \subseteq 0..Latest' /\ Latest \in Nat /\ Latest' \in Nat /\ Latest <= Latest'
      BY <1>0, <2>1, <2>2, LogAppend DEF Commit
    <2>4. Remember(calls[c].key, Latest + 1)
      BY <2>1 DEF Commit
    <2>5. replies \in [1..MaxKeys -> 0..Latest]
      BY DEF Well, ServerWell
    <2>6. replies' \in [1..MaxKeys -> 0..Latest']
      BY <1>1, <2>3, <2>4, <2>5 DEF Remember
    <2>7. ServerWell'
      BY <1>0, <2>3, <2>6 DEF ServerWell
    <2>8. \A k \in 1..MaxKeys :
              \/ replies'[k] = replies[k]
              \/ k = calls[c].key /\ revisions'[replies'[k]] = revisions[calls[c].base] \o calls[c].operations
      <3> TAKE k \in 1..MaxKeys
      <3>1. CASE k = calls[c].key
        <4>1. c # "restore" /\ k # 0
          BY <1>1, <3>1, Numbers
        <4>2. replies'[k] = Latest + 1
          BY <2>4, <2>5, <3>1, <4>1 DEF Remember
        <4> QED
          BY <2>2, <2>3, <3>1, <4>1, <4>2
      <3>2. CASE k # calls[c].key
        BY <2>4, <2>5, <3>2 DEF Remember
      <3> QED
        BY <3>1, <3>2
    <2>9. PICK version \in 0..Latest' : version = Latest + 1 /\ version # 0
      BY <2>3
    <2>10. /\ Answered(c, "done", version)
           /\ c # "restore" => revisions'[version] = revisions[calls[c].base] \o calls[c].operations
      BY <2>1, <2>2, <2>3, <2>9
    <2> HIDE DEF Answered
    <2> QED
      BY <1>0, <2>3, <2>7, <2>8, <2>9, <2>10, ServedWell
  <1> QED
    BY <1>3, <1>4

LEMMA StoreStepWell ==
    ASSUME Well, KeysWell, [StoreNext]_storeVars
    PROVE  Well' /\ KeysWell'
  <1>1. CASE UNCHANGED storeVars
    <2>1. /\ UNCHANGED serverVars /\ UNCHANGED canvasVars /\ UNCHANGED statusVars /\ UNCHANGED keptVars
          /\ UNCHANGED keyVars /\ UNCHANGED calls /\ UNCHANGED refreshes /\ UNCHANGED historyVars
      BY <1>1 DEF storeVars
    <2>2. Latest' = Latest /\ revisions' = revisions /\ replies' = replies /\ made' = made /\ nextKey' = nextKey
      BY <2>1 DEF serverVars, Latest, historyVars, keyVars
    <2>3. ServerWell'
      BY <2>2 DEF Well, ServerWell
    <2>4. CanvasWell'
      BY <2>1, <2>2 DEF Well, CanvasWell, canvasVars, statusVars, Open
    <2>5. KeptWell'
      BY <2>1, <2>2 DEF Well, KeptWell, keptVars, keyVars
    <2>6. CallsWell'
      BY <2>1, <2>2 DEF Well, CallsWell, LoadingWell, Busy, statusVars
    <2>7. StatusWell'
      BY <2>1 DEF Well, StatusWell, statusVars, historyVars
    <2>8. Claims' = Claims
      BY <2>1 DEF Claims, Claim, Claiming, keyVars, keptVars
    <2>9. KeysWell'
      BY <2>1, <2>2, <2>8 DEF KeysWell, WantsPreview
    <2> QED
      BY <2>3, <2>4, <2>5, <2>6, <2>7, <2>9 DEF Well
  <1>2. CASE Answer
    BY <1>2, SaveCommittedWell, SavePreviewedWell, SaveConflictsWell, SaveFailsWell, ApproveCommittedWell,
       ApproveConflictsWell, ApproveFailsWell, RestoreCommittedWell, RestoreFailsWell, CapturedWell,
       LatestLoadedWell, RecoveryDiscardedWell, ReadFailsWell DEF Answer
  <1>3. CASE User
    BY <1>3, EditWell, SaveWell, ApproveReviewWell, DiscardReviewWell, ClearedWell, LoadLatestWell,
       DiscardRecoveryWell, RestoreWell DEF User
  <1>4. CASE Network
    BY <1>4, OtherCommitsWell, ClearedWell, ServeWell, LoseWell, RefreshWell, RefreshedWell DEF Network
  <1> QED
    BY <1>1, <1>2, <1>3, <1>4 DEF StoreNext

-----------------------------------------------------------------------------
(* Where the edits are.                                                    *)

Safe == Held \cup Saved \cup givenUp

LEMMA SafeHas ==
    /\ Elements(pendingOperations) \cup Elements(archiveReview.operations) \subseteq Safe
    /\ Elements(conflictRecovery.operations) \cup Elements(stored.operations) \subseteq Safe
    /\ \A c \in Calls : Elements(calls[c].operations) \subseteq Safe
    /\ Saved \cup givenUp \subseteq Safe
  BY DEF Safe, Held

LEMMA SafeHasNext ==
    /\ Elements(pendingOperations') \cup Elements(archiveReview'.operations) \subseteq Safe'
    /\ Elements(conflictRecovery'.operations) \cup Elements(stored'.operations) \subseteq Safe'
    /\ \A c \in Calls : Elements(calls'[c].operations) \subseteq Safe'
    /\ Saved' \cup givenUp' \subseteq Safe'
  BY DEF Safe, Held, Elements

\* Every place is looked at once; of the requests only one has changed.
LEMMA KeptStays ==
    ASSUME ~crossed, EditsKept, made' = made, NEW c \in Calls, OthersStay(c),
           Saved \subseteq Saved', givenUp \subseteq givenUp', LeftBehind',
           ~left' => /\ Elements(pendingOperations) \subseteq Safe'
                     /\ Elements(archiveReview.operations) \subseteq Safe'
                     /\ Elements(conflictRecovery.operations) \subseteq Safe'
                     /\ Elements(stored.operations) \subseteq Safe'
                     /\ Elements(calls[c].operations) \subseteq Safe'
    PROVE  EditsKept'
  <1>1. CASE left'
    <2>1. 1..made' \subseteq givenUp' \cup Elements(stored'.operations)
      BY <1>1 DEF LeftBehind, Elements
    <2> QED
      BY <2>1, SafeHasNext DEF EditsKept, Safe
  <1>2. CASE ~left'
    <2>1. \A d \in Calls : Elements(calls[d].operations) \subseteq Safe'
      <3> TAKE d \in Calls
      <3>1. CASE d = c
        BY <1>2, <3>1
      <3>2. CASE d # c
        BY <3>2, SafeHasNext DEF OthersStay
      <3> QED
        BY <3>1, <3>2
    <2>2. Held \cup Saved \cup givenUp \subseteq Safe'
      BY <1>2, <2>1, SafeHasNext DEF Held
    <2>3. 1..made' \subseteq Safe'
      BY <2>2 DEF EditsKept
    <2> QED
      BY <2>3 DEF EditsKept, Safe
  <1> QED
    BY <1>1, <1>2

LEMMA SavedStays ==
    ASSUME UNCHANGED serverVars
    PROVE  Saved' = Saved
  BY DEF serverVars, Saved, Latest

LEMMA NoElements ==
    ASSUME NEW S, NEW s \in Seq(S), Elements(s) = {}
    PROVE  s = <<>>
  <1>1. Len(s) = 0
    BY ElementsIn
  <1> QED
    BY <1>1

\* While a save or an approval is under way there is nothing else.
LEMMA AllIdle ==
    ASSUME Well, Holding, NEW c \in {"save", "approve"}, Busy(c)
    PROVE  /\ conflictRecovery = None /\ stored.operations = <<>> /\ Elements(stored.operations) = {}
           /\ Elements(conflictRecovery.operations) = {}
           /\ ~Busy("latest") /\ ~Busy("discard")
           /\ \A d \in Calls \ {c} : ~Busy(d) /\ calls[d] = Idle
  <1>1. /\ conflictRecovery = None /\ stored.operations = <<>>
        /\ ~Busy("latest") /\ ~Busy("discard")
    BY DEF Holding, Undisturbed
  <1>2. \A d \in Calls \ {c} : ~Busy(d)
    BY <1>1 DEF Holding, OneCommitter, Committers, Calls
  <1>3. \A d \in Calls \ {c} : calls[d] = Idle
    BY <1>2, CallRow
  <1> QED
    BY <1>1, <1>2, <1>3, ElementsEmpty DEF None

\* The answer to a save or an approval ends it.
LEMMA EndHolds ==
    ASSUME Well, Holding, NEW c \in {"save", "approve"}, Busy(c), calls'[c] = Idle, OthersStay(c),
           left' = left, made' = made, conflictRecovery' = conflictRecovery, stored' = stored,
           givenUp \subseteq givenUp'
    PROVE  Holding'
  <1>1. \A d \in Calls : calls'[d] = Idle /\ ~Busy(d)' /\ ~(Claiming(d)')
    BY AllIdle DEF OthersStay, Calls, Idle, Busy, Claiming
  <1>2. OneCommitter' /\ Undisturbed' /\ DiscardHolds' /\ ReviewHolds' /\ RestoreHolds' /\ Noticed'
    BY <1>1, ElementsEmpty DEF OneCommitter, Undisturbed, DiscardHolds, ReviewHolds, RestoreHolds, Noticed,
       Committers, Calls, Idle
  <1>3. LeftBehind'
    BY <1>1 DEF Holding, LeftBehind, Calls
  <1>4. RecoveryHolds'
    BY <1>1, AllIdle DEF RecoveryHolds, Calls
  <1> QED
    BY <1>2, <1>3, <1>4 DEF Holding

\* What a revision was committed with is saved.
LEMMA CommittedSaved ==
    ASSUME Well, NEW base \in 0..Latest, base # 0, NEW v \in 0..Latest, v # 0, NEW ops \in Seq(1..made),
           revisions[v] = revisions[base] \o ops
    PROVE  Elements(ops) \subseteq Saved
  <1>1. base \in 1..Latest /\ v \in 1..Latest
    BY Numbers
  <1>2. revisions[base] \in Seq(0..made) /\ ops \in Seq(0..made)
    BY <1>1, Contents
  <1>3. Elements(revisions[v]) = Elements(revisions[base]) \cup Elements(ops)
    BY <1>2, ElementsConcat
  <1> QED
    BY <1>1, <1>3 DEF Saved

LEMMA SaveCommittedHolds ==
    ASSUME Well, KeysWell, ~crossed, Holding, EditsKept, SaveCommitted
    PROVE  Holding' /\ EditsKept'
  <1> "save" \in Calls
    BY DEF Calls
  <1>1. /\ calls'["save"] = Idle /\ OthersStay("save") /\ Busy("save")
    BY EndCall DEF SaveCommitted, Busy
  <1>2. /\ made' = made /\ left' = left /\ givenUp' = givenUp
        /\ UNCHANGED <<pendingOperations, archiveReview, conflictRecovery, stored>>
    BY DEF SaveCommitted, keptVars, historyVars
  <1>3. Holding'
    BY <1>1, <1>2, EndHolds
  <1>4. Saved' = Saved
    BY SavedStays DEF SaveCommitted
  <1>5. Elements(calls["save"].operations) \subseteq Saved
    <2>1. /\ calls["save"].base \in 0..Latest /\ calls["save"].version \in 0..Latest
          /\ calls["save"].base # 0 /\ calls["save"].version # 0
          /\ calls["save"].operations \in Seq(1..made)
      BY CallRow DEF SaveCommitted, Fits
    <2> QED
      BY <2>1, CommittedSaved DEF SaveCommitted, KeysWell
  <1> QED
    BY <1>1, <1>2, <1>3, <1>4, <1>5, KeptStays, SafeHasNext DEF Holding

LEMMA SavePreviewedHolds ==
    ASSUME Well, KeysWell, ~crossed, Holding, EditsKept, SavePreviewed
    PROVE  Holding' /\ EditsKept'
  <1> "save" \in Calls
    BY DEF Calls
  <1>1. /\ calls'["save"] = Idle /\ OthersStay("save") /\ Busy("save")
    BY EndCall DEF SavePreviewed, Busy
  <1>2. /\ made' = made /\ left' = left /\ givenUp' = givenUp
        /\ UNCHANGED <<pendingOperations, conflictRecovery, stored>>
    BY DEF SavePreviewed, canvasVars, historyVars
  <1>3. Holding'
    BY <1>1, <1>2, EndHolds
  <1>4. Saved' = Saved
    BY SavedStays DEF SavePreviewed
  <1>5. ~left => /\ archiveReview = None /\ Elements(archiveReview.operations) = {}
                 /\ archiveReview'.operations = calls["save"].operations
    BY <1>1, Reopened, NoneTyped DEF Holding, ReviewHolds, SavePreviewed
  <1> QED
    BY <1>1, <1>2, <1>3, <1>4, <1>5, KeptStays, SafeHasNext DEF Holding

\* What was sent goes back before what is pending.
LEMMA PutBack ==
    ASSUME Well, NEW c \in Calls, NEW back, back = calls[c].operations \o pendingOperations
    PROVE  /\ Elements(calls[c].operations) \subseteq Elements(back)
           /\ Elements(pendingOperations) \subseteq Elements(back)
           /\ Elements(back) = Elements(calls[c].operations) \cup Elements(pendingOperations)
           /\ back \in Seq(1..made)
  <1>1. calls[c].operations \in Seq(1..made) /\ pendingOperations \in Seq(1..made)
    BY CallRow DEF Well, CanvasWell
  <1> QED
    BY <1>1, ElementsConcat, ConcatProperties

\* A conflict: the request goes on until what it carries is protected.
LEMMA CapturingHolds ==
    ASSUME Well, Well', Holding, NEW c \in {"save", "approve"}, Busy(c), calls'[c].at = "capturing",
           OthersStay(c), left' = left, made' = made, UNCHANGED <<conflictRecovery, stored, givenUp>>,
           archiveReview' = IF c = "approve" THEN None ELSE archiveReview,
           calls'[c].operations = pendingOperations'
    PROVE  Holding'
  <1>1. /\ \A d \in Calls \ {c} : calls'[d] = Idle /\ ~Busy(d)' /\ ~(Claiming(d)') /\ d # c
        /\ Busy(c)' /\ ~Claiming(c)'
    BY AllIdle DEF OthersStay, Calls, Idle, Busy, Claiming
  <1>2. /\ conflictRecovery' = None /\ stored'.operations = <<>>
        /\ Elements(stored'.operations) = {} /\ Elements(conflictRecovery'.operations) = {}
    BY AllIdle
  <1>3. OneCommitter' /\ Undisturbed' /\ DiscardHolds'
    BY <1>1, <1>2 DEF OneCommitter, Undisturbed, DiscardHolds, Committers, Calls
  <1>4. ReviewHolds'
    BY <1>1 DEF Holding, ReviewHolds, Calls
  <1>5. LeftBehind'
    BY <1>1, <1>2 DEF Holding, LeftBehind, Calls
  <1>6. RecoveryHolds'
    BY <1>1, <1>2 DEF RecoveryHolds, Calls
  <1>7. RestoreHolds'
    BY <1>1 DEF RestoreHolds, Calls, Idle
  <1>8. Noticed'
    BY <1>1 DEF Noticed, Calls
  <1> QED
    BY <1>3, <1>4, <1>5, <1>6, <1>7, <1>8 DEF Holding

LEMMA SaveConflictsHolds ==
    ASSUME Well, Well', ~crossed, Holding, EditsKept, SaveConflicts
    PROVE  Holding' /\ EditsKept'
  <1> "save" \in Calls
    BY DEF Calls
  <1>1. /\ made' = made /\ left' = left /\ givenUp' = givenUp /\ Busy("save")
        /\ UNCHANGED <<archiveReview, conflictRecovery, stored>>
    BY DEF SaveConflicts, keptVars, historyVars, Busy
  <1>2. Saved' = Saved
    BY SavedStays DEF SaveConflicts
  <1>3. PICK back : back = calls["save"].operations \o pendingOperations
    OBVIOUS
  <1>4. /\ Elements(calls["save"].operations) \subseteq Elements(back)
        /\ Elements(pendingOperations) \subseteq Elements(back) /\ back \in Seq(1..made)
    BY <1>3, PutBack
  <1>5. CASE Open
    <2>1. pendingOperations' = back /\ Becomes("save", "capturing", back, 0)
      BY <1>3, <1>5 DEF SaveConflicts
    <2>2. /\ calls'["save"].at = "capturing" /\ OthersStay("save")
          /\ calls'["save"].operations = pendingOperations'
      BY <1>4, <2>1, CaptureCall
    <2>3. Holding'
      BY <1>1, <2>2, CapturingHolds
    <2> QED
      BY <1>1, <1>2, <1>4, <2>1, <2>2, <2>3, KeptStays, SafeHasNext DEF Holding
  <1>6. CASE ~Open
    <2>1. left
      BY <1>6, Reopened DEF Well, StatusWell
    <2>2. calls'["save"] = Idle /\ OthersStay("save")
      BY <1>6, EndCall DEF SaveConflicts
    <2>3. Holding'
      BY <1>1, <2>2, EndHolds
    <2> QED
      BY <1>1, <1>2, <2>1, <2>2, <2>3, KeptStays DEF Holding
  <1> QED
    BY <1>5, <1>6

LEMMA SaveFailsHolds ==
    ASSUME Well, Well', ~crossed, Holding, EditsKept, SaveFails
    PROVE  Holding' /\ EditsKept'
  <1> "save" \in Calls
    BY DEF Calls
  <1>1. /\ made' = made /\ left' = left /\ givenUp' = givenUp /\ Busy("save")
        /\ UNCHANGED <<archiveReview, conflictRecovery, stored>>
    BY DEF SaveFails, keptVars, historyVars, Busy
  <1>2. Saved' = Saved
    BY SavedStays DEF SaveFails
  <1>3. PICK back : back = calls["save"].operations \o pendingOperations
    OBVIOUS
  <1>4. /\ Elements(calls["save"].operations) \subseteq Elements(back)
        /\ Elements(pendingOperations) \subseteq Elements(back)
    BY <1>3, PutBack
  <1>5. calls'["save"] = Idle /\ OthersStay("save")
    BY EndCall DEF SaveFails
  <1>6. Holding'
    BY <1>1, <1>5, EndHolds
  <1>7. ~left => pendingOperations' = back
    BY <1>3, Reopened DEF SaveFails
  <1> QED
    BY <1>1, <1>2, <1>4, <1>5, <1>6, <1>7, KeptStays, SafeHasNext DEF Holding

LEMMA ApproveCommittedHolds ==
    ASSUME Well, KeysWell, ~crossed, Holding, EditsKept, ApproveCommitted
    PROVE  Holding' /\ EditsKept'
  <1> "approve" \in Calls
    BY DEF Calls
  <1>1. /\ calls'["approve"] = Idle /\ OthersStay("approve") /\ Busy("approve")
    BY EndCall DEF ApproveCommitted, Busy
  <1>2. /\ made' = made /\ left' = left /\ givenUp' = givenUp
        /\ UNCHANGED <<pendingOperations, conflictRecovery, stored>>
    BY DEF ApproveCommitted, historyVars
  <1>3. Holding'
    BY <1>1, <1>2, EndHolds
  <1>4. Saved' = Saved
    BY SavedStays DEF ApproveCommitted
  <1>5. Elements(calls["approve"].operations) \subseteq Saved
    <2>1. /\ calls["approve"].base \in 0..Latest /\ calls["approve"].version \in 0..Latest
          /\ calls["approve"].base # 0 /\ calls["approve"].version # 0
          /\ calls["approve"].operations \in Seq(1..made)
      BY CallRow DEF ApproveCommitted, Fits
    <2> QED
      BY <2>1, CommittedSaved DEF ApproveCommitted, KeysWell, WantsPreview
  <1>6. ~left => archiveReview.operations = calls["approve"].operations
    BY DEF ApproveCommitted, Holding, ReviewHolds, Claiming, Claim
  <1> QED
    BY <1>1, <1>2, <1>3, <1>4, <1>5, <1>6, KeptStays, SafeHasNext DEF Holding

LEMMA ApproveConflictsHolds ==
    ASSUME Well, Well', ~crossed, Holding, EditsKept, ApproveConflicts
    PROVE  Holding' /\ EditsKept'
  <1> "approve" \in Calls
    BY DEF Calls
  <1>1. /\ made' = made /\ left' = left /\ givenUp' = givenUp /\ Busy("approve")
        /\ UNCHANGED <<conflictRecovery, stored>> /\ archiveReview' = None
    BY DEF ApproveConflicts, historyVars, Busy
  <1>2. Saved' = Saved
    BY SavedStays DEF ApproveConflicts
  <1>3. PICK back : back = calls["approve"].operations \o pendingOperations
    OBVIOUS
  <1>4. /\ Elements(calls["approve"].operations) \subseteq Elements(back)
        /\ Elements(pendingOperations) \subseteq Elements(back) /\ back \in Seq(1..made)
    BY <1>3, PutBack
  <1>5. pendingOperations' = back /\ Becomes("approve", "capturing", back, 0)
    BY <1>3 DEF ApproveConflicts
  <1>6. /\ calls'["approve"].at = "capturing" /\ OthersStay("approve")
        /\ calls'["approve"].operations = pendingOperations'
    BY <1>4, <1>5, CaptureCall
  <1>7. Holding'
    BY <1>1, <1>6, CapturingHolds
  <1>8. ~left => archiveReview.operations = calls["approve"].operations
    BY DEF ApproveConflicts, Holding, ReviewHolds, Claiming, Claim
  <1> QED
    BY <1>1, <1>2, <1>4, <1>5, <1>6, <1>7, <1>8, KeptStays, SafeHasNext DEF Holding

LEMMA ApproveFailsHolds ==
    ASSUME Well, ~crossed, Holding, EditsKept, ApproveFails
    PROVE  Holding' /\ EditsKept'
  <1> "approve" \in Calls
    BY DEF Calls
  <1>1. calls'["approve"] = Idle /\ OthersStay("approve") /\ Busy("approve")
    BY EndCall DEF ApproveFails, Busy
  <1>2. /\ made' = made /\ left' = left /\ givenUp' = givenUp
        /\ UNCHANGED <<pendingOperations, archiveReview, conflictRecovery, stored>>
    BY DEF ApproveFails, canvasVars, keptVars, historyVars
  <1>3. Holding'
    BY <1>1, <1>2, EndHolds
  <1>4. Saved' = Saved
    BY SavedStays DEF ApproveFails
  <1>5. ~left => archiveReview.operations = calls["approve"].operations
    BY DEF ApproveFails, Holding, ReviewHolds, Claiming, Claim
  <1> QED
    BY <1>1, <1>2, <1>3, <1>4, <1>5, KeptStays, SafeHasNext DEF Holding

LEMMA NoneSaving ==
    ASSUME ~(Busy("save")'), ~(Busy("approve")')
    PROVE  OneCommitter' /\ Undisturbed' /\ ReviewHolds' /\ Noticed'
  BY DEF OneCommitter, Undisturbed, ReviewHolds, Noticed, Committers, Busy, Claiming

LEMMA CapturedHolds ==
    ASSUME Well, ~crossed, Holding, EditsKept, NEW c \in {"save", "approve"}, Captured(c)
    PROVE  Holding' /\ EditsKept'
  <1> c \in Calls
    BY DEF Calls
  <1>1. calls'[c] = Idle /\ OthersStay(c) /\ Busy(c)
    BY EndCall DEF Captured, Busy
  <1>2. /\ made' = made /\ left' = left /\ archiveReview' = archiveReview /\ givenUp \subseteq givenUp'
    BY DEF Captured, WritesOver
  <1>3. \A d \in Calls : calls'[d] = Idle /\ ~(Busy(d)')
    BY <1>1, AllIdle DEF OthersStay, Calls, Idle, Busy
  <1>4. OneCommitter' /\ Undisturbed' /\ ReviewHolds' /\ DiscardHolds' /\ RestoreHolds' /\ Noticed'
    BY <1>3, NoneSaving DEF Calls, DiscardHolds, RestoreHolds, Idle
  <1>5. LeftBehind'
    <2>1. stored.operations = <<>>
      BY <1>1 DEF Holding, Undisturbed
    <2>2. left => 1..made \subseteq givenUp
      BY <2>1, ElementsEmpty DEF Holding, LeftBehind
    <2>3. ~(Busy("latest")')
      BY <1>3 DEF Calls
    <2> QED
      BY <1>2, <2>2, <2>3 DEF LeftBehind
  <1>6. ~left => /\ archiveReview = None /\ Elements(archiveReview.operations) = {}
                 /\ conflictRecovery'.operations = calls[c].operations
                 /\ pendingOperations' = calls[c].operations
                 /\ givenUp' = givenUp \cup (Elements(pendingOperations) \ Elements(calls[c].operations))
    BY <1>1, Reopened, NoneTyped DEF Holding, ReviewHolds, Captured, WritesOver
  <1>7. ~left => Elements(stored'.operations) \subseteq Elements(calls[c].operations)
    <2>1. Elements(stored.operations) = {}
      BY <1>1, AllIdle
    <2>2. stored' = stored \/ stored'.operations = calls[c].operations
      BY DEF Captured
    <2> QED
      BY <2>1, <2>2
  <1>8. RecoveryHolds'
    BY <1>2, <1>3, <1>6, <1>7 DEF RecoveryHolds, Calls
  <1>9. Holding'
    BY <1>4, <1>5, <1>8 DEF Holding
  <1>10. Saved' = Saved
    BY SavedStays DEF Captured
  <1>11. ~left' => /\ Elements(pendingOperations) \subseteq Safe'
                   /\ Elements(archiveReview.operations) \subseteq Safe'
                   /\ Elements(conflictRecovery.operations) \subseteq Safe'
                   /\ Elements(stored.operations) \subseteq Safe'
                   /\ Elements(calls[c].operations) \subseteq Safe'
    BY <1>1, <1>2, <1>6, AllIdle, SafeHasNext
  <1> QED
    BY <1>1, <1>2, <1>9, <1>10, <1>11, KeptStays DEF Holding

LEMMA RestoreCommittedHolds ==
    ASSUME Well, ~crossed, Holding, EditsKept, RestoreCommitted
    PROVE  Holding' /\ EditsKept'
  <1> "restore" \in Calls
    BY DEF Calls
  <1>1. calls'["restore"] = Idle /\ OthersStay("restore") /\ Busy("restore")
    BY EndCall DEF RestoreCommitted, Busy
  <1>2. /\ made' = made /\ left' = left /\ UNCHANGED <<archiveReview, conflictRecovery, stored>>
        /\ pendingOperations' = <<>> /\ givenUp' = givenUp \cup Elements(pendingOperations)
    BY DEF RestoreCommitted, keptVars, WritesOver
  <1>3. /\ \A d \in Calls \ {"restore"} : calls'[d] = calls[d] /\ (Busy(d)' <=> Busy(d))
        /\ ~Busy("save") /\ ~Busy("approve")
    BY <1>1 DEF OthersStay, Busy, Calls, Holding, OneCommitter, Committers
  <1>4. OneCommitter' /\ Undisturbed' /\ ReviewHolds' /\ DiscardHolds' /\ RestoreHolds' /\ Noticed'
    BY <1>1, <1>2, <1>3, NoneSaving DEF Calls, Holding, DiscardHolds, RestoreHolds, Idle
  <1>5. LeftBehind'
    BY <1>2, <1>3 DEF Holding, LeftBehind, Calls
  <1>6. RecoveryHolds'
    BY <1>2, <1>3, ElementsEmpty DEF Holding, RecoveryHolds, Calls, Recovery
  <1>7. Holding'
    BY <1>4, <1>5, <1>6 DEF Holding
  <1>8. Saved' = Saved
    BY SavedStays DEF RestoreCommitted
  <1>9. Elements(calls["restore"].operations) = {}
    BY ElementsEmpty DEF Holding, RestoreHolds
  <1> QED
    BY <1>1, <1>2, <1>5, <1>7, <1>8, <1>9, KeptStays, SafeHasNext

LEMMA RestoreFailsHolds ==
    ASSUME Well, ~crossed, Holding, EditsKept, RestoreFails
    PROVE  Holding' /\ EditsKept'
  <1> "restore" \in Calls
    BY DEF Calls
  <1>1. calls'["restore"] = Idle /\ OthersStay("restore") /\ Busy("restore")
    BY EndCall DEF RestoreFails, Busy
  <1>2. /\ made' = made /\ left' = left /\ givenUp' = givenUp
        /\ UNCHANGED <<pendingOperations, archiveReview, conflictRecovery, stored>>
    BY DEF RestoreFails, canvasVars, keptVars, historyVars
  <1>3. /\ \A d \in Calls \ {"restore"} : calls'[d] = calls[d] /\ (Busy(d)' <=> Busy(d))
        /\ ~Busy("save") /\ ~Busy("approve")
    BY <1>1 DEF OthersStay, Busy, Calls, Holding, OneCommitter, Committers
  <1>4. OneCommitter' /\ Undisturbed' /\ ReviewHolds' /\ DiscardHolds' /\ RestoreHolds' /\ Noticed'
    BY <1>1, <1>2, <1>3, NoneSaving DEF Calls, Holding, DiscardHolds, RestoreHolds, Idle
  <1>5. LeftBehind'
    BY <1>2, <1>3 DEF Holding, LeftBehind, Calls
  <1>6. RecoveryHolds'
    BY <1>2, <1>3 DEF Holding, RecoveryHolds, Calls, Recovery
  <1>7. Holding'
    BY <1>4, <1>5, <1>6 DEF Holding
  <1>8. Saved' = Saved
    BY SavedStays DEF RestoreFails
  <1>9. Elements(calls["restore"].operations) = {}
    BY ElementsEmpty DEF Holding, RestoreHolds
  <1> QED
    BY <1>1, <1>2, <1>5, <1>7, <1>8, <1>9, KeptStays, SafeHasNext

LEMMA LatestLoadedHolds ==
    ASSUME Well, ~crossed, Holding, EditsKept, NEW v \in Versions, LatestLoaded(v)
    PROVE  Holding' /\ EditsKept'
  <1> "latest" \in Calls
    BY DEF Calls
  <1>1. calls'["latest"] = Idle /\ OthersStay("latest") /\ Busy("latest")
    BY EndCall DEF LatestLoaded, Busy
  <1>2. /\ made' = made /\ left' = left /\ UNCHANGED <<archiveReview, stored, givenUp>>
        /\ pendingOperations' = <<>> /\ conflictRecovery' = Recovery("latest")
    BY DEF LatestLoaded, historyVars, Recovery
  <1>3. /\ \A d \in Calls \ {"latest"} : calls'[d] = calls[d] /\ (Busy(d)' <=> Busy(d))
        /\ ~Busy("save") /\ ~Busy("approve") /\ ~Busy("discard") /\ ~(Busy("latest")')
    BY <1>1 DEF OthersStay, Busy, Calls, Holding, Undisturbed, Well, CallsWell, LoadingWell, Idle
  <1>4. OneCommitter' /\ Undisturbed' /\ ReviewHolds' /\ DiscardHolds' /\ RestoreHolds' /\ Noticed'
    BY <1>1, <1>2, <1>3, NoneSaving DEF Calls, Holding, DiscardHolds, RestoreHolds, Idle
  <1>5. LeftBehind'
    BY <1>2, <1>3 DEF Holding, LeftBehind, Calls
  <1>6. ~left => /\ conflictRecovery' = conflictRecovery /\ conflictRecovery # None
                 /\ conflictRecovery.operations = calls["latest"].operations
    BY <1>1, <1>2, CallRow DEF Holding, RecoveryHolds, Recovery, None
  <1>7. RecoveryHolds'
    BY <1>2, <1>3, <1>6, ElementsEmpty DEF Holding, RecoveryHolds, Calls
  <1>8. Holding'
    BY <1>4, <1>5, <1>7 DEF Holding
  <1>9. Saved' = Saved
    BY SavedStays DEF LatestLoaded
  <1>10. ~left => Elements(pendingOperations) \subseteq Elements(conflictRecovery.operations)
    BY <1>6 DEF Holding, RecoveryHolds
  <1> QED
    BY <1>1, <1>2, <1>5, <1>6, <1>8, <1>9, <1>10, KeptStays, SafeHasNext

LEMMA RecoveryDiscardedHolds ==
    ASSUME Well, ~crossed, Holding, EditsKept, NEW v \in Versions, RecoveryDiscarded(v)
    PROVE  Holding' /\ EditsKept'
  <1> "discard" \in Calls
    BY DEF Calls
  <1>1. calls'["discard"] = Idle /\ OthersStay("discard") /\ Busy("discard")
    BY EndCall DEF RecoveryDiscarded, Busy
  <1>2. /\ made' = made /\ left' = left /\ archiveReview' = archiveReview /\ pendingOperations' = <<>>
        /\ conflictRecovery' = None /\ stored' = None
        /\ givenUp' = givenUp \cup Elements(calls["discard"].operations)
    BY DEF RecoveryDiscarded, GivesUp
  <1>3. /\ \A d \in Calls \ {"discard"} : calls'[d] = calls[d] /\ (Busy(d)' <=> Busy(d))
        /\ ~Busy("save") /\ ~Busy("approve") /\ ~Busy("latest") /\ ~(Busy("discard")')
    BY <1>1 DEF OthersStay, Busy, Calls, Holding, Undisturbed, Well, CallsWell, LoadingWell, Idle
  <1>4. OneCommitter' /\ Undisturbed' /\ ReviewHolds' /\ DiscardHolds' /\ RestoreHolds' /\ Noticed'
    BY <1>1, <1>2, <1>3, NoneSaving DEF Calls, Holding, DiscardHolds, RestoreHolds, Idle
  <1>5. Elements(stored.operations) \subseteq Elements(calls["discard"].operations)
    BY <1>1 DEF Holding, DiscardHolds
  <1>6. LeftBehind'
    BY <1>2, <1>3, <1>5, NoneTyped DEF Holding, LeftBehind, Calls
  <1>7. ~left => /\ conflictRecovery # None /\ conflictRecovery.operations = calls["discard"].operations
    BY <1>1, CallRow DEF Holding, RecoveryHolds, Recovery, None
  <1>8. RecoveryHolds'
    BY <1>2, <1>3, NoneTyped DEF RecoveryHolds, Calls
  <1>9. Holding'
    BY <1>4, <1>6, <1>8 DEF Holding
  <1>10. Saved' = Saved
    BY SavedStays DEF RecoveryDiscarded
  <1>11. ~left => Elements(pendingOperations) \subseteq Elements(conflictRecovery.operations)
    BY <1>7 DEF Holding, RecoveryHolds
  <1> QED
    BY <1>1, <1>2, <1>5, <1>6, <1>7, <1>9, <1>10, <1>11, KeptStays, SafeHasNext

LEMMA ReadFailsHolds ==
    ASSUME Well, ~crossed, Holding, EditsKept, ReadFails
    PROVE  Holding' /\ EditsKept'
  <1>0. PICK c \in {"latest", "discard"} :
            /\ calls[c].at = "lost" /\ End(c) /\ UNCHANGED serverVars
            /\ UNCHANGED <<canvasVars, left, keptVars, historyVars>>
    BY DEF ReadFails
  <1> c \in Calls
    BY DEF Calls
  <1>1. calls'[c] = Idle /\ OthersStay(c) /\ Busy(c)
    BY <1>0, EndCall DEF Busy
  <1>2. /\ made' = made /\ left' = left /\ givenUp' = givenUp
        /\ UNCHANGED <<pendingOperations, archiveReview, conflictRecovery, stored>>
    BY <1>0 DEF canvasVars, keptVars, historyVars
  <1>3. /\ \A d \in Calls \ {c} : calls'[d] = calls[d] /\ (Busy(d)' <=> Busy(d))
        /\ ~Busy("save") /\ ~Busy("approve") /\ ~(Busy(c)')
    BY <1>1 DEF OthersStay, Busy, Calls, Holding, Undisturbed, Idle
  <1>4. OneCommitter' /\ Undisturbed' /\ ReviewHolds' /\ DiscardHolds' /\ RestoreHolds' /\ Noticed'
    BY <1>1, <1>2, <1>3, NoneSaving DEF Calls, Holding, DiscardHolds, RestoreHolds, Idle
  <1>5. LeftBehind'
    BY <1>2, <1>3 DEF Holding, LeftBehind, Calls
  <1>6. RecoveryHolds'
    BY <1>2, <1>3 DEF Holding, RecoveryHolds, Calls, Recovery
  <1>7. Holding'
    BY <1>4, <1>5, <1>6 DEF Holding
  <1>8. Saved' = Saved
    BY <1>0, SavedStays
  <1>9. ~left => conflictRecovery.operations = calls[c].operations
    BY <1>1 DEF Holding, RecoveryHolds, Recovery
  <1> QED
    BY <1>1, <1>2, <1>5, <1>7, <1>8, <1>9, KeptStays, SafeHasNext

LEMMA CrossesNot ==
    ASSUME Crosses, ~crossed'
    PROVE  ~crossed /\ ~Busy("save") /\ ~Busy("approve") /\ ~Busy("restore")
  BY DEF Crosses

\* With nothing on its way and no recovery to protect, nothing is stored either.
LEMMA NothingStored ==
    ASSUME Well, Holding, ~left, conflictRecovery = None
    PROVE  stored.operations = <<>>
  <1>1. Elements(stored.operations) = {}
    BY ElementsEmpty DEF Holding, RecoveryHolds, None
  <1>2. stored.operations \in Seq(1..made)
    BY DEF Well, KeptWell, Protections
  <1> QED
    BY <1>1, <1>2, NoElements

LEMMA ReadsIdle ==
    ASSUME Well, Shown
    PROVE  ~Busy("latest") /\ ~Busy("discard") /\ ~left
  BY DEF Well, CallsWell, LoadingWell, Shown

LEMMA EditHolds ==
    ASSUME Well, ~crossed, Holding, EditsKept, Edit
    PROVE  Holding' /\ EditsKept'
  <1>1. /\ ~left /\ left' = left /\ conflictRecovery = None /\ made' = made + 1 /\ made \in Nat
        /\ UNCHANGED <<archiveReview, conflictRecovery, stored, givenUp, calls, saving>>
        /\ pendingOperations' = Append(pendingOperations, made + 1)
    BY Numbers DEF Edit, Shown, keptVars
  <1>2. OneCommitter' /\ Undisturbed' /\ DiscardHolds' /\ LeftBehind' /\ ReviewHolds' /\ RestoreHolds'
    BY <1>1 DEF Holding, OneCommitter, Undisturbed, DiscardHolds, LeftBehind, ReviewHolds, RestoreHolds, Busy,
       Claiming, Claim
  <1>3. RecoveryHolds'
    BY <1>1 DEF Holding, RecoveryHolds, Busy, Recovery
  <1>4. Elements(pendingOperations') = Elements(pendingOperations) \cup {made + 1}
    <2>1. pendingOperations \in Seq(1..made + 1) /\ made + 1 \in 1..made + 1
      <3>1. pendingOperations \in Seq(1..made) /\ 1..made \subseteq 1..made + 1
        BY <1>1 DEF Well, CanvasWell
      <3> QED
        BY <1>1, <3>1, SeqMonotonic
    <2> QED
      BY <1>1, <2>1, ElementsAppend
  <1>5. Saved' = Saved
    BY SavedStays DEF Edit
  <1>6. Safe \cup {made + 1} \subseteq Safe'
    BY <1>1, <1>4, <1>5 DEF Safe, Held
  <1>7. 1..made + 1 \subseteq 1..made \cup {made + 1}
    BY <1>1
  <1>8. Noticed'
    BY <1>1, <1>4 DEF Holding, Noticed, Busy
  <1> QED
    BY <1>1, <1>2, <1>3, <1>6, <1>7, <1>8 DEF EditsKept, Safe, Holding

LEMMA SaveHolds ==
    ASSUME Well, ~crossed', ~crossed, Holding, EditsKept, Save
    PROVE  Holding' /\ EditsKept'
  <1> "save" \in Calls
    BY DEF Calls
  <1>1. /\ ~left /\ left' = left /\ conflictRecovery = None /\ archiveReview = None /\ made' = made
        /\ UNCHANGED <<archiveReview, conflictRecovery, stored, givenUp>> /\ pendingOperations' = <<>>
        /\ saving' = TRUE
    BY DEF Save, Shown, keptVars
  <1>2. ~Busy("save") /\ ~Busy("approve") /\ ~Busy("restore") /\ ~Busy("latest") /\ ~Busy("discard")
    BY ReadsIdle, CrossesNot DEF Save
  <1>3. /\ calls'["save"].operations = pendingOperations /\ OthersStay("save")
    BY DEF Save, Start, OthersStay, Well, CallsWell
  <1>4. \A d \in Calls \ {"save"} : calls'[d] = Idle /\ ~(Busy(d)') /\ ~(Claiming(d)')
    <2>1. \A d \in Calls \ {"save"} : calls'[d] = calls[d] /\ calls[d] = Idle
      BY <1>2, <1>3, CallRow DEF OthersStay, Calls
    <2> QED
      BY <2>1 DEF Busy, Claiming, Idle
  <1>5. /\ stored.operations = <<>> /\ Elements(stored.operations) = {}
        /\ Elements(conflictRecovery.operations) = {} /\ Elements(archiveReview.operations) = {}
    BY <1>1, NothingStored, ElementsEmpty DEF None
  <1>6. OneCommitter' /\ Undisturbed' /\ DiscardHolds' /\ ReviewHolds' /\ RestoreHolds' /\ Noticed'
    BY <1>1, <1>4, <1>5 DEF OneCommitter, Undisturbed, DiscardHolds, ReviewHolds, RestoreHolds, Noticed,
       Committers, Calls, Idle
  <1>7. LeftBehind' /\ RecoveryHolds'
    BY <1>1, <1>4, <1>5 DEF LeftBehind, RecoveryHolds, Calls
  <1>8. Saved' = Saved
    BY SavedStays DEF Save
  <1>9. Elements(calls["save"].operations) = {}
    BY <1>2, CallRow, ElementsEmpty DEF Idle
  <1>10. Holding'
    BY <1>6, <1>7 DEF Holding
  <1> QED
    BY <1>1, <1>3, <1>5, <1>7, <1>8, <1>9, <1>10, KeptStays, SafeHasNext

LEMMA ApproveReviewHolds ==
    ASSUME Well, KeysWell, ~crossed', ~crossed, Holding, EditsKept, ApproveReview
    PROVE  Holding' /\ EditsKept'
  <1> "approve" \in Calls
    BY DEF Calls
  <1>1. /\ ~left /\ left' = left /\ archiveReview # None /\ made' = made /\ saving' = TRUE
        /\ UNCHANGED <<pendingOperations, archiveReview, conflictRecovery, stored, givenUp>>
    BY DEF ApproveReview, Shown, keptVars, canvasVars
  <1>2. ~Busy("save") /\ ~Busy("approve") /\ ~Busy("restore") /\ ~Busy("latest") /\ ~Busy("discard")
    BY ReadsIdle, CrossesNot DEF ApproveReview
  <1>3. /\ calls'["approve"] = [at |-> "sent", base |-> archiveReview.base, operations |-> archiveReview.operations,
                                key |-> archiveReview.key, version |-> 0]
        /\ OthersStay("approve")
    BY DEF ApproveReview, Start, OthersStay, Well, CallsWell
  <1>4. \A d \in Calls \ {"approve"} : calls'[d] = Idle /\ ~(Busy(d)') /\ ~(Claiming(d)')
    <2>1. \A d \in Calls \ {"approve"} : calls'[d] = calls[d] /\ calls[d] = Idle
      BY <1>2, <1>3, CallRow DEF OthersStay, Calls
    <2> QED
      BY <2>1 DEF Busy, Claiming, Idle
  <1>5. /\ conflictRecovery = None /\ stored.operations = <<>> /\ Elements(stored.operations) = {}
        /\ Elements(conflictRecovery.operations) = {}
    BY <1>1, NothingStored, ElementsEmpty DEF Holding, RecoveryHolds, None
  <1>6. archiveReview = [base |-> archiveReview.base, operations |-> archiveReview.operations,
                         key |-> archiveReview.key]
    BY DEF Well, KeptWell, Protections
  <1>7. OneCommitter' /\ Undisturbed' /\ DiscardHolds' /\ RestoreHolds' /\ Noticed'
    BY <1>1, <1>4, <1>5 DEF OneCommitter, Undisturbed, DiscardHolds, RestoreHolds, Noticed, Committers, Calls,
       Idle
  <1>8. ReviewHolds'
    BY <1>1, <1>3, <1>4, <1>6 DEF ReviewHolds, Claim, Calls
  <1>9. LeftBehind' /\ RecoveryHolds'
    BY <1>1, <1>4, <1>5 DEF LeftBehind, RecoveryHolds, Calls
  <1>10. Saved' = Saved
    BY SavedStays DEF ApproveReview
  <1>11. Elements(calls["approve"].operations) = {}
    BY <1>2, CallRow, ElementsEmpty DEF Idle
  <1>12. Holding'
    BY <1>7, <1>8, <1>9 DEF Holding
  <1> QED
    BY <1>1, <1>3, <1>5, <1>9, <1>10, <1>11, <1>12, KeptStays, SafeHasNext

LEMMA DiscardReviewHolds ==
    ASSUME Well, ~crossed, Holding, EditsKept, DiscardReview
    PROVE  Holding' /\ EditsKept'
  <1>1. /\ ~left /\ left' = left /\ ~saving /\ archiveReview # None /\ archiveReview' = None /\ made' = made
        /\ UNCHANGED <<conflictRecovery, stored, calls>>
        /\ givenUp \cup Elements(archiveReview.operations) \subseteq givenUp'
    BY DEF DiscardReview, Shown, GivesUp, WritesOver
  <1>2. /\ pendingOperations' \in {pendingOperations, <<>>}
        /\ Elements(pendingOperations) \subseteq Elements(pendingOperations') \cup givenUp'
    BY DEF DiscardReview, WritesOver, Elements
  <1>3. OneCommitter' /\ Undisturbed' /\ DiscardHolds' /\ LeftBehind' /\ RestoreHolds'
    BY <1>1 DEF Holding, OneCommitter, Undisturbed, DiscardHolds, LeftBehind, RestoreHolds, Busy
  <1>4. ReviewHolds'
    BY <1>1 DEF Holding, ReviewHolds, Busy, Claiming
  <1>5. RecoveryHolds'
    BY <1>1, <1>2, ElementsEmpty DEF Holding, RecoveryHolds, Busy, Recovery
  <1>6. Noticed'
    <2>1. ~Busy("save") /\ ~Busy("approve")
      BY <1>1 DEF Holding, ReviewHolds, Busy, Claiming
    <2> QED
      BY <1>1, <2>1 DEF Noticed, Busy
  <1>7. Saved' = Saved
    BY SavedStays DEF DiscardReview
  <1>8. "save" \in Calls /\ OthersStay("save") /\ Elements(calls["save"].operations) \subseteq Safe'
    BY <1>1, SafeHasNext DEF OthersStay, Calls
  <1>9. Holding'
    BY <1>3, <1>4, <1>5, <1>6 DEF Holding
  <1> QED
    BY <1>1, <1>2, <1>3, <1>7, <1>8, <1>9, KeptStays, SafeHasNext

LEMMA ClearedHolds ==
    ASSUME Well, ~crossed, Holding, EditsKept, Leave \/ ArchivedElsewhere
    PROVE  Holding' /\ EditsKept'
  <1>1. /\ left' /\ made' = made /\ conflictRecovery' = None
        /\ UNCHANGED <<stored, calls>>
        /\ givenUp' = givenUp \cup (1..made \ Elements(stored.operations))
    BY Clearing DEF Cleared
  <1>2. OneCommitter' /\ Undisturbed' /\ DiscardHolds' /\ LeftBehind' /\ RestoreHolds'
    BY <1>1 DEF Holding, OneCommitter, Undisturbed, DiscardHolds, LeftBehind, RestoreHolds, Busy
  <1>3. ReviewHolds' /\ RecoveryHolds' /\ Noticed'
    BY <1>1 DEF ReviewHolds, RecoveryHolds, Noticed
  <1>4. Saved' = Saved
    BY Clearing, SavedStays DEF Cleared
  <1>5. "save" \in Calls /\ OthersStay("save")
    BY <1>1 DEF OthersStay, Calls
  <1>6. Holding'
    BY <1>2, <1>3 DEF Holding
  <1> QED
    BY <1>1, <1>2, <1>4, <1>5, <1>6, KeptStays

LEMMA RestoreStartHolds ==
    ASSUME Well, ~crossed', ~crossed, Holding, EditsKept, NEW target \in Versions, Restore(target)
    PROVE  Holding' /\ EditsKept'
  <1> "restore" \in Calls
    BY DEF Calls
  <1>1. /\ left' = left /\ made' = made
        /\ UNCHANGED <<pendingOperations, archiveReview, conflictRecovery, stored, givenUp>>
    BY DEF Restore, keptVars, canvasVars
  <1>2. ~Busy("save") /\ ~Busy("approve") /\ ~Busy("restore")
    BY CrossesNot DEF Restore
  <1>3. calls'["restore"].operations = <<>> /\ OthersStay("restore")
    BY DEF Restore, Start, OthersStay, Well, CallsWell
  <1>4. \A d \in Calls \ {"restore"} : calls'[d] = calls[d] /\ (Busy(d)' <=> Busy(d))
    BY <1>3 DEF OthersStay, Calls, Busy
  <1>5. OneCommitter' /\ Undisturbed' /\ ReviewHolds' /\ DiscardHolds' /\ RestoreHolds' /\ Noticed'
    BY <1>1, <1>2, <1>3, <1>4, NoneSaving DEF Calls, Holding, DiscardHolds, RestoreHolds
  <1>6. LeftBehind'
    BY <1>1, <1>4 DEF Holding, LeftBehind, Calls
  <1>7. RecoveryHolds'
    BY <1>1, <1>4 DEF Holding, RecoveryHolds, Calls, Recovery
  <1>8. Holding'
    BY <1>5, <1>6, <1>7 DEF Holding
  <1>9. Saved' = Saved
    BY SavedStays DEF Restore
  <1>10. Elements(calls["restore"].operations) = {}
    BY ElementsEmpty DEF Holding, RestoreHolds
  <1> QED
    BY <1>1, <1>3, <1>6, <1>8, <1>9, <1>10, KeptStays, SafeHasNext

\* The log of revisions only gets longer.
LEMMA LogGrows ==
    ASSUME Well, Network
    PROVE  \/ UNCHANGED serverVars
           \/ /\ Latest < MaxVersion /\ made' = made
              /\ \E s \in Seq(0..made) : revisions' = Append(revisions, s)
  <1>1. CASE OtherCommits
    <2>1. Append(revisions[Latest], OtherEdit) \in Seq(0..made)
      <3>1. revisions[Latest] \in Seq(0..made) /\ OtherEdit \in 0..made
        BY Contents, Numbers DEF OtherEdit
      <3> QED
        BY <3>1, AppendProperties
    <2> QED
      BY <1>1, <2>1 DEF OtherCommits, historyVars
  <1>2. ASSUME NEW c \in Calls, Serve(c), Commit(c)
        PROVE  /\ Latest < MaxVersion /\ made' = made
               /\ \E s \in Seq(0..made) : revisions' = Append(revisions, s)
    <2>1. /\ calls[c].base \in 0..Latest /\ calls[c].base # 0 /\ calls[c].operations \in Seq(1..made)
          /\ calls[c].version \in 0..Latest /\ (c = "restore" => calls[c].version # 0)
      BY <1>2, CallRow DEF Serve, Fits
    <2>2. calls[c].base \in 1..Latest /\ (c = "restore" => calls[c].version \in 1..Latest)
      BY <2>1, Numbers
    <2>3. Content(c) \in Seq(0..made)
      BY <2>1, <2>2, Contents, ConcatProperties DEF Content
    <2> QED
      BY <1>2, <2>3 DEF Serve, Commit, historyVars
  <1> QED
    BY <1>1, <1>2, Clearing DEF Network, Cleared, Serve, Lose, Refresh, Refreshed, RefreshFails

LEMMA SavedGrows ==
    ASSUME Well, Network
    PROVE  Saved \subseteq Saved'
  <1>1. CASE UNCHANGED serverVars
    BY <1>1, SavedStays
  <1>2. CASE ~UNCHANGED serverVars
    <2>1. PICK s \in Seq(0..made) : revisions' = Append(revisions, s) /\ made' = made /\ Latest < MaxVersion
      BY <1>2, LogGrows
    <2>2. /\ Latest' = Latest + 1 /\ \A v \in 1..Latest : revisions'[v] = revisions[v]
      BY <2>1, LogAppend
    <2>3. 1..Latest \subseteq 1..Latest'
      BY <2>2, Numbers
    <2> QED
      BY <2>2, <2>3 DEF Saved, Elements
  <1> QED
    BY <1>1, <1>2
\* A recovery on the canvas is what a read was asked for.
LEMMA Protecting ==
    ASSUME Well, Holding, Shown, conflictRecovery # None
    PROVE  /\ ~Busy("save") /\ ~Busy("approve") /\ ~left
           /\ conflictRecovery = [base |-> conflictRecovery.base, operations |-> conflictRecovery.operations,
                                  key |-> 0]
           /\ Elements(stored.operations) \subseteq Elements(conflictRecovery.operations)
           /\ Elements(pendingOperations) \subseteq Elements(conflictRecovery.operations)
           /\ archiveReview = None
  <1>1. /\ conflictRecovery.key = 0 /\ conflictRecovery \in Protections(Latest, made)
    BY DEF Well, KeptWell
  <1>2. conflictRecovery = [base |-> conflictRecovery.base, operations |-> conflictRecovery.operations,
                            key |-> 0]
    BY <1>1 DEF Protections
  <1> QED
    BY <1>2 DEF Holding, Undisturbed, RecoveryHolds, Shown

\* Either read of the panel of the recovery is started.
LEMMA ReadStartHolds ==
    ASSUME Well, ~crossed, Holding, EditsKept, Shown, conflictRecovery # None,
           ~Busy("latest"), ~Busy("discard"), NEW c \in {"latest", "discard"}, NEW version,
           Start(c, conflictRecovery.base, conflictRecovery.operations, 0, version),
           UNCHANGED serverVars, UNCHANGED <<pendingOperations, archiveReview, conflictRecovery, stored>>,
           UNCHANGED <<left, made, givenUp>>
    PROVE  Holding' /\ EditsKept'
  <1> c \in Calls
    BY DEF Calls
  <1>1. /\ ~Busy("save") /\ ~Busy("approve") /\ ~left
        /\ conflictRecovery = [base |-> conflictRecovery.base, operations |-> conflictRecovery.operations,
                               key |-> 0]
        /\ Elements(stored.operations) \subseteq Elements(conflictRecovery.operations)
    BY Protecting
  <1>2. /\ calls'[c] = [at |-> "sent", base |-> conflictRecovery.base, operations |-> conflictRecovery.operations,
                        key |-> 0, version |-> version]
        /\ OthersStay(c)
    BY DEF Start, OthersStay, Well, CallsWell
  <1>3. \A d \in Calls \ {c} : calls'[d] = calls[d] /\ (Busy(d)' <=> Busy(d))
    BY <1>2 DEF OthersStay, Busy
  <1>4. OneCommitter' /\ Undisturbed' /\ ReviewHolds' /\ RestoreHolds' /\ Noticed'
    BY <1>1, <1>3, NoneSaving DEF Calls, Holding, RestoreHolds
  <1>5. DiscardHolds' /\ LeftBehind'
    BY <1>1, <1>2, <1>3 DEF DiscardHolds, LeftBehind, Calls
  <1>6. RecoveryHolds'
    BY <1>1, <1>2, <1>3 DEF Holding, RecoveryHolds, Recovery, Calls
  <1>7. Holding'
    BY <1>4, <1>5, <1>6 DEF Holding
  <1>8. Saved' = Saved
    BY SavedStays
  <1>9. Elements(calls[c].operations) = {}
    BY CallRow, ElementsEmpty DEF Idle
  <1> QED
    BY <1>1, <1>2, <1>5, <1>7, <1>8, <1>9, KeptStays, SafeHasNext

LEMMA LoadLatestHolds ==
    ASSUME Well, ~crossed, Holding, EditsKept, LoadLatest
    PROVE  Holding' /\ EditsKept'
  BY ReadStartHolds DEF LoadLatest, canvasVars, keptVars, historyVars

LEMMA DiscardRecoveryHolds ==
    ASSUME Well, ~crossed, Holding, EditsKept, DiscardRecovery
    PROVE  Holding' /\ EditsKept'
  <1>1. CASE saveState = "conflict"
    BY <1>1, ReadStartHolds DEF DiscardRecovery, canvasVars, keptVars
  <1>2. CASE saveState # "conflict"
    <2>1. /\ Shown /\ conflictRecovery # None /\ ~Busy("latest") /\ ~Busy("discard")
          /\ conflictRecovery' = None /\ stored' = None /\ made' = made /\ left' = left
          /\ UNCHANGED <<archiveReview, calls, pendingOperations>>
          /\ givenUp' = givenUp \cup Elements(conflictRecovery.operations)
      BY <1>2 DEF DiscardRecovery, GivesUp, canvasVars
    <2>2. /\ ~Busy("save") /\ ~Busy("approve") /\ ~left
          /\ Elements(stored.operations) \subseteq Elements(conflictRecovery.operations)
      BY <2>1, Protecting
    <2>3. \A d \in Calls : Busy(d)' <=> Busy(d)
      BY <2>1 DEF Busy
    <2>4. OneCommitter' /\ Undisturbed' /\ ReviewHolds' /\ RestoreHolds' /\ Noticed'
      BY <2>1, <2>2, <2>3, NoneSaving DEF Calls, Holding, RestoreHolds
    <2>5. DiscardHolds' /\ LeftBehind'
      BY <2>1, <2>2, <2>3 DEF DiscardHolds, LeftBehind, Calls
    <2>6. RecoveryHolds'
      BY <2>1, <2>3, NoneTyped DEF RecoveryHolds, Calls
    <2>7. Holding'
      BY <2>4, <2>5, <2>6 DEF Holding
    <2>8. Saved' = Saved
      BY SavedStays DEF DiscardRecovery
    <2>9. "save" \in Calls /\ OthersStay("save") /\ Elements(calls["save"].operations) \subseteq Safe'
      BY <2>1, SafeHasNext DEF OthersStay, Calls
    <2> QED
      BY <2>1, <2>2, <2>5, <2>7, <2>8, <2>9, KeptStays, SafeHasNext
  <1> QED
    BY <1>1, <1>2

\* Otherwise the server and the network leave everything where it is.
LEMMA NetworkHolds ==
    ASSUME Well, Well', ~crossed, Holding, EditsKept, Network, ~ArchivedElsewhere
    PROVE  Holding' /\ EditsKept'
  <1>1. /\ UNCHANGED <<left, made, givenUp, saving, pendingOperations>>
        /\ UNCHANGED <<archiveReview, conflictRecovery, stored>>
    BY DEF Network, OtherCommits, Serve, Lose, Refresh, Refreshed, RefreshFails, statusVars, historyVars,
       keptVars, canvasVars
  <1>2. \A d \in Calls :
            /\ calls'[d].base = calls[d].base /\ calls'[d].operations = calls[d].operations
            /\ calls'[d].key = calls[d].key
            /\ Busy(d)' <=> Busy(d)
            /\ Claiming(d)' <=> Claiming(d)
            /\ calls'[d].at = "capturing" <=> calls[d].at = "capturing"
    <2>1. CASE calls' = calls
      BY <2>1 DEF Busy, Claiming
    <2>2. CASE \E c \in Calls : Serve(c) \/ Lose(c)
      <3>1. PICK c \in Calls, at \in {"done", "conflict", "refused", "lost"}, version \in Nat :
                /\ Answered(c, at, version)
                /\ calls[c].at \in {"sent", "done", "conflict", "refused"}
        <4>1. PICK c \in Calls : Serve(c) \/ Lose(c)
          BY <2>2
        <4>2. Latest \in Nat /\ Latest + 1 \in Nat /\ Known(calls[c].key) \in Nat
          <5>1. calls[c].key \in 0..MaxKeys /\ replies \in [1..MaxKeys -> 0..Latest]
            BY CallRow DEF Well, ServerWell
          <5> QED
            BY <5>1, Numbers DEF Known
        <4> QED
          BY <4>1, <4>2 DEF Serve, Lose
      <3>2. /\ calls'[c] = [at |-> at, base |-> calls[c].base, operations |-> calls[c].operations,
                            key |-> calls[c].key, version |-> version]
            /\ OthersStay(c)
        BY <3>1 DEF Answered, Becomes, OthersStay, Well, CallsWell
      <3> QED
        BY <3>1, <3>2 DEF OthersStay, Busy, Claiming
    <2> QED
      BY <2>1, <2>2 DEF Network, OtherCommits, Refresh, Refreshed, RefreshFails
  <1>3. OneCommitter' /\ Undisturbed' /\ DiscardHolds' /\ LeftBehind' /\ RestoreHolds'
    BY <1>1, <1>2 DEF Holding, OneCommitter, Undisturbed, DiscardHolds, LeftBehind, RestoreHolds, Committers,
       Calls
  <1>4. ReviewHolds'
    BY <1>1, <1>2 DEF Holding, ReviewHolds, Claim, Calls
  <1>5. RecoveryHolds'
    BY <1>1, <1>2 DEF Holding, RecoveryHolds, Recovery, Calls
  <1>6. Saved \subseteq Saved'
    BY SavedGrows
  <1>7. Held' = Held
    BY <1>1, <1>2 DEF Held
  <1>8. 1..made' \subseteq Held' \cup Saved' \cup givenUp'
    BY <1>1, <1>6, <1>7 DEF EditsKept
  <1>9. Noticed'
    BY <1>1, <1>2 DEF Holding, Noticed, Calls
  <1> QED
    BY <1>3, <1>4, <1>5, <1>8, <1>9 DEF EditsKept, Holding

LEMMA StepHolds ==
    ASSUME Well, KeysWell, Well', KeysWell', ~crossed', ~crossed, Holding, EditsKept, [StoreNext]_storeVars
    PROVE  Holding' /\ EditsKept'
  <1>1. CASE UNCHANGED storeVars
    <2>1. /\ UNCHANGED serverVars /\ UNCHANGED canvasVars /\ UNCHANGED statusVars /\ UNCHANGED keptVars
          /\ UNCHANGED calls /\ UNCHANGED historyVars
      BY <1>1 DEF storeVars
    <2>2. Holding'
      BY <2>1 DEF canvasVars, statusVars, keptVars, historyVars, Holding, OneCommitter, Undisturbed, DiscardHolds,
         LeftBehind, ReviewHolds, RecoveryHolds, RestoreHolds, Noticed, Busy, Claiming, Claim, Recovery
    <2>3. EditsKept'
      BY <2>1, SavedStays DEF canvasVars, keptVars, historyVars, EditsKept, Held
    <2> QED
      BY <2>2, <2>3
  <1>2. CASE Answer
    BY <1>2, SaveCommittedHolds, SavePreviewedHolds, SaveConflictsHolds, SaveFailsHolds, ApproveCommittedHolds,
       ApproveConflictsHolds, ApproveFailsHolds, RestoreCommittedHolds, RestoreFailsHolds, CapturedHolds,
       LatestLoadedHolds, RecoveryDiscardedHolds, ReadFailsHolds DEF Answer
  <1>3. CASE User
    BY <1>3, EditHolds, SaveHolds, ApproveReviewHolds, DiscardReviewHolds, ClearedHolds, LoadLatestHolds,
       DiscardRecoveryHolds, RestoreStartHolds DEF User
  <1>4. CASE Network
    BY <1>4, ClearedHolds, NetworkHolds
  <1> QED
    BY <1>1, <1>2, <1>3, <1>4 DEF StoreNext

\* What was started across another stays so, and so does what was overtaken.
LEMMA HistoryStays ==
    ASSUME Well, [StoreNext]_storeVars
    PROVE  (crossed => crossed') /\ (overtaken => overtaken')
  <1>1. CASE UNCHANGED storeVars
    BY <1>1 DEF storeVars, historyVars
  <1>2. CASE Answer
    <2>1. SaveCommitted => UNCHANGED <<crossed, overtaken>>
      BY DEF SaveCommitted, historyVars
    <2>2. SavePreviewed => UNCHANGED <<crossed, overtaken>>
      BY DEF SavePreviewed, historyVars
    <2>3. SaveConflicts => UNCHANGED <<crossed, overtaken>>
      BY DEF SaveConflicts, historyVars
    <2>4. SaveFails => UNCHANGED <<crossed, overtaken>>
      BY DEF SaveFails, historyVars
    <2>5. ApproveCommitted => UNCHANGED <<crossed, overtaken>>
      BY DEF ApproveCommitted, historyVars
    <2>6. ApproveConflicts => UNCHANGED <<crossed, overtaken>>
      BY DEF ApproveConflicts, historyVars
    <2>7. ApproveFails => UNCHANGED <<crossed, overtaken>>
      BY DEF ApproveFails, historyVars
    <2>8. RestoreCommitted => UNCHANGED <<crossed, overtaken>>
      BY DEF RestoreCommitted, historyVars
    <2>9. RestoreFails => UNCHANGED <<crossed, overtaken>>
      BY DEF RestoreFails, historyVars
    <2>10. ReadFails => UNCHANGED <<crossed, overtaken>>
      BY DEF ReadFails, historyVars
    <2>11. \A c \in {"save", "approve"} : Captured(c) => UNCHANGED <<crossed, overtaken>>
      BY DEF Captured, historyVars
    <2>12. \A v \in Versions : LatestLoaded(v) => UNCHANGED <<crossed, overtaken>>
      BY DEF LatestLoaded, historyVars
    <2>13. \A v \in Versions : RecoveryDiscarded(v) => UNCHANGED <<crossed, overtaken>>
      BY DEF RecoveryDiscarded, historyVars
    <2> QED
      BY <1>2, <2>1, <2>2, <2>3, <2>4, <2>5, <2>6, <2>7, <2>8, <2>9, <2>10, <2>11, <2>12, <2>13 DEF Answer
  <1>3. CASE User
    <2>1. Edit => UNCHANGED <<crossed, overtaken>>
      BY DEF Edit, historyVars
    <2>2. DiscardReview => UNCHANGED <<crossed, overtaken>>
      BY DEF DiscardReview, historyVars
    <2>3. Leave => UNCHANGED <<crossed, overtaken>>
      BY DEF Leave, Cleared
    <2>4. LoadLatest => UNCHANGED <<crossed, overtaken>>
      BY DEF LoadLatest, historyVars
    <2>5. DiscardRecovery => UNCHANGED <<crossed, overtaken>>
      BY DEF DiscardRecovery, historyVars
    <2>6. Save => Crosses /\ UNCHANGED overtaken
      BY DEF Save
    <2>7. ApproveReview => Crosses /\ UNCHANGED overtaken
      BY DEF ApproveReview
    <2>8. \A v \in Versions : Restore(v) => Crosses /\ UNCHANGED overtaken
      BY DEF Restore
    <2>9. Crosses /\ crossed => crossed'
      BY DEF Crosses
    <2> QED
      BY <1>3, <2>1, <2>2, <2>3, <2>4, <2>5, <2>6, <2>7, <2>8, <2>9 DEF User
  <1>4. CASE Network
    <2>1. /\ OtherCommits => UNCHANGED <<crossed, overtaken>>
          /\ ArchivedElsewhere => UNCHANGED <<crossed, overtaken>>
      BY DEF OtherCommits, ArchivedElsewhere, Cleared, historyVars
    <2>2. Refresh => UNCHANGED <<crossed, overtaken>>
      BY DEF Refresh, historyVars
    <2>3. \A c \in Calls : Serve(c) \/ Lose(c) => UNCHANGED <<crossed, overtaken>>
      BY DEF Serve, Lose, historyVars
    <2>4. \A from \in refreshes : RefreshFails(from) => UNCHANGED <<crossed, overtaken>>
      BY DEF RefreshFails, historyVars
    <2>5. \A from \in refreshes, v \in Versions : Refreshed(from, v) /\ overtaken => overtaken'
      BY DEF Refreshed
    <2>6. \A from \in refreshes, v \in Versions : Refreshed(from, v) => UNCHANGED crossed
      BY DEF Refreshed
    <2> QED
      BY <1>4, <2>1, <2>2, <2>3, <2>4, <2>5, <2>6 DEF Network
  <1> QED
    BY <1>1, <1>2, <1>3, <1>4 DEF StoreNext

-----------------------------------------------------------------------------
(* The order of the edits.                                                 *)

LEMMA PrecedeNone ==
    ASSUME NEW A
    PROVE  Precede(A, {})
  BY DEF Precede

LEMMA PrecedeBoth ==
    ASSUME NEW A, NEW B, NEW C
    PROVE  /\ Precede(A, B \cup C) <=> Precede(A, B) /\ Precede(A, C)
           /\ Precede(A \cup B, C) <=> Precede(A, C) /\ Precede(B, C)
  BY DEF Precede

LEMMA PrecedeLess ==
    ASSUME NEW A, NEW B, NEW C, Precede(A, C), B \subseteq A \cup {0}
    PROVE  Precede(B, C)
  BY DEF Precede

LEMMA SameServer ==
    ASSUME Ordered, UNCHANGED serverVars
    PROVE  RevisionsSorted' /\ Saved' = Saved /\ replies' = replies /\ Latest' = Latest
  BY SavedStays DEF serverVars, Ordered, RevisionsSorted, Latest

\* Steps that touch neither the pending operations nor a save or a review.
LEMMA FrameOrdered ==
    ASSUME Ordered, UNCHANGED serverVars,
           UNCHANGED <<pendingOperations, baseVersion, left, archiveReview>>,
           calls'["save"] \in {calls["save"], Idle}, calls'["approve"] \in {calls["approve"], Idle}
    PROVE  Ordered'
  <1>1. RevisionsSorted' /\ Saved' = Saved /\ replies' = replies /\ Latest' = Latest
    BY SameServer
  <1>2. PendingSorted'
    BY <1>1 DEF Ordered, PendingSorted, New
  <1>3. SaveSorted'
    BY <1>1 DEF Ordered, SaveSorted, New, Follow, Busy, Idle, WantsPreview, IsDestructive
  <1>4. ReviewSorted'
    BY <1>1 DEF Ordered, ReviewSorted, New, Follow
  <1>5. ApproveSorted'
    BY <1>1 DEF Ordered, ApproveSorted, New, Busy, Idle
  <1> QED
    BY <1>1, <1>2, <1>3, <1>4, <1>5 DEF Ordered

\* Steps that show another version with nothing pending on it.
LEMMA ShownOrdered ==
    ASSUME Ordered, UNCHANGED serverVars, left' = left, archiveReview' = archiveReview,
           pendingOperations' = <<>>, ~(Busy("save")'), ~(Busy("approve")')
    PROVE  Ordered'
  <1>1. RevisionsSorted' /\ Saved' = Saved /\ replies' = replies /\ Latest' = Latest
    BY SameServer
  <1>2. PendingSorted'
    BY SortedEmpty, ElementsEmpty, PrecedeNone DEF PendingSorted, New
  <1>3. SaveSorted' /\ ApproveSorted'
    BY DEF SaveSorted, ApproveSorted
  <1>4. ReviewSorted'
    BY <1>1, ElementsEmpty, PrecedeNone DEF Ordered, ReviewSorted, New, Follow
  <1> QED
    BY <1>1, <1>2, <1>3, <1>4 DEF Ordered

LEMMA SaveCommittedOrdered ==
    ASSUME Well, Holding, Ordered, SaveCommitted
    PROVE  Ordered'
  <1> "save" \in Calls
    BY DEF Calls
  <1>1. /\ calls'["save"] = Idle /\ OthersStay("save") /\ Busy("save")
    BY EndCall DEF SaveCommitted, Busy
  <1>2. /\ ~(Busy("save")') /\ ~(Busy("approve")')
    BY <1>1, AllIdle DEF OthersStay, Busy, Idle, Calls
  <1>3. RevisionsSorted' /\ Saved' = Saved /\ replies' = replies /\ Latest' = Latest
    BY SameServer DEF SaveCommitted
  <1>4. /\ left' = left /\ pendingOperations' = pendingOperations /\ archiveReview' = archiveReview
        /\ calls["save"].at = "done"
    BY DEF SaveCommitted, keptVars
  <1>5. PendingSorted'
    BY <1>1, <1>3, <1>4 DEF Ordered, PendingSorted, SaveSorted, Follow, New
  <1>6. SaveSorted' /\ ApproveSorted'
    BY <1>2 DEF SaveSorted, ApproveSorted
  <1>7. ReviewSorted'
    BY <1>1, <1>4 DEF Holding, ReviewHolds, ReviewSorted
  <1> QED
    BY <1>3, <1>5, <1>6, <1>7 DEF Ordered

LEMMA SavePreviewedOrdered ==
    ASSUME Well, Holding, Ordered, SavePreviewed
    PROVE  Ordered'
  <1> "save" \in Calls
    BY DEF Calls
  <1>1. /\ calls'["save"] = Idle /\ OthersStay("save") /\ Busy("save")
    BY EndCall DEF SavePreviewed, Busy
  <1>2. /\ ~(Busy("save")') /\ ~(Busy("approve")')
    BY <1>1, AllIdle DEF OthersStay, Busy, Idle, Calls
  <1>3. RevisionsSorted' /\ Saved' = Saved /\ replies' = replies /\ Latest' = Latest
    BY SameServer DEF SavePreviewed
  <1>4. /\ left' = left /\ UNCHANGED <<pendingOperations, baseVersion>>
        /\ calls["save"].at = "done" /\ WantsPreview("save")
        /\ ~left => archiveReview'.operations = calls["save"].operations
    BY Reopened DEF SavePreviewed, canvasVars
  <1>5. PendingSorted'
    BY <1>3, <1>4 DEF Ordered, PendingSorted, New
  <1>6. SaveSorted' /\ ApproveSorted'
    BY <1>2 DEF SaveSorted, ApproveSorted
  <1>7. ~left => /\ Sorted(calls["save"].operations) /\ New(calls["save"].operations)
                 /\ Follow(calls["save"].operations)
    BY <1>1, <1>4 DEF Ordered, SaveSorted
  <1>8. ReviewSorted'
    BY <1>3, <1>4, <1>7 DEF ReviewSorted, New, Follow
  <1> QED
    BY <1>3, <1>5, <1>6, <1>8 DEF Ordered

\* What goes back before what is pending is in order again.
LEMMA PutBackOrdered ==
    ASSUME Well, NEW c \in Calls, NEW back, back = calls[c].operations \o pendingOperations,
           Sorted(calls[c].operations), Sorted(pendingOperations), Follow(calls[c].operations)
    PROVE  /\ Sorted(back)
           /\ New(calls[c].operations) => New(back)
  <1>1. calls[c].operations \in Seq(1..made) /\ pendingOperations \in Seq(1..made) /\ 1..made \in SUBSET Nat
    BY CallRow, Numbers DEF Well, CanvasWell
  <1>2. Precede(Elements(calls[c].operations), Elements(pendingOperations))
    BY DEF Follow
  <1>3. Sorted(back)
    BY <1>1, <1>2, SortedConcat
  <1>4. New(calls[c].operations) => New(back)
    <2>1. Elements(back) = Elements(calls[c].operations) \cup Elements(pendingOperations)
      BY <1>1, ElementsConcat
    <2>2. (Precede(Saved, Elements(calls[c].operations)) /\ Precede(Saved, Elements(pendingOperations)))
             => Precede(Saved, Elements(calls[c].operations) \cup Elements(pendingOperations))
      BY DEF Precede
    <2> QED
      BY <2>1, <2>2 DEF New, Follow
  <1> QED
    BY <1>3, <1>4

LEMMA SaveConflictsOrdered ==
    ASSUME Well, Holding, Ordered, SaveConflicts
    PROVE  Ordered'
  <1> "save" \in Calls
    BY DEF Calls
  <1>1. /\ left' = left /\ calls["save"].at = "conflict" /\ Busy("save")
        /\ archiveReview' = archiveReview /\ baseVersion' = baseVersion
    BY DEF SaveConflicts, Busy, keptVars
  <1>2. RevisionsSorted' /\ Saved' = Saved /\ replies' = replies /\ Latest' = Latest
    BY SameServer DEF SaveConflicts
  <1>3. PICK back : back = calls["save"].operations \o pendingOperations
    OBVIOUS
  <1>4. back \in Seq(1..made)
    BY <1>3, PutBack
  <1>5. CASE Open
    <2>1. pendingOperations' = back /\ Becomes("save", "capturing", back, 0)
      BY <1>3, <1>5 DEF SaveConflicts
    <2>2. /\ calls'["save"].at = "capturing" /\ calls'["save"].base = calls["save"].base
          /\ calls'["save"].operations = back /\ OthersStay("save")
      BY <1>4, <2>1, CaptureCall
    <2>3. ~(Busy("approve")')
      BY <1>1, <2>2, AllIdle DEF OthersStay, Busy, Calls
    <2>4. ~left => Sorted(back)
      BY <1>1, <1>3, PutBackOrdered DEF Ordered, SaveSorted, PendingSorted
    <2>5. calls["save"].base # Latest /\ (~left => baseVersion = calls["save"].base)
      BY <1>1 DEF Ordered, SaveSorted
    <2>6. PendingSorted'
      BY <1>1, <1>2, <2>1, <2>4, <2>5 DEF PendingSorted
    <2>7. SaveSorted' /\ ApproveSorted'
      BY <1>1, <1>2, <2>2, <2>3, <2>4, <2>5 DEF SaveSorted, ApproveSorted
    <2>8. ReviewSorted'
      BY <1>1 DEF Holding, ReviewHolds, ReviewSorted
    <2> QED
      BY <1>2, <2>6, <2>7, <2>8 DEF Ordered
  <1>6. CASE ~Open
    <2>1. /\ calls'["save"] = Idle /\ OthersStay("save") /\ UNCHANGED pendingOperations
      BY <1>6, EndCall DEF SaveConflicts
    <2> QED
      BY <1>1, <2>1, FrameOrdered DEF SaveConflicts, OthersStay, Calls
  <1> QED
    BY <1>5, <1>6

LEMMA SaveFailsOrdered ==
    ASSUME Well, Holding, Ordered, SaveFails
    PROVE  Ordered'
  <1> "save" \in Calls
    BY DEF Calls
  <1>1. /\ left' = left /\ calls["save"].at \in {"refused", "lost"} /\ Busy("save")
        /\ archiveReview' = archiveReview /\ baseVersion' = baseVersion
    BY DEF SaveFails, Busy, keptVars
  <1>2. RevisionsSorted' /\ Saved' = Saved /\ replies' = replies /\ Latest' = Latest
    BY SameServer DEF SaveFails
  <1>3. calls'["save"] = Idle /\ OthersStay("save")
    BY EndCall DEF SaveFails
  <1>4. /\ ~(Busy("save")') /\ ~(Busy("approve")')
    BY <1>1, <1>3, AllIdle DEF OthersStay, Busy, Idle, Calls
  <1>5. PICK back : back = calls["save"].operations \o pendingOperations
    OBVIOUS
  <1>6. ~left => /\ Sorted(back)
                 /\ New(calls["save"].operations) => New(back)
                 /\ Latest = baseVersion => New(calls["save"].operations)
    BY <1>1, <1>5, PutBackOrdered DEF Ordered, SaveSorted, PendingSorted
  <1>7. ~left => pendingOperations' = back
    BY <1>5, Reopened DEF SaveFails
  <1>8. PendingSorted'
    BY <1>1, <1>2, <1>6, <1>7 DEF PendingSorted, New
  <1>9. SaveSorted' /\ ApproveSorted'
    BY <1>4 DEF SaveSorted, ApproveSorted
  <1>10. ReviewSorted'
    BY <1>1 DEF Holding, ReviewHolds, ReviewSorted
  <1> QED
    BY <1>2, <1>8, <1>9, <1>10 DEF Ordered

LEMMA CapturedOrdered ==
    ASSUME Well, Holding, Ordered, NEW c \in {"save", "approve"}, Captured(c)
    PROVE  Ordered'
  <1> c \in Calls
    BY DEF Calls
  <1>1. calls'[c] = Idle /\ OthersStay(c) /\ Busy(c) /\ calls[c].at = "capturing"
    BY EndCall DEF Captured, Busy
  <1>2. /\ ~(Busy("save")') /\ ~(Busy("approve")')
    BY <1>1, AllIdle DEF OthersStay, Busy, Idle, Calls
  <1>3. RevisionsSorted' /\ Saved' = Saved /\ replies' = replies /\ Latest' = Latest
    BY SameServer DEF Captured
  <1>4. /\ left' = left /\ archiveReview' = archiveReview /\ baseVersion' = baseVersion
        /\ ~left => archiveReview = None
        /\ ~left => pendingOperations' = calls[c].operations
    BY <1>1, Reopened DEF Captured, Holding, ReviewHolds
  <1>5. ~left => /\ Sorted(calls[c].operations)
                 /\ Latest = baseVersion => New(calls[c].operations)
    BY <1>1 DEF Ordered, SaveSorted, ApproveSorted
  <1>6. PendingSorted'
    BY <1>3, <1>4, <1>5 DEF PendingSorted, New
  <1>7. SaveSorted' /\ ApproveSorted'
    BY <1>2 DEF SaveSorted, ApproveSorted
  <1>8. ReviewSorted'
    BY <1>4 DEF ReviewSorted
  <1> QED
    BY <1>3, <1>6, <1>7, <1>8 DEF Ordered

\* An approval under way is that of the review.
LEMMA Approving ==
    ASSUME Well, Holding, Ordered, Claiming("approve"), ~left
    PROVE  /\ archiveReview = Claim("approve") /\ archiveReview # None
           /\ archiveReview.operations = calls["approve"].operations
           /\ archiveReview.key = calls["approve"].key
           /\ Sorted(calls["approve"].operations) /\ Follow(calls["approve"].operations)
  <1>1. archiveReview = Claim("approve") /\ calls["approve"].base # 0
    BY CallRow DEF Holding, ReviewHolds, Claiming, Fits, Calls
  <1>2. archiveReview # None
    BY <1>1 DEF Claim, None
  <1> QED
    BY <1>1, <1>2 DEF Claim, Ordered, ReviewSorted

LEMMA ApproveCommittedOrdered ==
    ASSUME Well, Holding, Ordered, ApproveCommitted
    PROVE  Ordered'
  <1> "approve" \in Calls
    BY DEF Calls
  <1>1. /\ calls'["approve"] = Idle /\ OthersStay("approve") /\ Busy("approve") /\ Claiming("approve")
    BY EndCall DEF ApproveCommitted, Busy, Claiming
  <1>2. /\ ~(Busy("save")') /\ ~(Busy("approve")')
    BY <1>1, AllIdle DEF OthersStay, Busy, Idle, Calls
  <1>3. RevisionsSorted' /\ Saved' = Saved /\ replies' = replies /\ Latest' = Latest
    BY SameServer DEF ApproveCommitted
  <1>4. /\ left' = left /\ pendingOperations' = pendingOperations /\ archiveReview' = None
    BY DEF ApproveCommitted
  <1>5. PendingSorted'
    BY <1>1, <1>3, <1>4, Approving DEF Ordered, PendingSorted, Follow, New
  <1>6. SaveSorted' /\ ApproveSorted'
    BY <1>2 DEF SaveSorted, ApproveSorted
  <1>7. ReviewSorted'
    BY <1>4 DEF ReviewSorted
  <1> QED
    BY <1>3, <1>5, <1>6, <1>7 DEF Ordered

LEMMA ApproveConflictsOrdered ==
    ASSUME Well, Holding, Ordered, ApproveConflicts
    PROVE  Ordered'
  <1> "approve" \in Calls
    BY DEF Calls
  <1>1. /\ left' = left /\ calls["approve"].at = "conflict" /\ Busy("approve") /\ Claiming("approve")
        /\ archiveReview' = None /\ baseVersion' = baseVersion
    BY DEF ApproveConflicts, Busy, Claiming
  <1>2. RevisionsSorted' /\ Saved' = Saved /\ replies' = replies /\ Latest' = Latest
    BY SameServer DEF ApproveConflicts
  <1>3. PICK back : back = calls["approve"].operations \o pendingOperations
    OBVIOUS
  <1>4. back \in Seq(1..made)
    BY <1>3, PutBack
  <1>5. pendingOperations' = back /\ Becomes("approve", "capturing", back, 0)
    BY <1>3 DEF ApproveConflicts
  <1>6. /\ calls'["approve"].at = "capturing" /\ calls'["approve"].operations = back /\ OthersStay("approve")
    BY <1>4, <1>5, CaptureCall
  <1>7. ~(Busy("save")')
    BY <1>1, <1>6, AllIdle DEF OthersStay, Busy, Calls
  <1>8. ~left => Sorted(back) /\ New(back)
    BY <1>1, <1>3, Approving, PutBackOrdered DEF Ordered, ApproveSorted, PendingSorted
  <1>9. PendingSorted'
    BY <1>1, <1>2, <1>5, <1>8 DEF PendingSorted, New
  <1>10. SaveSorted' /\ ApproveSorted'
    BY <1>1, <1>2, <1>6, <1>7, <1>8 DEF SaveSorted, ApproveSorted, New
  <1>11. ReviewSorted'
    BY <1>1 DEF ReviewSorted
  <1> QED
    BY <1>2, <1>9, <1>10, <1>11 DEF Ordered

LEMMA ApproveFailsOrdered ==
    ASSUME Well, Ordered, ApproveFails
    PROVE  Ordered'
  <1>1. calls'["approve"] = Idle /\ OthersStay("approve")
    BY EndCall DEF ApproveFails, Calls
  <1> QED
    BY <1>1, FrameOrdered DEF ApproveFails, OthersStay, Calls, canvasVars, keptVars

LEMMA RestoreCommittedOrdered ==
    ASSUME Well, Holding, Ordered, RestoreCommitted
    PROVE  Ordered'
  <1>1. calls'["restore"] = Idle /\ OthersStay("restore") /\ Busy("restore")
    BY EndCall DEF RestoreCommitted, Calls, Busy
  <1>2. ~(Busy("save")') /\ ~(Busy("approve")')
    BY <1>1 DEF Holding, OneCommitter, Committers, OthersStay, Busy, Calls
  <1> QED
    BY <1>2, ShownOrdered DEF RestoreCommitted, keptVars

LEMMA RestoreFailsOrdered ==
    ASSUME Well, Ordered, RestoreFails
    PROVE  Ordered'
  <1>1. calls'["restore"] = Idle /\ OthersStay("restore")
    BY EndCall DEF RestoreFails, Calls
  <1> QED
    BY <1>1, FrameOrdered DEF RestoreFails, OthersStay, Calls, canvasVars, keptVars

LEMMA LatestLoadedOrdered ==
    ASSUME Well, Holding, Ordered, NEW v \in Versions, LatestLoaded(v)
    PROVE  Ordered'
  <1>1. calls'["latest"] = Idle /\ OthersStay("latest") /\ Busy("latest")
    BY EndCall DEF LatestLoaded, Calls, Busy
  <1>2. ~(Busy("save")') /\ ~(Busy("approve")')
    BY <1>1 DEF Holding, Undisturbed, OthersStay, Busy, Calls
  <1> QED
    BY <1>2, ShownOrdered DEF LatestLoaded

LEMMA RecoveryDiscardedOrdered ==
    ASSUME Well, Holding, Ordered, NEW v \in Versions, RecoveryDiscarded(v)
    PROVE  Ordered'
  <1>1. calls'["discard"] = Idle /\ OthersStay("discard") /\ Busy("discard")
    BY EndCall DEF RecoveryDiscarded, Calls, Busy
  <1>2. ~(Busy("save")') /\ ~(Busy("approve")')
    BY <1>1 DEF Holding, Undisturbed, OthersStay, Busy, Calls
  <1> QED
    BY <1>2, ShownOrdered DEF RecoveryDiscarded

LEMMA ReadFailsOrdered ==
    ASSUME Well, Ordered, ReadFails
    PROVE  Ordered'
  <1>1. PICK c \in {"latest", "discard"} : End(c)
    BY DEF ReadFails
  <1>2. calls'[c] = Idle /\ OthersStay(c)
    BY <1>1, EndCall DEF Calls
  <1> QED
    BY <1>2, FrameOrdered DEF ReadFails, OthersStay, Calls, canvasVars, keptVars

LEMMA EditOrdered ==
    ASSUME Well, Holding, Ordered, Edit
    PROVE  Ordered'
  <1>1. /\ ~left /\ left' = left /\ made \in Nat /\ UNCHANGED <<archiveReview, calls, baseVersion>>
        /\ pendingOperations' = Append(pendingOperations, made + 1)
    BY Numbers DEF Edit, Shown, keptVars
  <1>2. RevisionsSorted' /\ Saved' = Saved /\ replies' = replies /\ Latest' = Latest
    BY SameServer DEF Edit
  <1>3. pendingOperations \in Seq(1..made) /\ Elements(pendingOperations) \subseteq 1..made
    BY ElementsIn DEF Well, CanvasWell
  <1>4. pendingOperations \in Seq(Nat) /\ pendingOperations \in Seq(1..made + 1)
    <2>1. 1..made \subseteq Nat /\ 1..made \subseteq 1..made + 1
      BY <1>1
    <2> QED
      BY <1>3, <2>1, SeqMonotonic
  <1>5. Elements(pendingOperations') = Elements(pendingOperations) \cup {made + 1}
    BY <1>1, <1>4, ElementsAppend
  <1>6. Sorted(pendingOperations')
    <2>1. Sorted(pendingOperations) /\ \A a \in Elements(pendingOperations) : a < made + 1
      BY <1>1, <1>3 DEF Ordered, PendingSorted
    <2>2. made + 1 \in Nat
      BY <1>1
    <2> QED
      BY <1>1, <1>4, <2>1, <2>2, SortedAppend
  <1>7. \A A \in SUBSET (0..made) : Precede(A, Elements(pendingOperations)) => Precede(A, Elements(pendingOperations'))
    BY <1>1, <1>5 DEF Precede
  <1>8. Saved \in SUBSET (0..made)
    BY SavedIsAllOf, AllOfIn DEF Well, ServerWell
  <1>9. PendingSorted'
    BY <1>1, <1>2, <1>6, <1>7, <1>8 DEF Ordered, PendingSorted, New
  <1>10. \A ops \in Seq(1..made) : Follow(ops) => Precede(Saved, Elements(pendingOperations'))
                                                  /\ Precede(Elements(ops), Elements(pendingOperations'))
    <2> TAKE ops \in Seq(1..made)
    <2>1. Elements(ops) \in SUBSET (0..made)
      <3>1. Elements(ops) \subseteq 1..made
        BY ElementsIn
      <3> QED
        BY <1>1, <3>1
    <2> QED
      BY <1>7, <1>8, <2>1 DEF Follow, New
  <1>11. SaveSorted'
    <2>1. calls["save"].operations \in Seq(1..made)
      BY CallRow DEF Calls
    <2> QED
      BY <1>1, <1>2, <1>10, <2>1 DEF Ordered, SaveSorted, New, Follow, Busy, WantsPreview, IsDestructive
  <1>12. ReviewSorted'
    <2>1. archiveReview.operations \in Seq(1..made)
      BY DEF Well, KeptWell, Protections
    <2> QED
      BY <1>1, <1>2, <1>10, <2>1 DEF Ordered, ReviewSorted, New, Follow
  <1>13. ApproveSorted'
    BY <1>1, <1>2 DEF Ordered, ApproveSorted, New, Busy
  <1> QED
    BY <1>2, <1>9, <1>11, <1>12, <1>13 DEF Ordered

\* The key a save is sent with: that of the last undecided save, or the next one.
LEMMA SaveKey ==
    ASSUME Well, Save
    PROVE  \E key \in 1..MaxKeys :
              /\ Start("save", baseVersion, pendingOperations, key, 0)
              /\ IsDestructive(pendingOperations) => key = nextKey
  <1> DEFINE again == ~IsDestructive(pendingOperations) /\ SameAttempt(baseVersion, pendingOperations)
  <1>1. PICK key : key = IF again THEN attempt.key ELSE nextKey
    OBVIOUS
  <1>2. key <= MaxKeys /\ Start("save", baseVersion, pendingOperations, key, 0)
    BY <1>1 DEF Save
  <1>3. /\ again => key \in 0..MaxKeys /\ key # 0
        /\ ~again => key \in 1..MaxKeys + 1
    BY <1>1 DEF SameAttempt, Well, KeptWell, Protections
  <1>4. key \in 1..MaxKeys
    BY <1>2, <1>3, Numbers
  <1>5. IsDestructive(pendingOperations) => key = nextKey
    BY <1>1
  <1> QED
    BY <1>2, <1>4, <1>5

LEMMA NextKeyNew ==
    ASSUME Well, KeysWell, nextKey \in 1..MaxKeys
    PROVE  replies[nextKey] = 0
  <1>1. replies[nextKey] # 0 => nextKey < nextKey
    BY DEF KeysWell
  <1>2. nextKey \in Nat
    BY Numbers
  <1> QED
    BY <1>1, <1>2

LEMMA SaveOrdered ==
    ASSUME Well, KeysWell, ~crossed', Holding, Ordered, Save
    PROVE  Ordered'
  <1> "save" \in Calls
    BY DEF Calls
  <1>1. /\ ~left /\ left' = left /\ archiveReview' = None /\ pendingOperations' = <<>>
        /\ baseVersion' = baseVersion
    BY DEF Save, Shown, keptVars
  <1>2. RevisionsSorted' /\ Saved' = Saved /\ replies' = replies /\ Latest' = Latest
    BY SameServer DEF Save
  <1>3. PICK key \in 1..MaxKeys :
            /\ Start("save", baseVersion, pendingOperations, key, 0)
            /\ IsDestructive(pendingOperations) => key = nextKey
    BY SaveKey DEF Save
  <1>4. /\ calls'["save"] = [at |-> "sent", base |-> baseVersion, operations |-> pendingOperations,
                             key |-> key, version |-> 0]
        /\ OthersStay("save")
    BY <1>3 DEF Start, OthersStay, Well, CallsWell
  <1>5. ~(Busy("approve")')
    BY <1>4, CrossesNot DEF Save, OthersStay, Busy, Calls
  <1>6. IsDestructive(pendingOperations) => replies[key] = 0
    BY <1>3, NextKeyNew
  <1>7. /\ Sorted(pendingOperations) /\ (Latest = baseVersion => New(pendingOperations))
    BY <1>1 DEF Ordered, PendingSorted
  <1>8. PendingSorted'
    BY <1>1, SortedEmpty, ElementsEmpty, PrecedeNone DEF PendingSorted, New
  <1>9. SaveSorted'
    <2>1. /\ calls'["save"].at = "sent" /\ calls'["save"].base = baseVersion
          /\ calls'["save"].operations = pendingOperations /\ calls'["save"].key = key
      BY <1>4
    <2>2. Elements(pendingOperations') = {}
      BY <1>1, ElementsEmpty
    <2>3. Follow(calls["save"].operations)'
      BY <2>2, PrecedeNone DEF Follow, New
    <2>4. calls'["save"].base = Latest' => New(calls["save"].operations)'
      BY <1>2, <1>7, <2>1 DEF New
    <2>5. WantsPreview("save")' => replies'[calls'["save"].key] = 0
      BY <1>2, <1>6, <2>1 DEF WantsPreview, IsDestructive
    <2>6. Sorted(calls'["save"].operations) /\ baseVersion' = calls'["save"].base
      BY <1>1, <1>7, <2>1
    <2> QED
      BY <2>1, <2>3, <2>4, <2>5, <2>6 DEF SaveSorted
  <1>10. ApproveSorted' /\ ReviewSorted'
    BY <1>1, <1>5 DEF ApproveSorted, ReviewSorted
  <1> QED
    BY <1>2, <1>8, <1>9, <1>10 DEF Ordered

LEMMA ApproveReviewOrdered ==
    ASSUME Well, KeysWell, ~crossed', Holding, Ordered, ApproveReview
    PROVE  Ordered'
  <1> "approve" \in Calls
    BY DEF Calls
  <1>1. /\ ~left /\ left' = left /\ archiveReview # None
        /\ UNCHANGED <<archiveReview, pendingOperations, baseVersion>>
    BY DEF ApproveReview, Shown, keptVars, canvasVars
  <1>2. RevisionsSorted' /\ Saved' = Saved /\ replies' = replies /\ Latest' = Latest
    BY SameServer DEF ApproveReview
  <1>3. /\ calls'["approve"] = [at |-> "sent", base |-> archiveReview.base, operations |-> archiveReview.operations,
                                key |-> archiveReview.key, version |-> 0]
        /\ OthersStay("approve")
    BY DEF ApproveReview, Start, OthersStay, Well, CallsWell
  <1>4. ~(Busy("save")')
    BY <1>3, CrossesNot DEF ApproveReview, OthersStay, Busy, Calls
  <1>5. /\ Sorted(archiveReview.operations)
        /\ replies[archiveReview.key] # 0 \/ New(archiveReview.operations)
    BY <1>1 DEF Ordered, ReviewSorted
  <1>6. PendingSorted' /\ ReviewSorted'
    BY <1>1, <1>2 DEF Ordered, PendingSorted, ReviewSorted, New, Follow
  <1>7. SaveSorted' /\ ApproveSorted'
    BY <1>2, <1>3, <1>4, <1>5 DEF SaveSorted, ApproveSorted, New
  <1> QED
    BY <1>2, <1>6, <1>7 DEF Ordered

LEMMA DiscardReviewOrdered ==
    ASSUME Well, Ordered, DiscardReview
    PROVE  Ordered'
  <1>1. /\ left' = left /\ archiveReview' = None /\ UNCHANGED <<baseVersion, calls>>
        /\ pendingOperations' \in {pendingOperations, <<>>}
    BY DEF DiscardReview, Shown
  <1>2. RevisionsSorted' /\ Saved' = Saved /\ replies' = replies /\ Latest' = Latest
    BY SameServer DEF DiscardReview
  <1>3. PendingSorted' /\ ReviewSorted'
    BY <1>1, <1>2, SortedEmpty, ElementsEmpty, PrecedeNone DEF Ordered, PendingSorted, ReviewSorted, New
  <1>4. SaveSorted' /\ ApproveSorted'
    BY <1>1, <1>2, ElementsEmpty, PrecedeNone
       DEF Ordered, SaveSorted, ApproveSorted, New, Follow, Busy, WantsPreview, IsDestructive
  <1> QED
    BY <1>2, <1>3, <1>4 DEF Ordered

LEMMA ClearedOrdered ==
    ASSUME Well, Ordered, Leave \/ ArchivedElsewhere
    PROVE  Ordered'
  <1>1. left' /\ UNCHANGED calls
    BY Clearing DEF Cleared
  <1>2. RevisionsSorted' /\ Saved' = Saved /\ replies' = replies /\ Latest' = Latest
    BY Clearing, SameServer DEF Cleared
  <1>3. PendingSorted' /\ ReviewSorted'
    BY <1>1 DEF PendingSorted, ReviewSorted
  <1>4. SaveSorted' /\ ApproveSorted'
    BY <1>1, <1>2 DEF Ordered, SaveSorted, ApproveSorted, New, Busy, WantsPreview, IsDestructive
  <1> QED
    BY <1>2, <1>3, <1>4 DEF Ordered

LEMMA RestoreOrdered ==
    ASSUME Well, Ordered, NEW target \in Versions, Restore(target)
    PROVE  Ordered'
  <1>1. OthersStay("restore")
    BY DEF Restore, Start, OthersStay, Well, CallsWell
  <1> QED
    BY <1>1, FrameOrdered DEF Restore, OthersStay, Calls, canvasVars, keptVars

LEMMA RecoveryPanelOrdered ==
    ASSUME Well, Ordered, LoadLatest \/ DiscardRecovery
    PROVE  Ordered'
  <1>1. calls'["save"] = calls["save"] /\ calls'["approve"] = calls["approve"]
    BY DEF LoadLatest, DiscardRecovery, Start, Well, CallsWell, Calls
  <1> QED
    BY <1>1, FrameOrdered DEF LoadLatest, DiscardRecovery, canvasVars, keptVars

\* A revision is added: what was new to everything that is saved is so still, if
\* it comes after what the revision adds.
LEMMA LogOrdered ==
    ASSUME Well, Ordered, NEW s \in Seq(0..made), Sorted(s), revisions' = Append(revisions, s),
           Latest < MaxVersion, made' = made
    PROVE  RevisionsSorted' /\ Saved' = Saved \cup Elements(s) /\ Latest' = Latest + 1 /\ Latest \in Nat
  <1>1. /\ Latest' = Latest + 1 /\ revisions'[Latest + 1] = s /\ Latest \in Nat
        /\ \A v \in 1..Latest : revisions'[v] = revisions[v]
    BY LogAppend
  <1>2. \A v \in 1..Latest' : v \in 1..Latest \/ v = Latest + 1
    BY <1>1
  <1>3. RevisionsSorted'
    BY <1>1, <1>2 DEF Ordered, RevisionsSorted
  <1>4. revisions \in Seq(Seq(0..made))
    BY DEF Well, ServerWell
  <1>5. Saved' = AllOf(revisions')
    BY DEF Saved, AllOf, Latest
  <1>6. Saved' = Saved \cup Elements(s)
    BY <1>4, <1>5, AllOfAppend, SavedIsAllOf
  <1> QED
    BY <1>1, <1>3, <1>6

LEMMA OtherCommitsOrdered ==
    ASSUME Well, Ordered, OtherCommits
    PROVE  Ordered'
  <1>1. PICK s \in Seq(0..made) : s = Append(revisions[Latest], OtherEdit) /\ Sorted(s) /\ Elements(s) \subseteq Saved \cup {0}
    <2>1. /\ revisions[Latest] \in Seq(0..made) /\ OtherEdit = 0 /\ 0 \in 0..made /\ Latest \in 1..Latest
          /\ 0..made \in SUBSET Nat
      BY Contents, Numbers DEF OtherEdit
    <2>2. Sorted(revisions[Latest]) /\ Elements(revisions[Latest]) \subseteq Saved
      BY <2>1 DEF Ordered, RevisionsSorted, Saved
    <2>3. PICK e \in 0..made : e = OtherEdit /\ e = 0
      BY <2>1
    <2>4. PICK r \in Seq(0..made) : r = revisions[Latest]
      BY <2>1
    <2>5. Append(r, e) \in Seq(0..made)
      OBVIOUS
    <2>6. Elements(Append(r, e)) = Elements(r) \cup {e}
      <3>1. PICK S : S = 0..made
        OBVIOUS
      <3>2. r \in Seq(S) /\ e \in S
        BY <3>1
      <3> QED
        BY <3>2, ElementsAppend
    <2>7. Sorted(Append(r, e))
      BY <2>1, <2>2, <2>3, <2>4, SortedAppend
    <2> QED
      BY <2>2, <2>3, <2>4, <2>5, <2>6, <2>7
  <1>2. RevisionsSorted' /\ Saved' = Saved \cup Elements(s) /\ Latest' = Latest + 1 /\ Latest \in Nat
    BY <1>1, LogOrdered DEF OtherCommits, historyVars
  <1>3. Saved' \subseteq Saved \cup {0}
    BY <1>1, <1>2
  <1>4. /\ UNCHANGED <<replies, pendingOperations, baseVersion, left, archiveReview, calls>>
    BY DEF OtherCommits, canvasVars, statusVars, keptVars
  <1>5. \A t : New(t) => Precede(Saved', Elements(t))
    BY <1>3, PrecedeLess DEF New
  <1>6. baseVersion # Latest' /\ \A c \in Calls : calls[c].base # Latest'
    <2>1. baseVersion \in 0..Latest /\ \A c \in Calls : calls[c].base \in 0..Latest
      BY CallRow DEF Well, CanvasWell
    <2> QED
      BY <1>2, <2>1
  <1>7. PendingSorted'
    BY <1>4, <1>6 DEF Ordered, PendingSorted
  <1>8. SaveSorted'
    BY <1>4, <1>5, <1>6 DEF Ordered, SaveSorted, New, Follow, Busy, WantsPreview, IsDestructive, Calls
  <1>9. ReviewSorted'
    BY <1>4, <1>5 DEF Ordered, ReviewSorted, New, Follow
  <1>10. ApproveSorted'
    BY <1>4, <1>5 DEF Ordered, ApproveSorted, New, Busy
  <1> QED
    BY <1>2, <1>7, <1>8, <1>9, <1>10 DEF Ordered

\* An answer that changes nothing on the server, or no answer at all.
LEMMA AnswerOrdered ==
    ASSUME Well, Ordered, NEW c \in Calls, NEW at \in {"done", "conflict", "refused", "lost"}, NEW version,
           Answered(c, at, version), UNCHANGED serverVars,
           UNCHANGED <<pendingOperations, baseVersion, left, archiveReview>>,
           calls[c].at \in {"sent", "done", "conflict", "refused"},
           at = "conflict" => calls[c].at = "sent" /\ calls[c].base # Latest,
           at = "conflict" /\ c = "approve" => replies[calls[c].key] = 0,
           at = "done" /\ WantsPreview(c) => calls[c].base = Latest
    PROVE  Ordered'
  <1>1. RevisionsSorted' /\ Saved' = Saved /\ replies' = replies /\ Latest' = Latest
    BY SameServer
  <1>2. /\ calls'[c] = [at |-> at, base |-> calls[c].base, operations |-> calls[c].operations,
                        key |-> calls[c].key, version |-> version]
        /\ OthersStay(c)
    BY DEF Answered, Becomes, OthersStay, Well, CallsWell
  <1>3. PendingSorted' /\ ReviewSorted'
    BY <1>1 DEF Ordered, PendingSorted, ReviewSorted, New, Follow
  <1>4. SaveSorted'
    <2>1. CASE c = "save"
      BY <1>1, <1>2, <2>1 DEF Ordered, SaveSorted, New, Follow, Busy, WantsPreview, IsDestructive
    <2>2. CASE c # "save"
      <3>1. calls'["save"] = calls["save"]
        BY <1>2, <2>2 DEF OthersStay, Calls
      <3> QED
        BY <1>1, <3>1 DEF Ordered, SaveSorted, New, Follow, Busy, WantsPreview, IsDestructive
    <2> QED
      BY <2>1, <2>2
  <1>5. ApproveSorted'
    <2>1. CASE c = "approve"
      BY <1>1, <1>2, <2>1 DEF Ordered, ApproveSorted, New, Busy
    <2>2. CASE c # "approve"
      <3>1. calls'["approve"] = calls["approve"]
        BY <1>2, <2>2 DEF OthersStay, Calls
      <3> QED
        BY <1>1, <3>1 DEF Ordered, ApproveSorted, New, Busy
    <2> QED
      BY <2>1, <2>2
  <1> QED
    BY <1>1, <1>3, <1>4, <1>5 DEF Ordered

LEMMA LoseOrdered ==
    ASSUME Well, Ordered, NEW c \in Calls, Lose(c)
    PROVE  Ordered'
  BY AnswerOrdered DEF Lose, canvasVars, statusVars, keptVars

\* A request whose key is not known commits nothing that was saved before.
LEMMA CommitNew ==
    ASSUME Well, KeysWell, Ordered, NEW c \in {"save", "approve"}, calls[c].at = "sent",
           Known(calls[c].key) = 0, calls[c].base = Latest
    PROVE  /\ replies[calls[c].key] = 0 /\ New(calls[c].operations) /\ Sorted(calls[c].operations)
           /\ calls[c].key \in 1..MaxKeys
  <1>1. Claiming(c) /\ Busy(c) /\ c \in Calls
    BY DEF Claiming, Busy, Calls
  <1>2. Claim(c) \in Claims
    BY <1>1, SenderClaims
  <1>3. calls[c].key \in 1..MaxKeys
    BY <1>2, ClaimsGood DEF Claim
  <1>4. replies[calls[c].key] = 0
    BY <1>3, Numbers DEF Known
  <1> QED
    BY <1>1, <1>3, <1>4 DEF Ordered, SaveSorted, ApproveSorted

LEMMA CommitOrdered ==
    ASSUME Well, KeysWell, Holding, Ordered, NEW c \in {"save", "approve"}, Serve(c), Commit(c),
           ~WantsPreview(c), Known(calls[c].key) = 0, Answered(c, "done", Latest + 1)
    PROVE  Ordered'
  <1>0. /\ c \in Calls /\ calls[c].at = "sent" /\ Busy(c) /\ Claiming(c) /\ made' = made
        /\ UNCHANGED <<pendingOperations, baseVersion, left, archiveReview>>
        /\ calls[c].base = Latest /\ Latest < MaxVersion
    BY DEF Serve, Commit, Busy, Claiming, Calls, canvasVars, statusVars, keptVars, historyVars
  <1>1. /\ replies[calls[c].key] = 0 /\ New(calls[c].operations) /\ Sorted(calls[c].operations)
        /\ calls[c].key \in 1..MaxKeys
    BY <1>0, CommitNew
  <1>2. PICK ops \in Seq(1..made) : ops = calls[c].operations
    BY CallRow, <1>0
  <1>3. PICK s \in Seq(0..made) : s = revisions[Latest] \o ops /\ Sorted(s) /\ Elements(s) \subseteq Saved \cup Elements(ops)
    <2>1. revisions[Latest] \in Seq(0..made) /\ ops \in Seq(0..made) /\ Latest \in 1..Latest /\ 0..made \in SUBSET Nat
      BY <1>2, Contents, Numbers
    <2>2. Sorted(revisions[Latest]) /\ Elements(revisions[Latest]) \subseteq Saved
      BY <2>1 DEF Ordered, RevisionsSorted, Saved
    <2>3. Precede(Elements(revisions[Latest]), Elements(ops))
      BY <1>1, <1>2, <2>2, PrecedeLess DEF New
    <2>4. Sorted(revisions[Latest] \o ops)
      BY <1>1, <1>2, <2>1, <2>2, <2>3, SortedConcat
    <2>5. Elements(revisions[Latest] \o ops) = Elements(revisions[Latest]) \cup Elements(ops)
      BY <2>1, ElementsConcat
    <2> QED
      BY <2>1, <2>2, <2>4, <2>5, ConcatProperties
  <1>4. revisions' = Append(revisions, s) /\ Remember(calls[c].key, Latest + 1)
    BY <1>0, <1>2, <1>3 DEF Commit, Content
  <1>5. RevisionsSorted' /\ Saved' = Saved \cup Elements(s) /\ Latest' = Latest + 1 /\ Latest \in Nat
    BY <1>0, <1>3, <1>4, LogOrdered
  <1>6. Saved' \subseteq Saved \cup Elements(ops)
    BY <1>3, <1>5
  <1>7. /\ calls'[c] = [at |-> "done", base |-> calls[c].base, operations |-> ops,
                        key |-> calls[c].key, version |-> Latest + 1]
        /\ OthersStay(c)
    BY <1>0, <1>2 DEF Answered, Becomes, OthersStay, Well, CallsWell
  <1>8. \A d \in Calls \ {c} : ~(Busy(d)')
    BY <1>0, <1>7, AllIdle DEF OthersStay, Busy
  <1>9. baseVersion # Latest' /\ calls[c].base # Latest'
    <2>1. baseVersion \in 0..Latest
      BY DEF Well, CanvasWell
    <2> QED
      BY <1>0, <1>5, <2>1
  <1>10. PendingSorted'
    BY <1>0, <1>9 DEF Ordered, PendingSorted
  <1>11. replies'[calls[c].key] # 0
    <2>1. replies \in [1..MaxKeys -> 0..Latest] /\ calls[c].key # 0
      BY <1>1, Numbers DEF Well, ServerWell
    <2> QED
      BY <1>1, <1>4, <1>5, <2>1 DEF Remember
  <1>12. Follow(ops) => /\ Precede(Saved', Elements(pendingOperations))
                        /\ Precede(Elements(ops), Elements(pendingOperations))
    <2>1. Follow(ops) => Precede(Saved \cup Elements(ops), Elements(pendingOperations))
      BY PrecedeBoth DEF Follow, New
    <2> QED
      BY <1>6, <2>1, PrecedeLess DEF Follow
  <1>13. CASE c = "save"
    <2>1. ~left => archiveReview = None /\ Follow(ops) /\ baseVersion = calls["save"].base
      BY <1>0, <1>2, <1>13 DEF Holding, ReviewHolds, Ordered, SaveSorted
    <2>2. SaveSorted'
      BY <1>0, <1>1, <1>2, <1>7, <1>9, <1>12, <1>13, <2>1
         DEF SaveSorted, New, Follow, WantsPreview, IsDestructive
    <2>3. ReviewSorted' /\ ApproveSorted'
      BY <1>0, <1>8, <1>13, <2>1 DEF ReviewSorted, ApproveSorted, Calls
    <2> QED
      BY <1>5, <1>10, <2>2, <2>3 DEF Ordered
  <1>14. CASE c = "approve"
    <2>1. ~left => /\ Sorted(ops) /\ Follow(ops) /\ archiveReview.key = calls[c].key
                   /\ archiveReview.operations = ops
      BY <1>0, <1>2, <1>14, Approving
    <2>2. ReviewSorted'
      BY <1>0, <1>11, <1>12, <2>1 DEF ReviewSorted, New, Follow
    <2>3. SaveSorted' /\ ApproveSorted'
      BY <1>1, <1>2, <1>7, <1>8, <1>14 DEF SaveSorted, ApproveSorted, Calls
    <2> QED
      BY <1>5, <1>10, <2>2, <2>3 DEF Ordered
  <1> QED
    BY <1>13, <1>14

\* An older version is restored as a revision that adds nothing.
LEMMA RestoreCommitOrdered ==
    ASSUME Well, KeysWell, Holding, Ordered, Serve("restore"), Commit("restore"),
           Answered("restore", "done", Latest + 1)
    PROVE  Ordered'
  <1>0. /\ "restore" \in Calls /\ calls["restore"].at = "sent" /\ Busy("restore") /\ made' = made
        /\ UNCHANGED <<pendingOperations, baseVersion, left, archiveReview>> /\ Latest < MaxVersion
    BY DEF Serve, Commit, Busy, Calls, canvasVars, statusVars, keptVars, historyVars
  <1>1. calls["restore"].version \in 1..Latest /\ calls["restore"].key = 0
    <2>1. /\ calls["restore"].version \in 0..Latest /\ calls["restore"].version # 0
          /\ calls["restore"].key = 0
      BY <1>0, CallRow DEF Fits
    <2> QED
      BY <2>1, Numbers
  <1>2. PICK s \in Seq(0..made) : s = revisions[calls["restore"].version] /\ Sorted(s) /\ Elements(s) \subseteq Saved
    BY <1>1, Contents DEF Ordered, RevisionsSorted, Saved
  <1>3. revisions' = Append(revisions, s) /\ replies' = replies
    BY <1>1, <1>2 DEF Commit, Content, Remember
  <1>4. RevisionsSorted' /\ Saved' = Saved \cup Elements(s) /\ Latest' = Latest + 1 /\ Latest \in Nat
    BY <1>0, <1>2, <1>3, LogOrdered
  <1>5. Saved' = Saved
    BY <1>2, <1>4
  <1>6. ~(Busy("save")') /\ ~(Busy("approve")')
    <2>1. OthersStay("restore")
      BY DEF Answered, Becomes, OthersStay, Well, CallsWell
    <2> QED
      BY <1>0, <2>1 DEF Holding, OneCommitter, Committers, OthersStay, Busy, Calls
  <1>7. baseVersion # Latest'
    <2>1. baseVersion \in 0..Latest
      BY DEF Well, CanvasWell
    <2> QED
      BY <1>4, <2>1
  <1>8. PendingSorted'
    BY <1>0, <1>7 DEF Ordered, PendingSorted
  <1>9. ReviewSorted'
    BY <1>0, <1>3, <1>5 DEF Ordered, ReviewSorted, New, Follow
  <1>10. SaveSorted' /\ ApproveSorted'
    BY <1>6 DEF SaveSorted, ApproveSorted
  <1> QED
    BY <1>4, <1>8, <1>9, <1>10 DEF Ordered

LEMMA ServeOrdered ==
    ASSUME Well, KeysWell, Holding, Ordered, NEW c \in Calls, Serve(c)
    PROVE  Ordered'
  <1>0. /\ c \in {"save", "approve", "restore"} /\ calls[c].at = "sent"
        /\ UNCHANGED <<pendingOperations, baseVersion, left, archiveReview>>
    BY DEF Serve, Calls, canvasVars, statusVars, keptVars
  <1>1. CASE Known(calls[c].key) # 0 /\ Answered(c, "done", Known(calls[c].key)) /\ UNCHANGED serverVars
    <2>1. ~WantsPreview(c)
      <3>1. calls[c].key \in 0..MaxKeys /\ calls[c].key # 0 /\ replies[calls[c].key] # 0
        BY <1>1, CallRow DEF Known
      <3> QED
        BY <1>0, <3>1 DEF WantsPreview, Ordered, SaveSorted, Busy
    <2> QED
      BY <1>0, <1>1, <2>1, AnswerOrdered
  <1>2. CASE Known(calls[c].key) = 0 /\ ~WantsPreview(c) /\ Commit(c) /\ Answered(c, "done", Latest + 1)
    BY <1>0, <1>2, CommitOrdered, RestoreCommitOrdered
  <1>3. CASE WantsPreview(c) /\ calls[c].base = Latest /\ Answered(c, "done", Latest) /\ UNCHANGED serverVars
    BY <1>0, <1>3, AnswerOrdered
  <1>4. CASE Known(calls[c].key) = 0 /\ calls[c].base # Latest /\ Answered(c, "conflict", 0) /\ UNCHANGED serverVars
    <2>1. c = "approve" => replies[calls[c].key] = 0
      <3>1. c = "approve" => Claim(c) \in Claims
        BY <1>0, SenderClaims DEF Claiming
      <3>2. c = "approve" => calls[c].key \in 1..MaxKeys
        BY <3>1, ClaimsGood DEF Claim
      <3> QED
        BY <1>4, <3>2, Numbers DEF Known
    <2> QED
      BY <1>0, <1>4, <2>1, AnswerOrdered
  <1>5. CASE Answered(c, "refused", 0) /\ UNCHANGED serverVars
    BY <1>0, <1>5, AnswerOrdered
  <1> QED
    BY <1>1, <1>2, <1>3, <1>4, <1>5 DEF Serve

LEMMA RefreshedOrdered ==
    ASSUME Well, Holding, Ordered, ~overtaken', NEW from \in refreshes, NEW v \in Versions, Refreshed(from, v)
    PROVE  Ordered'
  <1>1. /\ UNCHANGED <<left, archiveReview, pendingOperations, calls>> /\ UNCHANGED serverVars
    BY DEF Refreshed, statusVars, keptVars
  <1>2. CASE ~Open
    BY <1>1, <1>2, FrameOrdered DEF Refreshed
  <1>3. CASE Open
    <2>1. pendingOperations = <<>> /\ ~Busy("save")
      BY <1>3 DEF Refreshed
    <2>2. RevisionsSorted' /\ Saved' = Saved /\ replies' = replies /\ Latest' = Latest
      BY <1>1, SameServer
    <2>3. PendingSorted'
      BY <1>1, <2>1, SortedEmpty, ElementsEmpty, PrecedeNone DEF PendingSorted, New
    <2>4. SaveSorted' /\ ApproveSorted'
      BY <1>1, <2>1, <2>2 DEF Ordered, SaveSorted, ApproveSorted, New, Busy
    <2>5. ReviewSorted'
      BY <1>1, <2>2 DEF Ordered, ReviewSorted, New, Follow
    <2> QED
      BY <2>2, <2>3, <2>4, <2>5 DEF Ordered
  <1> QED
    BY <1>2, <1>3

LEMMA StepOrdered ==
    ASSUME Well, KeysWell, ~crossed', ~overtaken', Holding, Ordered, [StoreNext]_storeVars
    PROVE  Ordered'
  <1>1. CASE UNCHANGED storeVars
    BY <1>1, FrameOrdered DEF storeVars, canvasVars, statusVars, keptVars
  <1>2. CASE Answer
    BY <1>2, SaveCommittedOrdered, SavePreviewedOrdered, SaveConflictsOrdered, SaveFailsOrdered,
       ApproveCommittedOrdered, ApproveConflictsOrdered, ApproveFailsOrdered, RestoreCommittedOrdered,
       RestoreFailsOrdered, CapturedOrdered, LatestLoadedOrdered, RecoveryDiscardedOrdered, ReadFailsOrdered
       DEF Answer
  <1>3. CASE User
    BY <1>3, EditOrdered, SaveOrdered, ApproveReviewOrdered, DiscardReviewOrdered, ClearedOrdered, RestoreOrdered,
       RecoveryPanelOrdered DEF User
  <1>4. CASE Refresh \/ \E from \in refreshes : RefreshFails(from)
    BY <1>4, FrameOrdered DEF Refresh, RefreshFails, canvasVars, statusVars, keptVars
  <1>5. CASE Network
    BY <1>4, <1>5, OtherCommitsOrdered, ClearedOrdered, ServeOrdered, LoseOrdered, RefreshedOrdered DEF Network
  <1> QED
    BY <1>1, <1>2, <1>3, <1>5 DEF StoreNext

-----------------------------------------------------------------------------
(* Theorems.                                                               *)

LEMMA StoreInitInv ==
    ASSUME StoreInit
    PROVE  StoreInv
  <1>1. Well /\ KeysWell
    BY InitWell
  <1>2. /\ \A c \in Calls : calls[c] = Idle /\ ~Busy(c) /\ ~Claiming(c)
        /\ made = 0 /\ archiveReview = None /\ conflictRecovery = None /\ stored = None /\ ~left
        /\ pendingOperations = <<>> /\ stored.operations = <<>>
    BY DEF StoreInit, Busy, Claiming, Idle, None
  <1>3. Holding
    BY <1>2, ElementsEmpty DEF Holding, OneCommitter, Undisturbed, DiscardHolds, LeftBehind, ReviewHolds,
       RecoveryHolds, RestoreHolds, Noticed, Committers, Calls, Idle
  <1>4. EditsKept
    BY <1>2 DEF EditsKept
  <1>5. RevisionsSorted
    <2>1. revisions = <<<<>>>> /\ Latest = 1
      BY DEF StoreInit, Latest
    <2>2. \A v \in 1..1 : v = 1
      OBVIOUS
    <2>3. \A v \in 1..Latest : revisions[v] = <<>>
      BY <2>1, <2>2
    <2> QED
      BY <2>3, SortedEmpty DEF RevisionsSorted
  <1>6. PendingSorted /\ SaveSorted /\ ReviewSorted /\ ApproveSorted
    BY <1>2, SortedEmpty, ElementsEmpty, PrecedeNone
       DEF PendingSorted, SaveSorted, ReviewSorted, ApproveSorted, New, Calls
  <1> QED
    BY <1>1, <1>3, <1>4, <1>5, <1>6 DEF StoreInv, Ordered

LEMMA StoreStepInv ==
    ASSUME StoreInv, [StoreNext]_storeVars
    PROVE  StoreInv'
  <1>1. Well /\ KeysWell /\ Well' /\ KeysWell'
    BY StoreStepWell DEF StoreInv
  <1>2. (crossed => crossed') /\ (overtaken => overtaken')
    BY <1>1, HistoryStays
  <1>3. crossed' \/ (Holding' /\ EditsKept')
    <2> SUFFICES ASSUME ~crossed' PROVE Holding' /\ EditsKept'
      OBVIOUS
    <2>1. ~crossed /\ Holding /\ EditsKept
      BY <1>2 DEF StoreInv
    <2> QED
      BY <1>1, <2>1, StepHolds
  <1>4. crossed' \/ overtaken' \/ Ordered'
    <2> SUFFICES ASSUME ~crossed', ~overtaken' PROVE Ordered'
      OBVIOUS
    <2>1. Holding /\ Ordered
      BY <1>2 DEF StoreInv
    <2> QED
      BY <1>1, <2>1, StepOrdered
  <1> QED
    BY <1>1, <1>3, <1>4 DEF StoreInv

\* The edits of the store are kept, in their order, and under one key each, until
\* a step is started in the middle of another (designer-store.ts:788-1442).
THEOREM StoreInvariant == StoreSpec => []StoreInv
  <1>1. StoreInit => StoreInv
    BY StoreInitInv
  <1>2. StoreInv /\ [StoreNext]_storeVars => StoreInv'
    BY StoreStepInv
  <1> QED
    BY <1>1, <1>2, PTL DEF StoreSpec

\* Every variable of the store keeps its type, and the canvas is based on a
\* version there is.
THEOREM StoreTypeCorrect == StoreSpec => []StoreTypeOK
  <1>1. StoreInv => StoreTypeOK
    BY WellTypes DEF StoreInv
  <1> QED
    BY <1>1, StoreInvariant, PTL

\* Where nothing shows as unsaved, nothing is held but what is saved.
LEMMA NothingHeld ==
    ASSUME Well, Holding, ~left, ~HasUnsavedChanges
    PROVE  Held = {}
  <1>1. /\ ~saving /\ pendingOperations = <<>> /\ archiveReview = None /\ conflictRecovery = None
        /\ Elements(pendingOperations) = {} /\ Elements(None.operations) = {}
    BY NoneTyped, ElementsEmpty DEF HasUnsavedChanges
  <1>2. Elements(stored.operations) = {}
    BY <1>1 DEF Holding, RecoveryHolds
  <1>3. \A c \in {"save", "approve"} : Elements(calls[c].operations) = {}
    <2> TAKE c \in {"save", "approve"}
    <2>1. CASE Busy(c)
      BY <1>1, <2>1 DEF Holding, Noticed
    <2>2. CASE ~Busy(c)
      BY <2>2, CallRow, NoneTyped, ElementsEmpty DEF Calls
    <2> QED
      BY <2>1, <2>2
  <1>4. Elements(calls["restore"].operations) = {}
    BY ElementsEmpty DEF Holding, RestoreHolds
  <1>5. \A c \in {"latest", "discard"} : Elements(calls[c].operations) = {}
    <2> TAKE c \in {"latest", "discard"}
    <2>0. c \in Calls
      BY DEF Calls
    <2>1. (Busy(c) => calls[c].base # 0) /\ (~Busy(c) => calls[c] = Idle)
      BY <2>0, CallRow
    <2>2. Busy(c) => conflictRecovery = Recovery(c)
      BY DEF Holding, RecoveryHolds
    <2>3. Recovery(c).base = calls[c].base /\ None.base = 0
      BY DEF Recovery, None
    <2>4. calls[c] = Idle
      BY <1>1, <2>1, <2>2, <2>3
    <2> QED
      BY <2>4, NoneTyped, ElementsEmpty
  <1>6. Elements(archiveReview.operations) = {} /\ Elements(conflictRecovery.operations) = {}
    BY <1>1
  <1> QED
    BY <1>1, <1>2, <1>3, <1>4, <1>5, <1>6 DEF Held, Calls

LEMMA InvSafe ==
    ASSUME StoreInv
    PROVE  EditsKept /\ UnsavedKnown /\ AppliedOnce
  <1>1. EditsKept
    BY DEF StoreInv, EditsKept
  <1>2. AppliedOnce
    <2> SUFFICES ASSUME ~crossed, ~overtaken, NEW v \in 1..Latest, NEW i \in 1..Len(revisions[v]),
                        NEW j \in 1..Len(revisions[v]), revisions[v][i] = revisions[v][j],
                        revisions[v][i] # OtherEdit
                 PROVE  i = j
      BY DEF AppliedOnce
    <2>1. Sorted(revisions[v])
      BY DEF StoreInv, Ordered, RevisionsSorted
    <2>2. revisions[v] \in Seq(Nat)
      <3>1. revisions[v] \in Seq(0..made)
        BY Contents DEF StoreInv
      <3>2. 0..made \subseteq Nat
        BY Numbers DEF StoreInv
      <3> QED
        BY ONLY <3>1, <3>2, SeqMonotonic
    <2> QED
      BY <2>1, <2>2, SortedOnce DEF OtherEdit
  <1>3. UnsavedKnown
    BY <1>1, NothingHeld DEF StoreInv, UnsavedKnown, EditsKept
  <1> QED
    BY <1>1, <1>2, <1>3

\* Nothing but the user ends what a recovery protects: whatever else could has
\* not been started, or is the read the recovery was handed to.
LEMMA StepKeepsRecovery ==
    ASSUME StoreInv, StoreNext
    PROVE  RecoveryKept
  <1> SUFFICES ASSUME ~crossed, conflictRecovery # None, conflictRecovery' # conflictRecovery
               PROVE  Leave \/ ArchivedElsewhere \/ DiscardRecovery \/ \E v \in Versions : RecoveryDiscarded(v)
    BY DEF RecoveryKept
  <1>1. Well /\ Holding
    BY DEF StoreInv
  <1>2. ~Busy("save") /\ ~Busy("approve")
    BY <1>1 DEF Holding, Undisturbed
  <1>3. CASE Answer
    <2>1. ~SaveCommitted /\ ~SavePreviewed /\ ~SaveConflicts /\ ~SaveFails /\ ~ApproveCommitted
          /\ ~ApproveConflicts /\ ~ApproveFails /\ \A c \in {"save", "approve"} : ~Captured(c)
      BY <1>2 DEF SaveCommitted, SavePreviewed, SaveConflicts, SaveFails, ApproveCommitted, ApproveConflicts,
         ApproveFails, Captured, Busy
    <2>2. ~RestoreCommitted /\ ~RestoreFails /\ ~ReadFails
      BY DEF RestoreCommitted, RestoreFails, ReadFails, keptVars
    <2>3. \A v \in Versions : ~LatestLoaded(v)
      <3> SUFFICES ASSUME NEW v \in Versions, LatestLoaded(v) PROVE FALSE
        OBVIOUS
      <3>1. Busy("latest") /\ conflictRecovery' = Recovery("latest")
        BY DEF LatestLoaded, Busy, Recovery
      <3> QED
        BY <1>1, <3>1 DEF Holding, LeftBehind, RecoveryHolds
    <2> QED
      BY <1>3, <2>1, <2>2, <2>3 DEF Answer
  <1>4. CASE User
    BY <1>4 DEF User, Edit, Save, ApproveReview, DiscardReview, LoadLatest, Restore, keptVars
  <1>5. CASE Network
    BY <1>5 DEF Network, OtherCommits, Serve, Lose, Refresh, Refreshed, RefreshFails, keptVars
  <1> QED
    BY <1>3, <1>4, <1>5 DEF StoreNext

\* No edit is lost but where WritesOver says so, none is unsaved without the store
\* telling it, none is applied twice, and no late answer replaces or clears what a
\* recovery protects: through conflicts, errors, lost answers, saves tried again,
\* discarded reviews, an archival and reads that come late
\* (designer-store.ts:123-134, 788-1442).
THEOREM StoreEditsSafe == StoreSpec => EditsSafe
  <1>1. StoreInv => EditsKept /\ UnsavedKnown /\ AppliedOnce
    BY InvSafe
  <1>2. StoreInv /\ [StoreNext]_storeVars => [RecoveryKept]_storeVars
    BY StepKeepsRecovery
  <1> QED
    BY <1>1, <1>2, StoreInvariant, PTL DEF StoreSpec, EditsSafe

\* Gestures on the canvas and their undo leave the requests of the store alone
\* (designer-store.ts:506-786): every behaviour of the editor is one of the store.
THEOREM EditorRunsStore == EditorSpec => StoreSpec
  <1>1. EditorInit => StoreInit
    BY DEF EditorInit
  <1>2. [EditorNext]_<<storeVars, gestureVars>> => [StoreNext]_storeVars
    BY DEF EditorNext, GestureNext
  <1> QED
    BY <1>1, <1>2, PTL DEF EditorSpec, StoreSpec

\* The edits are as safe in the whole editor, whatever the gestures on the canvas.
THEOREM EditorEditsSafe == EditorSpec => EditsSafe
  BY EditorRunsStore, StoreEditsSafe
=============================================================================
