--------------------------- MODULE RenderQueue_proofs ---------------------------
(***************************************************************************)
(* Proofs of the safety of RenderQueue, for any number of jobs, processes,  *)
(* slots, waiters, connections and crashes.                                 *)
(***************************************************************************)
EXTENDS RenderQueue, TLAPS, FiniteSetTheorems, SequenceTheorems

USE RenderQueueAssumption

RowType == [status : {"none", "queued", "running", "succeeded", "failed"},
            owner : Hosts, fresh : BOOLEAN]

Places == {"none", "waiting", "woken", "active", "refused", "over"}

\* The jobs that functions T and H put in one of these places at host h.
At(H, T, h, places) == {i \in Jobs : H[i] = h /\ T[i] \in places}

\* NoSlotLost at host h, of a counter a and a queue q.
Slots(H, T, h, a, q) ==
    /\ a = Cardinality(At(H, T, h, {"active", "refused"}))
    /\ ToSet(q) = At(H, T, h, {"waiting"}) /\ IsInjective(q)
    /\ q # <<>> => a + Cardinality(At(H, T, h, {"woken"})) >= Concurrency

Hosting == [i \in Jobs |-> Host(i)]

\* A counter after a release.
Less(a) == a - 1

\* A job nobody asked for is nowhere yet.
NotAsked == \A j \in Jobs : call[j] = "none" => task[j] = "none"

\* The row of a call under way is open, or was failed by who found its lease
\* run out.
RowsTell == \A j \in Jobs : Pending(j) => row[j].status \in {"queued", "running", "failed"}

\* The inductive invariant.  The type of the counters needs NoSlotLost: a release
\* takes one away.
IInv == TypeOK /\ NotAsked /\ NoSlotLost /\ RowsTell /\ AnsweredAsRecorded

-----------------------------------------------------------------------------
(* Queues and sets.                                                        *)

LEMMA Queued ==
    ASSUME NEW s \in Seq(Jobs), IsInjective(s), NEW j \in Jobs, j \notin ToSet(s)
    PROVE  /\ Append(s, j) \in Seq(Jobs)
           /\ ToSet(Append(s, j)) = ToSet(s) \cup {j}
           /\ IsInjective(Append(s, j))
  <1> DEFINE n == Len(s)
             t == Append(s, j)
  <1>1. n \in Nat /\ DOMAIN s = 1 .. n
    OBVIOUS
  <1>2. /\ t \in Seq(Jobs) /\ DOMAIN t = 1 .. (n + 1)
        /\ \A i \in 1 .. n : t[i] = s[i]
        /\ t[n + 1] = j
    BY AppendProperties
  <1> HIDE DEF n, t
  <1>3. ToSet(t) = ToSet(s) \cup {j}
    <2>1. \A i \in DOMAIN t : t[i] \in ToSet(s) \cup {j}
      BY <1>1, <1>2 DEF ToSet
    <2>2. \A i \in DOMAIN s : s[i] \in ToSet(t)
      BY <1>1, <1>2 DEF ToSet
    <2>3. j \in ToSet(t)
      BY <1>1, <1>2 DEF ToSet
    <2> QED
      BY <2>1, <2>2, <2>3 DEF ToSet
  <1>4. IsInjective(t)
    <2> SUFFICES ASSUME NEW a \in DOMAIN t, NEW b \in DOMAIN t, t[a] = t[b]
                 PROVE  a = b
      BY DEF IsInjective
    <2>1. \A i \in 1 .. n : s[i] # j
      BY <1>1 DEF ToSet
    <2> QED
      BY <1>1, <1>2, <2>1 DEF IsInjective
  <1> QED
    BY <1>2, <1>3, <1>4 DEF t

LEMMA Dequeued ==
    ASSUME NEW s \in Seq(Jobs), IsInjective(s), s # <<>>
    PROVE  /\ Tail(s) \in Seq(Jobs)
           /\ Head(s) \in ToSet(s)
           /\ ToSet(Tail(s)) = ToSet(s) \ {Head(s)}
           /\ IsInjective(Tail(s))
  <1> DEFINE n == Len(s)
             t == Tail(s)
  <1>1. n \in Nat \ {0} /\ DOMAIN s = 1 .. n /\ Head(s) = s[1]
    OBVIOUS
  <1>2. /\ t \in Seq(Jobs) /\ DOMAIN t = 1 .. (n - 1)
        /\ \A i \in 1 .. (n - 1) : t[i] = s[i + 1]
    BY HeadTailProperties
  <1> HIDE DEF n, t
  <1>3. Head(s) \in ToSet(s)
    BY <1>1 DEF ToSet
  <1>4. ToSet(t) = ToSet(s) \ {Head(s)}
    <2>1. ASSUME NEW i \in DOMAIN t
          PROVE  t[i] \in ToSet(s) /\ t[i] # Head(s)
      <3>1. i \in 1 .. (n - 1) /\ t[i] = s[i + 1] /\ i + 1 \in DOMAIN s /\ 1 \in DOMAIN s
        BY <1>1, <1>2
      <3>2. s[i + 1] = s[1] => i + 1 = 1
        BY <3>1 DEF IsInjective
      <3> QED
        BY <1>1, <3>1, <3>2 DEF ToSet
    <2>2. ASSUME NEW i \in DOMAIN s, s[i] # Head(s)
          PROVE  s[i] \in ToSet(t)
      <3>1. i - 1 \in 1 .. (n - 1) /\ s[i] = t[i - 1]
        BY <1>1, <1>2, <2>2
      <3> QED
        BY <1>2, <3>1 DEF ToSet
    <2> QED
      BY <2>1, <2>2 DEF ToSet
  <1>5. IsInjective(t)
    <2> SUFFICES ASSUME NEW a \in DOMAIN t, NEW b \in DOMAIN t, t[a] = t[b]
                 PROVE  a = b
      BY DEF IsInjective
    <2>1. /\ a \in 1 .. (n - 1) /\ b \in 1 .. (n - 1)
          /\ s[a + 1] = s[b + 1]
      BY <1>2
    <2>2. /\ a + 1 \in DOMAIN s /\ b + 1 \in DOMAIN s
          /\ a \in Nat /\ b \in Nat
      BY <1>1, <2>1
    <2>3. a + 1 = b + 1
      BY <2>1, <2>2 DEF IsInjective
    <2> QED
      BY <2>2, <2>3
  <1> QED
    BY <1>2, <1>3, <1>4, <1>5 DEF t

LEMMA AtFinite ==
    ASSUME NEW H, NEW T, NEW h, NEW places
    PROVE  /\ IsFiniteSet(At(H, T, h, places))
           /\ Cardinality(At(H, T, h, places)) \in Nat
  <1>1. At(H, T, h, places) \subseteq Jobs
    BY DEF At
  <1> QED
    BY <1>1, FS_Subset, FS_CardinalityType

\* One more, one less.
LEMMA OneMore ==
    ASSUME NEW S, IsFiniteSet(S), NEW x, x \notin S
    PROVE  Cardinality(S \cup {x}) = Cardinality(S) + 1
  BY FS_AddElement

LEMMA OneLess ==
    ASSUME NEW S, IsFiniteSet(S), NEW x \in S
    PROVE  Cardinality(S \ {x}) = Cardinality(S) - 1
  BY FS_RemoveElement

LEMMA HostIsHost ==
    ASSUME TypeOK, NEW j \in Jobs
    PROVE  Host(j) \in Hosts /\ Hosting[j] = Host(j)
  BY DEF Host, TypeOK, Hosts, Hosting

-----------------------------------------------------------------------------
(* Slots, of any places T before and U after, hosted at H and G.           *)

\* A host none of whose jobs moves.
LEMMA SlotsElsewhere ==
    ASSUME NEW H, NEW T, NEW U, NEW h, NEW a, NEW q, Slots(H, T, h, a, q),
           \A i \in Jobs : H[i] = h => U[i] = T[i]
    PROVE  Slots(H, U, h, a, q)
  <1>1. ASSUME NEW places
        PROVE  At(H, U, h, places) = At(H, T, h, places)
    BY <1>1 DEF At
  <1> QED
    BY <1>1 DEF Slots

\* A job comes to host h: it takes a free slot,
LEMMA SlotTaken ==
    ASSUME NEW H, NEW G, NEW T, NEW U, NEW h, NEW j \in Jobs, NEW a \in Nat, NEW q,
           Slots(H, T, h, a, q), T[j] = "none", G[j] = h, U[j] = "active",
           \A i \in Jobs \ {j} : G[i] = H[i] /\ U[i] = T[i]
    PROVE  Slots(G, U, h, a + 1, q)
  <1> DEFINE held == At(H, T, h, {"active", "refused"})
             woken == At(H, T, h, {"woken"})
  <1>1. /\ j \notin held
        /\ At(G, U, h, {"active", "refused"}) = held \cup {j}
    BY DEF At
  <1>2. /\ At(G, U, h, {"waiting"}) = At(H, T, h, {"waiting"})
        /\ At(G, U, h, {"woken"}) = woken
    BY DEF At
  <1> HIDE DEF held, woken
  <1>3. IsFiniteSet(held) /\ Cardinality(woken) \in Nat
    BY AtFinite DEF held, woken
  <1>4. Cardinality(held \cup {j}) = Cardinality(held) + 1
    BY <1>1, <1>3, OneMore
  <1>5. /\ a = Cardinality(held) /\ (q # <<>> => a + Cardinality(woken) >= Concurrency)
        /\ ToSet(q) = At(H, T, h, {"waiting"}) /\ IsInjective(q)
    BY DEF Slots, held, woken
  <1>6. q # <<>> => (a + 1) + Cardinality(At(G, U, h, {"woken"})) >= Concurrency
    BY <1>2, <1>3, <1>5
  <1> QED
    BY <1>1, <1>2, <1>4, <1>5, <1>6 DEF Slots

\* or it waits where the slots are taken,
LEMMA SlotAwaited ==
    ASSUME NEW H, NEW G, NEW T, NEW U, NEW h, NEW j \in Jobs, NEW a \in Nat, NEW q \in Seq(Jobs),
           Slots(H, T, h, a, q), T[j] = "none", G[j] = h, U[j] = "waiting",
           \A i \in Jobs \ {j} : G[i] = H[i] /\ U[i] = T[i],
           a >= Concurrency
    PROVE  Slots(G, U, h, a, Append(q, j))
  <1>1. /\ j \notin At(H, T, h, {"waiting"})
        /\ At(G, U, h, {"waiting"}) = At(H, T, h, {"waiting"}) \cup {j}
    BY DEF At
  <1>2. /\ At(G, U, h, {"active", "refused"}) = At(H, T, h, {"active", "refused"})
        /\ At(G, U, h, {"woken"}) = At(H, T, h, {"woken"})
    BY DEF At
  <1>3. Cardinality(At(H, T, h, {"woken"})) \in Nat
    BY AtFinite
  <1>4. ToSet(Append(q, j)) = At(G, U, h, {"waiting"}) /\ IsInjective(Append(q, j))
    BY <1>1, Queued DEF Slots
  <1>5. a + Cardinality(At(G, U, h, {"woken"})) >= Concurrency
    BY <1>2, <1>3
  <1> QED
    BY <1>2, <1>4, <1>5 DEF Slots

\* or it is turned away.
LEMMA SlotRefused ==
    ASSUME NEW H, NEW G, NEW T, NEW U, NEW h, NEW j \in Jobs, NEW a, NEW q,
           Slots(H, T, h, a, q), T[j] = "none", U[j] = "over",
           \A i \in Jobs \ {j} : G[i] = H[i] /\ U[i] = T[i]
    PROVE  Slots(G, U, h, a, q)
  <1>1. ASSUME NEW places, {"none", "over"} \cap places = {}
        PROVE  At(G, U, h, places) = At(H, T, h, places)
    BY <1>1 DEF At
  <1> QED
    BY <1>1 DEF Slots

\* A slot goes back and nobody waits for it,
Frees(H, T, U, h, j, a) ==
    /\ j \in Jobs /\ a \in Nat /\ Slots(H, T, h, a, <<>>)
    /\ H[j] = h /\ T[j] \in {"active", "refused"} /\ U[j] = "over"
    /\ \A i \in Jobs \ {j} : U[i] = T[i]

LEMMA SlotFreed ==
    ASSUME NEW H, NEW T, NEW U, NEW h, NEW j, NEW a, Frees(H, T, U, h, j, a)
    PROVE  Less(a) \in Nat /\ Slots(H, U, h, Less(a), <<>>)
  <1> USE DEF Frees
  <1> DEFINE held == At(H, T, h, {"active", "refused"})
  <1>1. /\ j \in held /\ At(H, U, h, {"active", "refused"}) = held \ {j}
        /\ At(H, U, h, {"waiting"}) = At(H, T, h, {"waiting"})
    BY DEF At
  <1>2. IsFiniteSet(held) /\ Cardinality(At(H, U, h, {"active", "refused"})) \in Nat
    BY AtFinite
  <1>3. Cardinality(held \ {j}) = Cardinality(held) - 1
    BY <1>1, <1>2, OneLess
  <1> QED
    BY <1>1, <1>2, <1>3 DEF Slots, Less

\* or it wakes the first who waits.
Passes(H, T, U, h, j, a, q) ==
    /\ j \in Jobs /\ a \in Nat /\ q \in Seq(Jobs) /\ q # <<>> /\ Slots(H, T, h, a, q)
    /\ H[j] = h /\ T[j] \in {"active", "refused"} /\ U[j] = "over" /\ U[Head(q)] = "woken"
    /\ \A i \in Jobs \ {j, Head(q)} : U[i] = T[i]

LEMMA SlotPassed ==
    ASSUME NEW H, NEW T, NEW U, NEW h, NEW j, NEW a, NEW q, Passes(H, T, U, h, j, a, q)
    PROVE  Less(a) \in Nat /\ Slots(H, U, h, Less(a), Tail(q))
  <1> USE DEF Passes
  <1> DEFINE held == At(H, T, h, {"active", "refused"})
             woken == At(H, T, h, {"woken"})
             waiting == At(H, T, h, {"waiting"})
             first == Head(q)
  <1>1. /\ first \in waiting /\ Tail(q) \in Seq(Jobs)
        /\ ToSet(Tail(q)) = waiting \ {first} /\ IsInjective(Tail(q))
    BY Dequeued DEF Slots
  <1>2. first \in Jobs /\ H[first] = h /\ T[first] = "waiting" /\ U[first] = "woken" /\ first # j
    BY <1>1 DEF At
  <1> HIDE DEF first
  <1>3. /\ j \in held /\ At(H, U, h, {"active", "refused"}) = held \ {j}
    BY <1>2 DEF At, first
  <1>4. At(H, U, h, {"waiting"}) = waiting \ {first}
    BY <1>2 DEF At, first
  <1>5. first \notin woken /\ At(H, U, h, {"woken"}) = woken \cup {first}
    BY <1>2 DEF At, first
  <1> HIDE DEF held, woken, waiting
  <1>6. /\ IsFiniteSet(held) /\ Cardinality(At(H, U, h, {"active", "refused"})) \in Nat
        /\ IsFiniteSet(woken) /\ Cardinality(woken) \in Nat
    BY AtFinite DEF held, woken
  <1>7. /\ Cardinality(held \ {j}) = Cardinality(held) - 1
        /\ Cardinality(woken \cup {first}) = Cardinality(woken) + 1
    BY <1>3, <1>5, <1>6, OneLess, OneMore
  <1>8. a = Cardinality(held) /\ a + Cardinality(woken) >= Concurrency
    BY DEF Slots, held, woken
  <1>9. a - 1 \in Nat /\ (a - 1) + Cardinality(At(H, U, h, {"woken"})) >= Concurrency
    <2>1. /\ Cardinality(At(H, U, h, {"woken"})) = Cardinality(woken) + 1
          /\ Cardinality(At(H, U, h, {"active", "refused"})) = Cardinality(held) - 1
      BY <1>3, <1>5, <1>7
    <2>2. a - 1 \in Nat
      BY <1>6, <1>8, <2>1
    <2>3. (a - 1) + (Cardinality(woken) + 1) >= Concurrency
      BY <1>6, <1>8
    <2> QED
      BY <2>1, <2>2, <2>3
  <1>10. /\ a - 1 = Cardinality(At(H, U, h, {"active", "refused"}))
         /\ ToSet(Tail(q)) = At(H, U, h, {"waiting"})
    BY <1>1, <1>3, <1>4, <1>7, <1>8
  <1> QED
    BY <1>1, <1>9, <1>10 DEF Slots, Less

\* Who was woken takes the slot.
LEMMA SlotTakenAwake ==
    ASSUME NEW H, NEW T, NEW U, NEW h, NEW j \in Jobs, NEW a \in Nat, NEW q,
           Slots(H, T, h, a, q), H[j] = h, T[j] = "woken", U[j] \in {"active", "refused"},
           \A i \in Jobs \ {j} : U[i] = T[i]
    PROVE  Slots(H, U, h, a + 1, q)
  <1> DEFINE held == At(H, T, h, {"active", "refused"})
             woken == At(H, T, h, {"woken"})
  <1>1. j \notin held /\ At(H, U, h, {"active", "refused"}) = held \cup {j}
    BY DEF At
  <1>2. j \in woken /\ At(H, U, h, {"woken"}) = woken \ {j}
    BY DEF At
  <1>3. At(H, U, h, {"waiting"}) = At(H, T, h, {"waiting"})
    BY DEF At
  <1> HIDE DEF held, woken
  <1>4. IsFiniteSet(held) /\ IsFiniteSet(woken) /\ Cardinality(woken) \in Nat
    BY AtFinite DEF held, woken
  <1>5. /\ Cardinality(held \cup {j}) = Cardinality(held) + 1
        /\ Cardinality(woken \ {j}) = Cardinality(woken) - 1
    BY <1>1, <1>2, <1>4, OneMore, OneLess
  <1>6. /\ a = Cardinality(held) /\ (q # <<>> => a + Cardinality(woken) >= Concurrency)
        /\ ToSet(q) = At(H, T, h, {"waiting"}) /\ IsInjective(q)
    BY DEF Slots, held, woken
  <1>7. q # <<>> => (a + 1) + Cardinality(At(H, U, h, {"woken"})) >= Concurrency
    <2>1. Cardinality(At(H, U, h, {"woken"})) = Cardinality(woken) - 1
      BY <1>2, <1>5
    <2>2. q # <<>> => (a + 1) + (Cardinality(woken) - 1) >= Concurrency
      BY <1>4, <1>6
    <2> QED
      BY <2>1, <2>2
  <1>8. /\ a + 1 = Cardinality(At(H, U, h, {"active", "refused"}))
        /\ ToSet(q) = At(H, U, h, {"waiting"})
    BY <1>1, <1>3, <1>5, <1>6
  <1> QED
    BY <1>6, <1>7, <1>8 DEF Slots

\* A host of which nothing is left.
LEMMA SlotsGone ==
    ASSUME NEW H, NEW U, NEW h,
           \A i \in Jobs : H[i] = h => U[i] \in {"none", "over"}
    PROVE  Slots(H, U, h, 0, <<>>)
  <1>1. /\ At(H, U, h, {"active", "refused"}) = {}
        /\ At(H, U, h, {"waiting"}) = {}
    BY DEF At
  <1>2. ToSet(<<>>) = {} /\ IsInjective(<<>>)
    BY DEF ToSet, IsInjective
  <1> QED
    BY <1>1, <1>2, FS_EmptySet DEF Slots

-----------------------------------------------------------------------------
(* The same of the state.                                                  *)

LEMMA SlotsNow ==
    ASSUME NoSlotLost, NEW h \in Hosts
    PROVE  Slots(Hosting, task, h, active[h], waiters[h])
  <1>1. ASSUME NEW places
        PROVE  Tasks(h, places) = At(Hosting, task, h, places)
    BY DEF Tasks, At, Hosting
  <1> QED
    BY <1>1 DEF NoSlotLost, Slots

LEMMA SlotsNext ==
    ASSUME \A h \in Hosts : Slots(Hosting', task', h, active'[h], waiters'[h])
    PROVE  NoSlotLost'
  <1> SUFFICES ASSUME NEW h \in Hosts
               PROVE  (/\ active[h] = Cardinality(Tasks(h, {"active", "refused"}))
                       /\ ToSet(waiters[h]) = Tasks(h, {"waiting"}) /\ IsInjective(waiters[h])
                       /\ waiters[h] # <<>> =>
                              active[h] + Cardinality(Tasks(h, {"woken"})) >= Concurrency)'
    BY DEF NoSlotLost
  <1>1. ASSUME NEW places
        PROVE  {j \in Jobs : (IF remote' THEN Worker ELSE row'[j].owner) = h /\ task'[j] \in places}
                   = At(Hosting', task', h, places)
    BY DEF At, Hosting, Host
  <1> QED
    BY <1>1 DEF Slots, Tasks, Host

\* Hosts do not change while the rows keep their owners.
LEMMA SameHosts ==
    ASSUME UNCHANGED remote, \A j \in Jobs : row'[j].owner = row[j].owner
    PROVE  Hosting' = Hosting
  BY DEF Hosting, Host

LEMMA SlotsUnchanged ==
    ASSUME NoSlotLost, Hosting' = Hosting, UNCHANGED rendererVars
    PROVE  NoSlotLost'
  <1>1. ASSUME NEW h \in Hosts
        PROVE  Slots(Hosting', task', h, active'[h], waiters'[h])
    BY SlotsNow DEF rendererVars
  <1> QED
    BY <1>1, SlotsNext

RendererType ==
    /\ task \in [Jobs -> Places]
    /\ active \in [Hosts -> Nat]
    /\ waiters \in [Hosts -> Seq(Jobs)]

\* Where a job comes to one host, the slots of the others are as they were.
LEMMA SlotsOfOthers ==
    ASSUME NoSlotLost, NEW h \in Hosts, NEW j \in Jobs, task[j] = "none", Hosting'[j] = h,
           \A i \in Jobs \ {j} : Hosting'[i] = Hosting[i],
           \A i \in Jobs \ {j} : task'[i] = task[i],
           NEW g \in Hosts, g # h
    PROVE  Slots(Hosting', task', g, active[g], waiters[g])
  <1>1. Slots(Hosting, task, g, active[g], waiters[g])
    BY SlotsNow
  <1>2. ASSUME NEW places, "none" \notin places
        PROVE  At(Hosting', task', g, places) = At(Hosting, task, g, places)
    BY <1>2 DEF At
  <1> QED
    BY <1>1, <1>2 DEF Slots

\* #acquire, for a job that was nowhere and is hosted at h from now on.
LEMMA AcquireSlots ==
    ASSUME TypeOK, NoSlotLost, NEW h \in Hosts, NEW j \in Jobs, task[j] = "none", Acquire(h, j),
           Hosting'[j] = h, \A i \in Jobs \ {j} : Hosting'[i] = Hosting[i]
    PROVE  /\ NoSlotLost' /\ RendererType'
           /\ result' \in [Jobs -> {"none", "png", "error"}]
           /\ \A i \in Jobs \ {j} : task'[i] = task[i] /\ result'[i] = result[i]
  <1>1. /\ active[h] \in Nat /\ waiters[h] \in Seq(Jobs)
        /\ task \in [Jobs -> Places] /\ result \in [Jobs -> {"none", "png", "error"}]
        /\ active \in [Hosts -> Nat] /\ waiters \in [Hosts -> Seq(Jobs)]
        /\ Concurrency \in Nat
    BY DEF TypeOK, Places
  <1>2. \A g \in Hosts : Slots(Hosting, task, g, active[g], waiters[g])
    BY SlotsNow
  <1>3. CASE /\ active[h] < Concurrency
             /\ active' = [active EXCEPT ![h] = @ + 1]
             /\ task' = [task EXCEPT ![j] = "active"]
             /\ UNCHANGED <<waiters, result>>
    <2>1. RendererType'
      BY <1>1, <1>3 DEF RendererType, Places
    <2>2. task'[j] = "active" /\ \A i \in Jobs \ {j} : task'[i] = task[i]
      BY <1>1, <1>3
    <2>3. Slots(Hosting', task', h, active[h] + 1, waiters[h])
      BY <1>1, <1>2, <2>2, SlotTaken
    <2>4. ASSUME NEW g \in Hosts
          PROVE  Slots(Hosting', task', g, active'[g], waiters'[g])
      <3>1. CASE g = h
        BY <1>1, <1>3, <2>3, <3>1
      <3>2. CASE g # h
        <4>1. Slots(Hosting', task', g, active[g], waiters[g])
          BY <2>2, <3>2, SlotsOfOthers
        <4> QED
          BY <1>1, <1>3, <3>2, <4>1
      <3> QED
        BY <3>1, <3>2
    <2>5. NoSlotLost'
      BY <2>4, SlotsNext
    <2> QED
      BY <1>1, <1>3, <2>1, <2>2, <2>5
  <1>4. CASE /\ active[h] >= Concurrency /\ Len(waiters[h]) < QueueLimit
             /\ waiters' = [waiters EXCEPT ![h] = Append(@, j)]
             /\ task' = [task EXCEPT ![j] = "waiting"]
             /\ UNCHANGED <<active, result>>
    <2>1. RendererType'
      <3>1. Append(waiters[h], j) \in Seq(Jobs)
        BY <1>1, AppendProperties
      <3> QED
        BY <1>1, <1>4, <3>1 DEF RendererType, Places
    <2>2. task'[j] = "waiting" /\ \A i \in Jobs \ {j} : task'[i] = task[i]
      BY <1>1, <1>4
    <2>3. Slots(Hosting', task', h, active[h], Append(waiters[h], j))
      <3>1. Slots(Hosting, task, h, active[h], waiters[h]) /\ active[h] >= Concurrency
        BY <1>2, <1>4
      <3>2. \A i \in Jobs \ {j} : Hosting'[i] = Hosting[i] /\ task'[i] = task[i]
        BY <2>2
      <3>3. active[h] \in Nat /\ waiters[h] \in Seq(Jobs)
        BY <1>1
      <3> QED
        BY <2>2, <3>1, <3>2, <3>3, SlotAwaited
    <2>4. ASSUME NEW g \in Hosts
          PROVE  Slots(Hosting', task', g, active'[g], waiters'[g])
      <3>1. CASE g = h
        BY <1>1, <1>4, <2>3, <3>1
      <3>2. CASE g # h
        <4>1. Slots(Hosting', task', g, active[g], waiters[g])
          BY <2>2, <3>2, SlotsOfOthers
        <4> QED
          BY <1>1, <1>4, <3>2, <4>1
      <3> QED
        BY <3>1, <3>2
    <2>5. NoSlotLost'
      BY <2>4, SlotsNext
    <2> QED
      BY <1>1, <1>4, <2>1, <2>2, <2>5
  <1>5. CASE /\ active[h] >= Concurrency /\ Len(waiters[h]) >= QueueLimit
             /\ result' = [result EXCEPT ![j] = "error"]
             /\ task' = [task EXCEPT ![j] = "over"]
             /\ UNCHANGED <<active, waiters>>
    <2>1. RendererType' /\ result' \in [Jobs -> {"none", "png", "error"}]
      BY <1>1, <1>5 DEF RendererType, Places
    <2>2. task'[j] = "over" /\ \A i \in Jobs \ {j} : task'[i] = task[i] /\ result'[i] = result[i]
      BY <1>1, <1>5
    <2>3. ASSUME NEW g \in Hosts
          PROVE  Slots(Hosting', task', g, active'[g], waiters'[g])
      <3>1. Slots(Hosting', task', g, active[g], waiters[g])
        BY <1>2, <2>2, SlotRefused
      <3> QED
        BY <1>5, <3>1
    <2>4. NoSlotLost'
      BY <2>3, SlotsNext
    <2> QED
      BY <2>1, <2>2, <2>4
  <1> QED
    BY <1>3, <1>4, <1>5 DEF Acquire

\* The release of the slot of a job that held one.
LEMMA ReleaseSlots ==
    ASSUME TypeOK, NoSlotLost, Hosting' = Hosting,
           NEW j \in Jobs, task[j] \in {"active", "refused"}, Release(Host(j), j)
    PROVE  /\ NoSlotLost' /\ RendererType'
           /\ \A i \in Jobs : task[i] = "none" => task'[i] = "none"
  <1> DEFINE h == Host(j)
             queue == waiters[h]
             first == Head(queue)
  <1>1. /\ h \in Hosts /\ Hosting[j] = h /\ active[h] \in Nat /\ queue \in Seq(Jobs)
        /\ active \in [Hosts -> Nat] /\ waiters \in [Hosts -> Seq(Jobs)]
        /\ task \in [Jobs -> Places]
    BY HostIsHost DEF TypeOK, Places
  <1>2. \A g \in Hosts : Slots(Hosting, task, g, active[g], waiters[g])
    BY SlotsNow
  <1>3. queue # <<>> =>
            /\ first \in Jobs /\ Hosting[first] = h /\ task[first] = "waiting"
            /\ Tail(queue) \in Seq(Jobs)
    <2>1. queue # <<>> =>
              first \in At(Hosting, task, h, {"waiting"}) /\ Tail(queue) \in Seq(Jobs)
      BY <1>1, <1>2, Dequeued DEF Slots
    <2> QED
      BY <2>1 DEF At
  <1>4. /\ \A i \in Jobs : task'[i] = IF i = j THEN "over"
                                      ELSE IF queue # <<>> /\ i = first THEN "woken" ELSE task[i]
        /\ task' \in [Jobs -> Places]
    BY <1>1 DEF Release, Places
  <1>5. /\ waiters' = [waiters EXCEPT ![h] = IF queue = <<>> THEN queue ELSE Tail(queue)]
        /\ active' = [active EXCEPT ![h] = active[h] - 1]
    BY DEF Release
  <1>6. queue = waiters[h]
    OBVIOUS
  <1> HIDE DEF h, queue, first
  <1> DEFINE less == Less(active[h])
  <1>7. less = active[h] - 1
    BY DEF Less
  <1>8. /\ less \in Nat
        /\ Slots(Hosting, task', h, less, IF queue = <<>> THEN queue ELSE Tail(queue))
    <2>1. CASE queue = <<>>
      <3>1. task'[j] = "over" /\ \A i \in Jobs \ {j} : task'[i] = task[i]
        BY <1>4, <2>1
      <3>2. Slots(Hosting, task, h, active[h], <<>>)
        BY <1>1, <1>2, <1>6, <2>1
      <3>3. less \in Nat /\ Slots(Hosting, task', h, less, <<>>)
        <4>1. Frees(Hosting, task, task', h, j, active[h])
          BY <1>1, <3>1, <3>2 DEF Frees
        <4> QED
          BY <4>1, SlotFreed
      <3> QED
        BY <2>1, <3>3
    <2>2. CASE queue # <<>>
      <3>1. /\ task'[j] = "over" /\ task'[Head(queue)] = "woken"
            /\ \A i \in Jobs \ {j, Head(queue)} : task'[i] = task[i]
        BY <1>3, <1>4, <2>2 DEF first
      <3>2. Slots(Hosting, task, h, active[h], queue)
        BY <1>1, <1>2, <1>6
      <3>3. less \in Nat /\ Slots(Hosting, task', h, less, Tail(queue))
        <4>1. Passes(Hosting, task, task', h, j, active[h], queue)
          BY <1>1, <2>2, <3>1, <3>2 DEF Passes
        <4> QED
          BY <4>1, SlotPassed
      <3> QED
        BY <2>2, <3>3
    <2> QED
      BY <2>1, <2>2
  <1>9. RendererType'
    BY <1>1, <1>3, <1>4, <1>5, <1>7, <1>8 DEF RendererType
  <1>10. ASSUME NEW g \in Hosts
        PROVE  Slots(Hosting', task', g, active'[g], waiters'[g])
    <2>1. CASE g = h
      BY <1>1, <1>5, <1>7, <1>8, <2>1
    <2>2. CASE g # h
      <3>1. \A i \in Jobs : Hosting[i] = g => task'[i] = task[i]
        BY <1>1, <1>3, <1>4, <2>2
      <3>2. Slots(Hosting', task', g, active[g], waiters[g])
        BY <1>2, <3>1, SlotsElsewhere
      <3> QED
        BY <1>1, <1>5, <2>2, <3>2
    <2> QED
      BY <2>1, <2>2
  <1>11. NoSlotLost'
    BY <1>10, SlotsNext
  <1>12. \A i \in Jobs : task[i] = "none" => task'[i] = "none"
    BY <1>3, <1>4
  <1> QED
    BY <1>9, <1>11, <1>12

\* A woken waiter takes its slot.
LEMMA WakeSlots ==
    ASSUME TypeOK, NoSlotLost, Hosting' = Hosting, NEW j \in Jobs, task[j] = "woken",
           active' = [active EXCEPT ![Host(j)] = @ + 1],
           NEW place \in {"active", "refused"}, task' = [task EXCEPT ![j] = place],
           UNCHANGED waiters
    PROVE  NoSlotLost' /\ RendererType'
  <1> DEFINE h == Host(j)
  <1>1. /\ h \in Hosts /\ Hosting[j] = h /\ active[h] \in Nat
        /\ active \in [Hosts -> Nat] /\ waiters \in [Hosts -> Seq(Jobs)]
        /\ task \in [Jobs -> Places]
    BY HostIsHost DEF TypeOK, Places
  <1>2. \A g \in Hosts : Slots(Hosting, task, g, active[g], waiters[g])
    BY SlotsNow
  <1>3. task'[j] \in {"active", "refused"} /\ \A i \in Jobs \ {j} : task'[i] = task[i]
    BY <1>1
  <1>4. active' = [active EXCEPT ![h] = active[h] + 1]
    OBVIOUS
  <1> HIDE DEF h
  <1>5. RendererType'
    BY <1>1, <1>4 DEF RendererType, Places
  <1>6. Slots(Hosting, task', h, active[h] + 1, waiters[h])
    BY <1>1, <1>2, <1>3, SlotTakenAwake
  <1>7. ASSUME NEW g \in Hosts
        PROVE  Slots(Hosting', task', g, active'[g], waiters'[g])
    <2>1. CASE g = h
      BY <1>1, <1>4, <1>6, <2>1
    <2>2. CASE g # h
      <3>1. \A i \in Jobs : Hosting[i] = g => task'[i] = task[i]
        BY <1>1, <1>3, <2>2
      <3>2. Slots(Hosting', task', g, active[g], waiters[g])
        BY <1>2, <3>1, SlotsElsewhere
      <3> QED
        BY <1>1, <1>4, <2>2, <3>2
    <2> QED
      BY <2>1, <2>2
  <1> QED
    BY <1>5, <1>7, SlotsNext

\* A host of which nothing is left.
LEMMA EmptiedSlots ==
    ASSUME TypeOK, NoSlotLost, Hosting' = Hosting, NEW h \in Hosts, Emptied(h)
    PROVE  /\ NoSlotLost' /\ RendererType'
           /\ \A i \in Jobs : task[i] = "none" => task'[i] = "none"
  <1>1. /\ active \in [Hosts -> Nat] /\ waiters \in [Hosts -> Seq(Jobs)]
        /\ task \in [Jobs -> Places]
    BY DEF TypeOK, Places
  <1>2. \A i \in Jobs : task'[i] = IF Hosting[i] = h /\ task[i] # "none" THEN "over" ELSE task[i]
    BY DEF Emptied, Hosting
  <1>3. active' = [active EXCEPT ![h] = 0] /\ waiters' = [waiters EXCEPT ![h] = <<>>]
    BY DEF Emptied
  <1>4. RendererType'
    <2>1. task' \in [Jobs -> Places]
      BY <1>1 DEF Emptied, Places
    <2>2. <<>> \in Seq(Jobs)
      OBVIOUS
    <2> QED
      BY <1>1, <1>3, <2>1, <2>2 DEF RendererType
  <1>5. ASSUME NEW g \in Hosts
        PROVE  Slots(Hosting', task', g, active'[g], waiters'[g])
    <2>1. CASE g = h
      <3>1. Slots(Hosting, task', g, 0, <<>>)
        BY <1>2, <2>1, SlotsGone
      <3> QED
        BY <1>1, <1>3, <2>1, <3>1
    <2>2. CASE g # h
      <3>1. \A i \in Jobs : Hosting[i] = g => task'[i] = task[i]
        BY <1>2, <2>2
      <3>2. Slots(Hosting', task', g, active[g], waiters[g])
        BY <3>1, SlotsNow, SlotsElsewhere
      <3> QED
        BY <1>1, <1>3, <2>2, <3>2
    <2> QED
      BY <2>1, <2>2
  <1> QED
    BY <1>2, <1>4, <1>5, SlotsNext

-----------------------------------------------------------------------------
(* The steps.                                                              *)

LEMMA InitInv ==
    ASSUME Init
    PROVE  IInv
  <1>1. TypeOK
    <2>1. <<>> \in Seq(Jobs) /\ 0 \in 0 .. MaxCrashes
      OBVIOUS
    <2> QED
      BY <2>1 DEF Init, TypeOK, NoRow, Hosts
  <1>2. NoSlotLost
    <2> SUFFICES ASSUME NEW h \in Hosts
                 PROVE  /\ active[h] = Cardinality(Tasks(h, {"active", "refused"}))
                        /\ ToSet(waiters[h]) = Tasks(h, {"waiting"}) /\ IsInjective(waiters[h])
                        /\ waiters[h] # <<>> =>
                               active[h] + Cardinality(Tasks(h, {"woken"})) >= Concurrency
      BY DEF NoSlotLost
    <2>1. Tasks(h, {"active", "refused"}) = {} /\ Tasks(h, {"waiting"}) = {}
      BY DEF Init, Tasks
    <2>2. active[h] = 0 /\ waiters[h] = <<>>
      BY DEF Init
    <2>3. ToSet(<<>>) = {} /\ IsInjective(<<>>)
      BY DEF ToSet, IsInjective
    <2> QED
      BY <2>1, <2>2, <2>3, FS_EmptySet
  <1>3. NotAsked /\ RowsTell /\ AnsweredAsRecorded
    BY DEF Init, NotAsked, RowsTell, AnsweredAsRecorded, Pending
  <1> QED
    BY <1>1, <1>2, <1>3 DEF IInv

\* Only rows change, and those only by being renewed, lapsing or failing.
RowStep(old, new) ==
    /\ new \in RowType /\ new.owner = old.owner
    /\ new.status # old.status => old.status \in {"queued", "running"} /\ new.status = "failed"

LEMMA RowsOnly ==
    ASSUME IInv, UNCHANGED <<remote, crashes, call, socket, rendererVars, result>>,
           up' \in [Hosts -> {"new", "up", "down"}],
           row' \in [Jobs -> RowType], \A j \in Jobs : RowStep(row[j], row'[j])
    PROVE  IInv'
  <1>1. TypeOK'
    BY DEF IInv, TypeOK, rendererVars, RowType
  <1>2. Hosting' = Hosting
    BY SameHosts DEF RowStep
  <1>3. NoSlotLost'
    BY <1>2, SlotsUnchanged DEF IInv
  <1>4. NotAsked'
    BY DEF IInv, NotAsked, rendererVars, RowStep
  <1>5. RowsTell'
    BY DEF IInv, RowsTell, Pending, RowStep
  <1>6. AnsweredAsRecorded'
    BY DEF IInv, AnsweredAsRecorded, RowStep
  <1> QED
    BY <1>1, <1>3, <1>4, <1>5, <1>6 DEF IInv

LEMMA EndedRow ==
    ASSUME NEW r \in RowType, NEW status \in {"succeeded", "failed"}
    PROVE  /\ Ended(r, status) \in RowType
           /\ Ended(r, status).owner = r.owner /\ Ended(r, status).status = status
  BY DEF Ended, RowType

LEMMA StartedRow ==
    ASSUME NEW r \in RowType
    PROVE  /\ Started(r) \in RowType
           /\ Started(r).owner = r.owner /\ Started(r).status = "running"
  BY DEF Started, RowType

LEMMA RecoveredRow ==
    ASSUME NEW r \in RowType
    PROVE  RowStep(r, Recovered(r))
  <1>1. CASE r.status \in {"queued", "running"} /\ ~r.fresh
    <2>1. Recovered(r) = Ended(r, "failed")
      BY <1>1 DEF Recovered
    <2> QED
      BY <1>1, <2>1, EndedRow DEF RowStep
  <1>2. CASE ~(r.status \in {"queued", "running"} /\ ~r.fresh)
    <2>1. Recovered(r) = r
      BY <1>2 DEF Recovered
    <2> QED
      BY <2>1 DEF RowStep
  <1> QED
    BY <1>1, <1>2

LEMMA RenewedRow ==
    ASSUME NEW r \in RowType, NEW p
    PROVE  RowStep(r, Recovered(Renewed(p, r)))
  <1> DEFINE n == [r EXCEPT !.fresh = TRUE]
  <1>1. n \in RowType /\ n.owner = r.owner /\ n.status = r.status
    BY DEF RowType
  <1>2. Renewed(p, r) = r \/ Renewed(p, r) = n
    BY DEF Renewed
  <1> HIDE DEF n
  <1>3. RowStep(r, Recovered(r)) /\ RowStep(n, Recovered(n))
    BY <1>1, RecoveredRow
  <1> QED
    BY <1>1, <1>2, <1>3 DEF RowStep

LEMMA LapsedRow ==
    ASSUME NEW r \in RowType
    PROVE  RowStep(r, [r EXCEPT !.fresh = FALSE])
  <1> DEFINE n == [r EXCEPT !.fresh = FALSE]
  <1>1. n \in RowType /\ n.owner = r.owner /\ n.status = r.status
    BY DEF RowType
  <1> QED
    BY <1>1 DEF RowStep

LEMMA StartProcessInv ==
    ASSUME IInv, NEW p \in Processes, StartProcess(p)
    PROVE  IInv'
  <1>1. row \in [Jobs -> RowType] /\ up' \in [Hosts -> {"new", "up", "down"}]
    BY DEF IInv, TypeOK, RowType, StartProcess
  <1>2. \A j \in Jobs : row'[j] = Recovered(row[j])
    BY DEF StartProcess
  <1>3. \A j \in Jobs : RowStep(row[j], row'[j])
    BY <1>1, <1>2, RecoveredRow
  <1>4. row' \in [Jobs -> RowType]
    BY <1>3 DEF StartProcess, RowStep
  <1> QED
    BY <1>1, <1>3, <1>4, RowsOnly DEF StartProcess

LEMMA TickInv ==
    ASSUME IInv, NEW p \in Processes, Tick(p)
    PROVE  IInv'
  <1>1. row \in [Jobs -> RowType] /\ up' \in [Hosts -> {"new", "up", "down"}]
    BY DEF IInv, TypeOK, RowType, Tick, hostVars
  <1>2. \A j \in Jobs : row'[j] = Recovered(Renewed(p, row[j]))
    BY DEF Tick
  <1>3. \A j \in Jobs : RowStep(row[j], row'[j])
    BY <1>1, <1>2, RenewedRow
  <1>4. row' \in [Jobs -> RowType]
    BY <1>3 DEF Tick, RowStep
  <1> QED
    BY <1>1, <1>3, <1>4, RowsOnly DEF Tick, hostVars

LEMMA LapseInv ==
    ASSUME IInv, NEW p \in Processes, Lapse(p)
    PROVE  IInv'
  <1>1. row \in [Jobs -> RowType] /\ up' \in [Hosts -> {"new", "up", "down"}]
    BY DEF IInv, TypeOK, RowType, Lapse, hostVars
  <1>2. \A j \in Jobs : row'[j] = row[j] \/ row'[j] = [row[j] EXCEPT !.fresh = FALSE]
    BY DEF Lapse
  <1>3. \A j \in Jobs : RowStep(row[j], row[j])
    BY <1>1 DEF RowStep
  <1>4. \A j \in Jobs : RowStep(row[j], row'[j])
    <2> SUFFICES ASSUME NEW j \in Jobs PROVE RowStep(row[j], row'[j])
      OBVIOUS
    <2>1. row[j] \in RowType
      BY <1>1
    <2>2. CASE row'[j] = row[j]
      BY <1>3, <2>2
    <2>3. CASE row'[j] = [row[j] EXCEPT !.fresh = FALSE]
      BY <2>1, <2>3, LapsedRow
    <2> QED
      BY <1>2, <2>2, <2>3
  <1>5. row' \in [Jobs -> RowType]
    BY <1>4 DEF Lapse, RowStep
  <1> QED
    BY <1>1, <1>4, <1>5, RowsOnly DEF Lapse, hostVars

LEMMA StartWorkerInv ==
    ASSUME IInv, StartWorker
    PROVE  IInv'
  <1>1. row \in [Jobs -> RowType] /\ up' \in [Hosts -> {"new", "up", "down"}]
    BY DEF IInv, TypeOK, RowType, StartWorker
  <1>2. \A j \in Jobs : RowStep(row[j], row'[j])
    BY <1>1 DEF RowStep, StartWorker
  <1> QED
    BY <1>1, <1>2, RowsOnly DEF StartWorker

LEMMA RenderInv ==
    ASSUME IInv, NEW j \in Jobs, Render(Caller[j], j)
    PROVE  IInv'
  <1> DEFINE p == Caller[j]
             queued == [status |-> "queued", owner |-> p, fresh |-> TRUE]
  <1>1. p \in Processes /\ p \in Hosts
    BY DEF Hosts
  <1>2. /\ call[j] = "none" /\ task[j] = "none"
        /\ call' = [call EXCEPT ![j] = "pending"]
        /\ UNCHANGED <<hostVars, socket>>
    BY DEF IInv, NotAsked, Render
  <1>3. PICK new : /\ new = queued \/ new = Started(queued)
                   /\ row' = [row EXCEPT ![j] = new]
    BY DEF Render
  <1>4. new \in RowType /\ new.owner = p /\ new.status \in {"queued", "running"}
    <2>1. queued \in RowType /\ queued.owner = p /\ queued.status = "queued"
      BY <1>1 DEF RowType
    <2> HIDE DEF queued
    <2> QED
      BY <1>3, <2>1, StartedRow
  <1> HIDE DEF p, queued
  <1>5. /\ row' \in [Jobs -> RowType] /\ row'[j] = new
        /\ \A i \in Jobs \ {j} : row'[i] = row[i] /\ call'[i] = call[i]
        /\ call'[j] = "pending"
        /\ call' \in [Jobs -> {"none", "pending", "png", "error", "lost"}]
    BY <1>2, <1>3, <1>4 DEF IInv, TypeOK, RowType
  <1>6. /\ NoSlotLost' /\ RendererType' /\ result' \in [Jobs -> {"none", "png", "error"}]
        /\ \A i \in Jobs \ {j} : task'[i] = task[i]
    <2>1. CASE remote /\ UNCHANGED <<rendererVars, result>>
      <3>1. Hosting' = Hosting
        BY <1>2, <2>1 DEF Hosting, Host, hostVars
      <3>2. NoSlotLost'
        BY <2>1, <3>1, SlotsUnchanged DEF IInv
      <3> QED
        BY <2>1, <3>2 DEF IInv, TypeOK, rendererVars, RendererType, Places
    <2>2. CASE ~remote /\ Acquire(p, j)
      <3>1. Hosting'[j] = p /\ \A i \in Jobs \ {j} : Hosting'[i] = Hosting[i]
        BY <1>2, <1>4, <1>5, <2>2 DEF Hosting, Host, hostVars
      <3> QED
        BY <1>1, <1>2, <2>2, <3>1, AcquireSlots DEF IInv
    <2> QED
      BY <2>1, <2>2 DEF Render, p
  <1>7. TypeOK'
    BY <1>2, <1>5, <1>6 DEF IInv, TypeOK, RendererType, Places, RowType, hostVars
  <1>8. NotAsked'
    BY <1>5, <1>6 DEF IInv, NotAsked
  <1>9. RowsTell'
    BY <1>4, <1>5 DEF IInv, RowsTell, Pending
  <1>10. AnsweredAsRecorded'
    BY <1>5 DEF IInv, AnsweredAsRecorded
  <1> QED
    BY <1>6, <1>7, <1>8, <1>9, <1>10 DEF IInv

LEMMA WakeInv ==
    ASSUME IInv, NEW j \in Jobs, Wake(j)
    PROVE  IInv'
  <1>1. /\ task[j] = "woken" /\ call[j] # "none"
        /\ UNCHANGED <<hostVars, call, socket, result, waiters>>
        /\ active' = [active EXCEPT ![Host(j)] = @ + 1]
    BY DEF IInv, NotAsked, Wake
  <1>2. PICK place \in {"active", "refused"} : task' = [task EXCEPT ![j] = place]
    BY DEF Wake
  <1>3. \/ row' = row
        \/ row[j].status = "queued" /\ row' = [row EXCEPT ![j] = Started(row[j])]
    BY DEF Wake, IInv, TypeOK
  <1>4. /\ row' \in [Jobs -> RowType]
        /\ \A i \in Jobs : row'[i].owner = row[i].owner
        /\ \A i \in Jobs \ {j} : row'[i] = row[i]
        /\ row'[j].status # row[j].status =>
               row[j].status = "queued" /\ row'[j].status = "running"
    <2>1. row \in [Jobs -> RowType]
      BY DEF IInv, TypeOK, RowType
    <2> QED
      BY <1>3, <2>1, StartedRow
  <1>5. Hosting' = Hosting
    BY <1>1, <1>4, SameHosts DEF hostVars
  <1>6. NoSlotLost' /\ RendererType'
    BY <1>1, <1>2, <1>5, WakeSlots DEF IInv
  <1>7. TypeOK'
    BY <1>1, <1>4, <1>6 DEF IInv, TypeOK, RendererType, Places, RowType, hostVars
  <1>8. NotAsked'
    BY <1>1, <1>2, <1>4 DEF IInv, NotAsked, TypeOK
  <1>9. RowsTell'
    BY <1>1, <1>4 DEF IInv, RowsTell, Pending
  <1>10. AnsweredAsRecorded'
    BY <1>1, <1>4 DEF IInv, AnsweredAsRecorded
  <1> QED
    BY <1>6, <1>7, <1>8, <1>9, <1>10 DEF IInv

LEMMA FinishInv ==
    ASSUME IInv, NEW j \in Jobs, Finish(j)
    PROVE  IInv'
  <1>1. /\ task[j] \in {"active", "refused"} /\ Release(Host(j), j)
        /\ UNCHANGED <<hostVars, row, call, socket>>
    BY DEF Finish
  <1>2. result' \in [Jobs -> {"none", "png", "error"}]
    <2>1. result[j] \in {"none", "png", "error"}
      BY DEF IInv, TypeOK
    <2>2. PICK o \in {"none", "png", "error"} : result' = [result EXCEPT ![j] = o]
      BY <2>1 DEF Finish
    <2> QED
      BY <2>2 DEF IInv, TypeOK
  <1>3. Hosting' = Hosting
    BY <1>1, SameHosts DEF hostVars
  <1>4. /\ NoSlotLost' /\ RendererType'
        /\ \A i \in Jobs : task[i] = "none" => task'[i] = "none"
    BY <1>1, <1>3, ReleaseSlots DEF IInv
  <1>5. TypeOK'
    BY <1>1, <1>2, <1>4 DEF IInv, TypeOK, RendererType, Places, hostVars
  <1>6. NotAsked'
    BY <1>1, <1>4 DEF IInv, NotAsked
  <1>7. RowsTell' /\ AnsweredAsRecorded'
    BY <1>1 DEF IInv, RowsTell, Pending, AnsweredAsRecorded
  <1> QED
    BY <1>4, <1>5, <1>6, <1>7 DEF IInv

LEMMA ConnectInv ==
    ASSUME IInv, NEW j \in Jobs, Connect(j)
    PROVE  IInv'
  <1>1. /\ remote /\ call[j] = "pending" /\ task[j] = "none"
        /\ UNCHANGED <<hostVars, row, call>>
    BY DEF Connect, Pending
  <1>2. Hosting' = Hosting /\ Hosting'[j] = Worker /\ Worker \in Hosts
    BY <1>1 DEF Hosting, Host, hostVars, Hosts
  <1>3. socket' \in [Jobs -> BOOLEAN]
    <2>1. socket' = socket \/ socket' = [socket EXCEPT ![j] = TRUE]
      BY DEF Connect
    <2> QED
      BY <2>1 DEF IInv, TypeOK
  <1>4. /\ NoSlotLost' /\ RendererType' /\ result' \in [Jobs -> {"none", "png", "error"}]
        /\ \A i \in Jobs \ {j} : task'[i] = task[i]
    <2>1. CASE Acquire(Worker, j)
      BY <1>1, <1>2, <2>1, AcquireSlots DEF IInv
    <2>2. CASE result' = [result EXCEPT ![j] = "error"] /\ UNCHANGED rendererVars
      <3>1. NoSlotLost'
        BY <1>2, <2>2, SlotsUnchanged DEF IInv
      <3> QED
        BY <2>2, <3>1 DEF IInv, TypeOK, rendererVars, RendererType, Places
    <2> QED
      BY <2>1, <2>2 DEF Connect, rendererVars
  <1>5. TypeOK'
    BY <1>1, <1>3, <1>4 DEF IInv, TypeOK, RendererType, Places, hostVars
  <1>6. NotAsked'
    BY <1>1, <1>4 DEF IInv, NotAsked
  <1>7. RowsTell' /\ AnsweredAsRecorded'
    BY <1>1 DEF IInv, RowsTell, Pending, AnsweredAsRecorded
  <1> QED
    BY <1>4, <1>5, <1>6, <1>7 DEF IInv

LEMMA ClientTimeoutInv ==
    ASSUME IInv, NEW j \in Jobs, ClientTimeout(j)
    PROVE  IInv'
  <1>1. TypeOK'
    BY DEF IInv, TypeOK, ClientTimeout, hostVars, rendererVars
  <1>2. Hosting' = Hosting
    BY SameHosts DEF ClientTimeout, hostVars
  <1>3. NoSlotLost'
    BY <1>2, SlotsUnchanged DEF IInv, ClientTimeout
  <1>4. NotAsked' /\ RowsTell' /\ AnsweredAsRecorded'
    BY DEF IInv, NotAsked, RowsTell, AnsweredAsRecorded, Pending, ClientTimeout, rendererVars
  <1> QED
    BY <1>1, <1>3, <1>4 DEF IInv

LEMMA SettleInv ==
    ASSUME IInv, NEW j \in Jobs, Settle(j)
    PROVE  IInv'
  <1>1. /\ call[j] = "pending" /\ UNCHANGED <<hostVars, rendererVars>>
        /\ socket' = [socket EXCEPT ![j] = FALSE]
        /\ result' = [result EXCEPT ![j] = "none"]
    BY DEF Settle, Pending
  <1>2. row \in [Jobs -> RowType] /\ row[j] \in RowType
        /\ call \in [Jobs -> {"none", "pending", "png", "error", "lost"}]
    BY DEF IInv, TypeOK, RowType
  <1>3. row[j].status \in {"queued", "running", "failed"}
    BY <1>1 DEF IInv, RowsTell, Pending
  <1>4. PICK answer \in {"png", "error"} :
            /\ call' = [call EXCEPT ![j] = answer]
            /\ \/ answer = "png" /\ row' = [row EXCEPT ![j] = Ended(row[j], "succeeded")]
               \/ answer = "error" /\ row' = [row EXCEPT ![j] = Ended(row[j], "failed")]
               \/ answer = "error" /\ row' = row /\ row[j].status = "failed"
    BY <1>2, <1>3 DEF Settle, Open
  <1>5. /\ row' \in [Jobs -> RowType]
        /\ \A i \in Jobs : row'[i].owner = row[i].owner
        /\ \A i \in Jobs \ {j} : row'[i] = row[i] /\ call'[i] = call[i]
        /\ call'[j] = answer
        /\ row'[j].status = IF answer = "png" THEN "succeeded" ELSE "failed"
        /\ call' \in [Jobs -> {"none", "pending", "png", "error", "lost"}]
    BY <1>2, <1>3, <1>4, EndedRow
  <1>6. Hosting' = Hosting
    BY <1>1, <1>5, SameHosts DEF hostVars
  <1>7. NoSlotLost'
    BY <1>1, <1>6, SlotsUnchanged DEF IInv
  <1>8. TypeOK'
    BY <1>1, <1>5 DEF IInv, TypeOK, RowType, hostVars, rendererVars
  <1>9. NotAsked'
    BY <1>1, <1>5 DEF IInv, NotAsked, rendererVars
  <1>10. RowsTell'
    BY <1>5 DEF IInv, RowsTell, Pending
  <1>11. AnsweredAsRecorded'
    BY <1>5 DEF IInv, AnsweredAsRecorded
  <1> QED
    BY <1>7, <1>8, <1>9, <1>10, <1>11 DEF IInv

LEMMA CrashProcessInv ==
    ASSUME IInv, NEW p \in Processes, CrashProcess(p)
    PROVE  IInv'
  <1> DEFINE mine == {j \in Jobs : Pending(j) /\ row[j].owner = p}
  <1>1. /\ UNCHANGED <<remote, crashes, row>> /\ up' = [up EXCEPT ![p] = "down"]
        /\ call' = [j \in Jobs |-> IF j \in mine THEN "lost" ELSE call[j]]
        /\ socket' = [j \in Jobs |-> socket[j] /\ j \notin mine]
        /\ result' = [j \in Jobs |-> IF j \in mine THEN "none" ELSE result[j]]
    BY DEF CrashProcess
  <1>2. Hosting' = Hosting /\ p \in Hosts
    BY <1>1, SameHosts DEF Hosts
  <1>3. /\ NoSlotLost' /\ RendererType'
        /\ \A i \in Jobs : task[i] = "none" => task'[i] = "none"
    <2>1. CASE UNCHANGED rendererVars
      <3>1. NoSlotLost'
        BY <1>2, <2>1, SlotsUnchanged DEF IInv
      <3> QED
        BY <2>1, <3>1 DEF IInv, TypeOK, rendererVars, RendererType, Places
    <2>2. CASE Emptied(p)
      BY <1>2, <2>2, EmptiedSlots DEF IInv
    <2> QED
      BY <2>1, <2>2 DEF CrashProcess
  <1>4. \A j \in Jobs : /\ call'[j] = call[j] \/ (call'[j] = "lost" /\ call[j] = "pending")
                        /\ call[j] = "none" => call'[j] = "none"
    <2>1. \A j \in Jobs : j \in mine => call[j] = "pending"
      BY DEF Pending
    <2> HIDE DEF mine
    <2> QED
      BY <1>1, <2>1
  <1>5. TypeOK'
    <2>1. call' \in [Jobs -> {"none", "pending", "png", "error", "lost"}]
      BY <1>1 DEF IInv, TypeOK
    <2>2. socket' \in [Jobs -> BOOLEAN]
      BY <1>1 DEF IInv, TypeOK
    <2>3. result' \in [Jobs -> {"none", "png", "error"}]
      BY <1>1 DEF IInv, TypeOK
    <2> QED
      BY <1>1, <1>3, <2>1, <2>2, <2>3 DEF IInv, TypeOK, RendererType, Places
  <1>6. NotAsked'
    BY <1>1, <1>3, <1>4 DEF IInv, NotAsked
  <1>7. RowsTell' /\ AnsweredAsRecorded'
    BY <1>1, <1>4 DEF IInv, RowsTell, Pending, AnsweredAsRecorded
  <1> QED
    BY <1>3, <1>5, <1>6, <1>7 DEF IInv

LEMMA CrashWorkerInv ==
    ASSUME IInv, CrashWorker
    PROVE  IInv'
  <1>1. /\ UNCHANGED <<remote, row, call>> /\ crashes < MaxCrashes /\ crashes' = crashes + 1
        /\ up' = [up EXCEPT ![Worker] = "down"] /\ Emptied(Worker)
        /\ result' = [j \in Jobs |->
                         IF socket[j] /\ result[j] = "none" THEN "error" ELSE result[j]]
        /\ socket' = [j \in Jobs |-> FALSE]
    BY DEF CrashWorker
  <1>2. Hosting' = Hosting /\ Worker \in Hosts
    BY <1>1, SameHosts DEF Hosts
  <1>3. /\ NoSlotLost' /\ RendererType'
        /\ \A i \in Jobs : task[i] = "none" => task'[i] = "none"
    BY <1>1, <1>2, EmptiedSlots DEF IInv
  <1>4. TypeOK'
    <2>1. crashes' \in 0 .. MaxCrashes
      BY <1>1 DEF IInv, TypeOK
    <2>2. result' \in [Jobs -> {"none", "png", "error"}]
      BY <1>1 DEF IInv, TypeOK
    <2> QED
      BY <1>1, <1>3, <2>1, <2>2 DEF IInv, TypeOK, RendererType, Places
  <1>5. NotAsked'
    BY <1>1, <1>3 DEF IInv, NotAsked
  <1>6. RowsTell' /\ AnsweredAsRecorded'
    BY <1>1 DEF IInv, RowsTell, Pending, AnsweredAsRecorded
  <1> QED
    BY <1>3, <1>4, <1>5, <1>6 DEF IInv

LEMMA StutterInv ==
    ASSUME IInv, UNCHANGED vars
    PROVE  IInv'
  <1>1. up' \in [Hosts -> {"new", "up", "down"}] /\ row' \in [Jobs -> RowType]
    BY DEF IInv, TypeOK, RowType, vars, hostVars
  <1>2. \A j \in Jobs : RowStep(row[j], row'[j])
    BY <1>1 DEF RowStep, vars
  <1> QED
    BY <1>1, <1>2, RowsOnly DEF vars, hostVars

LEMMA NextInv ==
    ASSUME IInv, [Next]_vars
    PROVE  IInv'
  BY StartProcessInv, TickInv, LapseInv, CrashProcessInv, RenderInv, WakeInv, FinishInv,
     ConnectInv, ClientTimeoutInv, SettleInv, CrashWorkerInv, StartWorkerInv, StutterInv
  DEF Next

LEMMA Inductive == Spec => []IInv
  <1>1. Init => IInv
    BY InitInv
  <1>2. IInv /\ [Next]_vars => IInv'
    BY NextInv
  <1> QED
    BY <1>1, <1>2, PTL DEF Spec

-----------------------------------------------------------------------------
\* The variables keep their types, the counters of the slots staying natural
\* numbers whatever is released (render.ts, render-job-store.ts).
THEOREM TypeCorrect == Spec => []TypeOK
  <1>1. IInv => TypeOK
    BY DEF IInv
  <1> QED
    BY <1>1, Inductive, PTL

\* No slot is lost and no waiter forgotten, over every crash, timeout and late
\* answer (#acquire and its release in render.ts).
THEOREM NoSlotLostAlways == Spec => []NoSlotLost
  <1>1. IInv => NoSlotLost
    BY DEF IInv
  <1> QED
    BY <1>1, Inductive, PTL

\* A caller is told what its row says, though leases run out under slow owners
\* (render in render.ts, succeed and fail in render-job-store.ts).
THEOREM AnsweredAsRecordedAlways == Spec => []AnsweredAsRecorded
  <1>1. IInv => AnsweredAsRecorded
    BY DEF IInv
  <1> QED
    BY <1>1, Inductive, PTL
=============================================================================
