---------------------- MODULE ValidationSignalsProofs ----------------------
(***************************************************************************)
(* ValidationSignals calls every subscriber that is due exactly once and in *)
(* order, and Shutdown is safe and misses no callback, for any subscribers, *)
(* threads and number of events.  What the lemmas use of the theory of      *)
(* finite sets is stated as CountFacts and established at the end.          *)
(***************************************************************************)
EXTENDS ValidationSignals, TLAPS

Places == {"idle", "limit", "sync", "commit", "begin", "deliver", "tipchange", "notify", "unlock", "wait",
           "finish", "unregistered", "joining", "reset", "flush", "done"}
AllIds == 0..MaxRegistrations
Iterations == [at : AllIds \cup {None}, due : SUBSET AllIds, got : SUBSET AllIds]
AllItems == ({"event"} \X Nat) \cup ({"sync"} \X Producers)

\* The ids of the registered entries.
Live == {m_map[s] : s \in Registered}

\* The places inside a callback, and those of an executor between taking a callback from the
\* queue and finishing it.
Inside == {"deliver", "notify"}
Working(e) == pc[e] \in {"begin", "tipchange", "deliver", "notify", "finish"}

IsEvent(x) == x # None /\ x[1] = "event"
IsSync(x) == x # None /\ x[1] = "sync"

-----------------------------------------------------------------------------
(* The inductive invariant.                                                 *)

ListTyped ==
  /\ nextId \in 0..(MaxRegistrations + 1) /\ Ids \subseteq AllIds /\ (\A id \in Ids : id < nextId)
  /\ m_list \in [Ids -> [sub : Subscribers, count : Nat]]
  /\ m_map \in [Subscribers -> AllIds \cup {None}]
  /\ iter \in [Actors -> Iterations]

QueueTyped ==
  /\ runner \in {"serial", "immediate"} /\ pc \in [Actors -> Places]
  /\ pending \in Seq(AllItems) /\ current \in AllItems \cup {None}
  /\ events \in Nat /\ seen \in [Subscribers -> Nat] /\ owed \in [Subscribers -> Nat]
  /\ throws \in Nat

Types == ListTyped /\ QueueTyped

\* The entries: those in use are in the list, and the counts are right.  A thread is in a
\* callback exactly while its Iterate stands at an entry.
Entries ==
  /\ CountsHold
  /\ \A a \in Actors : iter[a].at # None <=> pc[a] \in Inside

\* Iterate: entries that are due are still registered, those up to the present one were called,
\* and none behind it.
Progress ==
  \A a \in Actors :
    /\ iter[a].due \subseteq Live
    /\ iter[a].at = None => iter[a].due \subseteq iter[a].got
    /\ iter[a].at # None => /\ \A d \in iter[a].due : d <= iter[a].at => d \in iter[a].got
                            /\ \A g \in iter[a].got : g <= iter[a].at

\* The queue: one executor works at a time; a thread waits for its sync, which is there once.
Waiting ==
  /\ \A e, f \in Executors : Working(e) /\ Working(f) => e = f
  /\ \A e \in Executors : Working(e) => current # None
  /\ \A e \in Executors : pc[e] \in Inside => IsEvent(current)
  /\ \A i \in DOMAIN pending : IsSync(pending[i]) => pc[pending[i][2]] = "sync"
  /\ \A i, j \in DOMAIN pending : IsSync(pending[i]) /\ pending[i] = pending[j] => i = j
  /\ \A e \in Executors : pc[e] = "begin" /\ IsSync(current) =>
       pc[current[2]] = "sync" /\ \A i \in DOMAIN pending : pending[i] # current

\* The order: what a subscriber has seen is not after what is executed, and that not after what
\* is pending, which is in the order of the events.
Ordered ==
  /\ \A s \in Subscribers : seen[s] <= events
  /\ IsEvent(current) => current[2] <= events /\ \A s \in Subscribers : seen[s] <= current[2]
  /\ \A i \in DOMAIN pending : IsEvent(pending[i]) =>
       /\ pending[i][2] <= events
       /\ \A s \in Subscribers : seen[s] <= pending[i][2]
       /\ IsEvent(current) => current[2] <= pending[i][2]
  /\ \A i, j \in DOMAIN pending : IsEvent(pending[i]) /\ IsEvent(pending[j]) /\ i <= j =>
       pending[i][2] <= pending[j][2]

\* The two runners: ImmediateTaskRunner leaves the queue alone, and only with it a producer
\* calls the subscribers with what it raises, or a callback throws.  An executor calls them with
\* what was queued only.
Runner ==
  /\ \A e \in Executors : pc[e] \notin {"tipchange", "notify"}
  /\ runner = "immediate" => /\ pending = <<>> /\ current = None /\ pc[Shutter] = "idle"
                             /\ \A a \in Producers : pc[a] \notin {"wait", "sync"}
  /\ runner = "serial" => throws = 0 /\ \A a \in Producers : ~Queued(a)

\* Shutdown: who has stopped, and what is gone.
Stopping ==
  /\ pc[Shutter] # "idle" => m_map[Peerman] = None
  /\ pc[Shutter] \notin {"idle", "unregistered"} => \A a \in Producers : pc[a] = "idle"
  /\ pc[Shutter] \notin {"idle", "unregistered", "joining"} => pc[Worker] = "idle"
  /\ destroyed => pc[Shutter] \notin {"idle", "unregistered", "joining"}
  /\ pc[Shutter] = "done" => pending = <<>>
  /\ DestroyedUnreachable

\* The last event is on its way to s.
OnItsWay(s) ==
  \/ \E i \in DOMAIN pending : pending[i] = <<"event", events>>
  \/ /\ current = <<"event", events>>
     /\ \E e \in Executors : \/ pc[e] = "begin"
                             \/ iter[e].at # None /\ m_map[s] \in iter[e].due \ iter[e].got

\* What is owed: a subscriber that was registered when an event was raised is owed the last one.
Owing ==
  /\ \A s \in Subscribers : owed[s] \in {0, events}
  /\ pc[Shutter] # "done" => \A s \in Subscribers : owed[s] # 0 => s \in Registered
  /\ runner = "serial" => \A s \in Subscribers : owed[s] = 0 \/ seen[s] = owed[s] \/ OnItsWay(s)

Inv == Types /\ Entries /\ Progress /\ Waiting /\ Ordered /\ Runner /\ Stopping /\ Owing

-----------------------------------------------------------------------------
(* Constants, items and counts.                                             *)

\* The constants.
LEMMA Constants ==
  /\ MaxRegistrations \in Nat /\ Peerman \in Subscribers
  /\ Executors = {Worker, Shutter} /\ Worker # Shutter
  /\ Producers \subseteq Actors /\ Executors \subseteq Actors /\ Producers \cap Executors = {}
  /\ Activators \subseteq Producers /\ Submitters \subseteq Producers
  /\ Actors = Producers \cup Executors
  /\ None \notin AllIds /\ None \notin AllItems
<1>1. None \notin AllItems
  BY SignalsAssumption, Zenon DEF AllItems, Producers
<1>2. None \notin AllIds /\ MaxRegistrations \in Nat /\ Peerman \in Subscribers /\ Worker # Shutter
  BY SignalsAssumption, Zenon DEF AllIds
<1>3. Producers \cap Executors = {}
  BY SignalsAssumption, Zenon DEF Producers, Executors
<1> QED BY <1>1, <1>2, <1>3, Zenon DEF Actors, Producers, Executors

\* Threads are counted one at a time.
CountFacts ==
  /\ Cardinality({}) = 0
  /\ \A S \in SUBSET Actors :
       /\ Cardinality(S) \in Nat
       /\ \A a \in Actors :
            /\ Cardinality(S \cup {a}) = IF a \in S THEN Cardinality(S) ELSE Cardinality(S) + 1
            /\ Cardinality(S \ {a}) = IF a \in S THEN Cardinality(S) - 1 ELSE Cardinality(S)

\* What CountFacts says of one set of threads, ...
LEMMA CountActors ==
  ASSUME CountFacts, NEW S \in SUBSET Actors
  PROVE  /\ Cardinality(S) \in Nat
         /\ \A a \in Actors :
              /\ Cardinality(S \cup {a}) = IF a \in S THEN Cardinality(S) ELSE Cardinality(S) + 1
              /\ Cardinality(S \ {a}) = IF a \in S THEN Cardinality(S) - 1 ELSE Cardinality(S)
BY Zenon DEF CountFacts

\* ... and of none.
LEMMA NoneCounted == ASSUME CountFacts PROVE Cardinality({}) = 0
BY Zenon DEF CountFacts

\* An item is an event with its number or the sync of a producer.
LEMMA ItemKinds ==
  ASSUME NEW x \in AllItems
  PROVE  /\ x # None /\ (IsEvent(x) <=> ~IsSync(x))
         /\ IsEvent(x) => x[2] \in Nat /\ x = <<"event", x[2]>>
         /\ IsSync(x) => x[2] \in Producers /\ x = <<"sync", x[2]>>
<1>1. x # None
  BY Constants, Zenon
<1>2. CASE x \in {"event"} \X Nat
  BY <1>1, <1>2 DEF IsEvent, IsSync
<1>3. CASE x \in {"sync"} \X Producers
  BY <1>1, <1>3 DEF IsEvent, IsSync
<1> QED BY <1>2, <1>3, Zenon DEF AllItems

\* 1 for a condition that holds.
One(P) == IF P THEN 1 ELSE 0

\* The users of an entry are finitely many, and a user is one of them.
LEMMA Users ==
  ASSUME CountFacts, NEW id
  PROVE  /\ Cardinality(Executing(id)) \in Nat
         /\ \A a \in Actors : iter[a].at = id => Cardinality(Executing(id)) >= 1
<1>1. Executing(id) \in SUBSET Actors
  BY Zenon DEF Executing
<1>3. Cardinality(Executing(id)) \in Nat
  BY <1>1, CountActors
<1>4. ASSUME NEW a \in Actors, iter[a].at = id PROVE Cardinality(Executing(id)) >= 1
  <2>1. a \in Executing(id)
    BY <1>4, Zenon DEF Executing
  <2>2. Cardinality(Executing(id) \ {a}) = Cardinality(Executing(id)) - 1
    BY <1>1, <2>1, CountActors
  <2>3. Executing(id) \ {a} \in SUBSET Actors
    BY <1>1, Zenon
  <2>4. Cardinality(Executing(id) \ {a}) \in Nat
    BY <2>3, CountActors
  <2> QED BY <1>3, <2>2, <2>4
<1> QED BY <1>3, <1>4

\* What the step of one thread changes in the number of users.
UsersMove(a, r, id) ==
  Cardinality(Executing(id)') = Cardinality(Executing(id)) - One(iter[a].at = id) + One(r.at = id)

\* A thread that goes from one entry to another is a user of the second and not of the first.
LEMMA UsersChange ==
  ASSUME CountFacts, iter \in [Actors -> Iterations], NEW a \in Actors, NEW r, iter' = [iter EXCEPT ![a] = r], NEW id
  PROVE  UsersMove(a, r, id)
<1>1. Executing(id) \in SUBSET Actors /\ (a \in Executing(id) <=> iter[a].at = id)
  BY Zenon DEF Executing
<1>2. iter'[a] = r /\ \A u \in Actors : u # a => iter'[u] = iter[u]
  BY Zenon
<1>3. Executing(id)' = IF r.at = id THEN Executing(id) \cup {a} ELSE Executing(id) \ {a}
  BY <1>2, Zenon DEF Executing
<1>5. /\ Cardinality(Executing(id) \cup {a}) = IF a \in Executing(id) THEN Cardinality(Executing(id)) ELSE Cardinality(Executing(id)) + 1
      /\ Cardinality(Executing(id) \ {a}) = IF a \in Executing(id) THEN Cardinality(Executing(id)) - 1 ELSE Cardinality(Executing(id))
  BY <1>1, CountActors, Zenon
<1>6. Cardinality(Executing(id)) \in Nat
  BY Users
<1> HIDE DEF Executing
<1>7. CASE r.at = id
  <2>1. Cardinality(Executing(id)') = IF iter[a].at = id THEN Cardinality(Executing(id)) ELSE Cardinality(Executing(id)) + 1
    BY <1>1, <1>3, <1>5, <1>7, Zenon
  <2> QED BY <1>6, <1>7, <2>1 DEF One, UsersMove
<1>8. CASE r.at # id
  <2>1. Cardinality(Executing(id)') = IF iter[a].at = id THEN Cardinality(Executing(id)) - 1 ELSE Cardinality(Executing(id))
    BY <1>1, <1>3, <1>5, <1>8, Zenon
  <2> QED BY <1>6, <1>8, <2>1 DEF One, UsersMove
<1> QED BY <1>7, <1>8, Zenon

\* An entry and its id.
LEMMA EntryTypes ==
  ASSUME Types
  PROVE  \A j \in Ids : j # None /\ j \in AllIds /\ j \in Nat /\ SubOf(j) \in Subscribers /\ m_list[j].count \in Nat
<1> TAKE j \in Ids
<1>1. j \in AllIds
  BY Zenon DEF Types, ListTyped, QueueTyped
<1>2. j # None
  BY <1>1, Constants, Zenon
<1>3. j \in Nat
  BY <1>1 DEF AllIds
<1>4. SubOf(j) \in Subscribers /\ m_list[j].count \in Nat
  BY DEF Types, ListTyped, QueueTyped, SubOf
<1> QED BY <1>1, <1>2, <1>3, <1>4, Zenon

\* The counts of the list after Drop.
LEMMA DropIs ==
  ASSUME Types, NEW ids
  PROVE  /\ DOMAIN Drop(ids) = {i \in Ids : i \in ids => m_list[i].count # 1}
         /\ \A i \in DOMAIN Drop(ids) : /\ Drop(ids)[i].sub = SubOf(i)
                                       /\ Drop(ids)[i].count = m_list[i].count - One(i \in ids)
<1>1. DOMAIN Drop(ids) = {i \in Ids : i \in ids => m_list[i].count # 1}
  BY Zenon DEF Drop
<1>2. ASSUME NEW i \in DOMAIN Drop(ids)
      PROVE  Drop(ids)[i] = [sub |-> m_list[i].sub, count |-> IF i \in ids THEN m_list[i].count - 1 ELSE m_list[i].count]
  BY <1>1, Zenon DEF Drop
<1>3. \A i \in Ids : m_list[i].count \in Nat
  BY DEF Types, ListTyped, QueueTyped
<1> HIDE DEF Drop
<1>4. ASSUME NEW i \in DOMAIN Drop(ids)
      PROVE  Drop(ids)[i].sub = SubOf(i) /\ Drop(ids)[i].count = m_list[i].count - One(i \in ids)
  <2>1. i \in Ids /\ m_list[i].count \in Nat
    BY <1>1, <1>3, Zenon
  <2> QED BY <1>2, <2>1 DEF SubOf, One
<1> QED BY <1>1, <1>4, Zenon

-----------------------------------------------------------------------------
(* The list.                                                                *)

\* The executions of an entry, and its registration.
Uses(id) == Cardinality(Executing(id)) + One(m_map[SubOf(id)] = id)

\* What CountsHold says, in these words.
InUse == \A a \in Actors : iter[a].at # None => iter[a].at \in Ids
Mapped == \A s \in Registered : m_map[s] \in Ids /\ m_list[m_map[s]].sub = s
Counted(id) ==
  /\ m_list[id].count > 0 /\ m_list[id].count >= Uses(id)
  /\ throws = 0 => m_list[id].count = Uses(id)

\* CountsHold in its parts.
LEMMA CountsAre == CountsHold <=> InUse /\ Mapped /\ \A id \in Ids : Counted(id)
BY Zenon DEF CountsHold, InUse, Mapped, Counted, Uses, One, SubOf

\* The same after a step.
LEMMA CountsNext == ASSUME InUse', Mapped', \A id \in Ids' : Counted(id)' PROVE CountsHold'
BY Zenon DEF CountsHold, InUse, Mapped, Counted, Uses, One, SubOf

\* What a step that leaves the list alone keeps: no Iterate moves, or one that is over is
\* forgotten.
ListKept ==
  /\ UNCHANGED <<m_list, m_map, throws>>
  /\ \A u \in Actors : iter'[u] = iter[u] \/ (iter'[u] = NotIterating /\ iter[u].at = None)
  /\ \A u \in Actors : pc'[u] \in Inside <=> pc[u] \in Inside

\* Such a step keeps the counts and the progress of every Iterate.
LEMMA ListKeptInv ==
  ASSUME Types, Entries, Progress, ListKept
  PROVE  Entries' /\ Progress'
<1>1. m_list' = m_list /\ m_map' = m_map /\ throws' = throws /\ Ids' = Ids
  BY Zenon DEF ListKept, Ids
<1>2. \A u \in Actors : iter'[u].at = iter[u].at
  BY DEF ListKept, NotIterating
<1>3. ASSUME NEW id PROVE Executing(id)' = Executing(id)
  BY <1>2, Zenon DEF Executing
<1>4. Registered' = Registered /\ Live' = Live
  BY <1>1, Zenon DEF Registered, Live
<1>5. CountsHold'
  <2>1. InUse /\ Mapped /\ \A id \in Ids : Counted(id)
    BY CountsAre, Zenon DEF Entries
  <2>2. InUse'
    BY <1>1, <1>2, <2>1, Zenon DEF InUse
  <2>3. Mapped'
    BY <1>1, <1>4, <2>1, Zenon DEF Mapped
  <2>4. ASSUME NEW id \in Ids PROVE Counted(id)'
    <3>1. Uses(id)' = Uses(id)
      BY <1>1, <1>3, Zenon DEF Uses, SubOf
    <3> QED BY <1>1, <2>1, <3>1, Zenon DEF Counted
  <2> QED BY <1>1, <2>2, <2>3, <2>4, CountsNext, Zenon
<1>6. Entries'
  BY <1>2, <1>5, Zenon DEF Entries, ListKept
<1>7. Progress'
  <2>1. ASSUME NEW u \in Actors, iter'[u] = iter[u]
        PROVE  /\ iter'[u].due \subseteq Live'
               /\ iter'[u].at = None => iter'[u].due \subseteq iter'[u].got
               /\ iter'[u].at # None => /\ \A d \in iter'[u].due : d <= iter'[u].at => d \in iter'[u].got
                                        /\ \A g \in iter'[u].got : g <= iter'[u].at
    BY <1>4, <2>1, Zenon DEF Progress
  <2>2. ASSUME NEW u \in Actors, iter'[u] = NotIterating
        PROVE  /\ iter'[u].due \subseteq Live'
               /\ iter'[u].at = None => iter'[u].due \subseteq iter'[u].got
               /\ iter'[u].at # None => /\ \A d \in iter'[u].due : d <= iter'[u].at => d \in iter'[u].got
                                        /\ \A g \in iter'[u].got : g <= iter'[u].at
    <3>1. iter'[u].at = None /\ iter'[u].due = {}
      BY <2>2 DEF NotIterating
    <3> QED BY <3>1, Zenon
  <2> QED BY <2>1, <2>2, Zenon DEF Progress, ListKept
<1> QED BY <1>6, <1>7

\* Register adds an entry that nobody uses yet.
LEMMA RegisterList ==
  ASSUME CountFacts, Types, Entries, Progress, NEW s \in Subscribers, Register(s)
  PROVE  Entries' /\ Progress'
<1>0. PICK n : n = nextId
  BY Zenon
<1>1. /\ iter' = iter /\ pc' = pc /\ throws' = throws /\ m_map[s] = None
      /\ m_map' = [m_map EXCEPT ![s] = n]
      /\ m_list' = [id \in Ids \cup {n} |-> IF id = n THEN [sub |-> s, count |-> 1] ELSE m_list[id]]
  BY <1>0, Zenon DEF Register
<1>2. n \in AllIds /\ n \notin Ids /\ n # None
  <2>1. n <= MaxRegistrations /\ n \in 0..(MaxRegistrations + 1) /\ MaxRegistrations \in Nat
    BY <1>0, Constants DEF Register, Types, ListTyped, QueueTyped
  <2>2. n \in AllIds
    BY <2>1 DEF AllIds
  <2>3. \A id \in Ids : id < n /\ id \in AllIds
    BY <1>0, Zenon DEF Types, ListTyped, QueueTyped
  <2>4. n \notin Ids
    BY <2>1, <2>3
  <2> QED BY <2>2, <2>4, Constants, Zenon
<1>3. /\ Ids' = Ids \cup {n} /\ SubOf(n)' = s /\ m_list'[n].count = 1
      /\ \A id \in Ids : m_list'[id] = m_list[id]
  <2>1. Ids' = Ids \cup {n}
    BY <1>1, Zenon DEF Ids
  <2>2. m_list'[n] = [sub |-> s, count |-> 1]
    BY <1>1, Zenon
  <2>3. \A id \in Ids : m_list'[id] = m_list[id]
    BY <1>1, <1>2, Zenon
  <2> QED BY <2>1, <2>2, <2>3 DEF SubOf
<1>4. m_map'[s] = n /\ \A u \in Subscribers : u # s => m_map'[u] = m_map[u]
  BY <1>1, Zenon DEF Types, ListTyped, QueueTyped
<1>5. ASSUME NEW id PROVE Executing(id)' = Executing(id)
  BY <1>1, Zenon DEF Executing
<1>6. InUse /\ Mapped /\ \A id \in Ids : Counted(id)
  BY CountsAre, Zenon DEF Entries
<1>7. InUse'
  BY <1>1, <1>3, <1>6, Zenon DEF InUse
<1>8. Registered' = Registered \cup {s} /\ s \notin Registered /\ Live \subseteq Live'
  <2>1. Registered' = Registered \cup {s} /\ s \notin Registered
    BY <1>1, <1>2, <1>4, Zenon DEF Registered
  <2> QED BY <2>1, <1>4, Zenon DEF Live, Registered
<1>9. Mapped'
  <2>1. ASSUME NEW u \in Registered PROVE m_map'[u] \in Ids' /\ m_list'[m_map'[u]].sub = u
    <3>1. u \in Subscribers /\ u # s
      BY <1>8, Zenon DEF Registered
    <3>2. m_map'[u] = m_map[u] /\ m_map[u] \in Ids /\ m_list[m_map[u]].sub = u
      BY <1>4, <1>6, <3>1, Zenon DEF Mapped
    <3> QED BY <1>3, <3>2, Zenon
  <2> QED BY <1>3, <1>4, <1>8, <2>1, Zenon DEF Mapped, SubOf
<1>10. ASSUME NEW id \in Ids PROVE Counted(id)'
  <2>1. SubOf(id) \in Subscribers /\ SubOf(id)' = SubOf(id)
    BY <1>3 DEF SubOf, Types, ListTyped, QueueTyped
  <2>2. m_map'[SubOf(id)] = id <=> m_map[SubOf(id)] = id
    <3>1. id # n /\ id # None
      BY <1>2, Constants, Zenon DEF Types, ListTyped, QueueTyped
    <3> QED BY <1>1, <1>4, <2>1, <3>1, Zenon
  <2>3. Uses(id)' = Uses(id)
    BY <1>5, <2>1, <2>2, Zenon DEF Uses, One
  <2> QED BY <1>1, <1>3, <1>6, <2>3, Zenon DEF Counted
<1>11. Counted(n)'
  <2>1. \A a \in Actors : iter[a].at # n
    BY <1>2, <1>6, Zenon DEF InUse
  <2>2. Executing(n) = {}
    BY <2>1, Zenon DEF Executing
  <2>3. Cardinality(Executing(n)') = 0
    BY <1>5, <2>2, NoneCounted, Zenon
  <2>4. m_map'[SubOf(n)'] = n
    BY <1>3, <1>4, Zenon
  <2>5. Uses(n)' = Cardinality(Executing(n)') + 1
    BY <2>4, Zenon DEF Uses, One
  <2>6. Uses(n)' = 1
    BY <2>3, <2>5
  <2> QED BY <1>3, <2>6 DEF Counted
<1>12. Entries'
  <2>1. CountsHold'
    BY <1>3, <1>7, <1>9, <1>10, <1>11, CountsNext, Zenon
  <2> QED BY <1>1, <2>1, Zenon DEF Entries
<1>13. Progress'
  BY <1>1, <1>8, Zenon DEF Progress
<1> QED BY <1>12, <1>13

\* Clear and Unregister take one from the counts of the registered entries they are given.
LEMMA RemoveList ==
  ASSUME CountFacts, Types, Entries, Progress, NEW subs \in SUBSET Subscribers, RemoveEntries(subs), throws' = throws,
         \A u \in Actors : pc'[u] \in Inside <=> pc[u] \in Inside
  PROVE  Entries' /\ Progress'
<1>0. PICK ids : ids = {m_map[s] : s \in subs}
  BY Zenon
<1>1. /\ m_list' = Drop(ids) /\ m_map' = [s \in Subscribers |-> IF s \in subs THEN None ELSE m_map[s]]
      /\ iter' = [a \in Actors |-> [at |-> iter[a].at, due |-> iter[a].due \ ids, got |-> iter[a].got]]
  BY <1>0, Zenon DEF RemoveEntries
<1>2. \A u \in Actors : iter'[u].at = iter[u].at /\ iter'[u].due = iter[u].due \ ids /\ iter'[u].got = iter[u].got
  BY <1>1
<1>3. \A s \in Subscribers : m_map'[s] = IF s \in subs THEN None ELSE m_map[s]
  BY <1>1, Zenon
<1>4. /\ Ids' = {i \in Ids : i \in ids => m_list[i].count # 1}
      /\ \A i \in Ids' : m_list'[i].sub = SubOf(i) /\ m_list'[i].count = m_list[i].count - One(i \in ids)
  <2>1. Ids' = DOMAIN Drop(ids)
    BY <1>1, Zenon DEF Ids
  <2> QED BY <1>1, <2>1, DropIs, Zenon
<1>5. InUse /\ Mapped /\ \A id \in Ids : Counted(id)
  BY CountsAre, Zenon DEF Entries
<1>6. \A i \in Ids : i # None /\ SubOf(i) \in Subscribers /\ m_list[i].count \in Nat
  <2>1. \A i \in Ids : SubOf(i) \in Subscribers /\ m_list[i].count \in Nat
    BY DEF Types, ListTyped, QueueTyped, SubOf
  <2> QED BY <2>1, Constants, Zenon DEF Types, ListTyped, QueueTyped
<1>7. ASSUME NEW i \in Ids PROVE i \in ids <=> SubOf(i) \in subs /\ m_map[SubOf(i)] = i
  <2>1. ASSUME i \in ids PROVE SubOf(i) \in subs /\ m_map[SubOf(i)] = i
    <3>1. PICK s \in subs : m_map[s] = i
      BY <1>0, <2>1, Zenon
    <3>2. s \in Registered
      BY <1>6, <3>1, Zenon DEF Registered
    <3>3. SubOf(i) = s
      BY <1>5, <3>1, <3>2, Zenon DEF Mapped, SubOf
    <3> QED BY <3>1, <3>3, Zenon
  <2> QED BY <1>0, <2>1, Zenon
<1>8. ASSUME NEW id PROVE Executing(id)' = Executing(id)
  BY <1>2, Zenon DEF Executing
<1>9. ASSUME NEW i \in Ids PROVE Cardinality(Executing(i)) \in Nat /\ Uses(i) = Cardinality(Executing(i)) + One(m_map[SubOf(i)] = i)
  BY Users, Zenon DEF Uses
<1>10. InUse'
  <2>1. ASSUME NEW a \in Actors, iter'[a].at # None PROVE iter'[a].at \in Ids'
    <3>1. PICK i : i = iter[a].at /\ i = iter'[a].at
      BY <1>2, Zenon
    <3>2. i \in Ids
      BY <1>5, <2>1, <3>1, Zenon DEF InUse
    <3>3. CASE i \in ids
      <4>1. Cardinality(Executing(i)) \in Nat /\ Cardinality(Executing(i)) >= 1
        BY <3>1, Users
      <4>2. m_map[SubOf(i)] = i
        BY <1>7, <3>2, <3>3, Zenon
      <4>3. Uses(i) = Cardinality(Executing(i)) + 1
        BY <4>2, Zenon DEF Uses, One
      <4>4. m_list[i].count >= Uses(i) /\ m_list[i].count \in Nat
        BY <1>5, <1>6, <3>2, Zenon DEF Counted
      <4>5. m_list[i].count # 1
        BY <4>1, <4>3, <4>4
      <4> QED BY <1>4, <3>1, <3>2, <4>5, Zenon
    <3>4. CASE i \notin ids
      BY <1>4, <3>1, <3>2, <3>4, Zenon
    <3> QED BY <3>3, <3>4, Zenon
  <2> QED BY <2>1, Zenon DEF InUse
<1>11. ASSUME NEW s \in Registered' PROVE s \in Registered /\ s \notin subs /\ m_map'[s] = m_map[s] /\ m_map[s] \in Ids /\ m_map[s] \notin ids
  <2>1. s \in Subscribers /\ s \notin subs /\ m_map'[s] = m_map[s] /\ m_map[s] # None
    BY <1>3, Zenon DEF Registered
  <2>2. s \in Registered
    BY <2>1, Zenon DEF Registered
  <2>3. m_map[s] \in Ids /\ SubOf(m_map[s]) = s
    BY <1>5, <2>2, Zenon DEF Mapped, SubOf
  <2> QED BY <1>7, <2>1, <2>2, <2>3, Zenon
<1>12. Mapped'
  <2>1. ASSUME NEW s \in Registered' PROVE m_map'[s] \in Ids' /\ m_list'[m_map'[s]].sub = s
    <3>1. m_map'[s] \in Ids'
      BY <1>4, <1>11, Zenon
    <3>2. SubOf(m_map[s]) = s
      BY <1>5, <1>11, Zenon DEF Mapped, SubOf
    <3> QED BY <1>4, <1>11, <3>1, <3>2, Zenon
  <2> QED BY <2>1, Zenon DEF Mapped
<1>13. ASSUME NEW i \in Ids' PROVE Counted(i)'
  <2>1. i \in Ids /\ SubOf(i)' = SubOf(i) /\ SubOf(i) \in Subscribers /\ m_list[i].count \in Nat
    BY <1>4, <1>6, Zenon DEF SubOf
  <2>2. m_map'[SubOf(i)] = i <=> m_map[SubOf(i)] = i /\ i \notin ids
    BY <1>3, <1>6, <1>7, <2>1, Zenon
  <2>3. Uses(i)' = Cardinality(Executing(i)) + One(m_map[SubOf(i)] = i /\ i \notin ids)
    BY <1>8, <2>1, <2>2, Zenon DEF Uses, One
  <2>4. i \in ids => m_map[SubOf(i)] = i
    BY <1>7, <2>1, Zenon
  <2>5. /\ Cardinality(Executing(i)) \in Nat /\ Uses(i) = Cardinality(Executing(i)) + One(m_map[SubOf(i)] = i)
    BY <1>9, <2>1, Zenon
  <2>6. Uses(i)' = Uses(i) - One(i \in ids) /\ Uses(i) \in Nat
    BY <2>3, <2>4, <2>5 DEF One
  <2>7. m_list'[i].count = m_list[i].count - One(i \in ids) /\ (i \in ids => m_list[i].count # 1)
    BY <1>4, Zenon
  <2>8. /\ m_list[i].count > 0 /\ m_list[i].count >= Uses(i)
        /\ throws' = 0 => m_list[i].count = Uses(i)
    BY <1>5, <2>1, Zenon DEF Counted
  <2>9. /\ m_list'[i].count > 0 /\ m_list'[i].count >= Uses(i)'
        /\ throws' = 0 => m_list'[i].count = Uses(i)'
    BY <2>1, <2>6, <2>7, <2>8 DEF One
  <2> QED BY <2>9, Zenon DEF Counted
<1>14. Entries'
  <2>1. CountsHold'
    BY <1>10, <1>12, <1>13, CountsNext, Zenon
  <2> QED BY <1>2, <2>1, Zenon DEF Entries
<1>15. Live \ ids \subseteq Live'
  <2>1. ASSUME NEW s \in Registered, m_map[s] \notin ids PROVE m_map[s] \in Live'
    <3>1. s \in Subscribers /\ s \notin subs /\ m_map[s] # None
      BY <1>0, <2>1, Zenon DEF Registered
    <3>2. m_map'[s] = m_map[s] /\ s \in Registered'
      BY <1>3, <3>1, Zenon DEF Registered
    <3> QED BY <3>2, Zenon DEF Live
  <2> QED BY <2>1, Zenon DEF Live
<1>16. Progress'
  <2>1. ASSUME NEW u \in Actors
        PROVE  /\ iter'[u].due \subseteq Live'
               /\ iter'[u].at = None => iter'[u].due \subseteq iter'[u].got
               /\ iter'[u].at # None => /\ \A d \in iter'[u].due : d <= iter'[u].at => d \in iter'[u].got
                                        /\ \A g \in iter'[u].got : g <= iter'[u].at
    BY <1>2, <1>15, Zenon DEF Progress
  <2> QED BY <2>1, Zenon DEF Progress
<1> QED BY <1>14, <1>16

\* A callback that throws leaves its count behind.
LEMMA ThrowList ==
  ASSUME CountFacts, Types, Entries, Progress, NEW a \in Actors, CallbackThrows(a)
  PROVE  Entries' /\ Progress'
<1>1. /\ iter' = [iter EXCEPT ![a] = NotIterating] /\ pc' = [pc EXCEPT ![a] = "idle"]
      /\ throws' = throws + 1 /\ m_list' = m_list /\ m_map' = m_map
  BY Zenon DEF CallbackThrows, listVars
<1>2. /\ iter'[a].at = None /\ iter'[a].due = {} /\ pc'[a] = "idle"
      /\ \A u \in Actors : u # a => iter'[u] = iter[u] /\ pc'[u] = pc[u]
  <2>1. iter'[a] = NotIterating /\ pc'[a] = "idle" /\ \A u \in Actors : u # a => iter'[u] = iter[u] /\ pc'[u] = pc[u]
    BY <1>1, Zenon DEF Types, ListTyped, QueueTyped
  <2>2. NotIterating.at = None /\ NotIterating.due = {}
    BY DEF NotIterating
  <2> QED BY <2>1, <2>2, Zenon
<1>3. Ids' = Ids /\ Registered' = Registered /\ Live' = Live /\ throws' # 0
  <2>1. throws' # 0
    BY <1>1 DEF Types, ListTyped, QueueTyped
  <2> QED BY <1>1, <2>1, Zenon DEF Ids, Registered, Live
<1>4. InUse /\ Mapped /\ \A id \in Ids : Counted(id)
  BY CountsAre, Zenon DEF Entries
<1>5. InUse'
  BY <1>2, <1>3, <1>4, Zenon DEF InUse
<1>6. Mapped'
  BY <1>1, <1>3, <1>4, Zenon DEF Mapped
<1>7. ASSUME NEW i \in Ids PROVE Counted(i)'
  <2>1. Cardinality(Executing(i)') = Cardinality(Executing(i)) - One(iter[a].at = i) + One(NotIterating.at = i)
    <3>1. UsersMove(a, NotIterating, i)
      BY <1>1, UsersChange, Zenon DEF Types, ListTyped, QueueTyped
    <3> QED BY <3>1, Zenon DEF UsersMove
  <2>2. NotIterating.at = None /\ i # None
    BY Constants DEF NotIterating, Types, ListTyped, QueueTyped
  <2>3. Uses(i)' = Cardinality(Executing(i)') + One(m_map[SubOf(i)] = i)
    BY <1>1, Zenon DEF Uses, SubOf
  <2>4. Uses(i) = Cardinality(Executing(i)) + One(m_map[SubOf(i)] = i)
    BY Zenon DEF Uses
  <2>5. Cardinality(Executing(i)) \in Nat /\ m_list[i].count \in Nat
    BY Users DEF Types, ListTyped, QueueTyped
  <2>6. m_list[i].count > 0 /\ m_list[i].count >= Uses(i)
    BY <1>4, Zenon DEF Counted
  <2>7. m_list[i].count >= Uses(i)'
    BY <2>1, <2>2, <2>3, <2>4, <2>5, <2>6 DEF One
  <2> QED BY <1>1, <1>3, <2>6, <2>7, Zenon DEF Counted
<1>8. Entries'
  <2>1. CountsHold'
    BY <1>3, <1>5, <1>6, <1>7, CountsNext, Zenon
  <2>2. pc'[a] \notin Inside
    BY <1>2 DEF Inside
  <2> QED BY <1>2, <2>1, <2>2, Zenon DEF Entries
<1>9. Progress'
  <2>1. ASSUME NEW u \in Actors
        PROVE  /\ iter'[u].due \subseteq Live'
               /\ iter'[u].at = None => iter'[u].due \subseteq iter'[u].got
               /\ iter'[u].at # None => /\ \A d \in iter'[u].due : d <= iter'[u].at => d \in iter'[u].got
                                        /\ \A g \in iter'[u].got : g <= iter'[u].at
    BY <1>2, <1>3, Zenon DEF Progress
  <2> QED BY <2>1, Zenon DEF Progress
<1> QED BY <1>8, <1>9

\* The elements of a finite set of threads.
LEMMA SomeUser ==
  ASSUME CountFacts, NEW S \in SUBSET Actors, NEW u \in S
  PROVE  Cardinality(S) \in Nat /\ Cardinality(S) >= 1
<1>1. S \ {u} \in SUBSET Actors /\ u \in Actors
  BY Constants, Zenon
<1>2. Cardinality(S) \in Nat /\ Cardinality(S \ {u}) = Cardinality(S) - 1
  BY <1>1, CountActors
<1>3. Cardinality(S \ {u}) \in Nat
  BY <1>1, CountActors
<1> QED BY <1>2, <1>3

\* The list as Iterate finds it after it has let go of the entry it stood at.
LetGo(a, list) ==
  /\ DOMAIN list \subseteq Ids /\ list \in [DOMAIN list -> [sub : Subscribers, count : Nat]]
  /\ \A j \in DOMAIN list : /\ list[j].sub = SubOf(j) /\ list[j].count > 0
                            /\ list[j].count = m_list[j].count - One(iter[a].at = j)
  /\ \A j \in Ids : j \notin DOMAIN list => iter[a].at = j /\ m_list[j].count = 1

\* How far Iterate has come when it stands at id.
ComeTo(id, due, got) ==
  /\ due \subseteq Live /\ got \subseteq AllIds
  /\ \A d \in due : d <= id => d \in got
  /\ \A g \in got : g <= id

\* Iterate goes to the first entry behind id, or ends.
Ends(a, list, due, got, after) ==
  /\ m_list' = list
  /\ iter' = [iter EXCEPT ![a] = [at |-> None, due |-> due, got |-> got]]
  /\ pc' = [pc EXCEPT ![a] = after]
  /\ UNCHANGED seen
GoesTo(a, list, i, due, got) ==
  /\ m_list' = [list EXCEPT ![i] = [sub |-> list[i].sub, count |-> list[i].count + 1]]
  /\ iter' = [iter EXCEPT ![a] = [at |-> i, due |-> due, got |-> got \cup {i}]]
  /\ pc' = [pc EXCEPT ![a] = IF Queued(a) THEN "deliver" ELSE "notify"]
  /\ seen' = IF Queued(a) THEN [seen EXCEPT ![list[i].sub] = ItemOf(a)[2]] ELSE seen

\* Visit ends Iterate when no entry is behind id, and goes to the first one otherwise.
LEMMA VisitIs ==
  ASSUME NEW a, NEW list, NEW id, NEW due, NEW got, NEW after, Visit(a, list, id, due, got, after)
  PROVE  \/ Behind(list, id) = {} /\ Ends(a, list, due, got, after)
         \/ \E i \in First(Behind(list, id)) : GoesTo(a, list, i, due, got)
BY Zenon DEF Visit, Ends, GoesTo

\* The counts after a thread has gone from one entry to another, or to none.
LEMMA MoveCounts ==
  ASSUME CountFacts, Types, Entries, NEW a \in Actors, NEW list, LetGo(a, list), NEW r,
         iter' = [iter EXCEPT ![a] = r], r.at = None \/ r.at \in DOMAIN list,
         m_map' = m_map, throws' = throws, Ids' = DOMAIN list,
         \A j \in DOMAIN list : m_list'[j].sub = list[j].sub /\ m_list'[j].count = list[j].count + One(r.at = j)
  PROVE  CountsHold' /\ Live \subseteq DOMAIN list
<1>1. InUse /\ Mapped /\ \A id \in Ids : Counted(id)
  BY CountsAre, Zenon DEF Entries
<1>2. iter'[a] = r /\ \A u \in Actors : u # a => iter'[u] = iter[u]
  BY Zenon DEF Types, ListTyped, QueueTyped
<1>3. ASSUME NEW j PROVE Cardinality(Executing(j)') = Cardinality(Executing(j)) - One(iter[a].at = j) + One(r.at = j)
  <2>1. UsersMove(a, r, j)
    BY UsersChange, Zenon DEF Types, ListTyped, QueueTyped
  <2> QED BY <2>1, Zenon DEF UsersMove
<1>4. ASSUME NEW j \in Ids
      PROVE  /\ m_list[j].count \in Nat /\ Cardinality(Executing(j)) \in Nat
             /\ Uses(j) = Cardinality(Executing(j)) + One(m_map[SubOf(j)] = j)
             /\ m_list[j].count > 0 /\ m_list[j].count >= Uses(j)
             /\ throws = 0 => m_list[j].count = Uses(j)
  <2>1. m_list[j].count \in Nat
    BY DEF Types, ListTyped, QueueTyped
  <2>2. Cardinality(Executing(j)) \in Nat
    BY Users
  <2> QED BY <1>1, <2>1, <2>2, Zenon DEF Counted, Uses
<1>5. ASSUME NEW j \in Ids, j \notin DOMAIN list
      PROVE  m_map[SubOf(j)] # j /\ \A u \in Actors : iter'[u].at # j
  <2>1. iter[a].at = j /\ m_list[j].count = 1 /\ r.at # j
    <3>1. j # None
      BY EntryTypes, Zenon
    <3> QED BY <1>5, <3>1, Zenon DEF LetGo
  <2>2. Cardinality(Executing(j)) >= 1
    BY <2>1, Users
  <2>3. Uses(j) <= 1
    BY <1>4, <2>1
  <2>4. m_map[SubOf(j)] # j /\ Cardinality(Executing(j)) = 1
    BY <1>4, <2>2, <2>3 DEF One
  <2>5. Cardinality(Executing(j)') = 0
    BY <1>3, <2>1, <2>4 DEF One
  <2>6. ASSUME NEW u \in Actors, iter'[u].at = j PROVE FALSE
    <3>1. Executing(j)' \in SUBSET Actors /\ u \in Executing(j)'
      BY <2>6, Zenon DEF Executing
    <3>2. Cardinality(Executing(j)') >= 1
      <4>1. PICK S : S = Executing(j)'
        BY Zenon
      <4>2. Cardinality(S) >= 1
        BY <3>1, <4>1, SomeUser
      <4> QED BY <4>1, <4>2, Zenon
    <3> QED BY <2>5, <3>2
  <2> QED BY <2>4, <2>6, Zenon
<1>6. InUse'
  <2>1. ASSUME NEW u \in Actors, iter'[u].at # None PROVE iter'[u].at \in DOMAIN list
    <3>1. CASE u = a
      BY <1>2, <2>1, <3>1, Zenon
    <3>2. CASE u # a
      <4>1. iter'[u].at = iter[u].at /\ iter[u].at \in Ids
        BY <1>1, <1>2, <2>1, <3>2, Zenon DEF InUse
      <4> QED BY <1>5, <4>1, Zenon
    <3> QED BY <3>1, <3>2, Zenon
  <2> QED BY <2>1, Zenon DEF InUse
<1>7. ASSUME NEW s \in Registered PROVE m_map[s] \in DOMAIN list /\ SubOf(m_map[s]) = s
  <2>1. m_map[s] \in Ids /\ SubOf(m_map[s]) = s
    BY <1>1, Zenon DEF Mapped, SubOf
  <2> QED BY <1>5, <2>1, Zenon
<1>8. Registered' = Registered
  BY Zenon DEF Registered
<1>9. Mapped'
  <2>1. ASSUME NEW s \in Registered PROVE m_map'[s] \in Ids' /\ m_list'[m_map'[s]].sub = s
    <3>1. PICK j : j = m_map[s]
      BY Zenon
    <3>2. j \in DOMAIN list /\ SubOf(j) = s
      BY <1>7, <3>1, Zenon
    <3>3. list[j].sub = SubOf(j)
      BY <3>2, Zenon DEF LetGo
    <3>4. m_list'[j].sub = list[j].sub
      BY <3>2, Zenon
    <3> QED BY <3>1, <3>2, <3>3, <3>4, Zenon
  <2> QED BY <1>8, <2>1, Zenon DEF Mapped
<1>10. ASSUME NEW j \in Ids' PROVE Counted(j)'
  <2>1. /\ j \in Ids /\ SubOf(j)' = SubOf(j) /\ list[j].count > 0
        /\ list[j].count = m_list[j].count - One(iter[a].at = j)
        /\ m_list'[j].count = list[j].count + One(r.at = j)
    BY Zenon DEF LetGo, SubOf
  <2>2. Uses(j)' = Cardinality(Executing(j)') + One(m_map[SubOf(j)] = j)
    BY <2>1, Zenon DEF Uses
  <2>3. /\ m_list[j].count \in Nat /\ Cardinality(Executing(j)) \in Nat
        /\ Uses(j) = Cardinality(Executing(j)) + One(m_map[SubOf(j)] = j)
        /\ m_list[j].count > 0 /\ m_list[j].count >= Uses(j)
        /\ throws' = 0 => m_list[j].count = Uses(j)
    BY <1>4, <2>1, Zenon
  <2>4. Cardinality(Executing(j)') = Cardinality(Executing(j)) - One(iter[a].at = j) + One(r.at = j)
    BY <1>3, Zenon
  <2>5. /\ m_list'[j].count > 0 /\ m_list'[j].count >= Uses(j)'
        /\ throws' = 0 => m_list'[j].count = Uses(j)'
    <3>1. One(iter[a].at = j) \in 0..1 /\ One(r.at = j) \in 0..1 /\ One(m_map[SubOf(j)] = j) \in 0..1
      BY DEF One
    <3>2. PICK c, d, e, x, y, z, v, w :
            /\ c = m_list[j].count /\ d = m_list'[j].count /\ e = list[j].count
            /\ x = One(iter[a].at = j) /\ y = One(r.at = j) /\ z = One(m_map[SubOf(j)] = j)
            /\ v = Cardinality(Executing(j)) /\ w = Cardinality(Executing(j)')
      BY Zenon
    <3>3. /\ e > 0 /\ e = c - x /\ d = e + y /\ Uses(j)' = w + z /\ c \in Nat /\ v \in Nat /\ Uses(j) = v + z
          /\ c >= Uses(j) /\ (throws' = 0 => c = Uses(j)) /\ w = v - x + y
      BY <2>1, <2>2, <2>3, <2>4, <3>2, Zenon
    <3>4. x \in 0..1 /\ y \in 0..1 /\ z \in 0..1
      BY <3>1, <3>2, Zenon
    <3>5. d > 0 /\ d >= Uses(j)' /\ (throws' = 0 => d = Uses(j)')
      BY <3>3, <3>4
    <3> QED BY <3>2, <3>5, Zenon
  <2> QED BY <2>5, Zenon DEF Counted
<1> QED BY <1>6, <1>7, <1>9, <1>10, CountsNext, Zenon DEF Live

\* Where Iterate ends, everything due was called.
LEMMA EndsList ==
  ASSUME CountFacts, Types, Entries, Progress, NEW a \in Actors, NEW list, LetGo(a, list), NEW id \in Int, NEW due, NEW got,
         NEW after, after \notin Inside, ComeTo(id, due, got), Behind(list, id) = {},
         Ends(a, list, due, got, after), m_map' = m_map, throws' = throws
  PROVE  Entries' /\ Progress' /\ due \subseteq got
<1>0. PICK r : r = [at |-> None, due |-> due, got |-> got]
  BY Zenon
<1>1. iter' = [iter EXCEPT ![a] = r] /\ m_list' = list /\ pc' = [pc EXCEPT ![a] = after]
  BY <1>0, Zenon DEF Ends
<1>2. r.at = None /\ r.due = due /\ r.got = got
  BY <1>0
<1>3. Ids' = DOMAIN list
  BY <1>1, Zenon DEF Ids
<1>4. ASSUME NEW j \in DOMAIN list PROVE m_list'[j].sub = list[j].sub /\ m_list'[j].count = list[j].count + One(r.at = j)
  <2>1. j \in Ids
    BY Zenon DEF LetGo
  <2>2. j # None /\ m_list[j].count \in Nat
    BY <2>1, EntryTypes, Zenon
  <2>3. list[j].count = m_list[j].count - One(iter[a].at = j)
    BY Zenon DEF LetGo
  <2>4. list[j].count \in Int
    BY <2>2, <2>3 DEF One
  <2> QED BY <1>1, <1>2, <2>2, <2>4 DEF One
<1>5. CountsHold' /\ Live \subseteq DOMAIN list
  BY <1>1, <1>2, <1>3, <1>4, MoveCounts, Zenon
<1>6. iter'[a] = r /\ pc'[a] = after /\ \A u \in Actors : u # a => iter'[u] = iter[u] /\ pc'[u] = pc[u]
  BY <1>1, Zenon DEF Types, ListTyped, QueueTyped
<1>7. Entries'
  BY <1>2, <1>5, <1>6, Zenon DEF Entries
<1>8. Live' = Live
  BY Zenon DEF Live, Registered
<1>9. due \subseteq got
  <2>1. ASSUME NEW d \in due PROVE d \in got
    <3>1. d \in Live /\ (d <= id => d \in got)
      BY Zenon DEF ComeTo
    <3>2. d \in DOMAIN list /\ d \in Ids
      BY <1>5, <3>1, Zenon DEF LetGo
    <3>3. ~(d > id)
      BY <3>2, Zenon DEF Behind
    <3>4. d \in Nat
      BY <3>2, EntryTypes, Zenon
    <3>5. d <= id
      BY <3>3, <3>4
    <3> QED BY <3>1, <3>5, Zenon
  <2> QED BY <2>1, Zenon
<1>10. Progress'
  <2>1. ASSUME NEW u \in Actors
        PROVE  /\ iter'[u].due \subseteq Live'
               /\ iter'[u].at = None => iter'[u].due \subseteq iter'[u].got
               /\ iter'[u].at # None => /\ \A d \in iter'[u].due : d <= iter'[u].at => d \in iter'[u].got
                                        /\ \A g \in iter'[u].got : g <= iter'[u].at
    <3>1. CASE u = a
      <4>1. due \subseteq Live
        BY Zenon DEF ComeTo
      <4> QED BY <1>2, <1>6, <1>8, <1>9, <3>1, <4>1, Zenon
    <3>2. CASE u # a
      BY <1>6, <1>8, <3>2, Zenon DEF Progress
    <3> QED BY <3>1, <3>2, Zenon
  <2> QED BY <2>1, Zenon DEF Progress
<1> QED BY <1>7, <1>9, <1>10, Zenon

\* Where Iterate goes on, nothing due is passed over.
LEMMA GoesOnList ==
  ASSUME CountFacts, Types, Entries, Progress, NEW a \in Actors, NEW list, LetGo(a, list), NEW id \in Int, NEW due, NEW got,
         ComeTo(id, due, got), NEW i \in First(Behind(list, id)),
         GoesTo(a, list, i, due, got), m_map' = m_map, throws' = throws
  PROVE  Entries' /\ Progress'
<1>0. PICK r : r = [at |-> i, due |-> due, got |-> got \cup {i}]
  BY Zenon
<1>1. /\ iter' = [iter EXCEPT ![a] = r] /\ pc' = [pc EXCEPT ![a] = IF Queued(a) THEN "deliver" ELSE "notify"]
      /\ m_list' = [list EXCEPT ![i] = [sub |-> list[i].sub, count |-> list[i].count + 1]]
  BY <1>0, Zenon DEF GoesTo
<1>2. r.at = i /\ r.due = due /\ r.got = got \cup {i}
  BY <1>0
<1>3. i \in DOMAIN list /\ i \in Ids /\ i > id /\ \A j \in Behind(list, id) : i <= j
  BY Zenon DEF First, Behind, LetGo
<1>4. Ids' = DOMAIN list
  BY <1>1, Zenon DEF Ids
<1>5. ASSUME NEW j \in DOMAIN list PROVE m_list'[j].sub = list[j].sub /\ m_list'[j].count = list[j].count + One(r.at = j)
  <2>1. j \in Ids
    BY Zenon DEF LetGo
  <2>2. m_list[j].count \in Nat
    BY <2>1, EntryTypes, Zenon
  <2>3. list[j].count = m_list[j].count - One(iter[a].at = j)
    BY Zenon DEF LetGo
  <2>4. list[j].count \in Int
    BY <2>2, <2>3 DEF One
  <2>5. CASE j = i
    <3>1. m_list'[j] = [sub |-> list[j].sub, count |-> list[j].count + 1]
      BY <1>1, <2>5, Zenon
    <3> QED BY <1>2, <2>4, <2>5, <3>1 DEF One
  <2>6. CASE j # i
    <3>1. m_list'[j] = list[j]
      BY <1>1, <2>6, Zenon
    <3> QED BY <1>2, <2>4, <2>6, <3>1 DEF One
  <2> QED BY <2>5, <2>6, Zenon
<1>6. CountsHold' /\ Live \subseteq DOMAIN list
  BY <1>1, <1>2, <1>3, <1>4, <1>5, MoveCounts, Zenon
<1>7. /\ iter'[a] = r /\ pc'[a] = (IF Queued(a) THEN "deliver" ELSE "notify")
      /\ \A u \in Actors : u # a => iter'[u] = iter[u] /\ pc'[u] = pc[u]
  BY <1>1, Zenon DEF Types, ListTyped, QueueTyped
<1>8. i # None /\ i \in Nat
  BY <1>3, EntryTypes, Zenon
<1>9. Entries'
  <2>1. pc'[a] \in Inside
    BY <1>7, Zenon DEF Inside
  <2> QED BY <1>2, <1>6, <1>7, <1>8, <2>1, Zenon DEF Entries
<1>10. Live' = Live
  BY Zenon DEF Live, Registered
<1>11. Progress'
  <2>1. ASSUME NEW d \in due, d <= i PROVE d \in got \cup {i}
    <3>1. d \in Live /\ (d <= id => d \in got)
      BY Zenon DEF ComeTo
    <3>2. d \in DOMAIN list /\ d \in Ids
      BY <1>6, <3>1, Zenon DEF LetGo
    <3>3. d \in Nat
      BY <3>2, EntryTypes, Zenon
    <3>4. CASE d <= id
      BY <3>1, <3>4, Zenon
    <3>5. CASE d > id
      <4>1. i <= d
        BY <1>3, <3>2, <3>5, Zenon DEF Behind
      <4>2. d = i
        BY <1>8, <2>1, <3>3, <4>1
      <4> QED BY <4>2, Zenon
    <3> QED BY <3>3, <3>4, <3>5
  <2>2. ASSUME NEW g \in got \cup {i} PROVE g <= i
    <3>1. CASE g \in got
      <4>1. g <= id /\ g \in AllIds
        BY <3>1, Zenon DEF ComeTo
      <4>2. g \in Nat
        BY <4>1 DEF AllIds
      <4> QED BY <1>3, <1>8, <4>1, <4>2
    <3>2. CASE g = i
      BY <1>8, <3>2
    <3> QED BY <3>1, <3>2, Zenon
  <2>3. ASSUME NEW u \in Actors
        PROVE  /\ iter'[u].due \subseteq Live'
               /\ iter'[u].at = None => iter'[u].due \subseteq iter'[u].got
               /\ iter'[u].at # None => /\ \A d \in iter'[u].due : d <= iter'[u].at => d \in iter'[u].got
                                        /\ \A g \in iter'[u].got : g <= iter'[u].at
    <3>1. CASE u = a
      <4>1. due \subseteq Live
        BY Zenon DEF ComeTo
      <4> QED BY <1>2, <1>7, <1>8, <1>10, <2>1, <2>2, <3>1, <4>1, Zenon
    <3>2. CASE u # a
      BY <1>7, <1>10, <3>2, Zenon DEF Progress
    <3> QED BY <3>1, <3>2, Zenon
  <2> QED BY <2>3, Zenon DEF Progress
<1> QED BY <1>9, <1>11, Zenon

-----------------------------------------------------------------------------
(* The queue.                                                               *)

\* The items of the queue.
LEMMA PendingItems ==
  ASSUME Types
  PROVE  /\ Len(pending) \in Nat /\ DOMAIN pending = 1..Len(pending)
         /\ \A i \in DOMAIN pending : pending[i] \in AllItems /\ i \in Nat
  BY DEF Types, QueueTyped

\* What insert does to the queue.
Grown(x) ==
  /\ DOMAIN pending \subseteq DOMAIN pending'
  /\ Len(pending) + 1 \in DOMAIN pending' /\ pending'[Len(pending) + 1] = x
  /\ \A i \in DOMAIN pending : pending'[i] = pending[i] /\ i < Len(pending) + 1
  /\ \A i \in DOMAIN pending' : i \in DOMAIN pending \/ i = Len(pending) + 1
  /\ pending' \in Seq(AllItems)

\* insert adds to the end of m_callbacks_pending.
LEMMA AppendIs ==
  ASSUME Types, NEW x \in AllItems, pending' = Append(pending, x)
  PROVE  Grown(x)
<1>1. pending \in Seq(AllItems)
  BY DEF Types, QueueTyped
<1>2. /\ pending' \in Seq(AllItems) /\ Len(pending') = Len(pending) + 1 /\ Len(pending) \in Nat
      /\ DOMAIN pending = 1..Len(pending) /\ DOMAIN pending' = 1..(Len(pending) + 1)
      /\ \A i \in 1..Len(pending) : pending'[i] = pending[i]
      /\ pending'[Len(pending) + 1] = x
  BY <1>1
<1> QED BY <1>2 DEF Grown

\* What Start does to it.
Shrunk ==
  /\ 1 \in DOMAIN pending /\ current' = pending[1]
  /\ \A i \in DOMAIN pending' : i \in Nat /\ i + 1 # 1 /\ i + 1 \in DOMAIN pending /\ pending'[i] = pending[i + 1]
  /\ \A i \in DOMAIN pending : i = 1 \/ (i - 1 \in DOMAIN pending' /\ pending'[i - 1] = pending[i])
  /\ pending' \in Seq(AllItems)

\* ProcessQueue takes the first callback of m_callbacks_pending.
LEMMA StartIs ==
  ASSUME Types, Queue!Start
  PROVE  Shrunk
<1>1. /\ pending \in Seq(AllItems) /\ pending # <<>>
      /\ current' = Head(pending) /\ pending' = Tail(pending)
  BY Zenon DEF Types, QueueTyped, Queue!Start
<1>2. Len(pending) \in Nat /\ Len(pending) >= 1 /\ DOMAIN pending = 1..Len(pending) /\ Head(pending) = pending[1]
  BY <1>1
<1>3. /\ pending' \in Seq(AllItems) /\ Len(pending') = Len(pending) - 1 /\ DOMAIN pending' = 1..(Len(pending) - 1)
      /\ \A i \in 1..(Len(pending) - 1) : pending'[i] = pending[i + 1]
  BY <1>1, <1>2
<1>4. \A i \in 2..Len(pending) : i - 1 \in 1..(Len(pending) - 1) /\ (i - 1) + 1 = i
  BY <1>2
<1>5. ASSUME NEW i \in DOMAIN pending, i # 1 PROVE i - 1 \in DOMAIN pending' /\ pending'[i - 1] = pending[i]
  <2>1. i \in 2..Len(pending)
    BY <1>2, <1>5
  <2>2. pending'[i - 1] = pending[(i - 1) + 1]
    BY <1>3, <1>4, <2>1, Zenon
  <2> QED BY <1>3, <1>4, <2>1, <2>2, Zenon
<1>6. ASSUME NEW i \in DOMAIN pending' PROVE i \in Nat /\ i + 1 # 1 /\ i + 1 \in DOMAIN pending /\ pending'[i] = pending[i + 1]
  BY <1>2, <1>3
<1>7. 1 \in DOMAIN pending /\ current' = pending[1]
  BY <1>1, <1>2
<1> QED BY <1>3, <1>5, <1>6, <1>7, Zenon DEF Shrunk

\* The threads as the queue sees them: no producer stops waiting, no executor takes work.
Patient ==
  /\ \A u \in Producers : pc[u] = "sync" => pc'[u] = "sync"
  /\ \A e \in Executors : /\ Working(e)' => Working(e)
                          /\ pc'[e] = "begin" => pc[e] = "begin"
                          /\ pc'[e] \in Inside => IsEvent(current)

\* The sync of a pending item is that of a producer.
LEMMA SyncOfProducer ==
  ASSUME Types
  PROVE  /\ \A i \in DOMAIN pending : IsSync(pending[i]) => pending[i][2] \in Producers
         /\ IsSync(current) => current[2] \in Producers
<1>1. ASSUME NEW i \in DOMAIN pending, IsSync(pending[i]) PROVE pending[i][2] \in Producers
  BY <1>1, PendingItems, ItemKinds, Zenon
<1>2. ASSUME IsSync(current) PROVE current[2] \in Producers
  <2>1. current \in AllItems
    BY <1>2, Zenon DEF Types, QueueTyped, IsSync
  <2> QED BY <1>2, <2>1, ItemKinds, Zenon
<1> QED BY <1>1, <1>2, Zenon

\* A step that leaves the queue alone.
LEMMA QueueKept ==
  ASSUME Types, Waiting, Patient, pending' = pending, current' = current
  PROVE  Waiting'
<1>1. \A e, f \in Executors : Working(e)' /\ Working(f)' => e = f
  BY Zenon DEF Waiting, Patient
<1>2. \A e \in Executors : Working(e)' => current' # None
  BY Zenon DEF Waiting, Patient
<1>3. \A e \in Executors : pc'[e] \in Inside => IsEvent(current')
  BY Zenon DEF Patient
<1>4. \A i \in DOMAIN pending' : IsSync(pending'[i]) => pc'[pending'[i][2]] = "sync"
  BY SyncOfProducer, Zenon DEF Waiting, Patient
<1>5. \A e \in Executors : pc'[e] = "begin" /\ IsSync(current') =>
        pc'[current'[2]] = "sync" /\ \A i \in DOMAIN pending' : pending'[i] # current'
  BY SyncOfProducer, Zenon DEF Waiting, Patient
<1>6. \A i, j \in DOMAIN pending' : IsSync(pending'[i]) /\ pending'[i] = pending'[j] => i = j
  BY Zenon DEF Waiting
<1> QED BY <1>1, <1>2, <1>3, <1>4, <1>5, <1>6, Zenon DEF Waiting, IsEvent, IsSync

\* A step that inserts an item: an event, or the sync for which its thread begins to wait.
LEMMA QueueGrows ==
  ASSUME Types, Waiting, Patient, NEW x \in AllItems, pending' = Append(pending, x), current' = current,
         IsSync(x) => pc[x[2]] # "sync" /\ pc'[x[2]] = "sync"
  PROVE  Waiting'
<1>1. Grown(x)
  BY AppendIs, Zenon
<1>2. \A i \in DOMAIN pending : IsSync(pending[i]) => pc[pending[i][2]] = "sync" /\ pending[i][2] \in Producers
  BY SyncOfProducer, Zenon DEF Waiting
<1>3. \A i \in DOMAIN pending : ~(IsSync(x) /\ pending[i] = x)
  BY <1>2, Zenon
<1>4. \A e, f \in Executors : Working(e)' /\ Working(f)' => e = f
  BY Zenon DEF Waiting, Patient
<1>5. \A e \in Executors : Working(e)' => current' # None
  BY Zenon DEF Waiting, Patient
<1>6. \A e \in Executors : pc'[e] \in Inside => IsEvent(current')
  BY Zenon DEF Patient
<1>0. PICK n : n = Len(pending) + 1
  BY Zenon
<1>10. /\ \A i \in DOMAIN pending' : i \in DOMAIN pending \/ i = n
       /\ \A i \in DOMAIN pending : pending'[i] = pending[i]
       /\ pending'[n] = x
  BY <1>0, <1>1, Zenon DEF Grown
<1>7. ASSUME NEW i \in DOMAIN pending', IsSync(pending'[i]) PROVE pc'[pending'[i][2]] = "sync"
  <2>1. CASE i \in DOMAIN pending
    <3>1. pending'[i] = pending[i]
      BY <1>10, <2>1, Zenon
    <3> QED BY <1>2, <1>7, <2>1, <3>1, Zenon DEF Patient
  <2>2. CASE i = n
    <3>1. pending'[i] = x
      BY <1>10, <2>2, Zenon
    <3> QED BY <1>7, <3>1, Zenon
  <2> QED BY <1>10, <2>1, <2>2, Zenon
<1>8. ASSUME NEW i \in DOMAIN pending', NEW j \in DOMAIN pending', IsSync(pending'[i]), pending'[i] = pending'[j]
      PROVE  i = j
  <2>1. \A k, l \in DOMAIN pending : IsSync(pending[k]) /\ pending[k] = pending[l] => k = l
    BY Zenon DEF Waiting
  <2>2. CASE i \in DOMAIN pending /\ j \in DOMAIN pending
    <3>1. pending'[i] = pending[i] /\ pending'[j] = pending[j]
      BY <1>10, <2>2, Zenon
    <3> QED BY <1>8, <2>1, <2>2, <3>1, Zenon
  <2>3. CASE i \in DOMAIN pending /\ j = n
    <3>1. pending'[i] = pending[i] /\ pending'[j] = x
      BY <1>10, <2>3, Zenon
    <3> QED BY <1>3, <1>8, <2>3, <3>1, Zenon
  <2>4. CASE i = n /\ j \in DOMAIN pending
    <3>1. pending'[j] = pending[j] /\ pending'[i] = x
      BY <1>10, <2>4, Zenon
    <3> QED BY <1>3, <1>8, <2>4, <3>1, Zenon
  <2> QED BY <1>10, <2>2, <2>3, <2>4, Zenon
<1>9. ASSUME NEW e \in Executors, pc'[e] = "begin", IsSync(current)
      PROVE  pc'[current[2]] = "sync" /\ \A i \in DOMAIN pending' : pending'[i] # current
  <2>1. pc[current[2]] = "sync" /\ (\A i \in DOMAIN pending : pending[i] # current) /\ current[2] \in Producers
    BY <1>9, SyncOfProducer, Zenon DEF Waiting, Patient
  <2>2. x # current
    BY <1>9, <2>1, Zenon
  <2> QED BY <1>1, <2>1, <2>2, Zenon DEF Grown, Patient
<1> QED BY <1>4, <1>5, <1>6, <1>7, <1>8, <1>9, Zenon DEF Waiting, IsEvent, IsSync

\* The step of one thread.
LEMMA OneMoves ==
  ASSUME Types, NEW a \in Actors, NEW p, pc' = [pc EXCEPT ![a] = p]
  PROVE  pc'[a] = p /\ \A u \in Actors : u # a => pc'[u] = pc[u]
BY Zenon DEF Types, QueueTyped

\* An executor takes the first callback.
LEMMA ProcessWaiting ==
  ASSUME Types, Waiting, NEW e \in Executors, ProcessQueue(e)
  PROVE  Waiting'
<1>1. Shrunk /\ current = None /\ pc' = [pc EXCEPT ![e] = "begin"]
  <2>1. Queue!Start /\ pc' = [pc EXCEPT ![e] = "begin"]
    BY Zenon DEF ProcessQueue
  <2> QED BY <2>1, StartIs, Zenon DEF Queue!Start
<1>2. e \in Actors /\ Executors \subseteq Actors /\ Producers \subseteq Actors /\ e \notin Producers
  BY Constants, Zenon
<1>3. pc'[e] = "begin" /\ \A u \in Actors : u # e => pc'[u] = pc[u]
  BY <1>1, <1>2, OneMoves, Zenon
<1>4. \A f \in Executors : ~Working(f)
  BY <1>1, Zenon DEF Waiting
<1>5. ASSUME NEW f \in Executors, f # e PROVE ~Working(f)' /\ pc'[f] \notin Inside /\ pc'[f] # "begin"
  <2>1. pc'[f] = pc[f] /\ ~Working(f)
    BY <1>2, <1>3, <1>4, <1>5, Zenon
  <2> QED BY <2>1 DEF Working, Inside
<1>6. pc'[e] \notin Inside
  BY <1>3 DEF Inside
<1>7. current' # None
  BY <1>1, PendingItems, ItemKinds, Zenon DEF Shrunk
<1>8. ASSUME NEW i \in DOMAIN pending, IsSync(pending[i]) PROVE pc'[pending[i][2]] = "sync"
  BY <1>2, <1>3, <1>8, SyncOfProducer, Zenon DEF Waiting
<1>9. ASSUME NEW i \in DOMAIN pending', IsSync(pending'[i]) PROVE pc'[pending'[i][2]] = "sync"
  <2>1. i + 1 \in DOMAIN pending /\ pending'[i] = pending[i + 1]
    BY <1>1, Zenon DEF Shrunk
  <2> QED BY <1>8, <1>9, <2>1, Zenon
<1>10. ASSUME NEW i \in DOMAIN pending', NEW j \in DOMAIN pending', IsSync(pending'[i]), pending'[i] = pending'[j]
       PROVE  i = j
  <2>1. i \in Nat /\ j \in Nat /\ i + 1 = j + 1
    <3>1. /\ i \in Nat /\ i + 1 \in DOMAIN pending /\ pending'[i] = pending[i + 1]
          /\ j \in Nat /\ j + 1 \in DOMAIN pending /\ pending'[j] = pending[j + 1]
      BY <1>1, Zenon DEF Shrunk
    <3> QED BY <1>10, <3>1, Zenon DEF Waiting
  <2> QED BY <2>1
<1>11. ASSUME IsSync(current')
       PROVE  pc'[current'[2]] = "sync" /\ \A i \in DOMAIN pending' : pending'[i] # current'
  <2>1. 1 \in DOMAIN pending /\ current' = pending[1]
    BY <1>1, Zenon DEF Shrunk
  <2>2. pc'[current'[2]] = "sync"
    BY <1>8, <1>11, <2>1, Zenon
  <2>3. ASSUME NEW i \in DOMAIN pending', pending'[i] = current' PROVE FALSE
    <3>1. i + 1 # 1 /\ i + 1 \in DOMAIN pending /\ pending'[i] = pending[i + 1]
      BY <1>1, Zenon DEF Shrunk
    <3>2. i + 1 = 1
      BY <1>11, <2>1, <2>3, <3>1, Zenon DEF Waiting
    <3> QED BY <3>1, <3>2, Zenon
  <2> QED BY <2>2, <2>3, Zenon
<1>12. \A g, f \in Executors : Working(g)' /\ Working(f)' => g = f
  BY <1>5, Zenon
<1>13. \A f \in Executors : pc'[f] \in Inside => IsEvent(current')
  BY <1>5, <1>6, Zenon
<1> QED BY <1>7, <1>9, <1>10, <1>11, <1>12, <1>13, Zenon DEF Waiting, IsEvent, IsSync

\* The promise is set for the thread that waits for it.
LEMMA PromiseIs ==
  ASSUME Types, Waiting, NEW e \in Executors, SetPromise(e)
  PROVE  \E u \in Producers : /\ pc[e] = "begin" /\ pc[u] = "sync" /\ current = <<"sync", u>> /\ IsSync(current)
                              /\ pc'[e] = "finish" /\ pc'[u] = (IF u \in Activators THEN "commit" ELSE "idle")
                              /\ \A v \in Actors : v # e /\ v # u => pc'[v] = pc[v]
                              /\ \A i \in DOMAIN pending : pending[i] # current
<1>1. pc[e] = "begin" /\ current[1] = "sync"
  BY Zenon DEF SetPromise, ItemOf
<1>2. current # None
  BY <1>1, Zenon DEF Waiting, Working
<1>3. IsSync(current) /\ current \in AllItems
  BY <1>1, <1>2, Zenon DEF IsSync, Types, QueueTyped
<1>4. PICK u : u = current[2]
  BY Zenon
<1>5. u \in Producers /\ current = <<"sync", u>>
  BY <1>3, <1>4, ItemKinds, Zenon
<1>6. pc[u] = "sync" /\ \A i \in DOMAIN pending : pending[i] # current
  BY <1>1, <1>3, <1>4, Zenon DEF Waiting
<1>7. pc' = [pc EXCEPT ![e] = "finish", ![u] = IF u \in Activators THEN "commit" ELSE "idle"]
  BY <1>4, Zenon DEF SetPromise, ItemOf
<1>8. e \in Actors /\ u \in Actors /\ e # u /\ pc \in [Actors -> Places]
  BY <1>5, Constants, Zenon DEF Types, QueueTyped
<1>9. /\ pc'[e] = "finish" /\ pc'[u] = (IF u \in Activators THEN "commit" ELSE "idle")
      /\ \A v \in Actors : v # e /\ v # u => pc'[v] = pc[v]
  BY <1>7, <1>8
<1> QED BY <1>1, <1>3, <1>5, <1>6, <1>9, Zenon

\* The callback that sets the promise leaves every other thread waiting for its own.
LEMMA PromiseWaiting ==
  ASSUME Types, Waiting, NEW e \in Executors, SetPromise(e)
  PROVE  Waiting'
<1>1. PICK u \in Producers : /\ pc[e] = "begin" /\ pc[u] = "sync" /\ current = <<"sync", u>> /\ IsSync(current)
                             /\ pc'[e] = "finish" /\ pc'[u] = (IF u \in Activators THEN "commit" ELSE "idle")
                             /\ \A v \in Actors : v # e /\ v # u => pc'[v] = pc[v]
                             /\ \A i \in DOMAIN pending : pending[i] # current
  BY PromiseIs, Zenon
<1>2. pending' = pending /\ current' = current
  BY Zenon DEF SetPromise, queueVars
<1>3. e \in Actors /\ Executors \subseteq Actors /\ Producers \subseteq Actors /\ Producers \cap Executors = {}
  BY Constants, Zenon
<1>4. Working(e) /\ Working(e)' /\ pc'[e] \notin Inside /\ pc'[e] # "begin"
  BY <1>1 DEF Working, Inside
<1>5. ASSUME NEW f \in Executors, f # e PROVE ~Working(f)' /\ pc'[f] \notin Inside /\ pc'[f] # "begin"
  <2>1. pc'[f] = pc[f] /\ ~Working(f)
    BY <1>1, <1>3, <1>4, <1>5, Zenon DEF Waiting
  <2> QED BY <2>1 DEF Working, Inside
<1>6. ASSUME NEW i \in DOMAIN pending, IsSync(pending[i]) PROVE pc'[pending[i][2]] = "sync"
  <2>1. pending[i][2] \in Producers /\ pending[i] = <<"sync", pending[i][2]>> /\ pc[pending[i][2]] = "sync"
    BY <1>6, PendingItems, ItemKinds, Zenon DEF Waiting
  <2>2. pending[i][2] # u
    BY <1>1, <2>1, Zenon
  <2> QED BY <1>1, <1>3, <2>1, <2>2, Zenon
<1>7. \A i, j \in DOMAIN pending : IsSync(pending[i]) /\ pending[i] = pending[j] => i = j
  BY Zenon DEF Waiting
<1>8. current # None
  BY <1>1, Zenon DEF IsSync
<1>9. \A g, f \in Executors : Working(g)' /\ Working(f)' => g = f
  BY <1>5, Zenon
<1> QED BY <1>2, <1>4, <1>5, <1>6, <1>7, <1>8, <1>9, Zenon DEF Waiting, IsEvent, IsSync

\* A callback is finished.
LEMMA FinishWaiting ==
  ASSUME Types, Waiting, NEW e \in Executors, FinishCallback(e)
  PROVE  Waiting' /\ current' = None /\ \A f \in Executors : ~Working(f)'
<1>1. pc[e] = "finish" /\ pc' = [pc EXCEPT ![e] = IF e = Worker THEN "idle" ELSE "flush"] /\ pending' = pending /\ current' = None
  BY Zenon DEF FinishCallback, Queue!Finish
<1>2. e \in Actors /\ Executors \subseteq Actors /\ Producers \subseteq Actors /\ Producers \cap Executors = {}
  BY Constants, Zenon
<1>3. pc'[e] \in {"idle", "flush"} /\ \A u \in Actors : u # e => pc'[u] = pc[u]
  BY <1>1, <1>2, OneMoves, Zenon
<1>4. Working(e) /\ ~Working(e)'
  BY <1>1, <1>3 DEF Working
<1>5. ASSUME NEW f \in Executors PROVE ~Working(f)'
  <2>1. CASE f = e
    BY <1>4, <2>1, Zenon
  <2>2. CASE f # e
    <3>1. pc'[f] = pc[f] /\ ~Working(f)
      BY <1>2, <1>3, <1>4, <2>2, Zenon DEF Waiting
    <3> QED BY <3>1, Zenon DEF Working
  <2> QED BY <2>1, <2>2, Zenon
<1>6. \A f \in Executors : pc'[f] \notin Inside /\ pc'[f] # "begin"
  BY <1>5, Zenon DEF Working, Inside
<1>7. ASSUME NEW i \in DOMAIN pending, IsSync(pending[i]) PROVE pc'[pending[i][2]] = "sync"
  BY <1>2, <1>3, <1>7, SyncOfProducer, Zenon DEF Waiting
<1>8. \A i, j \in DOMAIN pending : IsSync(pending[i]) /\ pending[i] = pending[j] => i = j
  BY Zenon DEF Waiting
<1> QED BY <1>1, <1>5, <1>6, <1>7, <1>8, Zenon DEF Waiting, IsEvent, IsSync

-----------------------------------------------------------------------------
(* The order of events.                                                     *)

\* The numbers that Ordered compares.
LEMMA EventNumbers ==
  ASSUME Types
  PROVE  /\ events \in Nat /\ \A s \in Subscribers : seen[s] \in Nat
         /\ \A i \in DOMAIN pending : IsEvent(pending[i]) => pending[i][2] \in Nat
         /\ IsEvent(current) => current[2] \in Nat
<1>1. events \in Nat /\ \A s \in Subscribers : seen[s] \in Nat
  BY Zenon DEF Types, QueueTyped
<1>2. \A i \in DOMAIN pending : IsEvent(pending[i]) => pending[i][2] \in Nat
  BY PendingItems, ItemKinds, Zenon
<1>3. ASSUME IsEvent(current) PROVE current[2] \in Nat
  <2>1. current \in AllItems
    BY <1>3, Zenon DEF Types, QueueTyped, IsEvent
  <2> QED BY <1>3, <2>1, ItemKinds, Zenon
<1> QED BY <1>1, <1>2, <1>3, Zenon

\* A step that leaves the queue alone and calls nobody.
LEMMA OrderedKept ==
  ASSUME Types, Ordered, pending' = pending, current' = current, seen' = seen, events' \in {events, events + 1}
  PROVE  Ordered'
<1>1. ASSUME NEW v \in Nat, v <= events PROVE v <= events'
  BY <1>1, EventNumbers
<1>2. \A s \in Subscribers : seen[s] <= events'
  BY <1>1, EventNumbers, Zenon DEF Ordered
<1>3. IsEvent(current) => current[2] <= events'
  BY <1>1, EventNumbers, Zenon DEF Ordered
<1>4. \A i \in DOMAIN pending : IsEvent(pending[i]) => pending[i][2] <= events'
  BY <1>1, EventNumbers, Zenon DEF Ordered
<1> QED BY <1>2, <1>3, <1>4, Zenon DEF Ordered, IsEvent

\* An item is inserted: a sync, or the event that was just numbered.
LEMMA OrderedGrows ==
  ASSUME Types, Ordered, NEW x \in AllItems, pending' = Append(pending, x), current' = current, seen' = seen,
         events' \in {events, events + 1}, IsEvent(x) => x[2] = events'
  PROVE  Ordered'
<1>0. PICK n : n = Len(pending) + 1
  BY Zenon
<1>1. /\ \A i \in DOMAIN pending' : i \in DOMAIN pending \/ i = n
      /\ \A i \in DOMAIN pending : pending'[i] = pending[i] /\ i < n
      /\ pending'[n] = x
  BY <1>0, AppendIs, Zenon DEF Grown
<1>2. \A i \in DOMAIN pending : i \in Nat
  BY PendingItems, Zenon
<1>3. n \in Nat
  BY <1>0, PendingItems
<1>4. ASSUME NEW v \in Nat, v <= events PROVE v <= events'
  BY <1>4, EventNumbers
<1>5. /\ \A s \in Subscribers : seen[s] <= events'
      /\ IsEvent(current) => current[2] <= events'
      /\ \A i \in DOMAIN pending : IsEvent(pending[i]) => pending[i][2] <= events'
  BY <1>4, EventNumbers, Zenon DEF Ordered
<1>6. events' <= events'
  BY EventNumbers
<1>7. ASSUME NEW i \in DOMAIN pending', IsEvent(pending'[i])
      PROVE  /\ pending'[i][2] <= events'
             /\ \A s \in Subscribers : seen[s] <= pending'[i][2]
             /\ IsEvent(current) => current[2] <= pending'[i][2]
  <2>1. CASE i \in DOMAIN pending
    <3>1. pending'[i] = pending[i]
      BY <1>1, <2>1, Zenon
    <3> QED BY <1>5, <1>7, <2>1, <3>1, Zenon DEF Ordered
  <2>2. CASE i = n
    <3>1. pending'[i][2] = events'
      BY <1>1, <1>7, <2>2, Zenon
    <3> QED BY <1>5, <1>6, <3>1, Zenon
  <2> QED BY <1>1, <2>1, <2>2, Zenon
<1>8. ASSUME NEW i \in DOMAIN pending', NEW j \in DOMAIN pending', IsEvent(pending'[i]), IsEvent(pending'[j]), i <= j
      PROVE  pending'[i][2] <= pending'[j][2]
  <2>1. CASE j \in DOMAIN pending
    <3>1. j < n /\ j \in Nat /\ pending'[j] = pending[j]
      BY <1>1, <1>2, <2>1, Zenon
    <3>2. i # n
      BY <1>3, <1>8, <3>1
    <3>3. i \in DOMAIN pending /\ pending'[i] = pending[i]
      BY <1>1, <3>2, Zenon
    <3> QED BY <1>8, <2>1, <3>1, <3>3, Zenon DEF Ordered
  <2>2. CASE j = n
    <3>1. pending'[j][2] = events'
      BY <1>1, <1>8, <2>2, Zenon
    <3> QED BY <1>7, <1>8, <3>1, Zenon
  <2> QED BY <1>1, <2>1, <2>2, Zenon
<1>9. IsEvent(current) => \A s \in Subscribers : seen[s] <= current[2]
  BY Zenon DEF Ordered
<1> QED BY <1>5, <1>7, <1>8, <1>9, Zenon DEF Ordered, IsEvent

\* Subscribers are called with the event in execution or, by ImmediateTaskRunner, with the last.
LEMMA OrderedSeen ==
  ASSUME Types, Ordered, pending' = pending, current' = current, events' = events, NEW v,
         \A s \in Subscribers : seen'[s] = seen[s] \/ seen'[s] = v,
         \/ IsEvent(current) /\ v = current[2]
         \/ pending = <<>> /\ current = None /\ v = events
  PROVE  Ordered' /\ \A s \in Subscribers : seen'[s] # seen[s] => seen'[s] > seen[s]
<1>1. v \in Nat /\ v <= events /\ \A s \in Subscribers : seen[s] <= v
  <2>1. CASE IsEvent(current) /\ v = current[2]
    BY <2>1, EventNumbers, Zenon DEF Ordered
  <2>2. CASE v = events
    <3>1. v \in Nat /\ v <= v
      BY <2>2, EventNumbers
    <3> QED BY <2>2, <3>1, Zenon DEF Ordered
  <2> QED BY <2>1, <2>2, Zenon
<1>2. ASSUME NEW s \in Subscribers, seen'[s] # seen[s] PROVE seen'[s] > seen[s]
  <2>1. seen'[s] = v /\ seen[s] <= v /\ seen[s] \in Nat
    BY <1>1, <1>2, EventNumbers, Zenon
  <2> QED BY <1>1, <1>2, <2>1
<1>3. \A s \in Subscribers : seen'[s] <= events
  BY <1>1, Zenon DEF Ordered
<1>4. IsEvent(current) => v <= current[2]
  <2>1. v <= v
    BY <1>1
  <2> QED BY <2>1, Zenon DEF IsEvent
<1>5. \A i \in DOMAIN pending : IsEvent(pending[i]) => v <= pending[i][2]
  <2>1. CASE IsEvent(current) /\ v = current[2]
    BY <2>1, Zenon DEF Ordered
  <2>2. CASE pending = <<>>
    <3>1. DOMAIN pending = {}
      BY <2>2
    <3> QED BY <3>1, Zenon
  <2> QED BY <2>1, <2>2, Zenon
<1>6. IsEvent(current) => \A s \in Subscribers : seen'[s] <= current[2]
  BY <1>4, Zenon DEF Ordered
<1>7. \A i \in DOMAIN pending : IsEvent(pending[i]) => \A s \in Subscribers : seen'[s] <= pending[i][2]
  BY <1>5, Zenon DEF Ordered
<1>8. Ordered'
  BY <1>3, <1>6, <1>7, Zenon DEF Ordered, IsEvent
<1> QED BY <1>2, <1>8, Zenon

\* The first pending callback is executed.
LEMMA OrderedStart ==
  ASSUME Types, Ordered, Shrunk, seen' = seen, events' = events
  PROVE  Ordered'
<1>1. 1 \in DOMAIN pending /\ current' = pending[1]
  BY Zenon DEF Shrunk
<1>2. ASSUME NEW i \in DOMAIN pending'
      PROVE  i \in Nat /\ i + 1 \in DOMAIN pending /\ pending'[i] = pending[i + 1] /\ 1 <= i + 1
  <2>1. i \in Nat /\ i + 1 \in DOMAIN pending /\ pending'[i] = pending[i + 1]
    BY Zenon DEF Shrunk
  <2> QED BY <2>1
<1>3. IsEvent(current') => current'[2] <= events /\ \A s \in Subscribers : seen[s] <= current'[2]
  BY <1>1, Zenon DEF Ordered
<1>4. ASSUME NEW i \in DOMAIN pending', IsEvent(pending'[i])
      PROVE  /\ pending'[i][2] <= events
             /\ \A s \in Subscribers : seen[s] <= pending'[i][2]
             /\ IsEvent(current') => current'[2] <= pending'[i][2]
  <2>1. i + 1 \in DOMAIN pending /\ pending'[i] = pending[i + 1] /\ 1 <= i + 1
    BY <1>2, Zenon
  <2> QED BY <1>1, <1>4, <2>1, Zenon DEF Ordered
<1>5. ASSUME NEW i \in DOMAIN pending', NEW j \in DOMAIN pending', IsEvent(pending'[i]), IsEvent(pending'[j]), i <= j
      PROVE  pending'[i][2] <= pending'[j][2]
  <2>1. i + 1 <= j + 1
    BY <1>2, <1>5
  <2>2. /\ i + 1 \in DOMAIN pending /\ pending'[i] = pending[i + 1]
        /\ j + 1 \in DOMAIN pending /\ pending'[j] = pending[j + 1]
    BY <1>2, Zenon
  <2> QED BY <1>5, <2>1, <2>2, Zenon DEF Ordered
<1>6. \A s \in Subscribers : seen[s] <= events
  BY Zenon DEF Ordered
<1> QED BY <1>3, <1>4, <1>5, <1>6, Zenon DEF Ordered, IsEvent

\* A callback is finished.
LEMMA OrderedFinish ==
  ASSUME Types, Ordered, pending' = pending, current' = None, seen' = seen, events' = events
  PROVE  Ordered'
<1>1. ~IsEvent(current')
  BY Zenon DEF IsEvent
<1> QED BY <1>1, Zenon DEF Ordered, IsEvent

-----------------------------------------------------------------------------
(* Iterate.                                                                 *)

\* What an Iterate that begins has before it, and one that goes on.
Doing(a, due, got) ==
  \/ pc[a] \in {"begin", "tipchange"} /\ due = Live /\ got = {}
  \/ pc[a] \in Inside /\ iter[a].at # None /\ due = iter[a].due /\ got = iter[a].got

\* Before its first callback Iterate stands at no entry and finds the list as it is.
LEMMA BeginFrom ==
  ASSUME Types, Entries, NEW a \in Actors, pc[a] \in {"begin", "tipchange"}
  PROVE  LetGo(a, m_list) /\ ComeTo(-1, Live, {}) /\ Doing(a, Live, {})
<1>1. iter[a].at = None
  BY DEF Entries, Inside
<1>2. InUse /\ Mapped /\ \A id \in Ids : Counted(id)
  BY CountsAre, Zenon DEF Entries
<1>3. ASSUME NEW j \in Ids PROVE m_list[j].count > 0 /\ m_list[j].count = m_list[j].count - One(iter[a].at = j)
  <2>1. m_list[j].count > 0 /\ m_list[j].count \in Nat /\ iter[a].at # j
    BY <1>1, <1>2, EntryTypes, Zenon DEF Counted
  <2> QED BY <2>1 DEF One
<1>4. m_list \in [DOMAIN m_list -> [sub : Subscribers, count : Nat]] /\ DOMAIN m_list = Ids
  BY Zenon DEF Types, ListTyped, Ids
<1>5. LetGo(a, m_list)
  BY <1>3, <1>4, Zenon DEF LetGo, SubOf
<1>6. ASSUME NEW d \in Live PROVE d \in Nat
  <2>1. PICK s \in Registered : d = m_map[s]
    BY Zenon DEF Live
  <2>2. d \in Ids
    BY <1>2, <2>1, Zenon DEF Mapped
  <2> QED BY <2>2, EntryTypes, Zenon
<1>7. \A d \in Live : d <= -1 => d \in {}
  BY <1>6
<1>8. ComeTo(-1, Live, {})
  BY <1>7, Zenon DEF ComeTo
<1> QED BY <1>5, <1>8, Zenon DEF Doing

\* After a callback it has taken its own use off the count of the entry.
LEMMA ReturnFrom ==
  ASSUME Types, Entries, Progress, NEW a \in Actors, pc[a] \in Inside
  PROVE  /\ LetGo(a, Drop({iter[a].at})) /\ ComeTo(iter[a].at, iter[a].due, iter[a].got)
         /\ Doing(a, iter[a].due, iter[a].got) /\ iter[a].at \in Int
<1>0. PICK n : n = iter[a].at
  BY Zenon
<1>1. InUse /\ Mapped /\ \A id \in Ids : Counted(id)
  BY CountsAre, Zenon DEF Entries
<1>2. n # None /\ n \in Ids
  BY <1>0, <1>1, Zenon DEF Entries, InUse
<1>3. n \in Nat
  BY <1>2, EntryTypes, Zenon
<1>4. PICK list : list = Drop({n})
  BY Zenon
<1>5. /\ DOMAIN list = {i \in Ids : i \in {n} => m_list[i].count # 1}
      /\ \A i \in DOMAIN list : list[i].sub = SubOf(i) /\ list[i].count = m_list[i].count - One(i \in {n})
  BY <1>4, DropIs, Zenon
<1>6. ASSUME NEW i \in DOMAIN list PROVE list[i].count = m_list[i].count - One(n = i) /\ list[i].count \in Nat /\ list[i].count > 0
  <2>1. m_list[i].count \in Nat /\ m_list[i].count > 0 /\ (i = n => m_list[i].count # 1)
    BY <1>1, <1>5, EntryTypes, Zenon DEF Counted
  <2>2. list[i].count = m_list[i].count - One(n = i)
    BY <1>5, Zenon DEF One
  <2> QED BY <2>1, <2>2 DEF One
<1>7. list \in [DOMAIN list -> [sub : Subscribers, count : Nat]]
  <2>1. list = [i \in DOMAIN list |-> list[i]]
    BY <1>4, Zenon DEF Drop
  <2>2. ASSUME NEW i \in DOMAIN list PROVE list[i] \in [sub : Subscribers, count : Nat]
    <3>1. list[i] = [sub |-> m_list[i].sub, count |-> IF i \in {n} THEN m_list[i].count - 1 ELSE m_list[i].count]
      BY <1>4, Zenon DEF Drop
    <3>2. m_list[i].sub \in Subscribers
      BY <1>5, EntryTypes, Zenon DEF SubOf
    <3> QED BY <1>6, <3>1, <3>2
  <2> QED BY <2>1, <2>2, Zenon
<1>8. ASSUME NEW j \in Ids, j \notin DOMAIN list PROVE n = j /\ m_list[j].count = 1
  BY <1>5, <1>8, Zenon
<1>9. LetGo(a, list)
  BY <1>0, <1>5, <1>6, <1>7, <1>8, Zenon DEF LetGo
<1>10. ComeTo(n, iter[a].due, iter[a].got)
  <2>1. iter[a].got \subseteq AllIds
    BY DEF Types, ListTyped, Iterations
  <2> QED BY <1>0, <1>2, <2>1, Zenon DEF Progress, ComeTo
<1>11. Doing(a, iter[a].due, iter[a].got)
  BY <1>0, <1>2, Zenon DEF Doing
<1>12. n \in Int
  BY <1>3
<1> QED BY <1>0, <1>4, <1>9, <1>10, <1>11, <1>12, Zenon

\* Both steps of Iterate.
LEMMA IterateIs ==
  ASSUME Types, Entries, Progress, NEW a \in Actors, IterateStep(a)
  PROVE  /\ \E list, due, got : \E id \in Int : /\ LetGo(a, list) /\ ComeTo(id, due, got) /\ Doing(a, due, got)
                                                /\ Visit(a, list, id, due, got, After(a))
         /\ pc[a] \in {"begin", "tipchange"} \cup Inside
         /\ pc[a] \in {"begin", "tipchange"} /\ a \in Executors => current[1] = "event"
         /\ m_map' = m_map /\ throws' = throws /\ nextId' = nextId /\ runner' = runner
         /\ pending' = pending /\ current' = current /\ events' = events /\ owed' = owed /\ destroyed' = destroyed
<1>1. CASE BeginIterate(a)
  <2>1. /\ pc[a] \in {"begin", "tipchange"} /\ (a \in Executors => current[1] = "event")
        /\ Visit(a, m_list, -1, Live, {}, After(a))
    BY <1>1, Zenon DEF BeginIterate, Live, ItemOf
  <2>2. /\ m_map' = m_map /\ throws' = throws /\ nextId' = nextId /\ runner' = runner
        /\ pending' = pending /\ current' = current /\ events' = events /\ owed' = owed /\ destroyed' = destroyed
    BY <1>1, Zenon DEF BeginIterate, queueVars
  <2>3. LetGo(a, m_list) /\ ComeTo(-1, Live, {}) /\ Doing(a, Live, {})
    BY <2>1, BeginFrom, Zenon
  <2>4. -1 \in Int
    OBVIOUS
  <2> QED BY <2>1, <2>2, <2>3, <2>4, Zenon
<1>2. CASE CallbackReturns(a)
  <2>1. /\ pc[a] \in Inside /\ pc[a] \notin {"begin", "tipchange"}
        /\ Visit(a, Drop({iter[a].at}), iter[a].at, iter[a].due, iter[a].got, After(a))
    BY <1>2, Zenon DEF CallbackReturns, MayReturn, Inside
  <2>2. /\ m_map' = m_map /\ throws' = throws /\ nextId' = nextId /\ runner' = runner
        /\ pending' = pending /\ current' = current /\ events' = events /\ owed' = owed /\ destroyed' = destroyed
    BY <1>2, Zenon DEF CallbackReturns, queueVars
  <2>3. /\ LetGo(a, Drop({iter[a].at})) /\ ComeTo(iter[a].at, iter[a].due, iter[a].got)
        /\ Doing(a, iter[a].due, iter[a].got) /\ iter[a].at \in Int
    BY <2>1, ReturnFrom, Zenon
  <2> QED BY <2>1, <2>2, <2>3, Zenon
<1> QED BY <1>1, <1>2, Zenon DEF IterateStep

\* What they come to: Iterate is over, or entry i is called.
Over(a, due, got) ==
  /\ due \subseteq got /\ seen' = seen
  /\ iter' = [iter EXCEPT ![a] = [at |-> None, due |-> due, got |-> got]]
  /\ pc' = [pc EXCEPT ![a] = After(a)]
Called(a, i, due, got) ==
  /\ i \in Ids /\ seen' = IF Queued(a) THEN [seen EXCEPT ![SubOf(i)] = ItemOf(a)[2]] ELSE seen
  /\ iter' = [iter EXCEPT ![a] = [at |-> i, due |-> due, got |-> got \cup {i}]]
  /\ pc' = [pc EXCEPT ![a] = IF Queued(a) THEN "deliver" ELSE "notify"]

\* The entry of an iteration keeps its type.
LEMMA IterTyped ==
  ASSUME Types, NEW a, NEW r \in Iterations, iter' = [iter EXCEPT ![a] = r]
  PROVE  iter' \in [Actors -> Iterations]
BY Zenon DEF Types, ListTyped

\* The ids of the registered entries are ids.
LEMMA LiveTyped == ASSUME Types PROVE Live \subseteq AllIds
BY Zenon DEF Types, ListTyped, Live, Registered

\* A step of Iterate keeps the list and the counts, and ends or calls one entry.
LEMMA IterateList ==
  ASSUME CountFacts, Types, Entries, Progress, NEW a \in Actors, IterateStep(a)
  PROVE  /\ Entries' /\ Progress' /\ ListTyped'
         /\ Ids' \subseteq Ids /\ \A j \in Ids' : SubOf(j)' = SubOf(j)
         /\ \E due, got : Doing(a, due, got) /\ (Over(a, due, got) \/ \E i \in Ids : Called(a, i, due, got))
<1>1. PICK list, due, got : \E id \in Int : /\ LetGo(a, list) /\ ComeTo(id, due, got) /\ Doing(a, due, got)
                                            /\ Visit(a, list, id, due, got, After(a))
  BY IterateIs, Zenon
<1>2. PICK id \in Int : /\ LetGo(a, list) /\ ComeTo(id, due, got) /\ Doing(a, due, got)
                        /\ Visit(a, list, id, due, got, After(a))
  BY <1>1, Zenon
<1>3. m_map' = m_map /\ throws' = throws /\ nextId' = nextId
  BY IterateIs, Zenon
<1>4. due \in SUBSET AllIds /\ got \in SUBSET AllIds
  BY <1>2, LiveTyped, Zenon DEF ComeTo
<1>5. DOMAIN list \subseteq Ids /\ list \in [DOMAIN list -> [sub : Subscribers, count : Nat]] /\ \A j \in DOMAIN list : list[j].sub = SubOf(j)
  BY <1>2, Zenon DEF LetGo
<1>6. ASSUME Ids' = DOMAIN list, m_list' \in [DOMAIN list -> [sub : Subscribers, count : Nat]], iter' \in [Actors -> Iterations],
             \A j \in DOMAIN list : m_list'[j].sub = list[j].sub
      PROVE  ListTyped' /\ Ids' \subseteq Ids /\ \A j \in Ids' : SubOf(j)' = SubOf(j)
  <2>1. Ids' \subseteq Ids /\ \A j \in Ids' : SubOf(j)' = SubOf(j)
    BY <1>5, <1>6, Zenon DEF SubOf
  <2>2. ListTyped'
    BY <1>3, <1>6, <2>1, Zenon DEF Types, ListTyped
  <2> QED BY <2>1, <2>2, Zenon
<1>7. CASE Behind(list, id) = {} /\ Ends(a, list, due, got, After(a))
  <2>1. After(a) \notin Inside
    BY Zenon DEF After, Inside
  <2>2. Entries' /\ Progress' /\ due \subseteq got
    BY <1>2, <1>3, <1>7, <2>1, EndsList, Zenon
  <2>3. PICK r : r = [at |-> None, due |-> due, got |-> got]
    BY Zenon
  <2>4. r \in Iterations
    BY <1>4, <2>3 DEF Iterations
  <2>5. iter' = [iter EXCEPT ![a] = r] /\ m_list' = list
    BY <1>7, <2>3, Zenon DEF Ends
  <2>6. iter' \in [Actors -> Iterations]
    BY <2>4, <2>5, IterTyped, Zenon
  <2>7. ListTyped' /\ Ids' \subseteq Ids /\ \A j \in Ids' : SubOf(j)' = SubOf(j)
    BY <1>5, <1>6, <2>5, <2>6, Zenon DEF Ids
  <2>8. Over(a, due, got)
    BY <1>7, <2>2, Zenon DEF Ends, Over
  <2> QED BY <1>2, <2>2, <2>7, <2>8, Zenon
<1>8. CASE \E i \in First(Behind(list, id)) : GoesTo(a, list, i, due, got)
  <2>1. PICK i \in First(Behind(list, id)) : GoesTo(a, list, i, due, got)
    BY <1>8, Zenon
  <2>2. Entries' /\ Progress'
    BY <1>2, <1>3, <2>1, GoesOnList, Zenon
  <2>3. i \in DOMAIN list /\ i \in Ids /\ SubOf(i) = list[i].sub
    BY <1>5, Zenon DEF First, Behind
  <2>4. PICK r : r = [at |-> i, due |-> due, got |-> got \cup {i}]
    BY Zenon
  <2>5. i \in AllIds /\ got \cup {i} \in SUBSET AllIds
    BY <1>4, <2>3, EntryTypes, Zenon
  <2>6. r \in Iterations
    BY <1>4, <2>4, <2>5 DEF Iterations
  <2>7. iter' = [iter EXCEPT ![a] = r]
    BY <2>1, <2>4, Zenon DEF GoesTo
  <2>8. iter' \in [Actors -> Iterations]
    BY <2>6, <2>7, IterTyped, Zenon
  <2>9. PICK x : x = [sub |-> list[i].sub, count |-> list[i].count + 1]
    BY Zenon
  <2>10. x.sub = list[i].sub /\ x \in [sub : Subscribers, count : Nat]
    BY <1>5, <2>3, <2>9
  <2>11. m_list' = [list EXCEPT ![i] = x]
    BY <2>1, <2>9, Zenon DEF GoesTo
  <2>12. m_list' \in [DOMAIN list -> [sub : Subscribers, count : Nat]] /\ Ids' = DOMAIN list
    BY <1>5, <2>10, <2>11, Zenon DEF Ids
  <2>13. \A j \in DOMAIN list : m_list'[j].sub = list[j].sub
    BY <1>5, <2>10, <2>11, Zenon
  <2>14. ListTyped' /\ Ids' \subseteq Ids /\ \A j \in Ids' : SubOf(j)' = SubOf(j)
    BY <1>6, <2>8, <2>12, <2>13, Zenon
  <2>15. Called(a, i, due, got)
    BY <2>1, <2>3, Zenon DEF GoesTo, Called
  <2> QED BY <1>2, <2>2, <2>3, <2>14, <2>15, Zenon
<1> QED BY <1>2, <1>7, <1>8, VisitIs, Zenon

\* The thread that iterates: where it was and where it is.
IterateMoves(a) ==
  /\ pc[a] \in {"begin", "tipchange", "deliver", "notify"}
  /\ pc'[a] \in {"finish", "tipchange", "unlock", "deliver", "notify"}
  /\ a \in Executors => IsEvent(current) /\ Working(a) /\ Queued(a) /\ pc'[a] \in {"finish", "deliver"}
  /\ a \in Producers /\ runner = "serial" => pc'[a] # "deliver"
  /\ \A u \in Actors : u # a => pc'[u] = pc[u]
  /\ pc' \in [Actors -> Places]

\* A step of Iterate moves its own thread only.
LEMMA IteratePlaces ==
  ASSUME CountFacts, Inv, NEW a \in Actors, IterateStep(a)
  PROVE  IterateMoves(a)
<1> USE DEF Inv
<1>1. PICK due, got : Doing(a, due, got) /\ (Over(a, due, got) \/ \E i \in Ids : Called(a, i, due, got))
  BY IterateList, Zenon
<1>2. pc[a] \in {"begin", "tipchange", "deliver", "notify"}
  BY IterateIs, Zenon DEF Inside
<1>3. PICK p : p = (IF Queued(a) THEN "deliver" ELSE "notify")
  BY Zenon
<1>4. pc' = [pc EXCEPT ![a] = After(a)] \/ pc' = [pc EXCEPT ![a] = p]
  BY <1>1, <1>3, Zenon DEF Over, Called
<1>5. pc'[a] \in {After(a), p} /\ \A u \in Actors : u # a => pc'[u] = pc[u]
  BY <1>4, OneMoves, Zenon
<1>6. /\ After(a) \in {"finish", "tipchange", "unlock"} /\ p \in {"deliver", "notify"}
      /\ a \in Executors => After(a) = "finish"
  BY <1>3, Zenon DEF After
<1>7. ASSUME a \in Executors PROVE IsEvent(current) /\ Working(a)
  <2>1. Working(a)
    BY <1>2 DEF Working
  <2>2. current # None
    BY <1>7, <2>1, Zenon DEF Waiting
  <2>3. CASE pc[a] \in {"begin", "tipchange"}
    BY <1>7, <2>1, <2>2, <2>3, IterateIs, Zenon DEF IsEvent
  <2>4. CASE pc[a] \in Inside
    BY <1>7, <2>1, <2>4, Zenon DEF Waiting
  <2> QED BY <1>2, <2>1, <2>3, <2>4, Zenon DEF Inside
<1>8. ASSUME a \in Producers, runner = "serial" PROVE p # "deliver"
  BY <1>3, <1>8, Zenon DEF Runner
<1>9. pc' \in [Actors -> Places]
  <2>1. After(a) \in Places /\ p \in Places
    BY <1>6 DEF Places
  <2> QED BY <1>4, <2>1, Zenon DEF Types, QueueTyped
<1>10. pc'[a] \in {"finish", "tipchange", "unlock", "deliver", "notify"}
  BY <1>5, <1>6, Zenon
<1>11. ASSUME a \in Executors PROVE Queued(a) /\ pc'[a] \in {"finish", "deliver"}
  <2>1. Queued(a)
    BY <1>2, <1>11 DEF Runner, Queued
  <2> QED BY <1>3, <1>5, <1>6, <1>11, <2>1, Zenon
<1>12. a \in Producers /\ runner = "serial" => pc'[a] # "deliver"
  <2>1. After(a) # "deliver"
    BY <1>6
  <2> QED BY <1>5, <1>8, <2>1, Zenon
<1> QED BY <1>2, <1>5, <1>7, <1>9, <1>10, <1>11, <1>12, Zenon DEF IterateMoves

\* The callback is that of the event in execution, or of the last one.
LEMMA IterateOrdered ==
  ASSUME CountFacts, Inv, NEW a \in Actors, IterateStep(a)
  PROVE  /\ Ordered' /\ QueueTyped'
         /\ \A s \in Subscribers : seen'[s] # seen[s] => seen'[s] > seen[s]
<1> USE DEF Inv
<1>1. PICK due, got : Doing(a, due, got) /\ (Over(a, due, got) \/ \E i \in Ids : Called(a, i, due, got))
  BY IterateList, Zenon
<1>2. /\ runner' = runner /\ pending' = pending /\ current' = current /\ events' = events /\ owed' = owed /\ throws' = throws
  BY IterateIs, Zenon
<1>3. IterateMoves(a)
  BY IteratePlaces, Zenon
<1>4. ASSUME seen' \in [Subscribers -> Nat] PROVE QueueTyped'
  BY <1>2, <1>3, <1>4, Zenon DEF IterateMoves, Types, QueueTyped
<1>5. CASE seen' = seen
  <2>1. Ordered'
    BY <1>2, <1>5, OrderedKept, Zenon
  <2>2. QueueTyped'
    BY <1>4, <1>5, Zenon DEF Types, QueueTyped
  <2> QED BY <1>5, <2>1, <2>2, Zenon
<1>6. CASE Queued(a) /\ \E i \in Ids : seen' = [seen EXCEPT ![SubOf(i)] = ItemOf(a)[2]]
  <2>1. PICK i \in Ids : seen' = [seen EXCEPT ![SubOf(i)] = ItemOf(a)[2]]
    BY <1>6, Zenon
  <2>2. PICK v : v = ItemOf(a)[2]
    BY Zenon
  <2>3. \/ IsEvent(current) /\ v = current[2]
        \/ pending = <<>> /\ current = None /\ v = events
    <3>1. CASE a \in Executors
      BY <1>3, <2>2, <3>1, Zenon DEF IterateMoves, ItemOf
    <3>2. CASE a \in Producers
      <4>1. a \notin Executors
        BY <3>2, Constants, Zenon
      <4>2. runner = "immediate"
        BY <1>6, <3>2, Zenon DEF Runner, Types, QueueTyped
      <4>3. v = events
        BY <2>2, <4>1 DEF ItemOf
      <4> QED BY <4>2, <4>3, Zenon DEF Runner
    <3> QED BY <3>1, <3>2, Constants, Zenon
  <2>4. v \in Nat
    BY <2>3, EventNumbers, Zenon
  <2>5. seen \in [Subscribers -> Nat]
    BY Zenon DEF Types, QueueTyped
  <2>6. seen' \in [Subscribers -> Nat]
    BY <2>1, <2>2, <2>4, <2>5, Zenon
  <2>7. \A s \in Subscribers : seen'[s] = seen[s] \/ seen'[s] = v
    BY <2>1, <2>2, <2>5, Zenon
  <2>8. Ordered' /\ \A s \in Subscribers : seen'[s] # seen[s] => seen'[s] > seen[s]
    BY <1>2, <2>3, <2>7, OrderedSeen, Zenon
  <2> QED BY <1>4, <2>6, <2>8, Zenon
<1> QED BY <1>1, <1>5, <1>6, Zenon DEF Over, Called

\* The other threads are where they were, for the queue, the runners and Shutdown.
LEMMA IterateRest ==
  ASSUME CountFacts, Inv, NEW a \in Actors, IterateStep(a)
  PROVE  Waiting' /\ Runner' /\ Stopping'
<1> USE DEF Inv
<1>1. IterateMoves(a)
  BY IteratePlaces, Zenon
<1>2. /\ runner' = runner /\ pending' = pending /\ current' = current /\ throws' = throws
      /\ m_map' = m_map /\ destroyed' = destroyed
  BY IterateIs, Zenon
<1>3. Producers \subseteq Actors /\ Executors \subseteq Actors /\ Shutter \in Executors /\ Worker \in Executors /\ Worker # Shutter
  BY Constants, Zenon
<1>4. Patient
  <2>1. ASSUME NEW u \in Producers, pc[u] = "sync" PROVE pc'[u] = "sync"
    <3>1. u # a
      BY <1>1, <2>1 DEF IterateMoves
    <3> QED BY <1>1, <1>3, <2>1, <3>1, Zenon DEF IterateMoves
  <2>2. ASSUME NEW e \in Executors
        PROVE  /\ Working(e)' => Working(e)
               /\ pc'[e] = "begin" => pc[e] = "begin"
               /\ pc'[e] \in Inside => IsEvent(current)
    <3>1. CASE e = a
      <4>1. pc'[a] # "begin" /\ Working(a) /\ IsEvent(current)
        BY <1>1, <3>1 DEF IterateMoves
      <4> QED BY <3>1, <4>1, Zenon
    <3>2. CASE e # a
      <4>1. pc'[e] = pc[e]
        BY <1>1, <1>3, <3>2, Zenon DEF IterateMoves
      <4> QED BY <4>1, Zenon DEF Working, Waiting
    <3> QED BY <3>1, <3>2, Zenon
  <2> QED BY <2>1, <2>2, Zenon DEF Patient
<1>5. Waiting'
  BY <1>2, <1>4, QueueKept, Zenon
<1>6. Runner'
  <2>1. ASSUME NEW u \in Producers, runner = "serial" PROVE pc'[u] \notin {"begin", "deliver"}
    <3>1. CASE u = a
      BY <1>1, <2>1, <3>1 DEF IterateMoves
    <3>2. CASE u # a
      BY <1>1, <1>3, <2>1, <3>2, Zenon DEF IterateMoves, Runner, Queued
    <3> QED BY <3>1, <3>2, Zenon
  <2>2. ASSUME NEW u \in Producers, runner = "immediate" PROVE pc'[u] \notin {"wait", "sync"}
    <3>1. CASE u = a
      BY <1>1, <3>1 DEF IterateMoves
    <3>2. CASE u # a
      BY <1>1, <1>3, <2>2, <3>2, Zenon DEF IterateMoves, Runner
    <3> QED BY <3>1, <3>2, Zenon
  <2>3. ASSUME runner = "immediate" PROVE pc'[Shutter] = "idle"
    <3>1. pc[Shutter] = "idle"
      BY <2>3, Zenon DEF Runner
    <3>2. Shutter # a
      BY <1>1, <3>1 DEF IterateMoves
    <3> QED BY <1>1, <1>3, <3>1, <3>2, Zenon DEF IterateMoves
  <2>4. ASSUME NEW e \in Executors PROVE pc'[e] \notin {"tipchange", "notify"}
    <3>1. CASE e = a
      BY <1>1, <3>1 DEF IterateMoves
    <3>2. CASE e # a
      BY <1>1, <1>3, <3>2, Zenon DEF IterateMoves, Runner
    <3> QED BY <3>1, <3>2, Zenon
  <2> QED BY <1>2, <2>1, <2>2, <2>3, <2>4, Zenon DEF Runner, Queued
<1>7. Stopping'
  <2>1. CASE a = Shutter
    <3>1. /\ pc[Shutter] \notin {"idle", "unregistered", "joining"}
          /\ pc'[Shutter] \notin {"idle", "unregistered", "joining", "done"}
      BY <1>1, <1>3, <2>1 DEF IterateMoves
    <3>2. m_map[Peerman] = None /\ pc[Worker] = "idle" /\ \A u \in Producers : pc[u] = "idle"
      BY <3>1, Zenon DEF Stopping
    <3>3. pc'[Worker] = "idle"
      BY <1>1, <1>3, <2>1, <3>2, Zenon DEF IterateMoves
    <3>4. \A u \in Producers : pc'[u] = "idle"
      BY <1>1, <1>3, <2>1, <3>2, Constants, Zenon DEF IterateMoves
    <3>5. DestroyedUnreachable'
      BY <1>2, IterateList, Zenon DEF Stopping, DestroyedUnreachable
    <3> QED BY <1>2, <3>1, <3>2, <3>3, <3>4, <3>5, Zenon DEF Stopping
  <2>2. CASE a # Shutter
    <3>1. pc'[Shutter] = pc[Shutter] /\ pc[a] # "idle"
      BY <1>1, <1>3, <2>2 DEF IterateMoves
    <3>2. \A u \in Actors : pc[u] = "idle" => pc'[u] = "idle"
      BY <1>1, <3>1, Zenon DEF IterateMoves
    <3>3. DestroyedUnreachable'
      BY <1>2, IterateList, Zenon DEF Stopping, DestroyedUnreachable
    <3> QED BY <1>2, <1>3, <3>1, <3>2, <3>3, Zenon DEF Stopping
  <2> QED BY <2>1, <2>2, Zenon
<1> QED BY <1>5, <1>6, <1>7, Zenon

\* What a subscriber is owed it has seen after the step, or it is still on its way.
LEMMA IterateOwing ==
  ASSUME CountFacts, Inv, NEW a \in Actors, IterateStep(a)
  PROVE  Owing'
<1> USE DEF Inv
<1>1. PICK due, got : Doing(a, due, got) /\ (Over(a, due, got) \/ \E i \in Ids : Called(a, i, due, got))
  BY IterateList, Zenon
<1>2. IterateMoves(a)
  BY IteratePlaces, Zenon
<1>3. /\ runner' = runner /\ pending' = pending /\ current' = current /\ events' = events /\ owed' = owed
      /\ m_map' = m_map /\ Registered' = Registered
  BY IterateIs, Zenon DEF Registered
<1>4. Ordered' /\ QueueTyped' /\ \A s \in Subscribers : seen'[s] # seen[s] => seen'[s] > seen[s]
  BY IterateOrdered, Zenon
<1>5. Executors \subseteq Actors /\ Worker \in Executors /\ Shutter \in Executors /\ Executors = {Worker, Shutter} /\ Worker # Shutter
  BY Constants, Zenon
<1>6. pc'[Shutter] # "done" => pc[Shutter] # "done"
  <2>1. CASE a = Shutter
    BY <1>2, <2>1 DEF IterateMoves
  <2>2. CASE a # Shutter
    BY <1>2, <1>5, <2>2, Zenon DEF IterateMoves
  <2> QED BY <2>1, <2>2, Zenon
<1>7. ASSUME NEW s \in Subscribers, seen[s] = events PROVE seen'[s] = events
  <2>1. seen'[s] <= events /\ seen'[s] \in Nat /\ (seen'[s] # seen[s] => seen'[s] > seen[s])
    BY <1>3, <1>4, Zenon DEF Ordered, QueueTyped
  <2>2. events \in Nat
    BY EventNumbers, Zenon
  <2> QED BY <1>7, <2>1, <2>2
<1>8. ASSUME NEW s \in Subscribers, runner = "serial", owed[s] # 0, OnItsWay(s)
      PROVE  seen'[s] = events \/ OnItsWay(s)'
  <2>1. CASE \E i \in DOMAIN pending : pending[i] = <<"event", events>>
    BY <1>3, <2>1, Zenon DEF OnItsWay
  <2>2. ASSUME current = <<"event", events>>, NEW e \in Executors,
               pc[e] = "begin" \/ (iter[e].at # None /\ m_map[s] \in iter[e].due \ iter[e].got)
        PROVE  seen'[s] = events \/ OnItsWay(s)'
    <3>1. CASE e # a
      <4>1. pc'[e] = pc[e]
        BY <1>2, <1>5, <3>1, Zenon DEF IterateMoves
      <4>2. iter'[e] = iter[e]
        BY <1>1, <1>5, <3>1, Zenon DEF Over, Called, Types, ListTyped
      <4> QED BY <1>3, <2>2, <4>1, <4>2, Zenon DEF OnItsWay
    <3>2. CASE e = a
      <4>1. a \in Executors /\ pc[Shutter] # "done"
        <5>1. pc[a] \notin {"done", "idle"}
          BY <1>2 DEF IterateMoves
        <5>2. CASE a = Shutter
          BY <3>2, <5>1, <5>2, Zenon
        <5>3. CASE a = Worker
          BY <3>2, <5>1, <5>3, Zenon DEF Stopping
        <5> QED BY <1>5, <3>2, <5>2, <5>3, Zenon
      <4>2. m_map[s] \in Live
        <5>1. s \in Registered
          BY <1>8, <4>1, Zenon DEF Owing
        <5> QED BY <5>1, Zenon DEF Live
      <4>3. m_map[s] \in due \ got
        <5>1. CASE pc[a] = "begin"
          <6>1. pc[a] \notin Inside
            BY <5>1 DEF Inside
          <6> QED BY <1>1, <4>2, <6>1, Zenon DEF Doing
        <5>2. CASE iter[a].at # None /\ m_map[s] \in iter[a].due \ iter[a].got
          <6>1. pc[a] \in Inside
            BY <5>2, Zenon DEF Entries
          <6>2. pc[a] \notin {"begin", "tipchange"}
            BY <6>1 DEF Inside
          <6> QED BY <1>1, <5>2, <6>2, Zenon DEF Doing
        <5> QED BY <2>2, <3>2, <5>1, <5>2, Zenon
      <4>4. ~Over(a, due, got)
        BY <4>3, Zenon DEF Over
      <4>5. PICK i \in Ids : Called(a, i, due, got)
        BY <1>1, <4>4, Zenon
      <4>6. CASE m_map[s] = i
        <5>1. SubOf(i) = s
          <6>1. Mapped /\ s \in Registered
            BY <1>8, <4>1, CountsAre, Zenon DEF Entries, Owing
          <6> QED BY <4>6, <6>1, Zenon DEF Mapped, SubOf
        <5>2. Queued(a)
          BY <1>2, <4>1, Zenon DEF IterateMoves
        <5>3. ItemOf(a)[2] = events
          BY <2>2, <4>1 DEF ItemOf
        <5>4. seen'[s] = events
          BY <4>5, <5>1, <5>2, <5>3, Zenon DEF Called, Types, QueueTyped
        <5> QED BY <5>4, Zenon
      <4>7. CASE m_map[s] # i
        <5>1. iter'[a] = [at |-> i, due |-> due, got |-> got \cup {i}]
          BY <4>5, Zenon DEF Called, Types, ListTyped
        <5>2. iter'[a].at = i /\ iter'[a].due = due /\ iter'[a].got = got \cup {i}
          BY <5>1
        <5>3. i # None
          BY EntryTypes, Zenon
        <5>4. m_map[s] \in iter'[a].due \ iter'[a].got
          BY <4>3, <4>7, <5>2, Zenon
        <5> QED BY <1>3, <2>2, <4>1, <5>2, <5>3, <5>4, Zenon DEF OnItsWay
      <4> QED BY <4>6, <4>7, Zenon
    <3> QED BY <3>1, <3>2, Zenon
  <2> QED BY <1>8, <2>1, <2>2, Zenon DEF OnItsWay
<1>9. ASSUME NEW s \in Subscribers, runner = "serial" PROVE owed[s] = 0 \/ seen'[s] = owed[s] \/ OnItsWay(s)'
  <2>1. owed[s] = 0 \/ (owed[s] = events /\ owed[s] # 0 /\ (seen[s] = owed[s] \/ OnItsWay(s)))
    BY <1>9, Zenon DEF Owing
  <2> QED BY <1>7, <1>8, <1>9, <2>1, Zenon
<1> QED BY <1>3, <1>6, <1>9, Zenon DEF Owing

\* Iterate keeps the invariant.
LEMMA IterateInv ==
  ASSUME CountFacts, Inv, NEW a \in Actors, IterateStep(a)
  PROVE  Inv'
BY IterateList, IterateOrdered, IterateRest, IterateOwing, Zenon DEF Inv, Types

-----------------------------------------------------------------------------
(* The threads that raise events.                                           *)

\* The last event stays on its way, and nothing more is owed.
LEMMA OwingKept ==
  ASSUME Types, Owing, UNCHANGED <<runner, events, owed, seen, m_map, current>>,
         \A i \in DOMAIN pending : \E j \in DOMAIN pending' : pending'[j] = pending[i],
         \A e \in Executors : /\ pc[e] = "begin" /\ IsEvent(current) => pc'[e] = "begin"
                              /\ iter[e].at # None => iter'[e] = iter[e],
         pc'[Shutter] # "done" => pc[Shutter] # "done"
  PROVE  Owing'
<1>1. current = <<"event", events>> => IsEvent(current)
  <2>1. <<"event", events>> \in AllItems /\ <<"event", events>>[1] = "event"
    BY EventNumbers DEF AllItems
  <2> QED BY <2>1, ItemKinds, Zenon DEF IsEvent
<1>2. ASSUME NEW s \in Subscribers, OnItsWay(s) PROVE OnItsWay(s)'
  <2>1. CASE \E i \in DOMAIN pending : pending[i] = <<"event", events>>
    BY <2>1, Zenon DEF OnItsWay
  <2>2. CASE /\ current = <<"event", events>>
             /\ \E e \in Executors : \/ pc[e] = "begin"
                                     \/ iter[e].at # None /\ m_map[s] \in iter[e].due \ iter[e].got
    BY <1>1, <2>2, Zenon DEF OnItsWay
  <2> QED BY <1>2, <2>1, <2>2, Zenon DEF OnItsWay
<1>3. Registered' = Registered
  BY Zenon DEF Registered
<1> QED BY <1>2, <1>3, Zenon DEF Owing

\* A new event is owed to those who are registered, and queued.
LEMMA OwingNew ==
  ASSUME Types, Owing, NewEvent, UNCHANGED <<runner, m_map>>, pc[Shutter] # "done",
         runner = "serial" => pending' = Append(pending, <<"event", events + 1>>)
  PROVE  Owing' /\ owed' \in [Subscribers -> Nat] /\ events' \in Nat
<1>1. events' = events + 1 /\ owed' = [s \in Subscribers |-> IF s \in Registered THEN events + 1 ELSE owed[s]]
  BY Zenon DEF NewEvent
<1>2. events \in Nat /\ events + 1 \in Nat /\ <<"event", events + 1>> \in AllItems
  BY EventNumbers DEF AllItems
<1>3. Registered' = Registered
  BY Zenon DEF Registered
<1>4. ASSUME NEW s \in Subscribers PROVE owed'[s] = 0 \/ (owed'[s] = events' /\ s \in Registered)
  BY <1>1, Zenon DEF Owing
<1>5. ASSUME NEW s \in Subscribers, runner = "serial" PROVE OnItsWay(s)'
  BY <1>1, <1>2, <1>5, AppendIs, Zenon DEF OnItsWay, Grown
<1>6. owed' \in [Subscribers -> Nat]
  BY <1>1, <1>2, Zenon DEF Types, QueueTyped
<1> QED BY <1>1, <1>2, <1>3, <1>4, <1>5, <1>6, Zenon DEF Owing

\* The places of one thread that moves.
LEMMA MoveRunner ==
  ASSUME Types, Runner, NEW a \in Actors, NEW p, pc' = [pc EXCEPT ![a] = p], runner' = runner, throws' = throws,
         runner = "immediate" => /\ pending' = <<>> /\ current' = None /\ (a = Shutter => p = "idle")
                                 /\ a \in Producers => p \notin {"wait", "sync"},
         a \in Executors => p \notin {"tipchange", "notify"},
         runner = "serial" /\ a \in Producers => p \notin {"begin", "deliver"}
  PROVE  Runner'
<1>1. pc'[a] = p /\ \A u \in Actors : u # a => pc'[u] = pc[u]
  BY OneMoves, Zenon
<1>2. Producers \subseteq Actors /\ Executors \subseteq Actors /\ Shutter \in Actors
  BY Constants, Zenon
<1>3. \A e \in Executors : pc'[e] \notin {"tipchange", "notify"}
  BY <1>1, <1>2, Zenon DEF Runner
<1>4. runner = "immediate" => pc'[Shutter] = "idle" /\ \A u \in Producers : pc'[u] \notin {"wait", "sync"}
  BY <1>1, <1>2, Zenon DEF Runner
<1>5. runner = "serial" => throws' = 0 /\ \A u \in Producers : pc'[u] \notin {"begin", "deliver"}
  BY <1>1, <1>2, Zenon DEF Runner, Queued
<1> QED BY <1>3, <1>4, <1>5, Zenon DEF Runner, Queued

\* A step of another thread leaves what Shutdown has established.
LEMMA MoveStopping ==
  ASSUME Types, Stopping, NEW a \in Actors, a # Shutter, NEW p, pc' = [pc EXCEPT ![a] = p],
         UNCHANGED <<m_map, m_list, destroyed>>, pc[a] # "idle" \/ pc[Shutter] \in {"idle", "unregistered"},
         a \in Producers => pc[a] # "idle" \/ pc[Shutter] = "idle"
  PROVE  Stopping' /\ pc'[Shutter] = pc[Shutter] /\ pc[Shutter] # "done"
<1>1. pc'[a] = p /\ \A u \in Actors : u # a => pc'[u] = pc[u]
  BY OneMoves, Zenon
<1>2. Producers \subseteq Actors /\ Worker \in Actors /\ Shutter \in Actors /\ Actors = Producers \cup {Worker, Shutter}
  BY Constants, Zenon
<1>3. pc'[Shutter] = pc[Shutter]
  BY <1>1, <1>2, Zenon
<1>4. pc[Shutter] \in {"idle", "unregistered", "joining"} /\ (a \in Producers => pc[Shutter] \in {"idle", "unregistered"})
  BY <1>2, Zenon DEF Stopping
<1>5. pc[Shutter] # "done"
  BY <1>4
<1>6. pc[Shutter] \notin {"idle", "unregistered"} => \A u \in Producers : pc'[u] = "idle"
  BY <1>1, <1>2, <1>4, Zenon DEF Stopping
<1>7. DestroyedUnreachable'
  BY Zenon DEF Stopping, DestroyedUnreachable, Ids, SubOf
<1> QED BY <1>3, <1>4, <1>5, <1>6, <1>7, Zenon DEF Stopping

\* A producer that neither waits nor is in Iterate moves: what that does to the queue and to
\* the events.
Effect(a, p) ==
  \/ p # "sync" /\ UNCHANGED <<pending, events, owed>>
  \/ p = "sync" /\ pending' = Append(pending, <<"sync", a>>) /\ UNCHANGED <<events, owed>>
  \/ /\ p # "sync" /\ NewEvent
     /\ pending' = IF runner = "immediate" THEN pending ELSE Append(pending, <<"event", events + 1>>)

\* A step of a producer outside Iterate keeps the invariant.
LEMMA ProducerInv ==
  ASSUME Inv, NEW a \in Producers, NEW p \in Places, pc' = [pc EXCEPT ![a] = p], Effect(a, p),
         UNCHANGED <<m_list, m_map, nextId, runner, throws, destroyed, seen, current>>,
         iter' = iter \/ iter' = [iter EXCEPT ![a] = NotIterating],
         pc[a] \in {"idle", "limit", "commit", "wait", "unlock"}, pc[a] = "idle" => pc[Shutter] = "idle",
         p \in {"idle", "limit", "commit", "wait", "tipchange", "sync", "begin"},
         runner = "immediate" => p \notin {"wait", "sync"}, runner = "serial" => p # "begin"
  PROVE  Inv'
<1> USE DEF Inv
<1>1. a \in Actors /\ a \notin Executors /\ a # Shutter /\ Executors \subseteq Actors /\ Producers \subseteq Actors
  BY Constants, Zenon
<1>2. pc'[a] = p /\ \A u \in Actors : u # a => pc'[u] = pc[u]
  BY <1>1, OneMoves, Zenon
<1>3. pc[a] \notin Inside /\ p \notin Inside /\ pc[a] # "sync"
  BY DEF Inside
<1>4. iter[a].at = None
  BY <1>1, <1>3, Zenon DEF Entries
<1>5. /\ \A u \in Actors : iter'[u] = iter[u] \/ (iter'[u] = NotIterating /\ iter[u].at = None)
      /\ \A u \in Actors : u # a => iter'[u] = iter[u]
  BY <1>4, Zenon DEF Types, ListTyped
<1>6. Entries' /\ Progress'
  <2>1. ListKept
    BY <1>2, <1>3, <1>5, Zenon DEF ListKept
  <2> QED BY <2>1, ListKeptInv, Zenon
<1>7. ListTyped'
  <2>1. NotIterating \in Iterations
    BY DEF NotIterating, Iterations
  <2>2. iter' \in [Actors -> Iterations]
    BY <2>1, IterTyped, Zenon DEF Types, ListTyped
  <2> QED BY <2>2, Zenon DEF Types, ListTyped, Ids
<1>8. Patient
  <2>1. \A u \in Producers : pc[u] = "sync" => pc'[u] = "sync"
    BY <1>1, <1>2, <1>3, Zenon
  <2>2. \A e \in Executors : pc'[e] = pc[e]
    BY <1>1, <1>2, Zenon
  <2> QED BY <2>1, <2>2, Zenon DEF Patient, Waiting, Working
<1>9. Stopping' /\ pc'[Shutter] = pc[Shutter] /\ pc[Shutter] # "done"
  BY <1>1, MoveStopping, Zenon
<1>10. pc' \in [Actors -> Places]
  BY Zenon DEF Types, QueueTyped
<1>11. ASSUME runner = "immediate" PROVE pending' = <<>> /\ current' = None
  BY <1>11, Zenon DEF Runner, Effect
<1>12. Runner'
  <2>1. p \notin {"wait", "sync"} \/ runner # "immediate"
    BY Zenon
  <2>2. runner = "serial" => p \notin {"begin", "deliver"}
    OBVIOUS
  <2> QED BY <1>1, <1>11, <2>1, <2>2, MoveRunner, Zenon
<1>13. ASSUME pending' \in Seq(AllItems), events' \in Nat, owed' \in [Subscribers -> Nat] PROVE QueueTyped'
  BY <1>10, <1>13, Zenon DEF Types, QueueTyped
<1>14. \A e \in Executors : pc'[e] = pc[e] /\ iter'[e] = iter[e]
  BY <1>1, <1>2, <1>5, Zenon
<1>15. CASE UNCHANGED <<pending, events, owed>>
  <2>1. QueueTyped'
    BY <1>13, <1>15, Zenon DEF Types, QueueTyped
  <2>2. Waiting' /\ Ordered'
    BY <1>8, <1>15, QueueKept, OrderedKept, Zenon
  <2>3. Owing'
    BY <1>9, <1>14, <1>15, OwingKept, Zenon
  <2> QED BY <1>6, <1>7, <1>9, <1>12, <2>1, <2>2, <2>3, Zenon DEF Types
<1>16. CASE p = "sync" /\ pending' = Append(pending, <<"sync", a>>) /\ UNCHANGED <<events, owed>>
  <2>1. PICK x : x = <<"sync", a>>
    BY Zenon
  <2>2. x \in AllItems /\ x[1] = "sync" /\ x[2] = a
    BY <2>1 DEF AllItems
  <2>3. IsSync(x) /\ ~IsEvent(x)
    BY <2>2, ItemKinds, Zenon DEF IsSync
  <2>4. Grown(x)
    BY <1>16, <2>1, <2>2, AppendIs, Zenon
  <2>5. QueueTyped'
    BY <1>13, <1>16, <2>4, Zenon DEF Types, QueueTyped, Grown
  <2>6. Waiting'
    BY <1>2, <1>3, <1>8, <1>16, <2>1, <2>2, QueueGrows, Zenon
  <2>7. Ordered'
    BY <1>16, <2>1, <2>2, <2>3, OrderedGrows, Zenon
  <2>8. \A i \in DOMAIN pending : \E j \in DOMAIN pending' : pending'[j] = pending[i]
    BY <2>4, Zenon DEF Grown
  <2>9. Owing'
    BY <1>9, <1>14, <1>16, <2>8, OwingKept, Zenon
  <2> QED BY <1>6, <1>7, <1>9, <1>12, <2>5, <2>6, <2>7, <2>9, Zenon DEF Types
<1>17. CASE NewEvent /\ pending' = IF runner = "immediate" THEN pending ELSE Append(pending, <<"event", events + 1>>)
  <2>1. Owing' /\ owed' \in [Subscribers -> Nat] /\ events' \in Nat
    <3>1. runner = "serial" => pending' = Append(pending, <<"event", events + 1>>)
      BY <1>17
    <3> QED BY <1>9, <1>17, <3>1, OwingNew, Zenon
  <2>2. events' = events + 1
    BY <1>17, Zenon DEF NewEvent
  <2>3. CASE pending' = pending
    <3>1. QueueTyped'
      BY <1>13, <2>1, <2>3, Zenon DEF Types, QueueTyped
    <3>2. Waiting' /\ Ordered'
      BY <1>8, <2>2, <2>3, QueueKept, OrderedKept, Zenon
    <3> QED BY <1>6, <1>7, <1>9, <1>12, <2>1, <3>1, <3>2, Zenon DEF Types
  <2>4. CASE pending' = Append(pending, <<"event", events + 1>>)
    <3>1. PICK x : x = <<"event", events + 1>>
      BY Zenon
    <3>2. x \in AllItems /\ x[1] = "event" /\ x[2] = events'
      BY <2>2, <3>1, EventNumbers DEF AllItems
    <3>3. IsEvent(x) /\ ~IsSync(x)
      BY <3>2, ItemKinds, Zenon DEF IsEvent
    <3>4. Grown(x)
      BY <2>4, <3>1, <3>2, AppendIs, Zenon
    <3>5. QueueTyped'
      BY <1>13, <2>1, <3>4, Zenon DEF Grown
    <3>6. Waiting'
      BY <1>8, <2>4, <3>1, <3>2, <3>3, QueueGrows, Zenon
    <3>7. Ordered'
      BY <2>2, <2>4, <3>1, <3>2, OrderedGrows, Zenon
    <3> QED BY <1>6, <1>7, <1>9, <1>12, <2>1, <3>5, <3>6, <3>7, Zenon DEF Types
  <2> QED BY <1>17, <2>3, <2>4, Zenon
<1> QED BY <1>15, <1>16, <1>17, Zenon DEF Effect

\* Activate.
LEMMA ActivateInv ==
  ASSUME Inv, NEW a \in Activators, Activate(a)
  PROVE  Inv'
<1>1. PICK p : p = "limit"
  BY Zenon
<1>2. /\ pc[a] = "idle" /\ pc[Shutter] = "idle" /\ pc' = [pc EXCEPT ![a] = p]
      /\ UNCHANGED <<m_list, m_map, nextId, runner, throws, destroyed, seen, current>>
      /\ UNCHANGED <<pending, events, owed>> /\ iter' = iter
  BY <1>1, Zenon DEF Activate, MayStart, listVars, queueVars, historyVars
<1>3. a \in Producers /\ p \in Places /\ p \in {"idle", "limit", "commit", "wait", "tipchange", "sync", "begin"} /\ p \notin {"wait", "sync", "begin"}
  BY <1>1, Constants DEF Places
<1>4. Effect(a, p)
  BY <1>2, <1>3, Zenon DEF Effect
<1> QED BY <1>2, <1>3, <1>4, ProducerInv, Zenon

\* What Raise does.
LEMMA RaiseIs ==
  ASSUME Types, NEW a, NEW next, next # "sync", Raise(a, next)
  PROVE  \E p : /\ p = (IF runner = "immediate" THEN "begin" ELSE next) /\ pc' = [pc EXCEPT ![a] = p]
                /\ Effect(a, p) /\ current' = current
<1>1. PICK p : p = (IF runner = "immediate" THEN "begin" ELSE next)
  BY Zenon
<1>2. p # "sync"
  BY <1>1
<1>3. pc' = [pc EXCEPT ![a] = p] /\ current' = current
  BY <1>1, Zenon DEF Raise, Inline, queueVars, Queue!Insert
<1>4. NewEvent /\ pending' = IF runner = "immediate" THEN pending ELSE Append(pending, <<"event", events + 1>>)
  BY Zenon DEF Raise, Inline, queueVars, Queue!Insert
<1> QED BY <1>1, <1>2, <1>3, <1>4, Zenon DEF Effect

\* BroadcastTransaction.
LEMMA BroadcastInv ==
  ASSUME Inv, NEW a \in Submitters, BroadcastTransaction(a)
  PROVE  Inv'
<1>1. /\ pc[a] = "idle" /\ pc[Shutter] = "idle" /\ Raise(a, "wait") /\ iter' = iter
      /\ UNCHANGED <<m_list, m_map, nextId, runner, throws, destroyed, seen>>
  BY Zenon DEF BroadcastTransaction, MayStart, listVars
<1>2. Types /\ "wait" # "sync" /\ a \in Producers
  BY Constants DEF Inv
<1>3. PICK p : /\ p = (IF runner = "immediate" THEN "begin" ELSE "wait") /\ pc' = [pc EXCEPT ![a] = p]
               /\ Effect(a, p) /\ current' = current
  BY <1>1, <1>2, RaiseIs, Zenon
<1>4. /\ p \in Places /\ p \in {"idle", "limit", "commit", "wait", "tipchange", "sync", "begin"}
      /\ runner = "immediate" => p \notin {"wait", "sync"}
      /\ runner = "serial" => p # "begin"
  BY <1>3 DEF Places
<1> QED BY <1>1, <1>2, <1>3, <1>4, ProducerInv, Zenon

\* The commit of a tip.
LEMMA CommitInv ==
  ASSUME Inv, NEW a \in Producers, Commit(a)
  PROVE  Inv'
<1>1. /\ pc[a] = "commit" /\ Raise(a, "tipchange") /\ iter' = iter
      /\ UNCHANGED <<m_list, m_map, nextId, runner, throws, destroyed, seen>>
  BY Zenon DEF Commit, listVars
<1>2. Types /\ "tipchange" # "sync" /\ pc[a] # "idle"
  BY <1>1 DEF Inv
<1>3. PICK p : /\ p = (IF runner = "immediate" THEN "begin" ELSE "tipchange") /\ pc' = [pc EXCEPT ![a] = p]
               /\ Effect(a, p) /\ current' = current
  BY <1>1, <1>2, RaiseIs, Zenon
<1>4. /\ p \in Places /\ p \in {"idle", "limit", "commit", "wait", "tipchange", "sync", "begin"}
      /\ runner = "immediate" => p \notin {"wait", "sync"}
      /\ runner = "serial" => p # "begin"
  BY <1>3 DEF Places
<1> QED BY <1>1, <1>2, <1>3, <1>4, ProducerInv, Zenon

\* LimitValidationInterfaceQueue waits only for a queue.
LEMMA LimitInv ==
  ASSUME Inv, NEW a \in Producers, LimitValidationInterfaceQueue(a)
  PROVE  Inv'
<1>1. /\ pc[a] = "limit" /\ iter' = iter
      /\ UNCHANGED <<m_list, m_map, nextId, runner, throws, destroyed, seen, current, events, owed>>
  BY Zenon DEF LimitValidationInterfaceQueue, listVars, historyVars, queueVars, Queue!Insert
<1>2. CallbacksPending > QueueLimit => runner # "immediate"
  BY SignalsAssumption DEF CallbacksPending
<1>3. PICK p : p = (IF CallbacksPending > QueueLimit THEN "sync" ELSE "commit")
  BY Zenon
<1>4. pc' = [pc EXCEPT ![a] = p] /\ pending' = IF CallbacksPending > QueueLimit THEN Append(pending, <<"sync", a>>) ELSE pending
  BY <1>3, Zenon DEF LimitValidationInterfaceQueue, queueVars, Queue!Insert
<1>5. /\ p \in Places /\ p \in {"idle", "limit", "commit", "wait", "tipchange", "sync", "begin"} /\ p # "begin"
      /\ runner = "immediate" => p \notin {"wait", "sync"}
  BY <1>2, <1>3 DEF Places
<1>6. Effect(a, p)
  BY <1>1, <1>3, <1>4, Zenon DEF Effect
<1>7. pc[a] # "idle"
  BY <1>1
<1> QED BY <1>1, <1>4, <1>5, <1>6, <1>7, ProducerInv, Zenon

\* SyncWithValidationInterfaceQueue.
LEMMA SyncInv ==
  ASSUME Inv, NEW a \in Producers, SyncWithValidationInterfaceQueue(a)
  PROVE  Inv'
<1>1. PICK p : p = "sync"
  BY Zenon
<1>2. /\ pc[a] = "wait" /\ iter' = iter /\ pc' = [pc EXCEPT ![a] = p] /\ pending' = Append(pending, <<"sync", a>>)
      /\ UNCHANGED <<m_list, m_map, nextId, runner, throws, destroyed, seen, current, events, owed>>
  BY <1>1, Zenon DEF SyncWithValidationInterfaceQueue, listVars, historyVars, Queue!Insert
<1>3. runner # "immediate"
  BY <1>2, Zenon DEF Inv, Runner
<1>4. p \in Places /\ p \in {"idle", "limit", "commit", "wait", "tipchange", "sync", "begin"} /\ p # "begin"
  BY <1>1 DEF Places
<1>5. Effect(a, p)
  BY <1>1, <1>2, Zenon DEF Effect
<1>6. pc[a] # "idle"
  BY <1>2
<1> QED BY <1>2, <1>3, <1>4, <1>5, <1>6, ProducerInv, Zenon

\* The locks go.
LEMMA UnlockInv ==
  ASSUME Inv, NEW a \in Producers, Unlock(a)
  PROVE  Inv'
<1>1. PICK p : p = "idle"
  BY Zenon
<1>2. /\ pc[a] = "unlock" /\ iter' = [iter EXCEPT ![a] = NotIterating] /\ pc' = [pc EXCEPT ![a] = p]
      /\ UNCHANGED <<m_list, m_map, nextId, runner, throws, destroyed, seen, current>>
      /\ UNCHANGED <<pending, events, owed>>
  BY <1>1, Zenon DEF Unlock, listVars, historyVars, queueVars
<1>3. p \in Places /\ p \in {"idle", "limit", "commit", "wait", "tipchange", "sync", "begin"} /\ p \notin {"begin", "wait", "sync"}
  BY <1>1 DEF Places
<1>4. Effect(a, p)
  BY <1>2, <1>3, Zenon DEF Effect
<1>5. pc[a] # "idle"
  BY <1>2
<1> QED BY <1>2, <1>3, <1>4, <1>5, ProducerInv, Zenon

\* An exception leaves Iterate; only a producer of ImmediateTaskRunner can be in a callback then.
LEMMA ThrowInv ==
  ASSUME CountFacts, Inv, NEW a \in Actors, CallbackThrows(a)
  PROVE  Inv'
<1> USE DEF Inv
<1>1. /\ pc[a] \in {"deliver", "notify"} /\ runner = "immediate" /\ throws' = throws + 1
      /\ iter' = [iter EXCEPT ![a] = NotIterating] /\ pc' = [pc EXCEPT ![a] = "idle"]
      /\ UNCHANGED <<m_list, m_map, nextId, runner, pending, current, events, seen, owed, destroyed>>
  BY Zenon DEF CallbackThrows, MayReturn, listVars, queueVars, historyVars
<1>2. a \notin Executors
  <2>1. Working(a) /\ current = None
    BY <1>1 DEF Working, Runner
  <2> QED BY <2>1, Zenon DEF Waiting
<1>3. /\ a \in Producers /\ a # Shutter /\ Executors \subseteq Actors /\ Producers \subseteq Actors
      /\ Shutter \in Actors /\ Worker \in Actors
  BY <1>2, Constants, Zenon
<1>4. pc'[a] = "idle" /\ \A u \in Actors : u # a => pc'[u] = pc[u]
  BY <1>1, OneMoves, Zenon
<1>5. Entries' /\ Progress'
  BY ThrowList, Zenon
<1>6. Types'
  <2>1. NotIterating \in Iterations
    BY DEF NotIterating, Iterations
  <2>2. iter' \in [Actors -> Iterations]
    BY <1>1, <2>1, IterTyped, Zenon
  <2>3. throws' \in Nat
    <3>1. throws \in Nat
      BY Zenon DEF Types, QueueTyped
    <3> QED BY <1>1, <3>1
  <2>4. pc' \in [Actors -> Places]
    <3>1. "idle" \in Places
      BY DEF Places
    <3> QED BY <1>1, <3>1, Zenon DEF Types, QueueTyped
  <2> QED BY <1>1, <2>2, <2>3, <2>4, Zenon DEF Types, ListTyped, QueueTyped, Ids
<1>7. \A e \in Executors : pc'[e] = pc[e]
  BY <1>2, <1>3, <1>4, Zenon
<1>8. Patient
  <2>1. pc[a] # "sync"
    BY <1>1
  <2>2. \A u \in Producers : pc[u] = "sync" => pc'[u] = "sync"
    BY <1>3, <1>4, <2>1, Zenon
  <2> QED BY <1>7, <2>2, Zenon DEF Patient, Waiting, Working
<1>9. Waiting' /\ Ordered'
  BY <1>1, <1>8, QueueKept, OrderedKept, Zenon
<1>10. Runner'
  <2>1. runner # "serial" /\ "idle" \notin {"wait", "sync"}
    BY <1>1
  <2>2. \A u \in Producers : pc'[u] \notin {"wait", "sync"}
    BY <1>1, <1>3, <1>4, <2>1, Zenon DEF Runner
  <2> QED BY <1>1, <1>3, <1>7, <2>1, <2>2, Constants, Zenon DEF Runner
<1>11. Stopping' /\ pc'[Shutter] = pc[Shutter] /\ pc[Shutter] # "done"
  <2>1. pc[a] # "idle"
    BY <1>1
  <2> QED BY <1>1, <1>3, <2>1, MoveStopping, Zenon
<1>12. Owing'
  <2>1. runner # "serial"
    BY <1>1
  <2>2. Registered' = Registered
    BY <1>1, Zenon DEF Registered
  <2> QED BY <1>1, <1>11, <2>1, <2>2, Zenon DEF Owing
<1> QED BY <1>5, <1>6, <1>9, <1>10, <1>11, <1>12, Zenon

-----------------------------------------------------------------------------
(* Registration.                                                            *)

\* Threads that stay where they are.
LEMMA NobodyMoves ==
  ASSUME Inv, UNCHANGED <<pc, runner, pending, current, events, seen, throws>>
  PROVE  Patient /\ Waiting' /\ Ordered' /\ Runner'
<1> USE DEF Inv
<1>1. Patient
  BY Zenon DEF Patient, Working, Waiting
<1>2. Waiting' /\ Ordered'
  BY <1>1, QueueKept, OrderedKept, Zenon
<1>3. Runner'
  BY Zenon DEF Runner, Queued
<1> QED BY <1>1, <1>2, <1>3, Zenon

\* Register.
LEMMA RegisterInv ==
  ASSUME CountFacts, Inv, NEW s \in Subscribers, Register(s)
  PROVE  Inv'
<1> USE DEF Inv
<1>0. PICK n : n = nextId
  BY Zenon
<1>1. /\ pc[Shutter] = "idle" /\ n <= MaxRegistrations /\ m_map[s] = None
      /\ m_map' = [m_map EXCEPT ![s] = n] /\ nextId' = n + 1
      /\ m_list' = [id \in Ids \cup {n} |-> IF id = n THEN [sub |-> s, count |-> 1] ELSE m_list[id]]
      /\ UNCHANGED <<pc, iter, runner, pending, current, events, seen, owed, throws, destroyed>>
  BY <1>0, Zenon DEF Register, queueVars, historyVars
<1>2. Entries' /\ Progress'
  BY RegisterList, Zenon
<1>3. Waiting' /\ Ordered' /\ Runner'
  BY <1>1, NobodyMoves, Zenon
<1>4. n \in AllIds /\ n \in Nat /\ n + 1 \in 0..(MaxRegistrations + 1) /\ n < n + 1
  <2>1. n \in 0..(MaxRegistrations + 1) /\ MaxRegistrations \in Nat
    BY <1>0, Constants, Zenon DEF Types, ListTyped
  <2> QED BY <1>1, <2>1 DEF AllIds
<1>5. Ids' = Ids \cup {n}
  BY <1>1, Zenon DEF Ids
<1>6. ListTyped'
  <2>1. \A id \in Ids' : id < n + 1
    <3>1. ASSUME NEW id \in Ids PROVE id < n + 1
      <4>1. id < n /\ id \in Nat
        BY <1>0, EntryTypes, Zenon DEF Types, ListTyped
      <4> QED BY <1>4, <4>1
    <3> QED BY <1>4, <1>5, <3>1, Zenon
  <2>2. Ids' \subseteq AllIds
    BY <1>4, <1>5, Zenon DEF Types, ListTyped
  <2>3. m_map' \in [Subscribers -> AllIds \cup {None}]
    BY <1>1, <1>4, Zenon DEF Types, ListTyped
  <2>4. [sub |-> s, count |-> 1] \in [sub : Subscribers, count : Nat]
    OBVIOUS
  <2>5. m_list' \in [Ids' -> [sub : Subscribers, count : Nat]]
    BY <1>1, <1>5, <2>4, Zenon DEF Types, ListTyped
  <2> QED BY <1>1, <1>4, <2>1, <2>2, <2>3, <2>5, Zenon DEF Types, ListTyped
<1>7. QueueTyped'
  BY <1>1, Zenon DEF Types, QueueTyped
<1>8. Stopping'
  <2>1. ~destroyed
    BY <1>1, Zenon DEF Stopping
  <2> QED BY <1>1, <2>1, Zenon DEF Stopping, DestroyedUnreachable
<1>9. pc[Shutter] # "done"
  BY <1>1
<1>10. ASSUME NEW t \in Subscribers, owed[t] # 0 PROVE t \in Registered /\ t # s /\ m_map'[t] = m_map[t] /\ t \in Registered'
  <2>1. t \in Registered
    BY <1>9, <1>10, Zenon DEF Owing
  <2>2. t # s
    BY <1>1, <2>1, Zenon DEF Registered
  <2>3. m_map'[t] = m_map[t]
    BY <1>1, <2>2, Zenon DEF Types, ListTyped
  <2> QED BY <2>1, <2>2, <2>3, Zenon DEF Registered
<1>11. ASSUME NEW t \in Subscribers, owed[t] # 0, OnItsWay(t) PROVE OnItsWay(t)'
  <2>1. m_map'[t] = m_map[t]
    BY <1>10, <1>11, Zenon
  <2> QED BY <1>1, <1>11, <2>1, Zenon DEF OnItsWay
<1>12. Owing'
  BY <1>1, <1>10, <1>11, Zenon DEF Owing
<1> QED BY <1>2, <1>3, <1>6, <1>7, <1>8, <1>12, Zenon DEF Types

\* The list after Clear or Unregister.
LEMMA RemoveTyped ==
  ASSUME Types, Entries, NEW subs \in SUBSET Subscribers, RemoveEntries(subs), nextId' = nextId
  PROVE  ListTyped' /\ Ids' \subseteq Ids /\ \A j \in Ids' : SubOf(j)' = SubOf(j)
<1>0. PICK ids : ids = {m_map[s] : s \in subs}
  BY Zenon
<1>1. /\ m_list' = Drop(ids) /\ m_map' = [s \in Subscribers |-> IF s \in subs THEN None ELSE m_map[s]]
      /\ iter' = [a \in Actors |-> [at |-> iter[a].at, due |-> iter[a].due \ ids, got |-> iter[a].got]]
  BY <1>0, Zenon DEF RemoveEntries
<1>2. PICK list : list = Drop(ids)
  BY Zenon
<1>3. /\ DOMAIN list = {i \in Ids : i \in ids => m_list[i].count # 1}
      /\ \A i \in DOMAIN list : list[i].sub = SubOf(i) /\ list[i].count = m_list[i].count - One(i \in ids)
  BY <1>2, DropIs, Zenon
<1>4. \A id \in Ids : Counted(id)
  BY CountsAre, Zenon DEF Entries
<1>5. ASSUME NEW i \in DOMAIN list PROVE list[i] \in [sub : Subscribers, count : Nat]
  <2>1. list[i] = [sub |-> m_list[i].sub, count |-> IF i \in ids THEN m_list[i].count - 1 ELSE m_list[i].count]
    BY <1>2, Zenon DEF Drop
  <2>2. m_list[i].count \in Nat /\ m_list[i].count > 0 /\ m_list[i].sub \in Subscribers
    BY <1>3, <1>4, EntryTypes, Zenon DEF Counted, SubOf
  <2> QED BY <2>1, <2>2
<1>6. list = [i \in DOMAIN list |-> list[i]]
  BY <1>2, Zenon DEF Drop
<1>7. list \in [DOMAIN list -> [sub : Subscribers, count : Nat]]
  BY <1>5, <1>6, Zenon
<1>8. Ids' = DOMAIN list
  BY <1>1, <1>2, Zenon DEF Ids
<1>9. Ids' \subseteq Ids /\ \A j \in Ids' : SubOf(j)' = SubOf(j)
  BY <1>1, <1>2, <1>3, <1>8, Zenon DEF SubOf
<1>10. m_map' \in [Subscribers -> AllIds \cup {None}]
  BY <1>1, Zenon DEF Types, ListTyped
<1>11. iter' \in [Actors -> Iterations]
  <2>1. ASSUME NEW a \in Actors PROVE [at |-> iter[a].at, due |-> iter[a].due \ ids, got |-> iter[a].got] \in Iterations
    <3>1. iter[a] \in Iterations
      BY Zenon DEF Types, ListTyped
    <3> QED BY <3>1 DEF Iterations
  <2> QED BY <1>1, <2>1, Zenon
<1>12. ListTyped'
  BY <1>1, <1>2, <1>7, <1>8, <1>9, <1>10, <1>11, Zenon DEF Types, ListTyped
<1> QED BY <1>9, <1>12, Zenon

\* What the others are owed when one subscriber is removed.
LEMMA OwingRemove ==
  ASSUME Inv, NEW s \in Subscribers, RemoveEntries({s}), owed' = [owed EXCEPT ![s] = 0],
         UNCHANGED <<runner, pending, current, events, seen>>,
         \A e \in Executors : pc[e] = "begin" => pc'[e] = "begin",
         pc'[Shutter] # "done" => pc[Shutter] # "done"
  PROVE  Owing' /\ owed' \in [Subscribers -> Nat] /\ m_map'[s] = None
<1> USE DEF Inv
<1>0. PICK ids : ids = {m_map[t] : t \in {s}}
  BY Zenon
<1>1. /\ m_map' = [t \in Subscribers |-> IF t \in {s} THEN None ELSE m_map[t]]
      /\ iter' = [a \in Actors |-> [at |-> iter[a].at, due |-> iter[a].due \ ids, got |-> iter[a].got]]
  BY <1>0, Zenon DEF RemoveEntries
<1>2. \A u \in Actors : iter'[u].at = iter[u].at /\ iter'[u].due = iter[u].due \ ids /\ iter'[u].got = iter[u].got
  BY <1>1
<1>3. m_map'[s] = None /\ \A t \in Subscribers : t # s => m_map'[t] = m_map[t]
  BY <1>1, Zenon
<1>4. owed'[s] = 0 /\ (\A t \in Subscribers : t # s => owed'[t] = owed[t]) /\ owed' \in [Subscribers -> Nat]
  <2>1. owed \in [Subscribers -> Nat] /\ 0 \in Nat
    BY DEF Types, QueueTyped
  <2> QED BY <2>1, Zenon
<1>5. ASSUME NEW t \in Subscribers, t # s, OnItsWay(t) PROVE OnItsWay(t)'
  <2>1. CASE \E i \in DOMAIN pending : pending[i] = <<"event", events>>
    BY <2>1, Zenon DEF OnItsWay
  <2>2. ASSUME current = <<"event", events>>, NEW e \in Executors,
               pc[e] = "begin" \/ (iter[e].at # None /\ m_map[t] \in iter[e].due \ iter[e].got)
        PROVE  OnItsWay(t)'
    <3>1. CASE pc[e] = "begin"
      BY <2>2, <3>1, Zenon DEF OnItsWay
    <3>2. CASE iter[e].at # None /\ m_map[t] \in iter[e].due \ iter[e].got
      <4>1. e \in Actors
        BY Constants, Zenon
      <4>2. Mapped
        BY CountsAre, Zenon DEF Entries
      <4>3. m_map[t] \in Live
        BY <3>2, <4>1, Zenon DEF Progress
      <4>4. m_map[t] # None
        BY <4>3, Zenon DEF Live, Registered
      <4>5. t \in Registered /\ m_list[m_map[t]].sub = t
        BY <4>2, <4>4, Zenon DEF Registered, Mapped
      <4>6. m_map[t] # m_map[s]
        <5>1. ASSUME m_map[t] = m_map[s] PROVE FALSE
          <6>1. s \in Registered
            BY <4>4, <5>1, Zenon DEF Registered
          <6>2. m_list[m_map[s]].sub = s
            BY <4>2, <6>1, Zenon DEF Mapped
          <6> QED BY <1>5, <4>5, <5>1, <6>2, Zenon
        <5> QED BY <5>1, Zenon
      <4>7. m_map[t] \notin ids
        BY <1>0, <4>6, Zenon
      <4>8. iter'[e].at # None /\ m_map'[t] \in iter'[e].due \ iter'[e].got
        BY <1>2, <1>3, <1>5, <3>2, <4>1, <4>7, Zenon
      <4> QED BY <2>2, <4>8, Zenon DEF OnItsWay
    <3> QED BY <2>2, <3>1, <3>2, Zenon
  <2> QED BY <1>5, <2>1, <2>2, Zenon DEF OnItsWay
<1>6. ASSUME NEW t \in Subscribers PROVE owed'[t] \in {0, events}
  BY <1>4, Zenon DEF Owing
<1>7. ASSUME NEW t \in Subscribers, pc'[Shutter] # "done", owed'[t] # 0 PROVE t \in Registered'
  <2>1. t # s /\ owed[t] # 0
    BY <1>4, <1>7, Zenon
  <2>2. t \in Registered
    BY <1>7, <2>1, Zenon DEF Owing
  <2> QED BY <1>3, <2>1, <2>2, Zenon DEF Registered
<1>8. ASSUME NEW t \in Subscribers, runner = "serial" PROVE owed'[t] = 0 \/ seen[t] = owed'[t] \/ OnItsWay(t)'
  <2>1. CASE t = s
    BY <1>4, <2>1, Zenon
  <2>2. CASE t # s
    BY <1>4, <1>5, <1>8, <2>2, Zenon DEF Owing
  <2> QED BY <2>1, <2>2, Zenon
<1>9. Owing'
  BY <1>6, <1>7, <1>8, Zenon DEF Owing
<1> QED BY <1>3, <1>4, <1>9, Zenon

\* Unregister.
LEMMA UnregisterInv ==
  ASSUME CountFacts, Inv, NEW s \in Subscribers, Unregister(s)
  PROVE  Inv'
<1> USE DEF Inv
<1>1. /\ RemoveEntries({s}) /\ owed' = [owed EXCEPT ![s] = 0]
      /\ UNCHANGED <<pc, runner, nextId, pending, current, events, seen, throws, destroyed>>
  BY Zenon DEF Unregister, queueVars
<1>2. {s} \in SUBSET Subscribers
  BY Zenon
<1>3. Entries' /\ Progress'
  BY <1>1, <1>2, RemoveList, Zenon
<1>4. ListTyped' /\ Ids' \subseteq Ids /\ \A j \in Ids' : SubOf(j)' = SubOf(j)
  BY <1>1, <1>2, RemoveTyped, Zenon
<1>5. Waiting' /\ Ordered' /\ Runner'
  BY <1>1, NobodyMoves, Zenon
<1>6. Owing' /\ owed' \in [Subscribers -> Nat]
  BY <1>1, OwingRemove, Zenon
<1>7. QueueTyped'
  BY <1>1, <1>6, Zenon DEF Types, QueueTyped
<1>8. m_map'[Peerman] = None \/ m_map'[Peerman] = m_map[Peerman]
  BY <1>1, Constants, Zenon DEF RemoveEntries
<1>9. Stopping'
  BY <1>1, <1>4, <1>8, Zenon DEF Stopping, DestroyedUnreachable
<1> QED BY <1>3, <1>4, <1>5, <1>6, <1>7, <1>9, Zenon DEF Types

-----------------------------------------------------------------------------
(* The executors of the queue.                                              *)

\* There is a queue only with the serial runner.
LEMMA QueueIsSerial ==
  ASSUME Types, Runner, pending # <<>> \/ current # None \/ pc[Shutter] # "idle"
  PROVE  runner = "serial" /\ runner # "immediate"
BY DEF Types, QueueTyped, Runner

\* An executor takes the next callback.
LEMMA ProcessInv ==
  ASSUME Inv, NEW e \in Executors, ProcessQueue(e)
  PROVE  Inv'
<1> USE DEF Inv
<1>1. /\ Queue!Start /\ pc' = [pc EXCEPT ![e] = "begin"] /\ pending # <<>> /\ current = None
      /\ UNCHANGED <<m_list, m_map, nextId, iter, runner, events, seen, owed, throws, destroyed>>
  BY Zenon DEF ProcessQueue, listVars, historyVars, Queue!Start
<1>2. Shrunk
  BY <1>1, StartIs, Zenon
<1>3. e \in Actors /\ e \notin Producers /\ Executors = {Worker, Shutter} /\ Worker # Shutter /\ Producers \subseteq Actors
  BY Constants, Zenon
<1>4. pc'[e] = "begin" /\ \A u \in Actors : u # e => pc'[u] = pc[u]
  BY <1>1, <1>3, OneMoves, Zenon
<1>5. MayExecute(e)
  BY Zenon DEF ProcessQueue
<1>6. pc[e] \in {"idle", "flush"}
  BY <1>3, <1>5, Zenon DEF MayExecute
<1>7. runner = "serial" /\ runner # "immediate"
  BY <1>1, QueueIsSerial, Zenon
<1>8. Entries' /\ Progress'
  <2>1. pc[e] \notin Inside /\ pc'[e] \notin Inside
    BY <1>4, <1>6 DEF Inside
  <2>2. ListKept
    BY <1>1, <1>4, <2>1, Zenon DEF ListKept
  <2> QED BY <2>2, ListKeptInv, Zenon
<1>9. Types'
  <2>1. "begin" \in Places
    BY DEF Places
  <2>2. pc' \in [Actors -> Places]
    BY <1>1, <2>1, Zenon DEF Types, QueueTyped
  <2>3. pending' \in Seq(AllItems) /\ current' \in AllItems
    BY <1>2, PendingItems, Zenon DEF Shrunk
  <2> QED BY <1>1, <2>2, <2>3, Zenon DEF Types, ListTyped, QueueTyped, Ids
<1>10. Waiting' /\ Ordered'
  BY <1>1, <1>2, ProcessWaiting, OrderedStart, Zenon
<1>11. Runner'
  <2>1. PICK p : p = "begin"
    BY Zenon
  <2>2. p \notin {"tipchange", "notify"}
    BY <2>1
  <2> QED BY <1>1, <1>3, <1>7, <2>1, <2>2, MoveRunner, Zenon
<1>12. Stopping' /\ (pc'[Shutter] # "done" => pc[Shutter] # "done")
  <2>1. CASE e = Worker
    BY <1>1, <1>3, <1>5, <2>1, MoveStopping, Zenon DEF MayExecute
  <2>2. CASE e = Shutter
    <3>1. /\ pc[Shutter] \notin {"idle", "unregistered", "joining", "done"}
          /\ pc'[Shutter] \notin {"idle", "unregistered", "joining", "done"}
      BY <1>3, <1>4, <1>5, <2>2 DEF MayExecute
    <3>2. pc'[Worker] = "idle" /\ \A u \in Producers : pc'[u] = "idle"
      BY <1>3, <1>4, <2>2, <3>1, Constants, Zenon DEF Stopping
    <3>3. DestroyedUnreachable'
      BY <1>1, Zenon DEF Stopping, DestroyedUnreachable, Ids, SubOf
    <3> QED BY <1>1, <3>1, <3>2, <3>3, Zenon DEF Stopping
  <2> QED BY <1>3, <2>1, <2>2, Zenon
<1>13. ASSUME NEW s \in Subscribers, OnItsWay(s) PROVE OnItsWay(s)'
  <2>1. current # <<"event", events>>
    <3>1. <<"event", events>> \in AllItems
      BY EventNumbers DEF AllItems
    <3> QED BY <1>1, <3>1, Constants, Zenon
  <2>2. PICK i \in DOMAIN pending : pending[i] = <<"event", events>>
    BY <1>13, <2>1, Zenon DEF OnItsWay
  <2>3. CASE i = 1
    <3>1. current' = <<"event", events'>>
      BY <1>1, <1>2, <2>2, <2>3, Zenon DEF Shrunk
    <3> QED BY <1>4, <3>1, Zenon DEF OnItsWay
  <2>4. CASE i # 1
    <3>1. i - 1 \in DOMAIN pending' /\ pending'[i - 1] = <<"event", events'>>
      BY <1>1, <1>2, <2>2, <2>4, Zenon DEF Shrunk
    <3> QED BY <3>1, Zenon DEF OnItsWay
  <2> QED BY <2>3, <2>4, Zenon
<1>14. Registered' = Registered
  BY <1>1, Zenon DEF Registered
<1>15. Owing'
  BY <1>1, <1>12, <1>13, <1>14, Zenon DEF Owing
<1> QED BY <1>8, <1>9, <1>10, <1>11, <1>12, <1>15, Zenon

\* The promise is set.
LEMMA PromiseInv ==
  ASSUME Inv, NEW e \in Executors, SetPromise(e)
  PROVE  Inv'
<1> USE DEF Inv
<1>1. PICK u \in Producers : /\ pc[e] = "begin" /\ pc[u] = "sync" /\ current = <<"sync", u>> /\ IsSync(current)
                             /\ pc'[e] = "finish" /\ pc'[u] = (IF u \in Activators THEN "commit" ELSE "idle")
                             /\ \A v \in Actors : v # e /\ v # u => pc'[v] = pc[v]
                             /\ \A i \in DOMAIN pending : pending[i] # current
  BY PromiseIs, Zenon
<1>2. UNCHANGED <<m_list, m_map, nextId, iter, runner, pending, current, events, seen, owed, throws, destroyed>>
  BY Zenon DEF SetPromise, listVars, queueVars, historyVars
<1>3. /\ e \in Actors /\ e \notin Producers /\ u \in Actors /\ u \notin Executors /\ Executors = {Worker, Shutter}
      /\ Worker # Shutter /\ Producers \subseteq Actors /\ Executors \subseteq Actors
  BY Constants, Zenon
<1>4. pc'[u] \in {"commit", "idle"}
  BY <1>1, Zenon
<1>5. \A v \in Actors : pc'[v] \in Inside <=> pc[v] \in Inside
  <2>1. pc[e] \notin Inside /\ pc'[e] \notin Inside /\ pc[u] \notin Inside /\ pc'[u] \notin Inside
    BY <1>1, <1>4 DEF Inside
  <2> QED BY <1>1, <2>1, Zenon
<1>6. Entries' /\ Progress'
  <2>1. ListKept
    BY <1>2, <1>5, Zenon DEF ListKept
  <2> QED BY <2>1, ListKeptInv, Zenon
<1>7. Types'
  <2>1. pc' \in [Actors -> Places]
    <3>1. "finish" \in Places /\ "commit" \in Places /\ "idle" \in Places
      BY DEF Places
    <3>2. PICK x : x = ItemOf(e)[2]
      BY Zenon
    <3>3. pc' = [pc EXCEPT ![e] = "finish", ![x] = IF x \in Activators THEN "commit" ELSE "idle"]
      BY <3>2, Zenon DEF SetPromise
    <3> QED BY <3>1, <3>3, Zenon DEF Types, QueueTyped
  <2> QED BY <1>2, <2>1, Zenon DEF Types, ListTyped, QueueTyped, Ids
<1>8. Waiting' /\ Ordered'
  BY <1>2, PromiseWaiting, OrderedKept, Zenon
<1>9. runner = "serial" /\ runner # "immediate"
  <2>1. current # None
    BY <1>1, Zenon DEF IsSync
  <2> QED BY <2>1, QueueIsSerial, Zenon
<1>10. Runner'
  <2>1. \A f \in Executors : pc'[f] \notin {"tipchange", "notify"}
    <3>1. pc'[e] \notin {"tipchange", "notify"}
      BY <1>1
    <3> QED BY <1>1, <1>3, <3>1, Zenon DEF Runner
  <2>2. \A v \in Producers : pc'[v] \notin {"begin", "deliver"}
    <3>1. pc'[u] \notin {"begin", "deliver"}
      BY <1>4
    <3> QED BY <1>1, <1>3, <1>9, <3>1, Zenon DEF Runner, Queued
  <2> QED BY <1>2, <1>9, <2>1, <2>2, Zenon DEF Runner, Queued
<1>11. e = Worker /\ pc[Shutter] \in {"idle", "unregistered"} /\ pc'[Shutter] = pc[Shutter]
  <2>1. pc[u] # "idle"
    BY <1>1
  <2>2. pc[Shutter] \in {"idle", "unregistered"}
    BY <2>1, Zenon DEF Stopping
  <2>3. e # Shutter
    BY <1>1, <2>2
  <2> QED BY <1>1, <1>3, <2>2, <2>3, Zenon
<1>12. Stopping'
  <2>1. DestroyedUnreachable'
    BY <1>2, Zenon DEF Stopping, DestroyedUnreachable, Ids, SubOf
  <2>2. pc'[Shutter] \in {"idle", "unregistered"} /\ pc'[Shutter] # "done" /\ pc[Shutter] \notin {"joining", "done"}
    BY <1>11
  <2> QED BY <1>2, <1>11, <2>1, <2>2, Zenon DEF Stopping
<1>13. Owing'
  <2>1. ~IsEvent(current)
    <3>1. current \in AllItems
      BY <1>1, Zenon DEF IsSync, Types, QueueTyped
    <3> QED BY <1>1, <3>1, ItemKinds, Zenon
  <2> QED BY <1>2, <1>11, <2>1, OwingKept, Zenon
<1> QED BY <1>6, <1>7, <1>8, <1>10, <1>12, <1>13, Zenon

\* A callback is finished.
LEMMA FinishInv ==
  ASSUME Inv, NEW e \in Executors, FinishCallback(e)
  PROVE  Inv'
<1> USE DEF Inv
<1>0. PICK p : p = (IF e = Worker THEN "idle" ELSE "flush")
  BY Zenon
<1>1. /\ pc[e] = "finish" /\ pc' = [pc EXCEPT ![e] = p] /\ iter' = [iter EXCEPT ![e] = NotIterating]
      /\ pending' = pending /\ current' = None /\ current # None
      /\ UNCHANGED <<m_list, m_map, nextId, runner, events, seen, owed, throws, destroyed>>
  BY <1>0, Zenon DEF FinishCallback, listVars, historyVars, Queue!Finish
<1>2. /\ e \in Actors /\ e \notin Producers /\ Executors = {Worker, Shutter} /\ Worker # Shutter
      /\ Producers \subseteq Actors /\ Executors \subseteq Actors
  BY Constants, Zenon
<1>3. pc'[e] = p /\ \A u \in Actors : u # e => pc'[u] = pc[u]
  BY <1>1, <1>2, OneMoves, Zenon
<1>4. pc[e] \notin Inside /\ p \notin Inside
  BY <1>0, <1>1 DEF Inside
<1>5. iter[e].at = None
  BY <1>2, <1>4, Zenon DEF Entries
<1>6. Entries' /\ Progress'
  <2>1. \A u \in Actors : iter'[u] = iter[u] \/ (iter'[u] = NotIterating /\ iter[u].at = None)
    BY <1>1, <1>5, Zenon DEF Types, ListTyped
  <2>2. ListKept
    BY <1>1, <1>3, <1>4, <2>1, Zenon DEF ListKept
  <2> QED BY <2>2, ListKeptInv, Zenon
<1>7. Types'
  <2>1. NotIterating \in Iterations
    BY DEF NotIterating, Iterations
  <2>2. iter' \in [Actors -> Iterations]
    BY <1>1, <2>1, IterTyped, Zenon
  <2>3. p \in Places
    BY <1>0 DEF Places
  <2>4. pc' \in [Actors -> Places]
    BY <1>1, <2>3, Zenon DEF Types, QueueTyped
  <2> QED BY <1>1, <2>2, <2>4, Zenon DEF Types, ListTyped, QueueTyped, Ids
<1>8. Waiting' /\ Ordered'
  BY <1>1, FinishWaiting, OrderedFinish, Zenon
<1>9. runner = "serial" /\ runner # "immediate"
  BY <1>1, QueueIsSerial, Zenon
<1>10. Runner'
  <2>1. p \notin {"tipchange", "notify"}
    BY <1>0
  <2> QED BY <1>1, <1>2, <1>9, <2>1, MoveRunner, Zenon
<1>11. Stopping' /\ (pc'[Shutter] # "done" => pc[Shutter] # "done")
  <2>1. CASE e = Worker
    <3>1. pc[e] # "idle"
      BY <1>1
    <3> QED BY <1>1, <1>2, <2>1, <3>1, MoveStopping, Zenon
  <2>2. CASE e = Shutter
    <3>1. /\ pc[Shutter] \notin {"idle", "unregistered", "joining", "done"}
          /\ pc'[Shutter] \notin {"idle", "unregistered", "joining", "done"}
      BY <1>0, <1>1, <1>2, <1>3, <2>2
    <3>2. pc'[Worker] = "idle" /\ \A u \in Producers : pc'[u] = "idle"
      BY <1>2, <1>3, <2>2, <3>1, Constants, Zenon DEF Stopping
    <3>3. DestroyedUnreachable'
      BY <1>1, Zenon DEF Stopping, DestroyedUnreachable, Ids, SubOf
    <3> QED BY <1>1, <3>1, <3>2, <3>3, Zenon DEF Stopping
  <2> QED BY <1>2, <2>1, <2>2, Zenon
<1>12. ASSUME NEW s \in Subscribers, OnItsWay(s) PROVE OnItsWay(s)'
  <2>1. ASSUME NEW f \in Executors PROVE pc[f] # "begin" /\ iter[f].at = None
    <3>1. CASE f = e
      <4>1. pc[e] # "begin"
        BY <1>1
      <4> QED BY <1>5, <3>1, <4>1, Zenon
    <3>2. CASE f # e
      <4>1. Working(e)
        BY <1>1 DEF Working
      <4>2. ~Working(f)
        BY <3>2, <4>1, Zenon DEF Waiting
      <4>3. pc[f] # "begin" /\ pc[f] \notin Inside
        BY <4>2 DEF Working, Inside
      <4> QED BY <1>2, <4>3, Zenon DEF Entries
    <3> QED BY <3>1, <3>2, Zenon
  <2> QED BY <1>1, <1>12, <2>1, Zenon DEF OnItsWay
<1>13. Registered' = Registered
  BY <1>1, Zenon DEF Registered
<1>14. Owing'
  BY <1>1, <1>11, <1>12, <1>13, Zenon DEF Owing
<1> QED BY <1>6, <1>7, <1>8, <1>10, <1>11, <1>14, Zenon

-----------------------------------------------------------------------------
(* Shutdown.                                                                *)

\* The thread of Shutdown moves on outside Iterate.
ShutterAt == {"idle", "unregistered", "joining", "reset", "flush"}
ShutterTo == {"unregistered", "joining", "reset", "flush", "done"}

\* Such a step leaves the other threads and the runner alone.
LEMMA ShutterMoves ==
  ASSUME Inv, NEW p \in ShutterTo, pc[Shutter] \in ShutterAt, pc' = [pc EXCEPT ![Shutter] = p],
         runner = "serial", runner' = runner, throws' = throws
  PROVE  /\ Patient /\ Runner' /\ pc' \in [Actors -> Places]
         /\ pc'[Shutter] = p /\ \A u \in Actors : u # Shutter => pc'[u] = pc[u]
         /\ \A u \in Actors : pc'[u] \in Inside <=> pc[u] \in Inside
         /\ \A e \in Executors : pc[e] = "begin" => pc'[e] = "begin"
         /\ pc[Shutter] # "done"
<1> USE DEF Inv
<1>1. /\ Shutter \in Actors /\ Shutter \notin Producers /\ Producers \subseteq Actors /\ Executors \subseteq Actors
      /\ Shutter \in Executors
  BY Constants, Zenon
<1>2. pc'[Shutter] = p /\ \A u \in Actors : u # Shutter => pc'[u] = pc[u]
  BY <1>1, OneMoves, Zenon
<1>3. /\ pc[Shutter] \notin Inside /\ p \notin Inside /\ pc[Shutter] # "begin" /\ p # "begin" /\ p \in Places
      /\ p \notin {"tipchange", "notify"} /\ p \notin {"begin", "tipchange", "deliver", "notify", "finish"}
      /\ pc[Shutter] # "done"
  BY DEF Inside, Places, ShutterAt, ShutterTo
<1>4. \A u \in Actors : pc'[u] \in Inside <=> pc[u] \in Inside
  BY <1>2, <1>3, Zenon
<1>5. Patient
  <2>1. \A u \in Producers : pc[u] = "sync" => pc'[u] = "sync"
    BY <1>1, <1>2, Zenon
  <2>2. ASSUME NEW e \in Executors
        PROVE  /\ Working(e)' => Working(e)
               /\ pc'[e] = "begin" => pc[e] = "begin"
               /\ pc'[e] \in Inside => IsEvent(current)
    <3>1. CASE e = Shutter
      BY <1>2, <1>3, <3>1, Zenon DEF Working
    <3>2. CASE e # Shutter
      BY <1>1, <1>2, <3>2, Zenon DEF Working, Waiting
    <3> QED BY <3>1, <3>2, Zenon
  <2> QED BY <2>1, <2>2, Zenon DEF Patient
<1>6. Runner'
  <2>1. runner # "immediate"
    OBVIOUS
  <2> QED BY <1>1, <1>3, <2>1, MoveRunner, Zenon
<1>7. pc' \in [Actors -> Places]
  BY <1>3, Zenon DEF Types, QueueTyped
<1>8. \A e \in Executors : pc[e] = "begin" => pc'[e] = "begin"
  BY <1>1, <1>2, <1>3, Zenon
<1> QED BY <1>2, <1>3, <1>4, <1>5, <1>6, <1>7, <1>8, Zenon

\* The peer manager is unregistered.
LEMMA UnregisterPeermanInv ==
  ASSUME CountFacts, Inv, UnregisterPeerman
  PROVE  Inv'
<1> USE DEF Inv
<1>0. PICK p : p = "unregistered"
  BY Zenon
<1>1. /\ pc[Shutter] = "idle" /\ runner = "serial" /\ RemoveEntries({Peerman}) /\ pc' = [pc EXCEPT ![Shutter] = p]
      /\ owed' = [owed EXCEPT ![Peerman] = 0]
      /\ UNCHANGED <<runner, nextId, pending, current, events, seen, destroyed, throws>>
  BY <1>0, Zenon DEF UnregisterPeerman, queueVars
<1>2. p \in ShutterTo /\ pc[Shutter] \in ShutterAt
  BY <1>0, <1>1 DEF ShutterTo, ShutterAt
<1>3. /\ Patient /\ Runner' /\ pc' \in [Actors -> Places] /\ pc'[Shutter] = p
      /\ \A u \in Actors : pc'[u] \in Inside <=> pc[u] \in Inside
      /\ \A e \in Executors : pc[e] = "begin" => pc'[e] = "begin"
      /\ pc[Shutter] # "done"
  BY <1>1, <1>2, ShutterMoves, Zenon
<1>4. Peerman \in Subscribers /\ {Peerman} \in SUBSET Subscribers
  BY Constants, Zenon
<1>5. Entries' /\ Progress'
  BY <1>1, <1>3, <1>4, RemoveList, Zenon
<1>6. ListTyped'
  BY <1>1, <1>4, RemoveTyped, Zenon
<1>7. Owing' /\ owed' \in [Subscribers -> Nat] /\ m_map'[Peerman] = None
  BY <1>1, <1>3, <1>4, OwingRemove, Zenon
<1>8. QueueTyped'
  BY <1>1, <1>3, <1>7, Zenon DEF Types, QueueTyped
<1>9. Waiting' /\ Ordered'
  BY <1>1, <1>3, QueueKept, OrderedKept, Zenon
<1>10. Stopping'
  <2>1. ~destroyed
    BY <1>1, Zenon DEF Stopping
  <2>2. pc'[Shutter] \in {"idle", "unregistered"} /\ pc'[Shutter] \in {"idle", "unregistered", "joining"} /\ pc'[Shutter] # "done"
    BY <1>0, <1>3
  <2> QED BY <1>1, <1>7, <2>1, <2>2, Zenon DEF Stopping, DestroyedUnreachable
<1> QED BY <1>3, <1>5, <1>6, <1>7, <1>8, <1>9, <1>10, Zenon DEF Types

\* A step of Shutdown that leaves the list and the queue alone.
LEMMA ShutdownKept ==
  ASSUME Inv, NEW p \in ShutterTo, p # "done", pc[Shutter] \in ShutterAt, pc' = [pc EXCEPT ![Shutter] = p],
         runner = "serial", UNCHANGED <<m_list, m_map, nextId, iter, runner, pending, current, events, seen, owed, throws>>
  PROVE  /\ Types' /\ Entries' /\ Progress' /\ Waiting' /\ Ordered' /\ Runner' /\ Owing'
         /\ pc'[Shutter] = p /\ \A u \in Actors : u # Shutter => pc'[u] = pc[u]
<1> USE DEF Inv
<1>1. /\ Patient /\ Runner' /\ pc' \in [Actors -> Places]
      /\ pc'[Shutter] = p /\ \A u \in Actors : u # Shutter => pc'[u] = pc[u]
      /\ \A u \in Actors : pc'[u] \in Inside <=> pc[u] \in Inside
      /\ \A e \in Executors : pc[e] = "begin" => pc'[e] = "begin"
      /\ pc[Shutter] # "done"
  BY ShutterMoves, Zenon
<1>2. ListKept
  BY <1>1, Zenon DEF ListKept
<1>3. Entries' /\ Progress'
  BY <1>2, ListKeptInv, Zenon
<1>4. Types'
  BY <1>1, Zenon DEF Types, ListTyped, QueueTyped, Ids
<1>5. Waiting' /\ Ordered'
  BY <1>1, QueueKept, OrderedKept, Zenon
<1>6. Owing'
  BY <1>1, OwingKept, Zenon
<1> QED BY <1>1, <1>3, <1>4, <1>5, <1>6, Zenon

\* The scheduler is asked to stop.
LEMMA StopSchedulerInv ==
  ASSUME Inv, StopScheduler
  PROVE  Inv'
<1> USE DEF Inv
<1>0. PICK p : p = "joining"
  BY Zenon
<1>1. /\ pc[Shutter] = "unregistered" /\ (\A a \in Producers : pc[a] = "idle") /\ pc' = [pc EXCEPT ![Shutter] = p]
      /\ UNCHANGED <<m_list, m_map, nextId, iter, runner, pending, current, events, seen, owed, throws, destroyed>>
  BY <1>0, Zenon DEF StopScheduler, listVars, queueVars, historyVars
<1>2. p \in ShutterTo /\ p # "done" /\ pc[Shutter] \in ShutterAt /\ pc[Shutter] # "idle"
  BY <1>0, <1>1 DEF ShutterTo, ShutterAt
<1>3. runner = "serial"
  BY <1>2, QueueIsSerial, Zenon
<1>4. /\ Types' /\ Entries' /\ Progress' /\ Waiting' /\ Ordered' /\ Runner' /\ Owing'
      /\ pc'[Shutter] = p /\ \A u \in Actors : u # Shutter => pc'[u] = pc[u]
  BY <1>1, <1>2, <1>3, ShutdownKept, Zenon
<1>5. Stopping'
  <2>1. \A a \in Producers : pc'[a] = "idle"
    BY <1>1, <1>4, Constants, Zenon
  <2>2. ~destroyed /\ m_map[Peerman] = None
    BY <1>1, <1>2, Zenon DEF Stopping
  <2>3. pc'[Shutter] \in {"idle", "unregistered", "joining"} /\ pc'[Shutter] # "done"
    BY <1>0, <1>4
  <2> QED BY <1>1, <2>1, <2>2, <2>3, Zenon DEF Stopping, DestroyedUnreachable
<1> QED BY <1>4, <1>5, Zenon

\* The peer manager is destroyed: nobody is in a callback and none of its entries is left.
LEMMA ResetPeermanInv ==
  ASSUME CountFacts, Inv, ResetPeerman
  PROVE  Inv'
<1> USE DEF Inv
<1>0. PICK p : p = "reset"
  BY Zenon
<1>1. /\ pc[Shutter] = "joining" /\ pc[Worker] = "idle" /\ pc' = [pc EXCEPT ![Shutter] = p]
      /\ UNCHANGED <<m_list, m_map, nextId, iter, runner, pending, current, events, seen, owed, throws>>
  BY <1>0, Zenon DEF ResetPeerman, listVars, queueVars, historyVars
<1>2. /\ p \in ShutterTo /\ p # "done" /\ pc[Shutter] \in ShutterAt /\ pc[Shutter] # "idle"
      /\ pc[Shutter] \notin {"idle", "unregistered"}
  BY <1>0, <1>1 DEF ShutterTo, ShutterAt
<1>3. runner = "serial"
  BY <1>2, QueueIsSerial, Zenon
<1>4. /\ Types' /\ Entries' /\ Progress' /\ Waiting' /\ Ordered' /\ Runner' /\ Owing'
      /\ pc'[Shutter] = p /\ \A u \in Actors : u # Shutter => pc'[u] = pc[u]
  BY <1>1, <1>2, <1>3, ShutdownKept, Zenon
<1>5. m_map[Peerman] = None /\ \A a \in Producers : pc[a] = "idle"
  BY <1>2, Zenon DEF Stopping
<1>6. ASSUME NEW a \in Actors PROVE iter[a].at = None
  <2>1. pc[a] \in {"idle", "joining"}
    BY <1>1, <1>5, Constants, Zenon
  <2>2. pc[a] \notin Inside
    BY <2>1 DEF Inside
  <2> QED BY <2>2, Zenon DEF Entries
<1>7. ASSUME NEW id \in Ids, SubOf(id) = Peerman PROVE FALSE
  <2>1. id # None
    BY EntryTypes, Zenon
  <2>2. Executing(id) = {}
    BY <1>6, <2>1, Zenon DEF Executing
  <2>3. Cardinality(Executing(id)) = 0
    BY <2>2, NoneCounted, Zenon
  <2>4. One(m_map[SubOf(id)] = id) = 0
    BY <1>5, <1>7, <2>1, Zenon DEF One
  <2>5. Uses(id) = 0
    BY <2>3, <2>4 DEF Uses
  <2>6. throws = 0 /\ Counted(id)
    BY <1>3, CountsAre, Zenon DEF Runner, Entries
  <2> QED BY <2>5, <2>6 DEF Counted
<1>8. Stopping'
  <2>1. \A a \in Producers : pc'[a] = "idle"
    BY <1>4, <1>5, Constants, Zenon
  <2>2. pc'[Worker] = "idle"
    BY <1>1, <1>4, Constants, Zenon
  <2>3. DestroyedUnreachable'
    BY <1>1, <1>7, Zenon DEF DestroyedUnreachable, Ids, SubOf
  <2>4. pc'[Shutter] \notin {"idle", "unregistered", "joining"} /\ pc'[Shutter] # "done"
    BY <1>0, <1>4
  <2> QED BY <1>1, <1>5, <2>1, <2>2, <2>3, <2>4, Zenon DEF Stopping
<1> QED BY <1>4, <1>8, Zenon

\* ChainStateFlushed is raised.
LEMMA RaiseFlushedInv ==
  ASSUME Inv, RaiseFlushed
  PROVE  Inv'
<1> USE DEF Inv
<1>0. PICK p, x : p = "flush" /\ x = <<"event", events + 1>>
  BY Zenon
<1>1. /\ pc[Shutter] = "reset" /\ NewEvent /\ pending' = Append(pending, x) /\ pc' = [pc EXCEPT ![Shutter] = p]
      /\ UNCHANGED <<m_list, m_map, nextId, iter, runner, current, seen, throws, destroyed>>
  BY <1>0, Zenon DEF RaiseFlushed, listVars, Queue!Insert
<1>2. /\ p \in ShutterTo /\ pc[Shutter] \in ShutterAt /\ pc[Shutter] # "idle" /\ pc[Shutter] # "done"
      /\ pc[Shutter] \notin {"idle", "unregistered", "joining"}
      /\ p \notin {"idle", "unregistered", "joining", "done"}
  BY <1>0, <1>1 DEF ShutterTo, ShutterAt
<1>3. runner = "serial"
  BY <1>2, QueueIsSerial, Zenon
<1>4. /\ Patient /\ Runner' /\ pc' \in [Actors -> Places]
      /\ pc'[Shutter] = p /\ \A u \in Actors : u # Shutter => pc'[u] = pc[u]
      /\ \A u \in Actors : pc'[u] \in Inside <=> pc[u] \in Inside
  BY <1>1, <1>2, <1>3, ShutterMoves, Zenon
<1>5. ListKept
  BY <1>1, <1>4, Zenon DEF ListKept
<1>6. Entries' /\ Progress'
  BY <1>5, ListKeptInv, Zenon
<1>7. events' = events + 1
  BY <1>1, Zenon DEF NewEvent
<1>8. x \in AllItems /\ x[1] = "event" /\ x[2] = events'
  BY <1>0, <1>7, EventNumbers DEF AllItems
<1>9. IsEvent(x) /\ ~IsSync(x)
  BY <1>8, ItemKinds, Zenon DEF IsEvent
<1>10. Owing' /\ owed' \in [Subscribers -> Nat] /\ events' \in Nat
  BY <1>0, <1>1, <1>2, OwingNew, Zenon
<1>11. Grown(x)
  BY <1>1, <1>8, AppendIs, Zenon
<1>12. Types'
  BY <1>1, <1>4, <1>10, <1>11, Zenon DEF Types, ListTyped, QueueTyped, Ids, Grown
<1>13. Waiting'
  BY <1>1, <1>4, <1>8, <1>9, QueueGrows, Zenon
<1>14. Ordered'
  BY <1>1, <1>7, <1>8, OrderedGrows, Zenon
<1>15. Stopping'
  <2>1. m_map[Peerman] = None /\ pc[Worker] = "idle" /\ \A a \in Producers : pc[a] = "idle"
    BY <1>2, Zenon DEF Stopping
  <2>2. pc'[Worker] = "idle" /\ \A a \in Producers : pc'[a] = "idle"
    BY <1>4, <2>1, Constants, Zenon
  <2>3. DestroyedUnreachable'
    BY <1>1, Zenon DEF Stopping, DestroyedUnreachable, Ids, SubOf
  <2> QED BY <1>1, <1>2, <1>4, <2>1, <2>2, <2>3, Zenon DEF Stopping
<1> QED BY <1>4, <1>6, <1>10, <1>12, <1>13, <1>14, <1>15, Zenon

\* Once flush has returned and the scheduler's thread is gone, nothing is on its way.
LEMMA NothingLeft ==
  ASSUME Inv, pc[Shutter] \in {"flush", "done"}, pending = <<>>
  PROVE  \A s \in Subscribers : ~OnItsWay(s)
<1> USE DEF Inv
<1>1. pc[Worker] = "idle"
  BY Zenon DEF Stopping
<1>2. \A e \in Executors : pc[e] \in {"idle", "flush", "done"} /\ e \in Actors
  BY <1>1, Constants, Zenon
<1>3. \A e \in Executors : pc[e] # "begin" /\ pc[e] \notin Inside
  BY <1>2 DEF Inside
<1>4. \A e \in Executors : iter[e].at = None
  BY <1>2, <1>3, Zenon DEF Entries
<1>5. DOMAIN pending = {}
  OBVIOUS
<1> QED BY <1>3, <1>4, <1>5, Zenon DEF OnItsWay

\* The subscribers are removed.
LEMMA UnregisterAllInv ==
  ASSUME CountFacts, Inv, UnregisterAll
  PROVE  Inv'
<1> USE DEF Inv
<1>0. PICK p : p = "done"
  BY Zenon
<1>1. /\ pc[Shutter] = "flush" /\ pending = <<>> /\ RemoveEntries(Registered) /\ pc' = [pc EXCEPT ![Shutter] = p]
      /\ UNCHANGED <<runner, nextId, pending, current, events, seen, owed, destroyed, throws>>
  BY <1>0, Zenon DEF UnregisterAll, queueVars, historyVars
<1>2. /\ p \in ShutterTo /\ pc[Shutter] \in ShutterAt /\ pc[Shutter] # "idle"
      /\ pc[Shutter] \notin {"idle", "unregistered", "joining"} /\ p \notin {"idle", "unregistered", "joining"}
  BY <1>0, <1>1 DEF ShutterTo, ShutterAt
<1>3. runner = "serial"
  BY <1>2, QueueIsSerial, Zenon
<1>4. /\ Patient /\ Runner' /\ pc' \in [Actors -> Places]
      /\ pc'[Shutter] = p /\ \A u \in Actors : u # Shutter => pc'[u] = pc[u]
      /\ \A u \in Actors : pc'[u] \in Inside <=> pc[u] \in Inside
  BY <1>1, <1>2, <1>3, ShutterMoves, Zenon
<1>5. Registered \in SUBSET Subscribers
  BY Zenon DEF Registered
<1>6. Entries' /\ Progress'
  <2>1. PICK subs \in SUBSET Subscribers : subs = Registered
    BY <1>5, Zenon
  <2>2. RemoveEntries(subs)
    BY <1>1, <2>1, Zenon
  <2> QED BY <1>1, <1>4, <2>2, RemoveList, Zenon
<1>7. ListTyped' /\ Ids' \subseteq Ids /\ \A j \in Ids' : SubOf(j)' = SubOf(j)
  <2>1. PICK subs \in SUBSET Subscribers : subs = Registered
    BY <1>5, Zenon
  <2>2. RemoveEntries(subs)
    BY <1>1, <2>1, Zenon
  <2> QED BY <1>1, <2>2, RemoveTyped, Zenon
<1>8. QueueTyped'
  BY <1>1, <1>4, Zenon DEF Types, QueueTyped
<1>9. Waiting' /\ Ordered'
  BY <1>1, <1>4, QueueKept, OrderedKept, Zenon
<1>10. Owing'
  <2>1. \A s \in Subscribers : owed[s] = 0 \/ seen[s] = owed[s]
    BY <1>1, <1>3, NothingLeft, Zenon DEF Owing
  <2> QED BY <1>0, <1>1, <1>4, <2>1, Zenon DEF Owing
<1>11. Stopping'
  <2>1. m_map[Peerman] = None /\ pc[Worker] = "idle" /\ \A a \in Producers : pc[a] = "idle"
    BY <1>2, Zenon DEF Stopping
  <2>2. pc'[Worker] = "idle" /\ \A a \in Producers : pc'[a] = "idle"
    BY <1>4, <2>1, Constants, Zenon
  <2>3. m_map'[Peerman] = None
    BY <1>1, <2>1, Constants, Zenon DEF RemoveEntries
  <2>4. DestroyedUnreachable'
    BY <1>1, <1>7, Zenon DEF Stopping, DestroyedUnreachable
  <2> QED BY <1>1, <1>2, <1>4, <2>2, <2>3, <2>4, Zenon DEF Stopping
<1> QED BY <1>4, <1>6, <1>7, <1>8, <1>9, <1>10, <1>11, Zenon DEF Types

-----------------------------------------------------------------------------
(* The theorems.                                                            *)

\* The invariant holds at the start, ...
LEMMA InitInv == ASSUME CountFacts, Init PROVE Inv
<1>1. /\ runner \in Runners /\ m_list = [id \in {0} |-> [sub |-> Peerman, count |-> 1]]
      /\ m_map = [s \in Subscribers |-> IF s = Peerman THEN 0 ELSE None] /\ nextId = 1
      /\ pending = <<>> /\ current = None /\ pc = [a \in Actors |-> "idle"] /\ iter = [a \in Actors |-> NotIterating]
      /\ events = 0 /\ seen = [s \in Subscribers |-> 0] /\ owed = [s \in Subscribers |-> 0]
      /\ destroyed = FALSE /\ throws = 0
  BY Zenon DEF Init, Queue!Init
<1>2. Ids = {0} /\ 0 \in AllIds /\ MaxRegistrations \in Nat /\ Peerman \in Subscribers /\ 0 # None
  BY <1>1, Constants DEF Ids, AllIds
<1>3. m_list[0] = [sub |-> Peerman, count |-> 1]
  BY <1>1, Zenon
<1>4. m_list[0].sub = Peerman /\ m_list[0].count = 1 /\ m_list[0] \in [sub : Subscribers, count : Nat]
  BY <1>2, <1>3
<1>5. /\ NotIterating \in Iterations /\ NotIterating.at = None /\ NotIterating.due = {} /\ "idle" \in Places
  BY DEF NotIterating, Iterations, Places
<1>6. \A a \in Actors : iter[a].at = None /\ iter[a].due = {} /\ pc[a] = "idle"
  BY <1>1, <1>5, Zenon
<1>7. ListTyped
  <2>1. nextId \in 0..(MaxRegistrations + 1) /\ \A id \in Ids : id < nextId
    BY <1>1, <1>2
  <2>2. m_list \in [Ids -> [sub : Subscribers, count : Nat]]
    BY <1>1, <1>2, <1>3, <1>4, Zenon
  <2>3. m_map \in [Subscribers -> AllIds \cup {None}]
    BY <1>1, <1>2, Zenon
  <2>4. iter \in [Actors -> Iterations]
    BY <1>1, <1>5, Zenon
  <2> QED BY <1>2, <2>1, <2>2, <2>3, <2>4, Zenon DEF ListTyped
<1>8. QueueTyped
  <2>1. runner \in {"serial", "immediate"}
    BY <1>1, SignalsAssumption, Zenon
  <2>2. pending \in Seq(AllItems) /\ 0 \in Nat
    BY <1>1
  <2>3. pc \in [Actors -> Places]
    BY <1>1, <1>5, Zenon
  <2> QED BY <1>1, <2>1, <2>2, <2>3, Zenon DEF QueueTyped
<1>9. Types
  BY <1>7, <1>8, Zenon DEF Types
<1>10. \A s \in Subscribers : m_map[s] = IF s = Peerman THEN 0 ELSE None
  BY <1>1, Zenon
<1>11. Entries
  <2>1. InUse
    BY <1>6, Zenon DEF InUse
  <2>2. Mapped
    BY <1>2, <1>4, <1>10, Zenon DEF Mapped, Registered
  <2>3. Executing(0) = {}
    BY <1>2, <1>6, Zenon DEF Executing
  <2>4. Cardinality(Executing(0)) = 0
    BY <2>3, NoneCounted, Zenon
  <2>5. One(m_map[SubOf(0)] = 0) = 1
    BY <1>2, <1>4, <1>10, Zenon DEF One, SubOf
  <2>6. Uses(0) = 1
    BY <2>4, <2>5 DEF Uses
  <2>7. Counted(0)
    BY <1>4, <2>6 DEF Counted
  <2>8. CountsHold
    BY <1>2, <2>1, <2>2, <2>7, CountsAre, Zenon
  <2>9. "idle" \notin Inside
    BY DEF Inside
  <2> QED BY <1>6, <2>8, <2>9, Zenon DEF Entries
<1>12. Progress
  BY <1>6, Zenon DEF Progress
<1>13. DOMAIN pending = {} /\ ~IsEvent(current) /\ ~IsSync(current)
  BY <1>1 DEF IsEvent, IsSync
<1>14. Waiting
  <2>1. \A e \in Executors : ~Working(e) /\ pc[e] \notin Inside /\ pc[e] # "begin"
    BY <1>6, Constants DEF Working, Inside
  <2> QED BY <1>13, <2>1, Zenon DEF Waiting
<1>15. Ordered
  <2>1. \A s \in Subscribers : seen[s] <= events
    BY <1>1
  <2> QED BY <1>13, <2>1, Zenon DEF Ordered
<1>16. \A a \in Actors : pc[a] \notin {"tipchange", "notify", "wait", "sync", "begin", "deliver"}
  BY <1>6
<1>17. Runner
  BY <1>1, <1>6, <1>16, Constants, Zenon DEF Runner, Queued
<1>18. Stopping
  <2>1. pc[Shutter] = "idle" /\ pc[Shutter] # "done"
    BY <1>6, Constants
  <2> QED BY <1>1, <2>1, Zenon DEF Stopping, DestroyedUnreachable
<1>19. Owing
  <2>1. \A s \in Subscribers : owed[s] = 0
    BY <1>1, Zenon
  <2> QED BY <2>1, Zenon DEF Owing
<1> QED BY <1>9, <1>11, <1>12, <1>14, <1>15, <1>17, <1>18, <1>19, Zenon DEF Inv

\* ... and every step keeps it.
LEMMA NextInv == ASSUME CountFacts, Inv, [Next]_vars PROVE Inv'
<1>1. CASE \E s \in Subscribers : Register(s) \/ Unregister(s)
  BY <1>1, RegisterInv, UnregisterInv, Zenon
<1>2. CASE \E a \in Activators : Activate(a)
  BY <1>2, ActivateInv, Zenon
<1>3. CASE \E a \in Submitters : BroadcastTransaction(a)
  BY <1>3, BroadcastInv, Zenon
<1>4. CASE \E a \in Producers : ProducerStep(a)
  BY <1>4, LimitInv, CommitInv, SyncInv, UnlockInv, Zenon DEF ProducerStep
<1>5. CASE \E a \in Actors : IterateStep(a) \/ CallbackThrows(a)
  BY <1>5, IterateInv, ThrowInv, Zenon
<1>6. CASE \E e \in Executors : ExecutorStep(e)
  BY <1>6, ProcessInv, PromiseInv, FinishInv, Zenon DEF ExecutorStep
<1>7. CASE UnregisterPeerman \/ ShutdownStep
  BY <1>7, UnregisterPeermanInv, StopSchedulerInv, ResetPeermanInv, RaiseFlushedInv, UnregisterAllInv, Zenon DEF ShutdownStep
<1>8. CASE UNCHANGED vars
  <2>1. UNCHANGED <<m_list, m_map, nextId, iter, pc, runner, pending, current, events, seen, owed, throws, destroyed>>
    BY <1>8, Zenon DEF vars, listVars, queueVars, historyVars
  <2>2. Waiting' /\ Ordered' /\ Runner'
    BY <2>1, NobodyMoves, Zenon
  <2>3. ListKept
    BY <2>1, Zenon DEF ListKept
  <2>4. Entries' /\ Progress'
    BY <2>3, ListKeptInv, Zenon DEF Inv
  <2>5. Types'
    BY <2>1, Zenon DEF Inv, Types, ListTyped, QueueTyped, Ids
  <2>6. Stopping'
    BY <2>1, Zenon DEF Inv, Stopping, DestroyedUnreachable, Ids, SubOf
  <2>7. Owing'
    BY <2>1, OwingKept, Zenon DEF Inv
  <2> QED BY <2>2, <2>4, <2>5, <2>6, <2>7, Zenon DEF Inv
<1> QED BY <1>1, <1>2, <1>3, <1>4, <1>5, <1>6, <1>7, <1>8, Zenon DEF Next

\* The invariant gives the properties of a state.
LEMMA InvSound == ASSUME Inv PROVE IterationSound
<1> USE DEF Inv
<1>1. InUse /\ Mapped
  BY CountsAre, Zenon DEF Entries
<1>2. ASSUME NEW a \in Actors, iter[a].at # None
      PROVE  /\ iter[a].due \subseteq iter[a].got \cup Behind(m_list, iter[a].at)
             /\ iter[a].got \cap Behind(m_list, iter[a].at) = {}
  <2>1. PICK n : n = iter[a].at
    BY Zenon
  <2>2. n \in Ids /\ n \in Nat
    BY <1>1, <1>2, <2>1, EntryTypes, Zenon DEF InUse
  <2>3. ASSUME NEW d \in iter[a].due, d \notin iter[a].got PROVE d \in Behind(m_list, n)
    <3>1. d \in Live /\ ~(d <= n)
      BY <1>2, <2>1, <2>3, Zenon DEF Progress
    <3>2. d \in Ids
      BY <1>1, <3>1, Zenon DEF Live, Mapped
    <3>3. d \in Nat
      BY <3>2, EntryTypes, Zenon
    <3>4. d > n
      BY <2>2, <3>1, <3>3
    <3> QED BY <3>2, <3>4, Zenon DEF Behind, Ids
  <2>4. ASSUME NEW g \in iter[a].got, g \in Behind(m_list, n) PROVE FALSE
    <3>1. g <= n
      BY <1>2, <2>1, Zenon DEF Progress
    <3>2. g > n /\ g \in Ids
      BY <2>4, Zenon DEF Behind, Ids
    <3>3. g \in Nat
      BY <3>2, EntryTypes, Zenon
    <3> QED BY <2>2, <3>1, <3>2, <3>3
  <2> QED BY <2>1, <2>3, <2>4, Zenon
<1>3. CalledExactlyOnce
  BY <1>2, Zenon DEF CalledExactlyOnce, Progress
<1> QED BY <1>3, Zenon DEF IterationSound, Entries

\* The invariant implies what Shutdown promises: at its end nothing is on its way any more.
LEMMA InvClean == ASSUME Inv PROVE ShutdownClean
<1>1. ASSUME pc[Shutter] = "done" PROVE \A s \in Subscribers : owed[s] = 0 \/ seen[s] = owed[s]
  <2>1. pending = <<>> /\ pc[Shutter] # "idle" /\ pc[Shutter] \in {"flush", "done"}
    BY <1>1 DEF Inv, Stopping
  <2>2. \A s \in Subscribers : ~OnItsWay(s)
    BY <2>1, NothingLeft, Zenon
  <2>3. runner = "serial"
    BY <2>1, QueueIsSerial, Zenon DEF Inv
  <2> QED BY <2>2, <2>3, Zenon DEF Inv, Owing
<1> QED BY <1>1, Zenon DEF ShutdownClean, FlushedBeforeClear, Inv, Stopping

\* A step calls a subscriber with a later event than before, or with none that was queued.
LEMMA SeenGrows ==
  ASSUME CountFacts, Inv, [Next]_vars
  PROVE  [\A s \in Subscribers : seen'[s] # seen[s] => seen'[s] > seen[s]]_seen
<1>1. CASE \E a \in Actors : IterateStep(a)
  BY <1>1, IterateOrdered, Zenon
<1>2. CASE \E s \in Subscribers : Register(s) \/ Unregister(s)
  BY <1>2, Zenon DEF Register, Unregister, historyVars
<1>3. CASE (\E a \in Activators : Activate(a)) \/ (\E a \in Submitters : BroadcastTransaction(a))
  BY <1>3, Zenon DEF Activate, BroadcastTransaction, historyVars
<1>4. CASE \E a \in Producers : ProducerStep(a)
  BY <1>4, Zenon DEF ProducerStep, LimitValidationInterfaceQueue, Commit, SyncWithValidationInterfaceQueue, Unlock, historyVars
<1>5. CASE \E a \in Actors : CallbackThrows(a)
  BY <1>5, Zenon DEF CallbackThrows, historyVars
<1>6. CASE \E e \in Executors : ExecutorStep(e)
  BY <1>6, Zenon DEF ExecutorStep, ProcessQueue, SetPromise, FinishCallback, historyVars
<1>7. CASE UnregisterPeerman \/ ShutdownStep
  BY <1>7, Zenon DEF ShutdownStep, UnregisterPeerman, StopScheduler, ResetPeerman, RaiseFlushed, UnregisterAll, historyVars
<1>8. CASE UNCHANGED vars
  BY <1>8, Zenon DEF vars, historyVars
<1> QED BY <1>1, <1>2, <1>3, <1>4, <1>5, <1>6, <1>7, <1>8, Zenon DEF Next

-----------------------------------------------------------------------------
(* The facts about finite sets, and the theorems.                           *)

INSTANCE CountingLemmas

\* The threads that raise, queue and execute events can be counted.
LEMMA CountFactsHold == CountFacts
<1>1. IsFiniteSet(Producers)
  BY SignalsAssumption, UnionFinite, Zenon DEF Producers
<1>2. IsFiniteSet({Worker}) /\ IsFiniteSet({Shutter})
  BY FS_Singleton, Zenon
<1>3. {Worker, Shutter} = {Worker} \cup {Shutter}
  BY Zenon
<1>4. IsFiniteSet(Actors)
  BY <1>1, <1>2, <1>3, UnionFinite, Zenon DEF Actors, Executors
<1>5. Cardinality({}) = 0
  BY FS_EmptySet, Zenon
<1>6. ASSUME NEW S \in SUBSET Actors
      PROVE  /\ Cardinality(S) \in Nat
             /\ \A a \in Actors :
                  /\ Cardinality(S \cup {a}) = IF a \in S THEN Cardinality(S) ELSE Cardinality(S) + 1
                  /\ Cardinality(S \ {a}) = IF a \in S THEN Cardinality(S) - 1 ELSE Cardinality(S)
  <2>1. Cardinality(Actors) \in Nat /\ Cardinality(S) \in 0..Cardinality(Actors)
    BY <1>4, SubsetSize, Zenon
  <2>2. Cardinality(S) \in Nat
    BY <2>1
  <2> QED BY <1>4, <2>2, SubsetSize, Zenon
<1> QED BY <1>5, <1>6, Zenon DEF CountFacts

\* The invariant holds always.
LEMMA Invariant == Spec => []Inv
<1>1. Init => Inv
  BY CountFactsHold, InitInv
<1>2. Inv /\ [Next]_vars => Inv'
  BY CountFactsHold, NextInv
<1> QED BY <1>1, <1>2, PTL DEF Spec

\* Iterate, which releases m_mutex for every callback, never loses the entry it stands at and
\* calls every subscriber that stays registered exactly once, whatever the other threads register,
\* unregister, clear or iterate meanwhile, and although callbacks throw.
THEOREM IterationIsSound == Spec => []IterationSound
<1>1. Inv => IterationSound
  BY InvSound
<1> QED BY <1>1, Invariant, PTL

\* Every subscriber is called with the queued events in the order in which they were raised.
THEOREM CalledInOrder == Spec => InOrder
<1>1. Inv /\ [Next]_vars => [\A s \in Subscribers : seen'[s] # seen[s] => seen'[s] > seen[s]]_seen
  BY CountFactsHold, SeenGrows
<1> QED BY <1>1, Invariant, PTL DEF Spec, InOrder

\* Shutdown destroys the peer manager only when no list entry leads to it, and clears the
\* subscribers only after each has been called with the last event raised while it was registered.
THEOREM ShutdownIsClean == Spec => []ShutdownClean
<1>1. Inv => ShutdownClean
  BY InvClean
<1> QED BY <1>1, Invariant, PTL
=============================================================================
