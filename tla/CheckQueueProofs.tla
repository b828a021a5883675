-------------------------- MODULE CheckQueueProofs --------------------------
(***************************************************************************)
(* CCheckQueue keeps its promises: its counters are exact, Complete returns *)
(* the result of the control's own checks, and controls do not mix.         *)
(***************************************************************************)
EXTENDS CheckQueue, CountingLemmas

Places == {"out", "adding", "notify_one", "notify_all", "lock", "wait", "woken", "execute", "left", "exit"}

\* A list of checks has one that fails.
Bad(s) == \E i \in DOMAIN s : s[i].bad

\* The threads inside cond.wait, and those counted by nTotal (which a worker that saw the stop
\* request does not decrement).
Idle == {t \in Threads : pc[t] \in {"wait", "woken"}}
Counted == {t \in Threads : Registered(t) \/ pc[t] = "exit"}

\* t has executed a batch, or is about to, and has not cleaned up after it.
Working(t) == pc[t] \in {"execute", "lock"} /\ nNow[t] # 0

\* t found a failure in its last batch, which the next clean-up publishes.
Unpublished(t) == pc[t] = "lock" /\ nNow[t] # 0 /\ do_work[t] /\ local_result[t] # None

-----------------------------------------------------------------------------
(* The inductive invariant.                                                 *)

\* The counters, whether or not a stop was requested.
Counting ==
  /\ TypeOK
  /\ nTodo = Len(queue) + Cardinality(Unfinished)
  /\ nIdle = Cardinality(Idle) /\ nTotal = Cardinality(Counted)
  /\ nTodo <= Len(added)

\* Who can be where: a master is inside exactly while it owns the control and enters Loop with
\* fresh locals, the queue is stopped only without a control, and an open control has a number.
Roles ==
  /\ \A w \in Workers : pc[w] \in {"lock", "wait", "woken", "execute", "exit"}
  /\ \A m \in Masters : pc[m] # "exit" /\ (pc[m] # "out" <=> m_control_mutex = m)
  /\ m_request_stop <=> destructor # "none"
  /\ m_request_stop => m_control_mutex = None
  /\ \A w \in Workers : pc[w] = "exit" => m_request_stop
  /\ m_control_mutex = None => added = <<>>
  /\ m_control_mutex # None => session # 0
  /\ \A m \in Masters : pc[m] \in {"out", "adding", "notify_one", "notify_all"} => nNow[m] = 0
  /\ (m_control_mutex = None \/ \E m \in Masters : pc[m] = "left") => nTodo = 0 /\ m_result = None

\* The batches: a thread holds one exactly while it executes it, and all checks anywhere are
\* checks of the present session, failing ones only when one was added.
Batches ==
  /\ \A t \in Threads : IF pc[t] = "execute" THEN nNow[t] # 0 /\ Len(vChecks[t]) = nNow[t]
                                             ELSE vChecks[t] = <<>>
  /\ \A i \in DOMAIN queue : queue[i].ses = session
  /\ \A i \in DOMAIN added : added[i].ses = session
  /\ \A t \in Threads : \A i \in DOMAIN vChecks[t] : vChecks[t][i].ses = session
  /\ Bad(queue) => Bad(added)
  /\ \A t \in Threads : Bad(vChecks[t]) => Bad(added)

\* The results: a failure that is published or about to be is one of this session, and until
\* Complete returns a failing check leaves a trace somewhere.  A batch is skipped only after a
\* failure was published.
Results ==
  /\ m_result \in {None, session} /\ (m_result # None => Bad(added))
  /\ \A t \in Threads : Working(t) /\ ~do_work[t] => m_result # None
  /\ \A t \in Threads : Unpublished(t) => local_result[t] = session /\ Bad(added)
  /\ Bad(added) /\ (\A m \in Masters : pc[m] # "left") =>
       \/ m_result # None \/ Bad(queue)
       \/ \E t \in Threads : Unpublished(t) \/ (do_work[t] /\ Bad(vChecks[t]))
  /\ ResultOfSession

Inv == Counting /\ Roles /\ Batches /\ Results

-----------------------------------------------------------------------------
(* Constants and lists.                                                     *)

\* The constants.
LEMMA Constants ==
  /\ nBatchSize \in Nat \ {0} /\ MaxSessions \in Nat /\ MaxAdd \in Nat /\ MaxQueue \in Nat
  /\ None \notin Masters /\ None \notin 1..MaxSessions
  /\ \A m \in Masters : m \in Threads /\ m \notin Workers
  /\ \A w \in Workers : w \in Threads /\ w \notin Masters
  BY ThreadsAssumption, BoundsAssumption DEF Threads

\* A list of checks is a function on the numbers up to its length.
LEMMA ListOfChecks ==
  ASSUME NEW s \in Seq(Checks)
  PROVE  /\ Len(s) \in Nat /\ DOMAIN s = 1..Len(s) /\ s \in [1..Len(s) -> Checks]
         /\ Len(s) = 0 <=> s = <<>>
  OBVIOUS

\* The bounded lists are the lists within the bound.
LEMMA CheckSeqIs ==
  ASSUME NEW s
  PROVE  s \in CheckSeq <=> s \in Seq(Checks) /\ Len(s) <= MaxQueue
<1>1. ASSUME s \in CheckSeq PROVE s \in Seq(Checks) /\ Len(s) <= MaxQueue
  <2>1. PICK n \in 0..MaxQueue : s \in [1..n -> Checks]
    BY <1>1 DEF CheckSeq
  <2>2. n \in Nat
    BY <2>1, Constants
  <2>3. s \in Seq(Checks) /\ Len(s) = n
    BY <2>1, <2>2
  <2> QED BY <2>1, <2>3
<1>2. ASSUME s \in Seq(Checks), Len(s) <= MaxQueue PROVE s \in CheckSeq
  <2>1. s \in [1..Len(s) -> Checks] /\ Len(s) \in 0..MaxQueue
    BY <1>2, ListOfChecks, Constants
  <2> QED BY <2>1 DEF CheckSeq
<1> QED BY <1>1, <1>2

\* The empty list.
LEMMA EmptyList == <<>> \in CheckSeq /\ ~Bad(<<>>) /\ Len(<<>>) = 0
<1>1. <<>> \in Seq(Checks) /\ Len(<<>>) = 0
  OBVIOUS
<1>2. Len(<<>>) <= MaxQueue
  BY <1>1, Constants
<1>3. ~Bad(<<>>)
  BY DEF Bad
<1> QED BY <1>1, <1>2, <1>3, CheckSeqIs, Zenon

\* A share of the queue is not empty and not more than the queue.
LEMMA BatchSizeFits ==
  ASSUME queue \in Seq(Checks), queue # <<>>, NEW total \in Nat, NEW idle \in Nat
  PROVE  BatchSize(total, idle) \in 1..Len(queue) /\ BatchSize(total, idle) \in 1..nBatchSize
<1>1. Len(queue) \in Nat /\ Len(queue) >= 1
  BY ListOfChecks
<1> DEFINE d == total + idle + 1
           share == Len(queue) \div d
<1>2. d \in Nat /\ d >= 1
  OBVIOUS
<1>3. share \in Nat /\ share <= Len(queue)
  <2> HIDE DEF d
  <2> QED BY <1>1, <1>2
<1> HIDE DEF d
<1>4. BatchSize(total, idle) = IF share < 1 THEN 1 ELSE IF share < nBatchSize THEN share ELSE nBatchSize
  BY DEF BatchSize, d
<1> HIDE DEF share
<1> QED BY <1>1, <1>3, <1>4, Constants

\* Cutting a batch off the end of the queue: what holds of all checks holds in both parts, and a
\* failing one is in one of them.
LEMMA CutQueue ==
  ASSUME queue \in Seq(Checks), NEW b \in 1..Len(queue), \A i \in DOMAIN queue : queue[i].ses = session,
         queue' = SubSeq(queue, 1, Len(queue) - b), NEW back, back = SubSeq(queue, Len(queue) - b + 1, Len(queue))
  PROVE  /\ queue' \in Seq(Checks) /\ Len(queue') = Len(queue) - b
         /\ back \in Seq(Checks) /\ Len(back) = b
         /\ Bad(queue) <=> Bad(queue') \/ Bad(back)
         /\ \A i \in DOMAIN queue' : queue'[i].ses = session
         /\ \A i \in DOMAIN back : back[i].ses = session
<1> DEFINE keep == Len(queue) - b
<1>1. Len(queue) \in Nat /\ keep \in 0..Len(queue) /\ \A i \in 1..Len(queue) : queue[i] \in Checks
  BY ListOfChecks
<1>2. \A i \in 1..keep : queue[i] \in Checks
  BY <1>1
<1>3. \A i \in (keep+1)..Len(queue) : queue[i] \in Checks
  BY <1>1
<1>4. /\ SubSeq(queue, 1, keep) \in Seq(Checks)
      /\ Len(SubSeq(queue, 1, keep)) = IF 1 <= keep THEN keep - 1 + 1 ELSE 0
      /\ \A i \in 1..(keep-1+1) : SubSeq(queue, 1, keep)[i] = queue[1+i-1]
  BY <1>1, <1>2
<1>5. /\ SubSeq(queue, keep+1, Len(queue)) \in Seq(Checks)
      /\ Len(SubSeq(queue, keep+1, Len(queue))) = IF keep+1 <= Len(queue) THEN Len(queue) - (keep+1) + 1 ELSE 0
      /\ \A i \in 1..(Len(queue)-(keep+1)+1) : SubSeq(queue, keep+1, Len(queue))[i] = queue[(keep+1)+i-1]
  BY <1>1, <1>3
<1>6. /\ queue' \in Seq(Checks) /\ Len(queue') = keep
      /\ back \in Seq(Checks) /\ Len(back) = b
      /\ \A i \in 1..keep : queue'[i] = queue[i]
      /\ \A i \in 1..b : back[i] = queue[keep + i]
  BY <1>1, <1>4, <1>5
<1>7. DOMAIN queue' = 1..keep /\ DOMAIN back = 1..b /\ DOMAIN queue = 1..Len(queue)
  BY <1>6, ListOfChecks, Zenon
<1>8. /\ \A i \in 1..keep : i \in 1..Len(queue)
      /\ \A i \in 1..b : keep + i \in 1..Len(queue)
  BY <1>1
<1>9. ASSUME NEW i \in 1..Len(queue)
      PROVE  (i \in 1..keep /\ queue[i] = queue'[i]) \/ (\E k \in 1..b : queue[i] = back[k])
  <2>1. CASE i <= keep
    BY <1>1, <1>6, <2>1
  <2>2. CASE i > keep
    <3>1. i - keep \in 1..b /\ keep + (i - keep) = i
      BY <1>1, <2>2
    <3> QED BY <1>6, <3>1, Zenon
  <2>3. i \in Int /\ keep \in Int
    BY <1>1
  <2> HIDE DEF keep
  <2>4. i <= keep \/ i > keep
    BY <2>3
  <2> QED BY <2>1, <2>2, <2>4, Zenon
<1> HIDE DEF keep
<1>10. Bad(queue) <=> Bad(queue') \/ Bad(back)
  <2>1. ASSUME Bad(queue) PROVE Bad(queue') \/ Bad(back)
    <3>1. PICK i \in 1..Len(queue) : queue[i].bad
      BY <1>7, <2>1 DEF Bad
    <3>2. CASE i \in 1..keep /\ queue[i] = queue'[i]
      BY <1>7, <3>1, <3>2, Zenon DEF Bad
    <3>3. CASE \E k \in 1..b : queue[i] = back[k]
      BY <1>7, <3>1, <3>3, Zenon DEF Bad
    <3> QED BY <1>9, <3>1, <3>2, <3>3, Zenon
  <2>2. ASSUME Bad(queue') PROVE Bad(queue)
    BY <1>6, <1>7, <1>8, <2>2, ZenonT(60) DEF Bad
  <2>3. ASSUME Bad(back) PROVE Bad(queue)
    BY <1>6, <1>7, <1>8, <2>3, ZenonT(60) DEF Bad
  <2> QED BY <2>1, <2>2, <2>3
<1>11. ASSUME NEW i \in DOMAIN queue' PROVE queue'[i].ses = session
  <2>1. i \in 1..keep /\ i \in DOMAIN queue
    BY <1>7, <1>8, Zenon
  <2>2. queue'[i] = queue[i]
    BY <1>6, <2>1
  <2> QED BY <2>1, <2>2, Zenon
<1>12. ASSUME NEW i \in DOMAIN back PROVE back[i].ses = session
  <2>1. i \in 1..b /\ keep + i \in DOMAIN queue
    BY <1>7, <1>8
  <2>2. back[i] = queue[keep + i]
    BY <1>6, <2>1, Zenon
  <2> QED BY <2>1, <2>2
<1> QED BY <1>6, <1>10, <1>11, <1>12, Zenon DEF keep

Elements(s) == {s[i] : i \in DOMAIN s}

\* Whether a list has a failing check depends on its elements only.
LEMMA BadElements == ASSUME NEW s PROVE Bad(s) <=> \E e \in Elements(s) : e.bad
  BY DEF Bad, Elements

\* A list that was appended to holds the elements of both.
LEMMA Extended ==
  ASSUME NEW s \in Seq(Checks), NEW new \in Seq(Checks)
  PROVE  /\ s \o new \in Seq(Checks) /\ Len(s \o new) = Len(s) + Len(new)
         /\ Elements(s \o new) = Elements(s) \cup Elements(new)
<1>0. PICK r : r = s \o new
  BY Zenon
<1>1. /\ r \in Seq(Checks) /\ Len(r) = Len(s) + Len(new)
      /\ \A i \in 1..(Len(s)+Len(new)) : r[i] = IF i <= Len(s) THEN s[i] ELSE new[i-Len(s)]
  BY <1>0
<1>2. /\ Len(s) \in Nat /\ Len(new) \in Nat
      /\ DOMAIN s = 1..Len(s) /\ DOMAIN new = 1..Len(new) /\ DOMAIN r = 1..(Len(s)+Len(new))
  BY <1>1, ListOfChecks
<1>3. ASSUME NEW i \in DOMAIN r
      PROVE  (i \in DOMAIN s /\ r[i] = s[i]) \/ (\E k \in DOMAIN new : r[i] = new[k])
  <2>1. CASE i <= Len(s)
    BY <1>1, <1>2, <2>1
  <2>2. CASE ~(i <= Len(s))
    <3>1. i - Len(s) \in DOMAIN new
      BY <1>2, <2>2
    <3>2. r[i] = new[i - Len(s)]
      BY <1>1, <1>2, <2>2, Zenon
    <3> QED BY <3>1, <3>2, Zenon
  <2> QED BY <2>1, <2>2, Zenon
<1>4. ASSUME NEW i \in DOMAIN s PROVE i \in DOMAIN r /\ r[i] = s[i]
  BY <1>1, <1>2
<1>5. ASSUME NEW k \in DOMAIN new PROVE Len(s) + k \in DOMAIN r /\ r[Len(s) + k] = new[k]
  <2>1. Len(s) + k \in 1..(Len(s)+Len(new)) /\ ~(Len(s) + k <= Len(s)) /\ (Len(s) + k) - Len(s) = k
    BY <1>2
  <2>2. r[Len(s) + k] = new[(Len(s) + k) - Len(s)]
    BY <1>1, <2>1
  <2> QED BY <1>2, <2>1, <2>2
<1>6. Elements(r) = Elements(s) \cup Elements(new)
  BY <1>3, <1>4, <1>5 DEF Elements
<1> QED BY <1>0, <1>1, <1>6

-----------------------------------------------------------------------------
(* Counting.                                                                *)

\* f[t] pairs for every thread t.
Units(f) == {x \in Threads \X (1..nBatchSize) : x[2] <= f[x[1]]}

\* Threads are counted one at a time, and a sum over the threads changes by the change of one.
LEMMA CountFacts ==
  /\ Cardinality(Threads) \in Nat /\ Cardinality({}) = 0
  /\ \A S \in SUBSET Threads :
       /\ Cardinality(S) \in 0..Cardinality(Threads)
       /\ \A t \in Threads :
            /\ Cardinality(S \cup {t}) = IF t \in S THEN Cardinality(S) ELSE Cardinality(S) + 1
            /\ Cardinality(S \ {t}) = IF t \in S THEN Cardinality(S) - 1 ELSE Cardinality(S)
  /\ \A f, g \in [Threads -> 0..nBatchSize] : \A t \in Threads :
       (\A u \in Threads \ {t} : g[u] = f[u]) =>
         /\ Cardinality(Units(f)) \in Nat /\ f[t] <= Cardinality(Units(f))
         /\ Cardinality(Units(g)) = Cardinality(Units(f)) - f[t] + g[t]
<1>1. IsFiniteSet(Threads)
  BY ThreadsAssumption, UnionFinite, Zenon DEF Threads
<1>2. Cardinality(Threads) \in Nat /\ Cardinality({}) = 0
  BY <1>1, FS_CardinalityType, FS_EmptySet, Zenon
<1>3. ASSUME NEW S \in SUBSET Threads
      PROVE  /\ Cardinality(S) \in 0..Cardinality(Threads)
             /\ \A t \in Threads :
                  /\ Cardinality(S \cup {t}) = IF t \in S THEN Cardinality(S) ELSE Cardinality(S) + 1
                  /\ Cardinality(S \ {t}) = IF t \in S THEN Cardinality(S) - 1 ELSE Cardinality(S)
  BY <1>1, SubsetSize, Zenon
<1>4. ASSUME NEW f \in [Threads -> 0..nBatchSize], NEW g \in [Threads -> 0..nBatchSize], NEW t \in Threads,
             \A u \in Threads \ {t} : g[u] = f[u]
      PROVE  /\ Cardinality(Units(f)) \in Nat /\ f[t] <= Cardinality(Units(f))
             /\ Cardinality(Units(g)) = Cardinality(Units(f)) - f[t] + g[t]
  <2>1. Units(f) = Pairs(Threads, nBatchSize, f) /\ Units(g) = Pairs(Threads, nBatchSize, g)
    BY Zenon DEF Units, Pairs
  <2>2. nBatchSize \in Nat
    BY Constants, Zenon
  <2>3. /\ Cardinality(Pairs(Threads, nBatchSize, f)) \in Nat
        /\ f[t] <= Cardinality(Pairs(Threads, nBatchSize, f)) /\ SumChanges(Threads, nBatchSize, f, g, t)
    BY <1>1, <1>4, <2>2, PairsChange, Zenon
  <2> QED BY <2>1, <2>3, Zenon DEF SumChanges
<1> QED BY <1>2, <1>3, <1>4, Zenon

\* Counting threads.
LEMMA CountThreads ==
  ASSUME NEW S \in SUBSET Threads
  PROVE  /\ Cardinality(Threads) \in Nat /\ Cardinality(S) \in 0..Cardinality(Threads)
         /\ \A t \in Threads :
              /\ Cardinality(S \cup {t}) = IF t \in S THEN Cardinality(S) ELSE Cardinality(S) + 1
              /\ Cardinality(S \ {t}) = IF t \in S THEN Cardinality(S) - 1 ELSE Cardinality(S)
  BY CountFacts, Zenon

\* The sum over the threads.
LEMMA UnitsChange ==
  ASSUME NEW f \in [Threads -> 0..nBatchSize], NEW g \in [Threads -> 0..nBatchSize],
         NEW t \in Threads, \A u \in Threads \ {t} : g[u] = f[u]
  PROVE  /\ Cardinality(Units(f)) \in Nat /\ f[t] <= Cardinality(Units(f))
         /\ Cardinality(Units(g)) = Cardinality(Units(f)) - f[t] + g[t]
  BY CountFacts

\* The sets that the counters count, when one thread t moves and others may be woken.
LEMMA OthersCount ==
  ASSUME Inv, NEW t \in Threads, pc' \in [Threads -> Places], nNow' \in [Threads -> 0..nBatchSize],
         \A u \in Threads \ {t} : /\ pc'[u] = pc[u] \/ (pc[u] = "wait" /\ pc'[u] = "woken")
                                  /\ nNow'[u] = nNow[u]
  PROVE  /\ Idle' = IF pc'[t] \in {"wait", "woken"} THEN Idle \cup {t} ELSE Idle \ {t}
         /\ Counted' = IF Registered(t)' \/ pc'[t] = "exit" THEN Counted \cup {t} ELSE Counted \ {t}
         /\ Cardinality(Unfinished') = Cardinality(Unfinished) - Outstanding(t) + Outstanding(t)'
         /\ Cardinality(Unfinished) \in Nat /\ Outstanding(t) <= Cardinality(Unfinished)
         /\ Outstanding(t) \in 0..nBatchSize /\ Outstanding(t)' \in 0..nBatchSize
         /\ \A u \in Threads : Outstanding(u)' \in Nat /\ Outstanding(u)' <= Cardinality(Unfinished')
<1>0. pc \in [Threads -> Places] /\ nNow \in [Threads -> 0..nBatchSize]
  BY DEF Inv, Counting, TypeOK, Places
<1>1. Idle' = IF pc'[t] \in {"wait", "woken"} THEN Idle \cup {t} ELSE Idle \ {t}
  BY DEF Idle
<1>2. Counted' = IF Registered(t)' \/ pc'[t] = "exit" THEN Counted \cup {t} ELSE Counted \ {t}
  BY DEF Counted, Registered
<1> DEFINE f == [u \in Threads |-> Outstanding(u)]
           g == [u \in Threads |-> Outstanding(u)']
<1>3. f \in [Threads -> 0..nBatchSize] /\ g \in [Threads -> 0..nBatchSize]
  BY <1>0, Constants DEF Outstanding
<1>4. \A u \in Threads \ {t} : g[u] = f[u]
  BY DEF Outstanding
<1>5. Unfinished = Units(f) /\ Unfinished' = Units(g)
  BY DEF Unfinished, Units
<1>6. f[t] = Outstanding(t) /\ g[t] = Outstanding(t)'
  OBVIOUS
<1> HIDE DEF f, g
<1>7. /\ Cardinality(Units(f)) \in Nat /\ f[t] <= Cardinality(Units(f))
      /\ Cardinality(Units(g)) = Cardinality(Units(f)) - f[t] + g[t]
  BY <1>3, <1>4, UnitsChange
<1>8. f[t] \in 0..nBatchSize /\ g[t] \in 0..nBatchSize
  BY <1>3
<1>9. ASSUME NEW u \in Threads
      PROVE  Outstanding(u)' \in Nat /\ Outstanding(u)' <= Cardinality(Unfinished')
  <2>1. g[u] <= Cardinality(Units(g)) /\ g[u] \in 0..nBatchSize
    BY <1>3, UnitsChange
  <2>2. g[u] = Outstanding(u)'
    BY DEF g
  <2> QED BY <2>1, <2>2, <1>5, Constants
<1> QED BY <1>1, <1>2, <1>5, <1>6, <1>7, <1>8, <1>9, Zenon

\* A batch is not larger than the sum of all.
LEMMA CountOutstanding ==
  ASSUME Inv
  PROVE  /\ Cardinality(Unfinished) \in Nat
         /\ \A t \in Threads : Outstanding(t) <= Cardinality(Unfinished) /\ Outstanding(t) \in 0..nBatchSize
<1>0. pc \in [Threads -> Places] /\ nNow \in [Threads -> 0..nBatchSize]
  BY DEF Inv, Counting, TypeOK, Places
<1>1. ASSUME NEW t \in Threads
      PROVE  /\ Cardinality(Unfinished) \in Nat /\ Outstanding(t) <= Cardinality(Unfinished)
             /\ Outstanding(t) \in 0..nBatchSize
  <2> DEFINE f == [u \in Threads |-> Outstanding(u)]
  <2>1. f \in [Threads -> 0..nBatchSize]
    BY <1>0, Constants DEF Outstanding
  <2>2. Unfinished = Units(f) /\ f[t] = Outstanding(t)
    BY DEF Unfinished, Units
  <2> HIDE DEF f
  <2>3. Cardinality(Units(f)) \in Nat /\ f[t] <= Cardinality(Units(f))
    BY <2>1, UnitsChange
  <2> QED BY <2>1, <2>2, <2>3
<1>2. ASSUME Threads = {} PROVE Cardinality(Unfinished) \in Nat
  <2>1. Unfinished = {}
    BY <1>2 DEF Unfinished
  <2> QED BY <2>1, CountFacts
<1> QED BY <1>1, <1>2

\* nTodo = 0 means that the queue is empty and that no thread has a batch.
LEMMA NothingOutstanding ==
  ASSUME Inv, nTodo = 0
  PROVE  queue = <<>> /\ \A t \in Threads : ~Working(t) /\ vChecks[t] = <<>>
<1>0. pc \in [Threads -> Places] /\ nNow \in [Threads -> 0..nBatchSize] /\ queue \in Seq(Checks)
  BY CheckSeqIs, Zenon DEF Inv, Counting, TypeOK, Places
<1>1. Len(queue) \in Nat /\ (Len(queue) = 0 => queue = <<>>)
  BY <1>0, ListOfChecks
<1>2. Len(queue) = 0 /\ Cardinality(Unfinished) = 0
  BY <1>1, CountOutstanding DEF Inv, Counting
<1>3. ASSUME NEW t \in Threads PROVE ~Working(t) /\ pc[t] # "execute"
  <2>1. Outstanding(t) = 0
    BY <1>2, CountOutstanding, Constants
  <2> QED BY <1>0, <2>1, Zenon DEF Working, Outstanding, Inv, Batches
<1> QED BY <1>1, <1>2, <1>3, Zenon DEF Inv, Batches

\* Steps that neither publish a result nor take or finish a batch: threads are woken, a master
\* goes from one call of the control to the next, the destructor goes on.
LEMMA QuietStep ==
  ASSUME Inv, UNCHANGED <<lockVars, controlVars, threadVars, returned>>,
         destructor' \in {"none", "notify", "join", "done"}, destructor' # "none" <=> destructor # "none",
         pc' \in [Threads -> Places],
         \A u \in Threads :
           \/ pc'[u] = pc[u]
           \/ pc[u] = "wait" /\ pc'[u] = "woken"
           \/ u \in Masters /\ pc[u] \in {"adding", "notify_one", "notify_all"} /\ pc'[u] \in {"adding", "lock"}
  PROVE  Inv'
<1>0. pc \in [Threads -> Places]
  BY Zenon DEF Inv, Counting, TypeOK, Places
<1>1. /\ UNCHANGED <<queue, nIdle, nTotal, nTodo, m_result, m_request_stop>>
      /\ UNCHANGED <<m_control_mutex, session, added, vChecks, nNow, local_result, do_work, returned>>
  BY DEF lockVars, controlVars, threadVars
<1>2. ASSUME NEW u \in Threads
      PROVE  /\ Outstanding(u)' = Outstanding(u) /\ Registered(u)' = Registered(u)
             /\ pc'[u] \in {"wait", "woken"} <=> pc[u] \in {"wait", "woken"}
             /\ pc'[u] = "exit" <=> pc[u] = "exit"
             /\ pc'[u] = "left" <=> pc[u] = "left"
             /\ pc'[u] = "execute" <=> pc[u] = "execute"
             /\ Working(u)' = Working(u) /\ Unpublished(u)' = Unpublished(u)
  <2>1. CASE pc'[u] = pc[u]
    BY <1>1, <2>1 DEF Outstanding, Registered, Working, Unpublished
  <2>2. CASE pc[u] = "wait" /\ pc'[u] = "woken"
    BY <1>1, <2>2 DEF Outstanding, Registered, Working, Unpublished
  <2>3. CASE u \in Masters /\ pc[u] \in {"adding", "notify_one", "notify_all"} /\ pc'[u] \in {"adding", "lock"}
    <3>1. nNow[u] = 0
      BY <2>3 DEF Inv, Roles
    <3> QED BY <1>1, <2>3, <3>1, ZenonT(60) DEF Outstanding, Registered, Working, Unpublished
  <2> QED BY <2>1, <2>2, <2>3
<1>3. Idle' = Idle /\ Counted' = Counted /\ Unfinished' = Unfinished
  BY <1>2 DEF Idle, Counted, Unfinished
<1>4. Counting'
  BY <1>1, <1>3, Zenon DEF Inv, Counting, TypeOK, Places
<1>5. Roles'
  BY <1>0, <1>1, <1>2, Constants, ZenonT(60) DEF Inv, Roles
<1>6. Batches'
  BY <1>1, <1>2, ZenonT(60) DEF Inv, Batches, Bad
<1>7. Results'
  BY <1>1, <1>2, Constants DEF Inv, Results, ResultOfSession, Bad
<1> QED BY <1>4, <1>5, <1>6, <1>7 DEF Inv

-----------------------------------------------------------------------------
(* A batch, CCheckQueueControl, Add, the destructor.                        *)

\* Executing a batch: the failure it finds is one of the present session.
LEMMA ExecuteKeeps == ASSUME Inv, NEW t \in Threads, Execute(t) PROVE Inv'
<1>0. /\ pc \in [Threads -> Places] /\ nNow \in [Threads -> 0..nBatchSize]
      /\ local_result \in [Threads -> {None} \cup 1..MaxSessions] /\ session \in 0..MaxSessions
      /\ vChecks \in [Threads -> CheckSeq] /\ do_work \in [Threads -> BOOLEAN]
  BY Zenon DEF Inv, Counting, TypeOK, Places
<1> DEFINE found == IF Bad(vChecks[t]) THEN vChecks[t][1].ses ELSE None
<1>1. /\ pc[t] = "execute" /\ pc' = [pc EXCEPT ![t] = "lock"] /\ vChecks' = [vChecks EXCEPT ![t] = <<>>]
      /\ local_result' = IF do_work[t] THEN [local_result EXCEPT ![t] = found] ELSE local_result
      /\ UNCHANGED <<queue, nIdle, nTotal, nTodo, m_result, m_request_stop>>
      /\ UNCHANGED <<m_control_mutex, session, added, nNow, do_work, returned, destructor>>
  BY Zenon DEF Execute, lockVars, controlVars, Bad
<1>2. nNow[t] # 0 /\ Len(vChecks[t]) = nNow[t] /\ vChecks[t] \in Seq(Checks)
  BY <1>0, <1>1, CheckSeqIs DEF Inv, Batches
<1>3. 1 \in DOMAIN vChecks[t] /\ vChecks[t] # <<>>
  BY <1>0, <1>2, ListOfChecks, Constants
<1>4. vChecks[t][1].ses = session
  BY <1>3 DEF Inv, Batches
<1>5. session # 0 /\ session \in 1..MaxSessions
  <2>1. nTodo # 0
    BY <1>3, NothingOutstanding
  <2> QED BY <1>0, <2>1, Constants DEF Inv, Roles
<1>6. found \in {None} \cup 1..MaxSessions /\ (found # None <=> Bad(vChecks[t])) /\ (found # None => found = session)
  BY <1>4, <1>5, Constants
<1> HIDE DEF found
<1>7. local_result' \in [Threads -> {None} \cup 1..MaxSessions] /\ \A u \in Threads \ {t} : local_result'[u] = local_result[u]
  BY <1>0, <1>1, <1>6
<1>8. /\ pc' \in [Threads -> Places] /\ pc'[t] = "lock" /\ \A u \in Threads \ {t} : pc'[u] = pc[u]
      /\ vChecks'[t] = <<>> /\ \A u \in Threads \ {t} : vChecks'[u] = vChecks[u]
  BY <1>0, <1>1 DEF Places
<1>9. ASSUME NEW u \in Threads
      PROVE  /\ Outstanding(u)' = Outstanding(u) /\ Registered(u)' = Registered(u)
             /\ pc'[u] \in {"wait", "woken"} <=> pc[u] \in {"wait", "woken"}
             /\ pc'[u] = "exit" <=> pc[u] = "exit"
             /\ pc'[u] = "left" <=> pc[u] = "left"
             /\ pc'[u] = "out" <=> pc[u] = "out"
             /\ Working(u)' = Working(u)
             /\ pc'[u] \in {"out", "adding", "notify_one", "notify_all"} <=>
                  pc[u] \in {"out", "adding", "notify_one", "notify_all"}
             /\ pc'[u] \in {"lock", "wait", "woken", "execute", "exit"} <=>
                  pc[u] \in {"lock", "wait", "woken", "execute", "exit"}
  BY <1>1, <1>2, <1>8, Zenon DEF Outstanding, Registered, Working
<1>10. ASSUME NEW u \in Threads \ {t} PROVE Unpublished(u)' = Unpublished(u)
  BY <1>1, <1>7, <1>8, Zenon DEF Unpublished
<1>11. Unpublished(t)' <=> do_work[t] /\ Bad(vChecks[t])
  <2>1. CASE do_work[t]
    BY <1>0, <1>1, <1>2, <1>6, <1>8, <2>1, ZenonT(60) DEF Unpublished
  <2>2. CASE ~do_work[t]
    BY <1>1, <2>2 DEF Unpublished
  <2> QED BY <2>1, <2>2, ZenonT(60)
<1>12. Idle' = Idle /\ Counted' = Counted /\ Unfinished' = Unfinished
  BY <1>9 DEF Idle, Counted, Unfinished
<1>13. Counting'
  <2>1. <<>> \in CheckSeq
    BY EmptyList
  <2>2. vChecks' \in [Threads -> CheckSeq]
    BY <1>0, <1>1, <2>1, Zenon
  <2> QED BY <1>0, <1>1, <1>7, <1>8, <1>12, <2>2, Zenon DEF Inv, Counting, TypeOK, Places
<1>14. Roles'
  BY <1>1, <1>9, Constants, Zenon DEF Inv, Roles
<1>15. Batches'
  <2>1. \A u \in Threads : IF pc'[u] = "execute" THEN nNow'[u] # 0 /\ Len(vChecks'[u]) = nNow'[u]
                                                 ELSE vChecks'[u] = <<>>
    BY <1>1, <1>8, ZenonT(60) DEF Inv, Batches
  <2>2. \A u \in Threads : \A i \in DOMAIN vChecks'[u] : vChecks'[u][i].ses = session
    BY <1>8 DEF Inv, Batches
  <2>3. \A u \in Threads : Bad(vChecks'[u]) => Bad(added)
    <3>1. ~Bad(<<>>)
      BY DEF Bad
    <3> QED BY <1>8, <3>1 DEF Inv, Batches
  <2> QED BY <1>1, <2>1, <2>2, <2>3, ZenonT(60) DEF Inv, Batches, Bad
<1>16. Results'
  <2>1. \A u \in Threads : Working(u)' /\ ~do_work'[u] => m_result' # None
    BY <1>1, <1>9, Zenon DEF Inv, Results
  <2>2. local_result'[t] = found \/ ~do_work[t]
    BY <1>0, <1>1, Zenon
  <2>3. \A u \in Threads : Unpublished(u)' => local_result'[u] = session /\ Bad(added)
    <3>1. ASSUME Unpublished(t)' PROVE local_result'[t] = session /\ Bad(added)
      BY <1>6, <1>11, <2>2, <3>1, Zenon DEF Inv, Batches
    <3>2. ASSUME NEW u \in Threads \ {t}, Unpublished(u)' PROVE local_result'[u] = session /\ Bad(added)
      BY <1>7, <1>10, <3>2, Zenon DEF Inv, Results
    <3> QED BY <3>1, <3>2
  <2>4. ASSUME Bad(added), \A m \in Masters : pc'[m] # "left"
        PROVE  \/ m_result # None \/ Bad(queue)
               \/ \E u \in Threads : Unpublished(u)' \/ (do_work[u] /\ Bad(vChecks'[u]))
    <3>1. \A m \in Masters : pc[m] # "left"
      BY <1>9, <2>4, Constants, ZenonT(60)
    <3>2. \/ m_result # None \/ Bad(queue)
          \/ \E u \in Threads : Unpublished(u) \/ (do_work[u] /\ Bad(vChecks[u]))
      BY <2>4, <3>1 DEF Inv, Results
    <3>3. ASSUME NEW u \in Threads \ {t}, Unpublished(u) PROVE Unpublished(u)'
      BY <1>10, <3>3
    <3>4. ~Unpublished(t)
      BY <1>1 DEF Unpublished
    <3>5. ASSUME NEW u \in Threads \ {t}, do_work[u], Bad(vChecks[u]) PROVE Bad(vChecks'[u])
      BY <1>8, <3>5, ZenonT(60)
    <3> QED BY <1>11, <3>2, <3>3, <3>4, <3>5
  <2>5. ResultOfSession'
    BY <1>1, <1>9, Constants DEF Inv, Results, ResultOfSession
  <2> QED BY <1>1, <2>1, <2>3, <2>4, <2>5 DEF Inv, Results, Bad
<1> QED BY <1>13, <1>14, <1>15, <1>16 DEF Inv

\* A new control: nothing of the sessions before is left.
LEMMA ControlKeeps == ASSUME Inv, NEW m \in Masters, Control(m) PROVE Inv'
<1>0. pc \in [Threads -> Places] /\ session \in 0..MaxSessions /\ m \in Threads
  BY Constants DEF Inv, Counting, TypeOK, Places
<1>1. /\ pc[m] = "out" /\ session < MaxSessions /\ destructor = "none" /\ m_control_mutex = None
      /\ m_control_mutex' = m /\ session' = session + 1 /\ pc' = [pc EXCEPT ![m] = "adding"]
      /\ UNCHANGED <<queue, nIdle, nTotal, nTodo, m_result, m_request_stop>>
      /\ UNCHANGED <<added, vChecks, nNow, local_result, do_work, returned, destructor>>
  BY DEF Control, lockVars, threadVars
<1>2. /\ nTodo = 0 /\ m_result = None /\ added = <<>> /\ \A n \in Masters : pc[n] = "out"
      /\ nNow[m] = 0 /\ ~m_request_stop
  BY <1>1, Constants, Zenon DEF Inv, Roles
<1>3. queue = <<>> /\ \A t \in Threads : ~Working(t) /\ vChecks[t] = <<>>
  BY <1>2, NothingOutstanding
<1>4. pc' \in [Threads -> Places] /\ pc'[m] = "adding" /\ \A u \in Threads \ {m} : pc'[u] = pc[u]
  BY <1>0, <1>1, ZenonT(60) DEF Places
<1>5. ASSUME NEW u \in Threads
      PROVE  /\ Outstanding(u)' = Outstanding(u) /\ Registered(u)' = Registered(u)
             /\ pc'[u] \in {"wait", "woken"} <=> pc[u] \in {"wait", "woken"}
             /\ pc'[u] = "exit" <=> pc[u] = "exit"
             /\ pc'[u] = "execute" <=> pc[u] = "execute"
             /\ ~Working(u)' /\ ~Unpublished(u)'
  BY <1>1, <1>3, <1>4 DEF Outstanding, Registered, Working, Unpublished
<1>6. Idle' = Idle /\ Counted' = Counted /\ Unfinished' = Unfinished
  BY <1>5 DEF Idle, Counted, Unfinished
<1>7. session' \in 0..MaxSessions /\ session' # 0
  BY <1>0, <1>1, Constants
<1>8. Counting'
  BY <1>1, <1>4, <1>6, <1>7, Zenon DEF Inv, Counting, TypeOK, Places
<1>9. Roles'
  BY <1>1, <1>2, <1>4, <1>7, Constants, ZenonT(60) DEF Inv, Roles
<1>10. Batches'
  BY <1>1, <1>2, <1>3, <1>5 DEF Inv, Batches, Bad
<1>11. Results'
  <2>1. \A n \in Masters : pc'[n] # "left"
    BY <1>2, <1>4, Constants
  <2> QED BY <1>1, <1>2, <1>5, <2>1, EmptyList, Zenon DEF Results, ResultOfSession, Bad
<1> QED BY <1>8, <1>9, <1>10, <1>11, ZenonT(60) DEF Inv

\* Add, by the master that owns the control.
LEMMA AddKeeps == ASSUME Inv, NEW m \in Masters, Add(m) PROVE Inv'
<1>0. /\ pc \in [Threads -> Places] /\ session \in 0..MaxSessions /\ m \in Threads /\ nTodo \in Int
      /\ queue \in Seq(Checks) /\ added \in Seq(Checks) /\ Len(queue) \in Nat /\ Len(added) \in Nat
      /\ nTodo >= 0 /\ nTodo <= Len(added) /\ nTodo = Len(queue) + Cardinality(Unfinished)
  BY Constants, CheckSeqIs, ListOfChecks DEF Inv, Counting, TypeOK, Places
<1>1. /\ pc[m] = "adding"
      /\ UNCHANGED <<nIdle, nTotal, m_result, m_request_stop, m_control_mutex, session>>
      /\ UNCHANGED <<vChecks, nNow, local_result, do_work, returned, destructor>>
  BY DEF Add, threadVars
<1>2. PICK n \in 1..MaxAdd :
        /\ Len(added) + n <= MaxQueue
        /\ \E b \in [1..n -> BOOLEAN] :
             /\ queue' = queue \o [i \in 1..n |-> [ses |-> session, bad |-> b[i]]]
             /\ added' = added \o [i \in 1..n |-> [ses |-> session, bad |-> b[i]]]
        /\ nTodo' = nTodo + n
        /\ pc' = [pc EXCEPT ![m] = IF n = 1 THEN "notify_one" ELSE "notify_all"]
  BY Zenon DEF Add
<1>3. PICK b \in [1..n -> BOOLEAN] :
        /\ queue' = queue \o [i \in 1..n |-> [ses |-> session, bad |-> b[i]]]
        /\ added' = added \o [i \in 1..n |-> [ses |-> session, bad |-> b[i]]]
  BY <1>2, Zenon
<1> DEFINE new == [i \in 1..n |-> [ses |-> session, bad |-> b[i]]]
<1>4. m_control_mutex = m /\ session \in 1..MaxSessions /\ n \in Nat /\ ~m_request_stop
      /\ \A k \in Masters : pc[k] # "left"
  <2>1. m_control_mutex = m
    BY <1>1, Constants, Zenon DEF Inv, Roles
  <2>2. session \in 1..MaxSessions
    BY <1>0, <2>1, Constants DEF Inv, Roles
  <2>3. n \in Nat
    BY <1>2, Constants
  <2>4. ~m_request_stop /\ \A k \in Masters : pc[k] # "left"
    BY <1>1, <2>1, Constants DEF Inv, Roles
  <2> QED BY <2>1, <2>2, <2>3, <2>4
<1>5. new \in Seq(Checks) /\ Len(new) = n /\ \A i \in DOMAIN new : new[i].ses = session
  <2>1. new \in [1..n -> Checks]
    BY <1>3, <1>4 DEF Checks
  <2>2. new \in Seq(Checks) /\ Len(new) = n
    BY <1>4, <2>1
  <2> QED BY <2>2
<1>6. queue' = queue \o new /\ added' = added \o new
  BY <1>3
<1> HIDE DEF new
<1>7. (\A i \in DOMAIN queue : queue[i].ses = session) /\ (\A i \in DOMAIN added : added[i].ses = session)
  BY DEF Inv, Batches
<1>8. /\ queue' \in Seq(Checks) /\ Len(queue') = Len(queue) + Len(new)
      /\ \A i \in DOMAIN queue' : queue'[i].ses = session
      /\ Bad(queue') <=> Bad(queue) \/ Bad(new)
  <2>1. queue \in Seq(Checks) /\ new \in Seq(Checks) /\ queue' = queue \o new
    BY <1>0, <1>5, <1>6
  <2>2. /\ queue' \in Seq(Checks) /\ Len(queue') = Len(queue) + Len(new)
        /\ Elements(queue') = Elements(queue) \cup Elements(new)
    BY <2>1, Extended
  <2>3. ASSUME NEW i \in DOMAIN queue' PROVE queue'[i].ses = session
    <3>1. queue'[i] \in Elements(queue) \cup Elements(new)
      BY <2>2, Zenon DEF Elements
    <3>2. \A e \in Elements(queue) : e.ses = session
      BY <1>7 DEF Elements
    <3>3. \A e \in Elements(new) : e.ses = session
      BY <1>5 DEF Elements
    <3> QED BY <3>1, <3>2, <3>3
  <2>4. Bad(queue') <=> Bad(queue) \/ Bad(new)
    BY <2>2, BadElements
  <2> QED BY <2>2, <2>3, <2>4
<1>9. /\ added' \in Seq(Checks) /\ Len(added') = Len(added) + Len(new)
      /\ \A i \in DOMAIN added' : added'[i].ses = session
      /\ Bad(added') <=> Bad(added) \/ Bad(new)
  <2>1. added \in Seq(Checks) /\ new \in Seq(Checks) /\ added' = added \o new
    BY <1>0, <1>5, <1>6
  <2>2. /\ added' \in Seq(Checks) /\ Len(added') = Len(added) + Len(new)
        /\ Elements(added') = Elements(added) \cup Elements(new)
    BY <2>1, Extended
  <2>3. ASSUME NEW i \in DOMAIN added' PROVE added'[i].ses = session
    <3>1. added'[i] \in Elements(added) \cup Elements(new)
      BY <2>2, Zenon DEF Elements
    <3>2. \A e \in Elements(added) : e.ses = session
      BY <1>7 DEF Elements
    <3>3. \A e \in Elements(new) : e.ses = session
      BY <1>5 DEF Elements
    <3> QED BY <3>1, <3>2, <3>3, Zenon
  <2>4. Bad(added') <=> Bad(added) \/ Bad(new)
    BY <2>2, BadElements, Zenon
  <2> QED BY <2>2, <2>3, <2>4
<1>10. /\ nTodo' \in 0..MaxQueue /\ nTodo' <= Len(added') /\ nTodo' = Len(queue') + Cardinality(Unfinished)
       /\ Len(queue') <= MaxQueue /\ Len(added') <= MaxQueue
  <2>1. Len(queue) <= Len(added)
    <3>1. Cardinality(Unfinished) \in Nat
      BY CountOutstanding
    <3> QED BY <1>0, <3>1
  <2>2. Cardinality(Unfinished) \in Nat
    BY CountOutstanding
  <2>3. n \in Nat /\ MaxQueue \in Nat /\ Len(added) + n <= MaxQueue /\ nTodo' = nTodo + n
        /\ Len(queue') = Len(queue) + n /\ Len(added') = Len(added) + n
    BY <1>2, <1>4, <1>5, <1>8, <1>9, Constants, Zenon
  <2>4. /\ n \in Nat /\ Cardinality(Unfinished) \in Nat /\ MaxQueue \in Nat
        /\ Len(queue) \in Nat /\ Len(added) \in Nat /\ nTodo \in Int /\ nTodo >= 0
        /\ nTodo = Len(queue) + Cardinality(Unfinished) /\ nTodo <= Len(added)
        /\ Len(queue) <= Len(added) /\ Len(added) + n <= MaxQueue
    BY <1>0, <2>1, <2>2, <2>3, Zenon
  <2>5. /\ nTodo + n \in 0..MaxQueue /\ nTodo + n <= Len(added) + n
        /\ nTodo + n = Len(queue) + n + Cardinality(Unfinished) /\ Len(queue) + n <= MaxQueue
    BY <2>4
  <2> QED BY <2>3, <2>5, Zenon
<1>11. queue' \in CheckSeq /\ added' \in CheckSeq
  BY <1>8, <1>9, <1>10, CheckSeqIs, Zenon
<1>12. /\ pc' \in [Threads -> Places] /\ pc'[m] \in {"notify_one", "notify_all"}
       /\ \A u \in Threads \ {m} : pc'[u] = pc[u]
  BY <1>0, <1>2 DEF Places
<1>13. ASSUME NEW u \in Threads
       PROVE  /\ Outstanding(u)' = Outstanding(u) /\ Registered(u)' = Registered(u)
              /\ pc'[u] \in {"wait", "woken"} <=> pc[u] \in {"wait", "woken"}
              /\ pc'[u] = "exit" <=> pc[u] = "exit"
              /\ pc'[u] = "execute" <=> pc[u] = "execute"
              /\ Working(u)' = Working(u) /\ Unpublished(u)' = Unpublished(u)
  BY <1>1, <1>12, Zenon DEF Outstanding, Registered, Working, Unpublished
<1>14. Idle' = Idle /\ Counted' = Counted /\ Unfinished' = Unfinished
  BY <1>13 DEF Idle, Counted, Unfinished
<1>15. Counting'
  BY <1>1, <1>10, <1>11, <1>12, <1>14, Zenon DEF Inv, Counting, TypeOK, Places
<1>16. Roles'
  BY <1>1, <1>4, <1>12, Constants, Zenon DEF Inv, Roles
<1>17. Batches'
  <2>1. Bad(queue') => Bad(added')
    BY <1>8, <1>9, ZenonT(60) DEF Inv, Batches
  <2>2. \A t \in Threads : Bad(vChecks[t]) => Bad(added')
    BY <1>9 DEF Inv, Batches
  <2> QED BY <1>1, <1>8, <1>9, <1>13, <2>1, <2>2, ZenonT(60) DEF Inv, Batches, Bad
<1>18. Results'
  <2>1. \A k \in Masters : pc'[k] # "left"
    BY <1>4, <1>12, Constants, ZenonT(60)
  <2>2. m_result # None => Bad(added')
    BY <1>9 DEF Inv, Results
  <2>3. \A u \in Threads : Unpublished(u)' => local_result'[u] = session /\ Bad(added')
    BY <1>1, <1>9, <1>13, Zenon DEF Inv, Results
  <2>4. Bad(added') => \/ m_result # None \/ Bad(queue')
                       \/ \E u \in Threads : Unpublished(u)' \/ (do_work[u] /\ Bad(vChecks[u]))
    <3>1. CASE Bad(new)
      BY <1>8, <3>1, ZenonT(60)
    <3>2. CASE Bad(added)
      <4>1. \/ m_result # None \/ Bad(queue)
            \/ \E u \in Threads : Unpublished(u) \/ (do_work[u] /\ Bad(vChecks[u]))
        BY <1>4, <3>2, Zenon DEF Inv, Results
      <4> QED BY <1>8, <1>13, <4>1
    <3> QED BY <1>9, <3>1, <3>2, ZenonT(60)
  <2>5. \A u \in Threads : Working(u)' /\ ~do_work'[u] => m_result' # None
    BY <1>1, <1>13 DEF Inv, Results
  <2>6. ResultOfSession'
    BY <2>1, ZenonT(60) DEF ResultOfSession
  <2>7. m_result' \in {None, session'}
    BY <1>1 DEF Inv, Results
  <2> QED BY <1>1, <2>2, <2>3, <2>4, <2>5, <2>6, <2>7, Zenon DEF Results, Bad
<1> QED BY <1>15, <1>16, <1>17, <1>18, ZenonT(60) DEF Inv

\* The end of a control.
LEMMA ReleaseKeeps == ASSUME Inv, NEW m \in Masters, Release(m) PROVE Inv'
<1>0. /\ pc \in [Threads -> Places] /\ m \in Threads /\ nNow \in [Threads -> 0..nBatchSize]
      /\ local_result \in [Threads -> {None} \cup 1..MaxSessions] /\ do_work \in [Threads -> BOOLEAN]
      /\ returned \in [Masters -> {None} \cup 1..MaxSessions]
  BY Constants, Zenon DEF Inv, Counting, TypeOK, Places
<1>1. /\ pc[m] = "left" /\ m_control_mutex' = None /\ pc' = [pc EXCEPT ![m] = "out"]
      /\ nNow' = [nNow EXCEPT ![m] = 0] /\ local_result' = [local_result EXCEPT ![m] = None]
      /\ do_work' = [do_work EXCEPT ![m] = FALSE] /\ returned' = [returned EXCEPT ![m] = None] /\ added' = <<>>
      /\ UNCHANGED <<queue, nIdle, nTotal, nTodo, m_result, m_request_stop, session, vChecks, destructor>>
  BY ZenonT(60) DEF Release, lockVars
<1>2. /\ nTodo = 0 /\ m_result = None /\ m_control_mutex = m /\ ~m_request_stop
      /\ \A k \in Masters : k # m => pc[k] = "out"
  BY <1>1, Constants DEF Inv, Roles
<1>3. queue = <<>> /\ \A t \in Threads : ~Working(t) /\ vChecks[t] = <<>>
  BY <1>2, NothingOutstanding, ZenonT(60)
<1>4. /\ pc' \in [Threads -> Places] /\ pc'[m] = "out" /\ \A u \in Threads \ {m} : pc'[u] = pc[u]
      /\ nNow' \in [Threads -> 0..nBatchSize] /\ nNow'[m] = 0 /\ \A u \in Threads \ {m} : nNow'[u] = nNow[u]
      /\ local_result' \in [Threads -> {None} \cup 1..MaxSessions]
      /\ returned' \in [Masters -> {None} \cup 1..MaxSessions]
  BY <1>0, <1>1, Constants DEF Places
<1>5. do_work' \in [Threads -> BOOLEAN]
  BY <1>0, <1>1, ZenonT(60)
<1>6. ASSUME NEW u \in Threads
      PROVE  /\ Outstanding(u)' = Outstanding(u) /\ Registered(u)' = Registered(u)
             /\ pc'[u] \in {"wait", "woken"} <=> pc[u] \in {"wait", "woken"}
             /\ pc'[u] = "exit" <=> pc[u] = "exit"
             /\ pc'[u] = "execute" <=> pc[u] = "execute"
             /\ ~Working(u)' /\ ~Unpublished(u)'
  <2>1. CASE u = m
    BY <1>1, <1>4, <2>1, ZenonT(60) DEF Outstanding, Registered, Working, Unpublished
  <2>2. CASE u # m
    BY <1>3, <1>4, <2>2, ZenonT(60) DEF Outstanding, Registered, Working, Unpublished
  <2> QED BY <2>1, <2>2, ZenonT(60)
<1>7. Idle' = Idle /\ Counted' = Counted /\ Unfinished' = Unfinished
  BY <1>6 DEF Idle, Counted, Unfinished
<1>8. nTodo' <= Len(added') /\ added' \in CheckSeq
  <2>1. Len(<<>>) = 0
    BY EmptyList
  <2> QED BY <1>1, <1>2, <2>1, EmptyList
<1>9. Counting'
  BY <1>1, <1>4, <1>5, <1>7, <1>8, ZenonT(60) DEF Inv, Counting, TypeOK, Places
<1>10. Roles'
  BY <1>1, <1>2, <1>4, Constants, ZenonT(60) DEF Inv, Roles
<1>11. Batches'
  <2>1. ~Bad(queue') /\ \A t \in Threads : ~Bad(vChecks'[t])
    BY <1>1, <1>3, EmptyList, ZenonT(60)
  <2>2. vChecks' = vChecks /\ queue' = <<>> /\ added' = <<>>
    BY <1>1, <1>3
  <2>3. ASSUME NEW t \in Threads PROVE pc'[t] # "execute" /\ vChecks'[t] = <<>>
    <3>1. pc[t] # "execute"
      BY <1>3 DEF Inv, Batches, Working
    <3> QED BY <1>3, <1>6, <2>2, <3>1, Zenon
  <2>4. DOMAIN <<>> = {}
    OBVIOUS
  <2> QED BY <2>1, <2>2, <2>3, <2>4, Zenon DEF Batches
<1>12. Results'
  <2>1. \A k \in Masters : pc'[k] # "left"
    BY <1>2, <1>4, Constants
  <2>2. ~Bad(added')
    BY <1>1, EmptyList
  <2> QED BY <1>1, <1>2, <1>6, <2>1, <2>2, Zenon DEF Results, ResultOfSession, Bad
<1> QED BY <1>9, <1>10, <1>11, <1>12 DEF Inv

\* The destructor starts: no control exists, so nothing is outstanding.
LEMMA RequestStopKeeps == ASSUME Inv, RequestStop PROVE Inv'
<1>1. /\ m_request_stop' = TRUE /\ destructor' = "notify" /\ \A m \in Masters : pc[m] = "out"
      /\ UNCHANGED <<queue, nIdle, nTotal, nTodo, m_result, m_control_mutex, session, added, pc, returned>>
      /\ UNCHANGED <<vChecks, nNow, local_result, do_work>>
  BY DEF RequestStop, controlVars, threadVars
<1>2. m_control_mutex = None
  BY <1>1, ZenonT(60) DEF Inv, Roles, Counting, TypeOK
<1>3. \A t \in Threads : /\ Outstanding(t)' = Outstanding(t) /\ Registered(t)' = Registered(t)
                         /\ Working(t)' = Working(t) /\ Unpublished(t)' = Unpublished(t)
  BY <1>1, ZenonT(60) DEF Outstanding, Registered, Working, Unpublished
<1>4. Idle' = Idle /\ Counted' = Counted /\ Unfinished' = Unfinished
  BY <1>1, <1>3 DEF Idle, Counted, Unfinished
<1>5. Counting'
  BY <1>1, <1>4, ZenonT(60) DEF Inv, Counting, TypeOK
<1>6. Roles'
  BY <1>1, <1>2 DEF Inv, Roles
<1>7. Batches'
  BY <1>1, ZenonT(60) DEF Inv, Batches, Bad
<1>8. Results'
  BY <1>1, <1>3 DEF Inv, Results, Bad, ResultOfSession
<1> QED BY <1>5, <1>6, <1>7, <1>8 DEF Inv

\* Notifications wake threads that wait, and move nobody else.
LEMMA WokenIs ==
  ASSUME Inv, NEW S, \A t \in S : pc[t] = "wait"
  PROVE  /\ Woken(S) \in [Threads -> Places]
         /\ \A u \in Threads : Woken(S)[u] = pc[u] \/ (pc[u] = "wait" /\ Woken(S)[u] = "woken")
  BY DEF Woken, Inv, Counting, TypeOK, Places

\* The steps that QuietStep covers.
LEMMA QuietSteps ==
  ASSUME Inv,
         \/ \E t \in Threads : SpuriousWake(t)
         \/ \E m \in Masters : NotifyOne(m) \/ NotifyAll(m) \/ Complete(m)
         \/ NotifyStop \/ Join \/ UNCHANGED vars
  PROVE  Inv'
<1>0. pc \in [Threads -> Places] /\ destructor \in {"none", "notify", "join", "done"}
  BY Zenon DEF Inv, Counting, TypeOK, Places
<1>1. ASSUME NEW t \in Threads, SpuriousWake(t) PROVE Inv'
  <2>1. /\ pc[t] = "wait" /\ pc' = [pc EXCEPT ![t] = "woken"] /\ destructor' = destructor
        /\ UNCHANGED <<lockVars, controlVars, threadVars, returned>>
    BY <1>1 DEF SpuriousWake
  <2>2. pc' \in [Threads -> Places] /\ \A u \in Threads : pc'[u] = pc[u] \/ (pc[u] = "wait" /\ pc'[u] = "woken")
    BY <1>0, <2>1, ZenonT(60) DEF Places
  <2> QED BY <1>0, <2>1, <2>2, QuietStep, Zenon
<1>2. ASSUME NEW m \in Masters, NEW S \in SUBSET Threads, \A t \in S : pc[t] = "wait",
             pc[m] \in {"notify_one", "notify_all"}, pc' = [Woken(S) EXCEPT ![m] = "adding"],
             UNCHANGED <<lockVars, controlVars, threadVars, returned, destructor>>
      PROVE  Inv'
  <2>1. /\ Woken(S) \in [Threads -> Places]
        /\ \A u \in Threads : Woken(S)[u] = pc[u] \/ (pc[u] = "wait" /\ Woken(S)[u] = "woken")
    BY <1>2, WokenIs, Zenon
  <2>2. /\ pc' \in [Threads -> Places] /\ pc'[m] = "adding"
        /\ \A u \in Threads : u # m => pc'[u] = Woken(S)[u]
    BY <1>2, <2>1, Constants, ZenonT(60) DEF Places
  <2>3. \A u \in Threads :
          \/ pc'[u] = pc[u]
          \/ pc[u] = "wait" /\ pc'[u] = "woken"
          \/ u \in Masters /\ pc[u] \in {"adding", "notify_one", "notify_all"} /\ pc'[u] \in {"adding", "lock"}
    BY <1>2, <2>1, <2>2
  <2> QED BY <1>0, <1>2, <2>2, <2>3, QuietStep
<1>3. ASSUME NEW m \in Masters, NotifyOne(m) PROVE Inv'
  <2>1. PICK S \in NotifyOneOf(WaitingWorkers) : pc' = [Woken(S) EXCEPT ![m] = "adding"]
    BY <1>3, ZenonT(60) DEF NotifyOne
  <2>2. S \in SUBSET Threads /\ \A t \in S : pc[t] = "wait"
    BY <2>1, Constants DEF NotifyOneOf, WaitingWorkers
  <2>3. pc[m] = "notify_one" /\ UNCHANGED <<lockVars, controlVars, threadVars, returned, destructor>>
    BY <1>3 DEF NotifyOne
  <2> QED BY <1>2, <2>1, <2>2, <2>3, Zenon
<1>4. ASSUME NEW m \in Masters, NotifyAll(m) PROVE Inv'
  <2>1. WaitingWorkers \in SUBSET Threads /\ \A t \in WaitingWorkers : pc[t] = "wait"
    BY Constants DEF WaitingWorkers
  <2>2. /\ pc[m] = "notify_all" /\ pc' = [Woken(WaitingWorkers) EXCEPT ![m] = "adding"]
        /\ UNCHANGED <<lockVars, controlVars, threadVars, returned, destructor>>
    BY <1>4, ZenonT(60) DEF NotifyAll
  <2> QED BY <1>2, <2>1, <2>2, Zenon
<1>5. ASSUME NEW m \in Masters, Complete(m) PROVE Inv'
  <2>1. /\ pc[m] = "adding" /\ pc' = [pc EXCEPT ![m] = "lock"] /\ destructor' = destructor /\ m \in Threads
        /\ UNCHANGED <<lockVars, controlVars, threadVars, returned>>
    BY <1>5, Constants, Zenon DEF Complete
  <2>2. pc' \in [Threads -> Places] /\ pc'[m] = "lock" /\ \A u \in Threads : u # m => pc'[u] = pc[u]
    BY <1>0, <2>1, Zenon DEF Places
  <2>3. \A u \in Threads :
          \/ pc'[u] = pc[u]
          \/ u \in Masters /\ pc[u] \in {"adding", "notify_one", "notify_all"} /\ pc'[u] \in {"adding", "lock"}
    BY <2>1, <2>2
  <2> QED BY <1>0, <2>1, <2>2, <2>3, QuietStep
<1>6. ASSUME NotifyStop PROVE Inv'
  <2>1. \A t \in WaitingWorkers : pc[t] = "wait"
    BY ZenonT(60) DEF WaitingWorkers
  <2>2. /\ pc' \in [Threads -> Places]
        /\ \A u \in Threads : pc'[u] = pc[u] \/ (pc[u] = "wait" /\ pc'[u] = "woken")
    BY <1>6, <2>1, WokenIs DEF NotifyStop
  <2>3. /\ destructor = "notify" /\ destructor' = "join"
        /\ UNCHANGED <<lockVars, controlVars, threadVars, returned>>
    BY <1>6 DEF NotifyStop
  <2> QED BY <2>2, <2>3, QuietStep
<1>7. ASSUME Join PROVE Inv'
  <2>1. /\ destructor = "join" /\ destructor' = "done" /\ pc' = pc
        /\ UNCHANGED <<lockVars, controlVars, threadVars, returned>>
    BY <1>7, ZenonT(60) DEF Join
  <2> QED BY <1>0, <2>1, QuietStep, Zenon
<1>8. ASSUME UNCHANGED vars PROVE Inv'
  <2>1. /\ destructor' = destructor /\ pc' = pc
        /\ UNCHANGED <<lockVars, controlVars, threadVars, returned>>
    BY <1>8 DEF vars
  <2> QED BY <1>0, <2>1, QuietStep
<1> QED BY <1>1, <1>3, <1>4, <1>5, <1>6, <1>7, <1>8

-----------------------------------------------------------------------------
(* What the invariant says.                                                 *)

\* Before a stop no worker has left, so that everybody counted is registered.
LEMMA InvCounters == ASSUME Inv PROVE CountersExact
<1>1. ASSUME ~m_request_stop PROVE Counted = {t \in Threads : Registered(t)}
  BY <1>1, ZenonT(60) DEF Inv, Roles, Counted, Threads
<1> QED BY <1>1, Zenon DEF Inv, Counting, CountersExact, Idle

\* A thread with a batch keeps nTodo above zero, and so keeps the control open.
LEMMA InvBatches == ASSUME Inv PROVE BatchesOfThisSession
<1>1. ASSUME NEW t \in Threads, NEW i \in DOMAIN vChecks[t]
      PROVE  vChecks[t][i].ses = session /\ m_control_mutex # None
  <2>1. vChecks[t] # <<>>
    <3>1. DOMAIN <<>> = {}
      OBVIOUS
    <3> QED BY <1>1, <3>1
  <2>2. nTodo # 0
    BY <2>1, NothingOutstanding
  <2> QED BY <1>1, <2>2, ZenonT(60) DEF Inv, Batches, Roles
<1>2. ASSUME NEW m \in Masters, pc[m] = "left" PROVE queue = <<>> /\ \A t \in Threads : vChecks[t] = <<>>
  <2>1. nTodo = 0
    BY <1>2 DEF Inv, Roles
  <2> QED BY <2>1, NothingOutstanding, ZenonT(60)
<1> QED BY <1>1, <1>2 DEF BatchesOfThisSession

-----------------------------------------------------------------------------
(* The critical section of Loop.                                           *)

\* What the critical section has computed when Proceed starts: the counters without t, the
\* result after publishing, and the places of the others after a notification.
Section(t, total, idle, todo, result, others) ==
  /\ pc[t] \in {"lock", "woken"}
  /\ total = Cardinality(Counted \cup {t}) /\ idle = Cardinality(Idle \ {t}) /\ todo = nTodo - Outstanding(t)
  /\ result \in {None, session} /\ (result # None <=> m_result # None \/ Unpublished(t))
  /\ others \in [Threads -> Places]
  /\ \A u \in Threads \ {t} : others[u] = pc[u] \/ (pc[u] = "wait" /\ others[u] = "woken")
  /\ local_result' \in [Threads -> {None} \cup 1..MaxSessions]
  /\ \A u \in Threads \ {t} : local_result'[u] = local_result[u]
  /\ UNCHANGED <<m_request_stop, m_control_mutex, session, added, destructor>>

\* u may have been woken, and is where it was otherwise.
Stays(u) == pc'[u] = pc[u] \/ (pc[u] = "wait" /\ pc'[u] = "woken")

\* The step of another thread leaves u as it was, for all that the invariant says of u.
Undisturbed(u) ==
  /\ Working(u)' = Working(u) /\ Unpublished(u)' = Unpublished(u)
  /\ pc'[u] = "execute" <=> pc[u] = "execute"
  /\ pc'[u] = "left" <=> pc[u] = "left"
  /\ pc'[u] = "exit" <=> pc[u] = "exit"
  /\ pc'[u] = "out" <=> pc[u] = "out"
  /\ pc'[u] \in {"out", "adding", "notify_one", "notify_all"} <=> pc[u] \in {"out", "adding", "notify_one", "notify_all"}
  /\ pc'[u] \in {"lock", "wait", "woken", "execute", "exit"} <=> pc[u] \in {"lock", "wait", "woken", "execute", "exit"}

\* The numbers behind the counters.
LEMMA Numbers ==
  ASSUME Inv
  PROVE  /\ Len(added) \in Nat /\ Len(queue) \in Nat /\ MaxQueue \in Nat /\ Len(added) <= MaxQueue
         /\ nTodo \in Nat /\ nTodo = Len(queue) + Cardinality(Unfinished) /\ nTodo <= Len(added)
         /\ queue \in Seq(Checks)
<1>0. queue \in CheckSeq /\ added \in CheckSeq
  BY DEF Inv, Counting, TypeOK
<1>1. queue \in Seq(Checks) /\ added \in Seq(Checks) /\ Len(added) <= MaxQueue
  BY <1>0, CheckSeqIs
<1>2. Len(added) \in Nat /\ Len(queue) \in Nat
  BY <1>1, ListOfChecks
<1>3. nTodo \in 0..MaxQueue /\ nTodo = Len(queue) + Cardinality(Unfinished) /\ nTodo <= Len(added)
  BY DEF Inv, Counting, TypeOK
<1> QED BY <1>1, <1>2, <1>3, Constants

\* The counters with and without t.
LEMMA SectionCounts ==
  ASSUME Inv, NEW t \in Threads, NEW total, NEW idle, NEW todo, NEW result, NEW others,
         Section(t, total, idle, todo, result, others)
  PROVE  /\ total \in 0..Cardinality(Threads) /\ idle \in 0..Cardinality(Threads)
         /\ total \in Nat /\ idle \in Nat
         /\ total = Cardinality(Counted \cup {t}) /\ idle = Cardinality(Idle \ {t})
         /\ Cardinality(Idle \cup {t}) = idle + 1 /\ Cardinality(Counted \ {t}) = total - 1
         /\ Cardinality(Idle \cup {t}) \in 0..Cardinality(Threads)
         /\ Cardinality(Counted \ {t}) \in 0..Cardinality(Threads)
<1>0. total = Cardinality(Counted \cup {t}) /\ idle = Cardinality(Idle \ {t})
  BY DEF Section
<1>1. /\ Idle \in SUBSET Threads /\ Counted \in SUBSET Threads
      /\ Idle \ {t} \in SUBSET Threads /\ Counted \cup {t} \in SUBSET Threads
      /\ Idle \cup {t} \in SUBSET Threads /\ Counted \ {t} \in SUBSET Threads
  BY DEF Idle, Counted
<1>2. /\ Cardinality(Idle \ {t}) \in 0..Cardinality(Threads)
      /\ Cardinality(Counted \cup {t}) \in 0..Cardinality(Threads)
      /\ Cardinality(Idle) \in 0..Cardinality(Threads) /\ Cardinality(Counted) \in 0..Cardinality(Threads)
      /\ Cardinality(Idle \cup {t}) \in 0..Cardinality(Threads)
      /\ Cardinality(Counted \ {t}) \in 0..Cardinality(Threads)
  BY <1>1, CountThreads, Zenon
<1>3. /\ Cardinality(Idle \cup {t}) = IF t \in Idle THEN Cardinality(Idle) ELSE Cardinality(Idle) + 1
      /\ Cardinality(Idle \ {t}) = IF t \in Idle THEN Cardinality(Idle) - 1 ELSE Cardinality(Idle)
  BY <1>1, CountThreads, Zenon
<1>4. /\ Cardinality(Counted \cup {t}) = IF t \in Counted THEN Cardinality(Counted) ELSE Cardinality(Counted) + 1
      /\ Cardinality(Counted \ {t}) = IF t \in Counted THEN Cardinality(Counted) - 1 ELSE Cardinality(Counted)
  BY <1>1, CountThreads, Zenon
<1>5. Cardinality(Threads) \in Nat
  BY CountFacts, ZenonT(60)
<1> QED BY <1>0, <1>2, <1>3, <1>4, <1>5

\* The result so far is one of this session, t has no batch, and without an open control there
\* is neither a result nor a check.
LEMMA SectionResult ==
  ASSUME Inv, NEW t \in Threads, NEW total, NEW idle, NEW todo, NEW result, NEW others,
         Section(t, total, idle, todo, result, others)
  PROVE  /\ result \in {None} \cup 1..MaxSessions /\ (result # None => Bad(added))
         /\ result \in {None, session} /\ (result # None <=> m_result # None \/ Unpublished(t))
         /\ vChecks[t] = <<>> /\ Outstanding(t) \in 0..nBatchSize /\ todo = nTodo - Outstanding(t)
         /\ pc[t] \notin {"out", "left", "exit", "execute"}
         /\ (m_control_mutex = None \/ \E m \in Masters : pc[m] = "left") =>
              nTodo = 0 /\ result = None /\ todo = 0 /\ queue = <<>>
<1>0. /\ pc \in [Threads -> Places] /\ nNow \in [Threads -> 0..nBatchSize] /\ session \in 0..MaxSessions
      /\ m_result \in {None} \cup 1..MaxSessions
  BY ZenonT(60) DEF Inv, Counting, TypeOK, Places
<1>1. /\ result \in {None, session} /\ (result # None <=> m_result # None \/ Unpublished(t))
      /\ todo = nTodo - Outstanding(t) /\ pc[t] \in {"lock", "woken"}
  BY ZenonT(60) DEF Section
<1>2. result # None => Bad(added)
  BY <1>1 DEF Inv, Results
<1>3. result \in {None} \cup 1..MaxSessions
  <2>1. added = <<>> => ~Bad(added)
    BY DEF Bad
  <2>2. Bad(added) => session # 0
    BY <2>1 DEF Inv, Roles
  <2> QED BY <1>0, <1>1, <1>2, <2>2, Constants
<1>4. vChecks[t] = <<>> /\ pc[t] \notin {"out", "left", "exit", "execute"}
  BY <1>1 DEF Inv, Batches
<1>5. Outstanding(t) \in 0..nBatchSize
  BY <1>0, Constants DEF Outstanding
<1>6. nTodo = 0 => queue = <<>> /\ ~Working(t)
  BY NothingOutstanding
<1>7. ~Working(t) => ~Unpublished(t) /\ Outstanding(t) = 0
  BY <1>0, Constants, ZenonT(60) DEF Working, Unpublished, Outstanding
<1>8. (m_control_mutex = None \/ \E m \in Masters : pc[m] = "left") => nTodo = 0 /\ m_result = None
  BY DEF Inv, Roles
<1>9. nTodo - 0 = nTodo
  BY Numbers
<1>10. (m_control_mutex = None \/ \E m \in Masters : pc[m] = "left") =>
         nTodo = 0 /\ result = None /\ todo = 0 /\ queue = <<>>
  BY <1>1, <1>6, <1>7, <1>8, <1>9
<1> QED BY <1>1, <1>2, <1>3, <1>4, <1>5, <1>10

\* The others stay, or are woken.
LEMMA SectionOthers ==
  ASSUME Inv, NEW t \in Threads, NEW total, NEW idle, NEW todo, NEW result, NEW others,
         Section(t, total, idle, todo, result, others),
         NEW at \in {"left", "wait", "exit", "execute"}, pc' = [others EXCEPT ![t] = at]
  PROVE  pc' \in [Threads -> Places] /\ pc'[t] = at /\ \A u \in Threads \ {t} : Stays(u)
<1>1. /\ others \in [Threads -> Places]
      /\ \A u \in Threads \ {t} : others[u] = pc[u] \/ (pc[u] = "wait" /\ others[u] = "woken")
  BY ZenonT(60) DEF Section
<1> QED BY <1>1 DEF Places, Stays

\* What stays means for the invariant.
LEMMA StaysUndisturbed ==
  ASSUME NEW u, Stays(u), nNow'[u] = nNow[u], do_work'[u] = do_work[u], local_result'[u] = local_result[u]
  PROVE  Undisturbed(u)
  BY DEF Stays, Undisturbed, Working, Unpublished

\* A step of t that takes no batch finishes the one it had.
LEMMA NoBatch ==
  ASSUME Inv, NEW t \in Threads, NEW total, NEW idle, NEW todo, NEW result, NEW others,
         Section(t, total, idle, todo, result, others),
         NEW at \in {"left", "wait", "exit"}, pc' = [others EXCEPT ![t] = at],
         nNow' = nNow, vChecks' = vChecks, do_work' = do_work, queue' = queue, nTodo' = todo
  PROVE  /\ nTodo' = Len(queue') + Cardinality(Unfinished') /\ nTodo' \in 0..MaxQueue /\ nTodo' <= Len(added')
         /\ Cardinality(Unfinished') \in Nat
         /\ Idle' = (IF at = "wait" THEN Idle \cup {t} ELSE Idle \ {t})
         /\ Counted' = (IF at = "left" THEN Counted \ {t} ELSE Counted \cup {t})
         /\ \A u \in Threads : Outstanding(u)' \in Nat /\ Outstanding(u)' <= Cardinality(Unfinished')
         /\ ~Working(t)' /\ ~Unpublished(t)' /\ Batches'
         /\ \A u \in Threads \ {t} : Undisturbed(u)
<1>0. nNow \in [Threads -> 0..nBatchSize]
  BY DEF Inv, Counting, TypeOK
<1>1. pc' \in [Threads -> Places] /\ pc'[t] = at /\ \A u \in Threads \ {t} : Stays(u)
  BY SectionOthers, Zenon
<1>2. /\ Idle' = IF pc'[t] \in {"wait", "woken"} THEN Idle \cup {t} ELSE Idle \ {t}
      /\ Counted' = IF Registered(t)' \/ pc'[t] = "exit" THEN Counted \cup {t} ELSE Counted \ {t}
      /\ Cardinality(Unfinished') = Cardinality(Unfinished) - Outstanding(t) + Outstanding(t)'
      /\ Cardinality(Unfinished) \in Nat /\ Outstanding(t) <= Cardinality(Unfinished)
      /\ \A u \in Threads : Outstanding(u)' \in Nat /\ Outstanding(u)' <= Cardinality(Unfinished')
  <2>1. \A u \in Threads \ {t} : pc'[u] = pc[u] \/ (pc[u] = "wait" /\ pc'[u] = "woken")
    BY <1>1 DEF Stays
  <2>2. nNow' \in [Threads -> 0..nBatchSize] /\ \A u \in Threads \ {t} : nNow'[u] = nNow[u]
    BY <1>0, ZenonT(60)
  <2> QED BY <1>1, <2>1, <2>2, OthersCount
<1>3. Outstanding(t)' = 0 /\ ~Working(t)' /\ ~Unpublished(t)'
  BY <1>1 DEF Outstanding, Working, Unpublished
<1>4. Registered(t)' <=> at = "wait"
  BY <1>1, ZenonT(60) DEF Registered
<1>5. Outstanding(t) \in 0..nBatchSize /\ todo = nTodo - Outstanding(t) /\ vChecks[t] = <<>>
  BY SectionResult
<1>6. added' = added /\ session' = session /\ \A u \in Threads \ {t} : local_result'[u] = local_result[u]
  BY ZenonT(60) DEF Section
<1>7. /\ nTodo' = Len(queue') + Cardinality(Unfinished') /\ nTodo' \in 0..MaxQueue /\ nTodo' <= Len(added')
      /\ Cardinality(Unfinished') \in Nat
  <2>1. Cardinality(Unfinished') = Cardinality(Unfinished) - Outstanding(t) + Outstanding(t)'
        /\ Cardinality(Unfinished) \in Nat /\ Outstanding(t) <= Cardinality(Unfinished)
    BY <1>2, ZenonT(60)
  <2>2. Outstanding(t) \in Nat /\ Outstanding(t)' = 0 /\ nTodo' = nTodo - Outstanding(t)
    BY <1>3, <1>5, Constants
  <2> QED BY <2>1, <2>2, <1>6, Numbers
<1>8. \A u \in Threads \ {t} : Undisturbed(u)
  BY <1>1, <1>6, StaysUndisturbed, ZenonT(60)
<1>9. \A u \in Threads : IF pc'[u] = "execute" THEN nNow'[u] # 0 /\ Len(vChecks'[u]) = nNow'[u]
                                               ELSE vChecks'[u] = <<>>
  <2>1. ASSUME NEW u \in Threads \ {t} PROVE pc'[u] = "execute" <=> pc[u] = "execute"
    BY <1>8, ZenonT(60) DEF Undisturbed
  <2> QED BY <1>1, <1>5, <2>1, ZenonT(60) DEF Inv, Batches
<1>10. Batches'
  BY <1>6, <1>9, ZenonT(60) DEF Inv, Batches, Bad
<1>11. /\ Idle' = (IF at = "wait" THEN Idle \cup {t} ELSE Idle \ {t})
       /\ Counted' = (IF at = "left" THEN Counted \ {t} ELSE Counted \cup {t})
  BY <1>1, <1>2, <1>4
<1> QED BY <1>2, <1>3, <1>7, <1>8, <1>10, <1>11, Zenon

\* The master leaves Loop with the verdict on all that was added.
LEMMA LeaveKeeps ==
  ASSUME Inv, NEW t \in Threads, NEW total, NEW idle, NEW todo, NEW result, NEW others,
         Section(t, total, idle, todo, result, others),
         Leave(t, total, idle, todo, result), pc' = [others EXCEPT ![t] = "left"], UNCHANGED nNow
  PROVE  Inv'
<1>1. /\ nNow' = nNow /\ vChecks' = vChecks /\ do_work' = do_work /\ queue' = queue /\ nTodo' = todo
      /\ queue = <<>> /\ t \in Masters /\ todo = 0 /\ nTotal' = total - 1 /\ nIdle' = idle
      /\ m_result' = None /\ returned' = [returned EXCEPT ![t] = result] /\ ~m_request_stop
  BY DEF Leave
<1>2. /\ nTodo' = Len(queue') + Cardinality(Unfinished') /\ nTodo' \in 0..MaxQueue /\ nTodo' <= Len(added')
      /\ Cardinality(Unfinished') \in Nat
      /\ Idle' = Idle \ {t} /\ Counted' = Counted \ {t}
      /\ \A u \in Threads : Outstanding(u)' \in Nat /\ Outstanding(u)' <= Cardinality(Unfinished')
      /\ ~Working(t)' /\ ~Unpublished(t)' /\ Batches'
      /\ \A u \in Threads \ {t} : Undisturbed(u)
  <2>1. "left" # "wait" /\ "left" \in {"left", "wait", "exit"}
    OBVIOUS
  <2> QED BY <1>1, <2>1, NoBatch, Zenon
<1>3. /\ result \in {None} \cup 1..MaxSessions /\ (result # None => Bad(added))
      /\ result \in {None, session} /\ (result # None <=> m_result # None \/ Unpublished(t))
      /\ vChecks[t] = <<>> /\ pc[t] \notin {"out", "left", "exit", "execute"}
  BY SectionResult
<1>4. /\ m_request_stop' = m_request_stop /\ m_control_mutex' = m_control_mutex /\ session' = session
      /\ added' = added /\ destructor' = destructor /\ local_result' \in [Threads -> {None} \cup 1..MaxSessions]
  BY DEF Section
<1>5. pc' \in [Threads -> Places] /\ pc'[t] = "left"
  BY SectionOthers, Zenon
<1>6. Counting'
  <2>1. {nIdle', nTotal'} \subseteq 0..Cardinality(Threads) /\ nIdle' = Cardinality(Idle') /\ nTotal' = Cardinality(Counted')
    <3>1. /\ idle \in 0..Cardinality(Threads) /\ idle = Cardinality(Idle \ {t})
          /\ Cardinality(Counted \ {t}) = total - 1 /\ Cardinality(Counted \ {t}) \in 0..Cardinality(Threads)
      BY SectionCounts, Zenon
    <3> QED BY <1>1, <1>2, <3>1, Zenon
  <2>2. returned' \in [Masters -> {None} \cup 1..MaxSessions]
    <3>1. returned \in [Masters -> {None} \cup 1..MaxSessions]
      BY DEF Inv, Counting, TypeOK
    <3> QED BY <1>1, <1>3, <3>1, ZenonT(60)
  <2>3. m_result' \in {None} \cup 1..MaxSessions
    BY <1>1
  <2> QED BY <1>1, <1>2, <1>4, <1>5, <2>1, <2>2, <2>3, Zenon DEF Inv, Counting, TypeOK, Places
<1>7. \A u \in Threads : ~Working(u)' /\ ~Unpublished(u)'
  <2>1. Len(queue') = 0
    BY <1>1, EmptyList, ZenonT(60)
  <2>2. Cardinality(Unfinished') = 0
    BY <1>1, <1>2, <2>1
  <2>3. \A u \in Threads : Outstanding(u)' = 0
    BY <1>2, <2>2
  <2> QED BY <2>3, Zenon DEF Working, Unpublished, Outstanding
<1>8. \A u \in Threads \ {t} : ~Working(u) /\ ~Unpublished(u)
  BY <1>2, <1>7, ZenonT(60) DEF Undisturbed
<1>9. m_control_mutex = t /\ \A m \in Masters : pc[m] # "left"
  BY <1>1, <1>3, ZenonT(60) DEF Inv, Roles
<1>10. Bad(added) => result = session
  <2>1. ASSUME Bad(added), result = None PROVE FALSE
    <3>1. m_result = None /\ ~Unpublished(t)
      BY <2>1, <1>3
    <3>2. ~Bad(queue)
      BY <1>1 DEF Bad
    <3>3. PICK u \in Threads : Unpublished(u) \/ (do_work[u] /\ Bad(vChecks[u]))
      BY <2>1, <3>1, <3>2, <1>9, Zenon DEF Inv, Results
    <3>4. u # t
      BY <3>1, <3>3, <1>3 DEF Bad
    <3>5. Bad(vChecks[u])
      BY <3>3, <3>4, <1>8, ZenonT(60)
    <3>6. vChecks[u] # <<>>
      BY <3>5 DEF Bad
    <3>7. Working(u)
      BY <3>6, <3>3, Zenon DEF Inv, Batches, Working
    <3> QED BY <3>3, <3>4, <3>7, <1>8, ZenonT(60)
  <2> QED BY <2>1, <1>3, ZenonT(60)
<1>11. Roles'
  <2>1. ASSUME NEW u \in Threads \ {t}
        PROVE  /\ pc'[u] \in {"out", "adding", "notify_one", "notify_all"} <=>
                    pc[u] \in {"out", "adding", "notify_one", "notify_all"}
               /\ pc'[u] = "exit" <=> pc[u] = "exit"
               /\ pc'[u] = "out" <=> pc[u] = "out"
               /\ pc'[u] \in {"lock", "wait", "woken", "execute", "exit"} <=>
                    pc[u] \in {"lock", "wait", "woken", "execute", "exit"}
    BY <1>2 DEF Undisturbed
  <2>2. \A w \in Workers : w \in Threads \ {t}
    BY <1>1, Constants
  <2>3. \A m \in Masters : m \in Threads
    BY Constants
  <2>4. \A w \in Workers : pc'[w] \in {"lock", "wait", "woken", "execute", "exit"} /\ pc'[w] # "exit"
    BY <1>1, <2>1, <2>2, ZenonT(60) DEF Inv, Roles
  <2>5. \A m \in Masters : pc'[m] # "exit" /\ (pc'[m] # "out" <=> m_control_mutex = m)
    BY <1>5, <1>9, <2>1, <2>3, ZenonT(60) DEF Inv, Roles
  <2>6. \A m \in Masters : pc'[m] \in {"out", "adding", "notify_one", "notify_all"} => nNow'[m] = 0
    BY <1>1, <1>5, <2>1, <2>3 DEF Inv, Roles
  <2> QED BY <1>1, <1>4, <2>4, <2>5, <2>6, ZenonT(60) DEF Inv, Roles
<1>12. ResultOfSession'
  <2>1. ASSUME NEW m \in Masters, pc'[m] = "left" PROVE m = t
    <3>1. ASSUME m # t PROVE pc[m] = "left"
      <4>1. m \in Threads \ {t}
        BY <3>1, Constants, ZenonT(60)
      <4> QED BY <1>2, <2>1, <4>1 DEF Undisturbed
    <3> QED BY <3>1, <1>9, ZenonT(60)
  <2>2. returned \in [Masters -> {None} \cup 1..MaxSessions]
    BY DEF Inv, Counting, TypeOK
  <2>3. returned'[t] = IF Bad(added) THEN session ELSE None
    BY <1>1, <1>3, <1>10, <2>2, ZenonT(60)
  <2> QED BY <1>4, <2>1, <2>3 DEF ResultOfSession, Bad
<1>13. Results'
  BY <1>1, <1>5, <1>7, <1>12 DEF Results
<1> QED BY <1>2, <1>6, <1>11, <1>13, Zenon DEF Inv

\* The thread waits, or a worker sees the stop request.
LEMMA StayKeeps ==
  ASSUME Inv, NEW t \in Threads, NEW total, NEW idle, NEW todo, NEW result, NEW others,
         Section(t, total, idle, todo, result, others),
         NEW at \in {"wait", "exit"}, pc' = [others EXCEPT ![t] = at],
         nNow' = nNow, vChecks' = vChecks, do_work' = do_work, queue' = queue, nTodo' = todo,
         returned' = returned, nTotal' = total, m_result' = result,
         IF at = "wait" THEN nIdle' = idle + 1 ELSE nIdle' = idle /\ m_request_stop
  PROVE  Inv'
<1>2. /\ nTodo' = Len(queue') + Cardinality(Unfinished') /\ nTodo' \in 0..MaxQueue /\ nTodo' <= Len(added')
      /\ Idle' = (IF at = "wait" THEN Idle \cup {t} ELSE Idle \ {t}) /\ Counted' = Counted \cup {t}
      /\ ~Working(t)' /\ ~Unpublished(t)' /\ Batches'
      /\ \A u \in Threads \ {t} : Undisturbed(u)
  <2>1. at # "left" /\ at \in {"left", "wait", "exit"}
    OBVIOUS
  <2> QED BY <2>1, NoBatch, Zenon
<1>3. /\ result \in {None} \cup 1..MaxSessions /\ (result # None => Bad(added))
      /\ result \in {None, session} /\ (result # None <=> m_result # None \/ Unpublished(t))
      /\ pc[t] \notin {"out", "left", "exit", "execute"}
      /\ (m_control_mutex = None \/ \E m \in Masters : pc[m] = "left") => result = None /\ todo = 0
  BY SectionResult
<1>4. /\ m_request_stop' = m_request_stop /\ m_control_mutex' = m_control_mutex /\ session' = session
      /\ added' = added /\ destructor' = destructor /\ local_result' \in [Threads -> {None} \cup 1..MaxSessions]
      /\ \A u \in Threads \ {t} : local_result'[u] = local_result[u]
  BY DEF Section
<1>5. pc' \in [Threads -> Places] /\ pc'[t] = at
  <2>1. at \in {"left", "wait", "exit", "execute"}
    OBVIOUS
  <2> QED BY <2>1, SectionOthers, Zenon
<1>6. Counting'
  <2>1. /\ total \in 0..Cardinality(Threads) /\ idle \in 0..Cardinality(Threads)
        /\ total = Cardinality(Counted \cup {t}) /\ idle = Cardinality(Idle \ {t})
        /\ Cardinality(Idle \cup {t}) = idle + 1 /\ Cardinality(Idle \cup {t}) \in 0..Cardinality(Threads)
    BY SectionCounts, Zenon
  <2>2. {nIdle', nTotal'} \subseteq 0..Cardinality(Threads) /\ nIdle' = Cardinality(Idle') /\ nTotal' = Cardinality(Counted')
    BY <1>2, <2>1, Zenon
  <2> QED BY <1>2, <1>3, <1>4, <1>5, <2>2, Zenon DEF Inv, Counting, TypeOK, Places
<1>7. \A w \in Workers : w \in Threads
  BY Constants
<1>8. \A m \in Masters : m \in Threads
  BY Constants, ZenonT(60)
<1>9. \A m \in Masters : pc'[m] = "left" <=> pc[m] = "left"
  BY <1>2, <1>3, <1>5, <1>8 DEF Undisturbed
<1>10. Roles'
  <2>1. ASSUME NEW u \in Threads \ {t}
        PROVE  /\ pc'[u] \in {"out", "adding", "notify_one", "notify_all"} <=>
                    pc[u] \in {"out", "adding", "notify_one", "notify_all"}
               /\ pc'[u] = "exit" <=> pc[u] = "exit"
               /\ pc'[u] = "out" <=> pc[u] = "out"
               /\ pc'[u] \in {"lock", "wait", "woken", "execute", "exit"} <=>
                    pc[u] \in {"lock", "wait", "woken", "execute", "exit"}
    BY <1>2 DEF Undisturbed
  <2>2. m_request_stop => t \notin Masters
    BY <1>3, Constants, ZenonT(60) DEF Inv, Roles
  <2>3. \A w \in Workers : pc'[w] \in {"lock", "wait", "woken", "execute", "exit"} /\ (pc'[w] = "exit" => m_request_stop)
    BY <1>5, <1>7, <2>1 DEF Inv, Roles
  <2>4. \A m \in Masters : pc'[m] # "exit" /\ (pc'[m] # "out" <=> m_control_mutex = m)
    BY <1>3, <1>5, <1>8, <2>1, <2>2, ZenonT(60) DEF Inv, Roles
  <2>5. \A m \in Masters : pc'[m] \in {"out", "adding", "notify_one", "notify_all"} => nNow'[m] = 0
    BY <1>5, <1>8, <2>1 DEF Inv, Roles
  <2>6. (m_control_mutex = None \/ \E m \in Masters : pc'[m] = "left") => nTodo' = 0 /\ m_result' = None
    BY <1>3, <1>9, Zenon
  <2> QED BY <1>4, <2>3, <2>4, <2>5, <2>6, ZenonT(60) DEF Inv, Roles
<1>11. ResultOfSession'
  BY <1>4, <1>9, ZenonT(60) DEF Inv, Results, ResultOfSession
<1>12. /\ \A u \in Threads : Working(u)' /\ ~do_work'[u] => m_result' # None
       /\ \A u \in Threads : Unpublished(u)' => local_result'[u] = session' /\ Bad(added)'
  <2>1. ASSUME NEW u \in Threads \ {t} PROVE Working(u)' = Working(u) /\ Unpublished(u)' = Unpublished(u)
    BY <1>2 DEF Undisturbed
  <2> QED BY <1>2, <1>3, <1>4, <2>1, ZenonT(60) DEF Inv, Results, Bad
<1>13. ASSUME Bad(added), \A m \in Masters : pc'[m] # "left"
       PROVE  \/ result # None \/ Bad(queue)
              \/ \E u \in Threads : Unpublished(u)' \/ (do_work'[u] /\ Bad(vChecks'[u]))
  <2>1. \/ m_result # None \/ Bad(queue)
        \/ \E u \in Threads : Unpublished(u) \/ (do_work[u] /\ Bad(vChecks[u]))
    BY <1>9, <1>13, ZenonT(60) DEF Inv, Results
  <2>2. CASE m_result # None \/ Bad(queue) \/ Unpublished(t)
    BY <1>3, <2>2
  <2>3. ASSUME NEW u \in Threads \ {t}, Unpublished(u) PROVE Unpublished(u)'
    BY <1>2, <2>3, ZenonT(60) DEF Undisturbed
  <2> QED BY <2>1, <2>2, <2>3, ZenonT(60)
<1>14. Results'
  <2>1. Bad(added)' <=> Bad(added)
    BY <1>4 DEF Bad
  <2>2. Bad(queue)' <=> Bad(queue)
    BY DEF Bad
  <2>3. \A u \in Threads : Bad(vChecks[u])' <=> Bad(vChecks'[u])
    BY DEF Bad
  <2> QED BY <1>3, <1>4, <1>11, <1>12, <1>13, <2>1, <2>2, <2>3, ZenonT(60) DEF Results
<1> QED BY <1>2, <1>6, <1>10, <1>14, Zenon DEF Inv

\* A batch is taken from the end of the queue: it is no larger than the queue, and what was
\* queued is either still queued or in the batch.
LEMMA TakeBatch ==
  ASSUME Inv, NEW t \in Threads, NEW total, NEW idle, NEW todo, NEW result, NEW others,
         Section(t, total, idle, todo, result, others), Take(t, total, idle, todo, result),
         nNow' = [nNow EXCEPT ![t] = BatchSize(total, idle)]
  PROVE  /\ nNow'[t] \in 1..nBatchSize /\ nNow'[t] \in 1..Len(queue) /\ nNow' \in [Threads -> 0..nBatchSize]
         /\ queue' \in Seq(Checks) /\ Len(queue') = Len(queue) - nNow'[t]
         /\ vChecks'[t] \in Seq(Checks) /\ Len(vChecks'[t]) = nNow'[t]
         /\ Bad(queue) <=> Bad(queue') \/ Bad(vChecks'[t])
         /\ \A i \in DOMAIN queue' : queue'[i].ses = session
         /\ \A i \in DOMAIN vChecks'[t] : vChecks'[t][i].ses = session
         /\ vChecks' = [vChecks EXCEPT ![t] = vChecks'[t]]
         /\ \A u \in Threads \ {t} : nNow'[u] = nNow[u]
<1> DEFINE b == BatchSize(total, idle)
           back == SubSeq(queue, Len(queue) - b + 1, Len(queue))
<1>0. nNow \in [Threads -> 0..nBatchSize] /\ vChecks \in [Threads -> CheckSeq]
  BY DEF Inv, Counting, TypeOK
<1>1. vChecks' = [vChecks EXCEPT ![t] = back] /\ queue' = SubSeq(queue, 1, Len(queue) - b) /\ queue # <<>>
  BY DEF Take
<1>2. total \in Nat /\ idle \in Nat
  BY SectionCounts, Zenon
<1>3. queue \in Seq(Checks)
  BY Numbers
<1>4. b \in 1..Len(queue) /\ b \in 1..nBatchSize
  BY <1>1, <1>2, <1>3, BatchSizeFits, Zenon
<1>5. nNow' = [nNow EXCEPT ![t] = b]
  OBVIOUS
<1>6. back = SubSeq(queue, Len(queue) - b + 1, Len(queue))
  OBVIOUS
<1> HIDE DEF b, back
<1>7. /\ nNow'[t] = b /\ nNow' \in [Threads -> 0..nBatchSize] /\ \A u \in Threads \ {t} : nNow'[u] = nNow[u]
  <2>1. b \in 0..nBatchSize
    BY <1>4, Constants
  <2> QED BY <1>0, <1>5, <2>1, Zenon
<1>8. vChecks'[t] = back
  BY <1>0, <1>1, ZenonT(60)
<1>9. \A i \in DOMAIN queue : queue[i].ses = session
  BY ZenonT(60) DEF Inv, Batches
<1>10. /\ queue' \in Seq(Checks) /\ Len(queue') = Len(queue) - b
       /\ back \in Seq(Checks) /\ Len(back) = b
       /\ Bad(queue) <=> Bad(queue') \/ Bad(back)
       /\ \A i \in DOMAIN queue' : queue'[i].ses = session
       /\ \A i \in DOMAIN back : back[i].ses = session
  BY <1>1, <1>3, <1>4, <1>6, <1>9, CutQueue, Zenon
<1> QED BY <1>1, <1>4, <1>7, <1>8, <1>10, Zenon

\* The sum of the queued and the outstanding checks is the same.
LEMMA TakeCounts ==
  ASSUME Inv, NEW t \in Threads, NEW total, NEW idle, NEW todo, NEW result, NEW others,
         Section(t, total, idle, todo, result, others), Take(t, total, idle, todo, result),
         pc' = [others EXCEPT ![t] = "execute"], nNow' = [nNow EXCEPT ![t] = BatchSize(total, idle)]
  PROVE  Counting'
<1>1. /\ do_work' = [do_work EXCEPT ![t] = result = None] /\ nIdle' = idle /\ nTotal' = total
      /\ nTodo' = todo /\ m_result' = result /\ returned' = returned
  BY DEF Take
<1>2. /\ nNow'[t] \in 1..nBatchSize /\ nNow'[t] \in 1..Len(queue) /\ nNow' \in [Threads -> 0..nBatchSize]
      /\ queue' \in Seq(Checks) /\ Len(queue') = Len(queue) - nNow'[t]
      /\ vChecks'[t] \in Seq(Checks) /\ Len(vChecks'[t]) = nNow'[t]
      /\ vChecks' = [vChecks EXCEPT ![t] = vChecks'[t]]
      /\ \A u \in Threads \ {t} : nNow'[u] = nNow[u]
  BY TakeBatch, Zenon
<1>3. pc' \in [Threads -> Places] /\ pc'[t] = "execute" /\ \A u \in Threads \ {t} : Stays(u)
  BY SectionOthers, Zenon
<1>4. /\ Idle' = Idle \ {t} /\ Counted' = Counted \cup {t}
      /\ Cardinality(Unfinished') = Cardinality(Unfinished) - Outstanding(t) + Outstanding(t)'
      /\ Cardinality(Unfinished) \in Nat /\ Outstanding(t) <= Cardinality(Unfinished)
  <2>1. \A u \in Threads \ {t} : pc'[u] = pc[u] \/ (pc[u] = "wait" /\ pc'[u] = "woken")
    BY <1>3 DEF Stays
  <2>2. Registered(t)'
    BY <1>3 DEF Registered
  <2> QED BY <1>2, <1>3, <2>1, <2>2, OthersCount, ZenonT(60)
<1>5. Outstanding(t)' = nNow'[t]
  BY <1>3, ZenonT(60) DEF Outstanding
<1>6. Outstanding(t) \in 0..nBatchSize /\ todo = nTodo - Outstanding(t) /\ result \in {None} \cup 1..MaxSessions
  BY SectionResult, ZenonT(60)
<1>7. /\ m_request_stop' = m_request_stop /\ m_control_mutex' = m_control_mutex /\ session' = session
      /\ added' = added /\ destructor' = destructor /\ local_result' \in [Threads -> {None} \cup 1..MaxSessions]
  BY DEF Section
<1>8. /\ nTodo' = Len(queue') + Cardinality(Unfinished') /\ nTodo' \in 0..MaxQueue /\ nTodo' <= Len(added')
      /\ Len(queue') <= MaxQueue /\ nNow'[t] <= MaxQueue
  <2>1. nNow'[t] \in Nat /\ nNow'[t] >= 1 /\ nNow'[t] <= Len(queue) /\ Outstanding(t) \in Nat
    BY <1>2, <1>6, Constants
  <2>2. nTodo' = nTodo - Outstanding(t) /\ Len(queue') = Len(queue) - nNow'[t]
    BY <1>1, <1>2, <1>6
  <2>3. Cardinality(Unfinished') = Cardinality(Unfinished) - Outstanding(t) + nNow'[t]
    BY <1>4, <1>5
  <2>4. Cardinality(Unfinished) \in Nat /\ Outstanding(t) <= Cardinality(Unfinished)
    BY <1>4
  <2>5. Len(queue) \in Nat /\ nTodo \in Nat /\ nTodo = Len(queue) + Cardinality(Unfinished)
    BY Numbers
  <2>6. nTodo <= Len(added) /\ Len(added) <= MaxQueue /\ Len(added) \in Nat /\ MaxQueue \in Nat
    BY Numbers
  <2>7. /\ nNow'[t] \in Nat /\ nNow'[t] >= 1 /\ nNow'[t] <= Len(queue) /\ Outstanding(t) \in Nat
        /\ Cardinality(Unfinished) \in Nat /\ Outstanding(t) <= Cardinality(Unfinished)
        /\ Len(queue) \in Nat /\ nTodo \in Nat /\ nTodo = Len(queue) + Cardinality(Unfinished)
        /\ nTodo <= Len(added) /\ Len(added) <= MaxQueue /\ Len(added) \in Nat /\ MaxQueue \in Nat
    BY <2>1, <2>4, <2>5, <2>6, Zenon
  <2>8. nTodo - Outstanding(t)
             = (Len(queue) - nNow'[t]) + (Cardinality(Unfinished) - Outstanding(t) + nNow'[t])
    BY <2>7
  <2>9. nTodo - Outstanding(t) \in 0..MaxQueue /\ nTodo - Outstanding(t) <= Len(added)
    BY <2>7
  <2>10. Len(queue) - nNow'[t] <= MaxQueue /\ nNow'[t] <= MaxQueue
    BY <2>7
  <2> QED BY <1>7, <2>2, <2>3, <2>8, <2>9, <2>10, Zenon
<1>9. queue' \in CheckSeq /\ vChecks'[t] \in CheckSeq
  BY <1>2, <1>8, CheckSeqIs, Zenon
<1>10. vChecks' \in [Threads -> CheckSeq] /\ do_work' \in [Threads -> BOOLEAN]
  <2>1. vChecks \in [Threads -> CheckSeq] /\ do_work \in [Threads -> BOOLEAN]
    BY ZenonT(60) DEF Inv, Counting, TypeOK
  <2> QED BY <1>1, <1>2, <1>9, <2>1, Zenon
<1>11. {nIdle', nTotal'} \subseteq 0..Cardinality(Threads) /\ nIdle' = Cardinality(Idle') /\ nTotal' = Cardinality(Counted')
  <2>1. /\ total \in 0..Cardinality(Threads) /\ idle \in 0..Cardinality(Threads)
        /\ total = Cardinality(Counted \cup {t}) /\ idle = Cardinality(Idle \ {t})
    BY SectionCounts, Zenon
  <2> QED BY <1>1, <1>4, <2>1, Zenon
<1>12. m_result' \in {None} \cup 1..MaxSessions /\ nNow' \in [Threads -> 0..nBatchSize]
  BY <1>1, <1>2, <1>6, ZenonT(60)
<1> QED BY <1>1, <1>3, <1>7, <1>8, <1>9, <1>10, <1>11, <1>12, Zenon DEF Inv, Counting, TypeOK, Places

\* What a step that takes a batch does, besides the counting.
Taken(t, result) ==
  /\ ~m_request_stop /\ m_request_stop' = m_request_stop /\ m_control_mutex # None
  /\ m_control_mutex' = m_control_mutex /\ session' = session /\ added' = added /\ destructor' = destructor
  /\ m_result' = result /\ result \in {None, session} /\ (result # None => Bad(added))
  /\ (result # None <=> m_result # None \/ Unpublished(t))
  /\ nNow'[t] # 0 /\ Len(vChecks'[t]) = nNow'[t] /\ vChecks[t] = <<>> /\ (do_work'[t] <=> result = None)
  /\ Bad(queue) <=> Bad(queue') \/ Bad(vChecks'[t])
  /\ \A i \in DOMAIN queue' : queue'[i].ses = session
  /\ \A i \in DOMAIN vChecks'[t] : vChecks'[t][i].ses = session
  /\ pc[t] \notin {"out", "left", "exit", "execute"} /\ pc'[t] = "execute"
  /\ \A m \in Masters : pc[m] # "left" /\ pc'[m] # "left"
  /\ \A u \in Threads \ {t} : /\ Undisturbed(u) /\ nNow'[u] = nNow[u] /\ local_result'[u] = local_result[u]
                              /\ do_work'[u] = do_work[u] /\ vChecks'[u] = vChecks[u]

\* Nobody enters or leaves.
LEMMA TakenRoles == ASSUME Inv, NEW t \in Threads, NEW result, Taken(t, result) PROVE Roles'
<1>1. ASSUME NEW u \in Threads \ {t}
      PROVE  /\ nNow'[u] = nNow[u]
             /\ pc'[u] \in {"out", "adding", "notify_one", "notify_all"} <=>
                  pc[u] \in {"out", "adding", "notify_one", "notify_all"}
             /\ pc'[u] = "exit" <=> pc[u] = "exit"
             /\ pc'[u] = "out" <=> pc[u] = "out"
             /\ pc'[u] \in {"lock", "wait", "woken", "execute", "exit"} <=>
                  pc[u] \in {"lock", "wait", "woken", "execute", "exit"}
  BY ZenonT(60) DEF Taken, Undisturbed
<1>2. pc[t] \notin {"out", "left", "exit", "execute"} /\ pc'[t] = "execute" /\ ~m_request_stop
  BY ZenonT(60) DEF Taken
<1>3. \A w \in Workers : pc'[w] \in {"lock", "wait", "woken", "execute", "exit"} /\ pc'[w] # "exit"
  BY <1>1, <1>2, Constants, ZenonT(60) DEF Inv, Roles
<1>4. \A m \in Masters : pc'[m] # "exit" /\ (pc'[m] # "out" <=> m_control_mutex = m)
  BY <1>1, <1>2, Constants DEF Inv, Roles
<1>5. \A m \in Masters : pc'[m] \in {"out", "adding", "notify_one", "notify_all"} => nNow'[m] = 0
  BY <1>1, <1>2, Constants, ZenonT(60) DEF Inv, Roles
<1> QED BY <1>3, <1>4, <1>5, ZenonT(60) DEF Inv, Roles, Taken

\* The batch holds checks of this session.
LEMMA TakenBatches == ASSUME Inv, NEW t \in Threads, NEW result, Taken(t, result) PROVE Batches'
<1>1. ASSUME NEW u \in Threads \ {t}
      PROVE  pc'[u] = "execute" <=> pc[u] = "execute"
  BY ZenonT(60) DEF Taken, Undisturbed
<1>2. ASSUME NEW u \in Threads \ {t} PROVE nNow'[u] = nNow[u] /\ vChecks'[u] = vChecks[u]
  BY ZenonT(60) DEF Taken
<1>3. \A u \in Threads : IF pc'[u] = "execute" THEN nNow'[u] # 0 /\ Len(vChecks'[u]) = nNow'[u]
                                               ELSE vChecks'[u] = <<>>
  <2>1. pc'[t] = "execute" /\ nNow'[t] # 0 /\ Len(vChecks'[t]) = nNow'[t]
    BY Zenon DEF Taken
  <2> QED BY <1>1, <1>2, <2>1 DEF Inv, Batches
<1>4. ASSUME NEW u \in Threads
      PROVE  (\A i \in DOMAIN vChecks'[u] : vChecks'[u][i].ses = session) /\ (Bad(vChecks'[u]) => Bad(added))
  <2>1. CASE u # t
    <3>1. vChecks'[u] = vChecks[u]
      BY <1>2, <2>1, Zenon
    <3>2. (\A i \in DOMAIN vChecks[u] : vChecks[u][i].ses = session) /\ (Bad(vChecks[u]) => Bad(added))
      BY Zenon DEF Inv, Batches
    <3> QED BY <3>1, <3>2, ZenonT(60)
  <2>2. CASE u = t
    BY <2>2 DEF Taken, Inv, Batches
  <2> QED BY <2>1, <2>2, ZenonT(60)
<1>5. /\ Bad(queue') => Bad(added)
      /\ \A i \in DOMAIN queue' : queue'[i].ses = session
      /\ session' = session /\ added' = added
  BY ZenonT(60) DEF Taken, Inv, Batches
<1> QED BY <1>3, <1>4, <1>5 DEF Inv, Batches, Bad

\* A failing check that was queued is queued or in the batch, which is executed unless a failure
\* is known already.
LEMMA TakenResults == ASSUME Inv, NEW t \in Threads, NEW result, Taken(t, result) PROVE Results'
<1>1. /\ m_result' = result /\ result \in {None, session} /\ (result # None => Bad(added))
      /\ (result # None <=> m_result # None \/ Unpublished(t))
      /\ session' = session /\ added' = added /\ (do_work'[t] <=> result = None) /\ vChecks[t] = <<>>
  BY ZenonT(60) DEF Taken
<1>2. ASSUME NEW u \in Threads \ {t}
      PROVE  /\ Working(u)' = Working(u) /\ Unpublished(u)' = Unpublished(u)
             /\ do_work'[u] = do_work[u] /\ vChecks'[u] = vChecks[u] /\ local_result'[u] = local_result[u]
  BY ZenonT(60) DEF Taken, Undisturbed
<1>3. ~Unpublished(t)'
  BY ZenonT(60) DEF Taken, Unpublished
<1>4. \A u \in Threads : Working(u)' /\ ~do_work'[u] => m_result' # None
  BY <1>1, <1>2, ZenonT(60) DEF Inv, Results
<1>5. \A u \in Threads : Unpublished(u)' => local_result'[u] = session /\ Bad(added)
  BY <1>2, <1>3, ZenonT(60) DEF Inv, Results
<1>6. ASSUME Bad(added)
      PROVE  \/ result # None \/ Bad(queue')
             \/ \E u \in Threads : Unpublished(u)' \/ (do_work'[u] /\ Bad(vChecks'[u]))
  <2>1. \/ m_result # None \/ Bad(queue)
        \/ \E u \in Threads : Unpublished(u) \/ (do_work[u] /\ Bad(vChecks[u]))
    <3>1. \A m \in Masters : pc[m] # "left"
      BY Zenon DEF Taken
    <3> QED BY <1>6, <3>1 DEF Inv, Results
  <2>2. CASE m_result # None \/ Unpublished(t)
    BY <1>1, <2>2
  <2>3. CASE Bad(queue)
    <3>1. Bad(queue') \/ Bad(vChecks'[t])
      BY <2>3, ZenonT(60) DEF Taken
    <3> QED BY <3>1, <1>1, ZenonT(60)
  <2>4. ASSUME NEW u \in Threads \ {t}, Unpublished(u) PROVE Unpublished(u)'
    BY <1>2, <2>4, ZenonT(60)
  <2>5. ASSUME NEW u \in Threads, do_work[u], Bad(vChecks[u]) PROVE do_work'[u] /\ Bad(vChecks'[u])
    <3>1. u # t
      BY <1>1, <2>5 DEF Bad
    <3> QED BY <1>2, <2>5, <3>1, ZenonT(60)
  <2> QED BY <2>1, <2>2, <2>3, <2>4, <2>5, ZenonT(60)
<1>7. ResultOfSession'
  BY ZenonT(60) DEF Taken, ResultOfSession
<1>8. /\ Bad(added)' <=> Bad(added)
      /\ Bad(queue)' <=> Bad(queue')
      /\ \A u \in Threads : Bad(vChecks[u])' <=> Bad(vChecks'[u])
  BY <1>1 DEF Bad
<1> QED BY <1>1, <1>4, <1>5, <1>6, <1>7, <1>8, ZenonT(60) DEF Results

\* A thread takes a batch.
LEMMA TakeKeeps ==
  ASSUME Inv, NEW t \in Threads, NEW total, NEW idle, NEW todo, NEW result, NEW others,
         Section(t, total, idle, todo, result, others), Take(t, total, idle, todo, result),
         pc' = [others EXCEPT ![t] = "execute"], nNow' = [nNow EXCEPT ![t] = BatchSize(total, idle)]
  PROVE  Inv'
<1>1. /\ do_work' = [do_work EXCEPT ![t] = result = None] /\ queue # <<>> /\ ~m_request_stop
      /\ m_result' = result
  BY Zenon DEF Take
<1>2. /\ nNow'[t] \in 1..nBatchSize /\ Len(vChecks'[t]) = nNow'[t]
      /\ Bad(queue) <=> Bad(queue') \/ Bad(vChecks'[t])
      /\ \A i \in DOMAIN queue' : queue'[i].ses = session
      /\ \A i \in DOMAIN vChecks'[t] : vChecks'[t][i].ses = session
      /\ vChecks' = [vChecks EXCEPT ![t] = vChecks'[t]]
      /\ \A u \in Threads \ {t} : nNow'[u] = nNow[u]
  BY TakeBatch, Zenon
<1>3. /\ \A u \in Threads \ {t} : do_work'[u] = do_work[u] /\ vChecks'[u] = vChecks[u]
      /\ do_work'[t] <=> result = None
  <2>1. vChecks \in [Threads -> CheckSeq] /\ do_work \in [Threads -> BOOLEAN]
    BY ZenonT(60) DEF Inv, Counting, TypeOK
  <2> QED BY <1>1, <1>2, <2>1, Zenon
<1>4. /\ m_request_stop' = m_request_stop /\ m_control_mutex' = m_control_mutex /\ session' = session
      /\ added' = added /\ destructor' = destructor /\ \A u \in Threads \ {t} : local_result'[u] = local_result[u]
  BY SMTT(30) DEF Section
<1>5. pc'[t] = "execute" /\ \A u \in Threads \ {t} : Undisturbed(u)
  <2>1. pc'[t] = "execute" /\ \A u \in Threads \ {t} : Stays(u)
    BY SectionOthers, ZenonT(60)
  <2> QED BY <1>2, <1>3, <1>4, <2>1, StaysUndisturbed, ZenonT(60)
<1>6. /\ result \in {None} \cup 1..MaxSessions /\ (result # None => Bad(added))
      /\ result \in {None, session} /\ (result # None <=> m_result # None \/ Unpublished(t))
      /\ vChecks[t] = <<>> /\ Outstanding(t) \in 0..nBatchSize /\ todo = nTodo - Outstanding(t)
      /\ pc[t] \notin {"out", "left", "exit", "execute"}
      /\ (m_control_mutex = None \/ \E m \in Masters : pc[m] = "left") =>
           nTodo = 0 /\ result = None /\ todo = 0 /\ queue = <<>>
  BY SectionResult, ZenonT(60)
<1>7. m_control_mutex # None /\ \A m \in Masters : pc[m] # "left" /\ pc'[m] # "left"
  BY <1>1, <1>5, <1>6, Constants, ZenonT(60) DEF Undisturbed
<1>8. nNow'[t] # 0
  BY <1>2, Constants
<1>9. Taken(t, result)
  BY <1>1, <1>2, <1>3, <1>4, <1>5, <1>6, <1>7, <1>8, Zenon DEF Taken
<1>10. Counting'
  BY TakeCounts, Zenon
<1>11. Roles' /\ Batches' /\ Results'
  BY <1>9, TakenRoles, TakenBatches, TakenResults, Zenon
<1> QED BY <1>10, <1>11 DEF Inv

\* What follows the clean-up or the wake-up keeps the invariant.
LEMMA ProceedKeeps ==
  ASSUME Inv, NEW t \in Threads, NEW total, NEW idle, NEW todo, NEW result, NEW others,
         Section(t, total, idle, todo, result, others), Proceed(t, total, idle, todo, result, others)
  PROVE  Inv'
<1>1. CASE Leave(t, total, idle, todo, result) /\ pc' = [others EXCEPT ![t] = "left"] /\ UNCHANGED nNow
  BY <1>1, LeaveKeeps, Zenon
<1>2. CASE Wait(t, total, idle, todo, result) /\ pc' = [others EXCEPT ![t] = "wait"] /\ UNCHANGED nNow
  BY <1>2, StayKeeps, Zenon DEF Wait
<1>3. CASE Stopped(t, total, idle, todo, result) /\ pc' = [others EXCEPT ![t] = "exit"] /\ UNCHANGED nNow
  BY <1>3, StayKeeps, Zenon DEF Stopped
<1>4. CASE /\ Take(t, total, idle, todo, result)
           /\ pc' = [others EXCEPT ![t] = "execute"]
           /\ nNow' = [nNow EXCEPT ![t] = BatchSize(total, idle)]
  BY <1>4, TakeKeeps, Zenon
<1> QED BY <1>1, <1>2, <1>3, <1>4, Zenon DEF Proceed

\* Entering the critical section from outside, after a batch or before the first one.
LEMMA LockKeeps == ASSUME Inv, NEW t \in Threads, Lock(t) PROVE Inv'
<1>0. /\ pc \in [Threads -> Places] /\ nNow \in [Threads -> 0..nBatchSize] /\ nTodo \in Int
      /\ local_result \in [Threads -> {None} \cup 1..MaxSessions] /\ session \in 0..MaxSessions
      /\ nIdle = Cardinality(Idle) /\ nTotal = Cardinality(Counted)
  BY Constants DEF Inv, Counting, TypeOK, Places
<1> DEFINE publish == nNow[t] # 0 /\ local_result[t] # None /\ m_result = None
           todo    == nTodo - nNow[t]
           total   == IF nNow[t] = 0 THEN nTotal + 1 ELSE nTotal
           result  == IF publish THEN local_result[t] ELSE m_result
<1>1. /\ pc[t] = "lock"
      /\ local_result' = IF publish THEN [local_result EXCEPT ![t] = None] ELSE local_result
      /\ UNCHANGED <<m_request_stop, m_control_mutex, session, added, destructor>>
  BY Zenon DEF Lock, controlVars
<1>2. PICK S \in NotifyFinished(t, todo) : Proceed(t, total, nIdle, todo, result, Woken(S))
  BY ZenonT(60) DEF Lock
<1>3. S \subseteq Threads /\ \A u \in S : pc[u] = "wait"
  BY <1>2, Constants DEF NotifyFinished, NotifyOneOf, WaitingMasters
<1>4. /\ Woken(S) \in [Threads -> Places]
      /\ \A u \in Threads \ {t} : Woken(S)[u] = pc[u] \/ (pc[u] = "wait" /\ Woken(S)[u] = "woken")
  BY <1>0, <1>3 DEF Woken, Places
<1>5. Idle \in SUBSET Threads /\ Counted \in SUBSET Threads /\ t \notin Idle /\ (t \in Counted <=> nNow[t] # 0)
  BY <1>1, Zenon DEF Idle, Counted, Registered
<1>6. total = Cardinality(Counted \cup {t}) /\ nIdle = Cardinality(Idle \ {t})
  BY <1>0, <1>5, CountThreads, Zenon
<1>7. todo = nTodo - Outstanding(t)
  BY <1>1, Zenon DEF Outstanding
<1>8. ASSUME nNow[t] # 0, local_result[t] # None, m_result = None PROVE Unpublished(t)
  BY <1>1, <1>8, ZenonT(60) DEF Inv, Results, Working, Unpublished
<1>9. result \in {None, session} /\ (result # None <=> m_result # None \/ Unpublished(t))
  BY <1>8, ZenonT(60) DEF Inv, Results, Unpublished
<1>10. local_result' \in [Threads -> {None} \cup 1..MaxSessions]
       /\ \A u \in Threads \ {t} : local_result'[u] = local_result[u]
  BY <1>0, <1>1, ZenonT(60)
<1>11. Section(t, total, nIdle, todo, result, Woken(S))
  BY <1>1, <1>4, <1>6, <1>7, <1>9, <1>10, ZenonT(60) DEF Section
<1> HIDE DEF publish, todo, total, result
<1> QED BY <1>2, <1>11, ProceedKeeps, Zenon

\* Returning from cond.wait.
LEMMA WakeKeeps == ASSUME Inv, NEW t \in Threads, Wake(t) PROVE Inv'
<1>0. /\ pc \in [Threads -> Places] /\ nTodo \in Int
      /\ local_result \in [Threads -> {None} \cup 1..MaxSessions] /\ session \in 0..MaxSessions
      /\ nIdle = Cardinality(Idle) /\ nTotal = Cardinality(Counted)
  BY Constants DEF Inv, Counting, TypeOK, Places
<1>1. /\ pc[t] = "woken" /\ Proceed(t, nTotal, nIdle - 1, nTodo, m_result, pc)
      /\ UNCHANGED <<m_request_stop, m_control_mutex, session, added, destructor>> /\ local_result' = local_result
  BY DEF Wake, controlVars
<1>2. Idle \in SUBSET Threads /\ Counted \in SUBSET Threads /\ t \in Idle /\ t \in Counted
  BY <1>1, Zenon DEF Idle, Counted, Registered
<1>3. nTotal = Cardinality(Counted \cup {t}) /\ nIdle - 1 = Cardinality(Idle \ {t})
  BY <1>0, <1>2, CountThreads, Zenon
<1>4. nTodo = nTodo - Outstanding(t) /\ ~Unpublished(t)
  BY <1>0, <1>1 DEF Outstanding, Unpublished
<1>5. m_result \in {None, session}
  BY DEF Inv, Results
<1>6. \A u \in Threads \ {t} : pc[u] = pc[u] \/ (pc[u] = "wait" /\ pc[u] = "woken")
  OBVIOUS
<1>7. Section(t, nTotal, nIdle - 1, nTodo, m_result, pc)
  BY <1>0, <1>1, <1>3, <1>4, <1>5, <1>6 DEF Section
<1> QED BY <1>1, <1>7, ProceedKeeps, Zenon


-----------------------------------------------------------------------------
(* The invariant.                                                           *)

\* The workers start at the lock and the masters outside.
LEMMA InitInv == ASSUME Init PROVE Inv
<1>1. /\ queue = <<>> /\ nIdle = 0 /\ nTotal = 0 /\ nTodo = 0 /\ m_result = None /\ m_request_stop = FALSE
      /\ m_control_mutex = None /\ session = 0 /\ added = <<>> /\ destructor = "none"
      /\ pc = [t \in Threads |-> IF t \in Workers THEN "lock" ELSE "out"]
      /\ vChecks = [t \in Threads |-> <<>>] /\ nNow = [t \in Threads |-> 0]
      /\ local_result = [t \in Threads |-> None] /\ do_work = [t \in Threads |-> FALSE]
      /\ returned = [t \in Masters |-> None]
  BY DEF Init
<1>2. \A t \in Threads : Outstanding(t) = 0 /\ ~Registered(t) /\ ~Working(t) /\ ~Unpublished(t)
  BY <1>1 DEF Outstanding, Registered, Working, Unpublished
<1>3. Idle = {} /\ Counted = {} /\ Unfinished = {}
  BY <1>1, <1>2 DEF Idle, Counted, Unfinished
<1>4. Cardinality({}) = 0 /\ Cardinality(Threads) \in Nat
  BY CountFacts, Zenon
<1>5. TypeOK
  <2>1. do_work \in [Threads -> BOOLEAN]
    BY <1>1
  <2>2. {nIdle, nTotal} \subseteq 0..Cardinality(Threads) /\ nTodo \in 0..MaxQueue /\ session \in 0..MaxSessions
    BY <1>1, <1>4, Constants
  <2>3. queue \in CheckSeq /\ added \in CheckSeq /\ vChecks \in [Threads -> CheckSeq]
    BY <1>1, EmptyList
  <2>4. nNow \in [Threads -> 0..nBatchSize]
    BY <1>1, Constants
  <2> QED BY <1>1, <2>1, <2>2, <2>3, <2>4, Zenon DEF TypeOK
<1>6. Counting
  <2>1. /\ nTodo = Len(queue) + Cardinality(Unfinished) /\ nTodo <= Len(added)
        /\ nIdle = Cardinality(Idle) /\ nTotal = Cardinality(Counted)
    BY <1>1, <1>3, <1>4
  <2> QED BY <1>5, <2>1, Zenon DEF Counting
<1>7. Roles
  BY <1>1, Constants DEF Roles
<1>8. ~Bad(<<>>)
  BY EmptyList
<1>9. Batches
  BY <1>1, <1>8, Constants, EmptyList DEF Batches
<1>10. Results
  BY <1>1, <1>2, <1>8, Constants, ZenonT(20) DEF Results, ResultOfSession
<1> QED BY <1>6, <1>7, <1>9, <1>10 DEF Inv

\* Every step preserves the invariant.
LEMMA NextInv == ASSUME Inv, [Next]_vars PROVE Inv'
<1>1. ASSUME NEW t \in Threads, ThreadStep(t) PROVE Inv'
  BY <1>1, LockKeeps, WakeKeeps, ExecuteKeeps, ZenonT(20) DEF ThreadStep
<1>2. ASSUME NEW t \in Threads, SpuriousWake(t) PROVE Inv'
  BY <1>2, QuietSteps
<1>3. ASSUME NEW m \in Masters, Control(m) \/ Add(m) PROVE Inv'
  BY <1>3, ControlKeeps, AddKeeps
<1>4. ASSUME NEW m \in Masters, MasterStep(m) PROVE Inv'
  BY <1>4, QuietSteps, ReleaseKeeps DEF MasterStep
<1>5. ASSUME RequestStop \/ DestructorStep PROVE Inv'
  BY <1>5, RequestStopKeeps, QuietSteps DEF DestructorStep
<1>6. ASSUME UNCHANGED vars PROVE Inv'
  BY <1>6, QuietSteps
<1> QED BY <1>1, <1>2, <1>3, <1>4, <1>5, <1>6, ZenonT(20) DEF Next

\* The invariant holds always.
LEMMA Always == Spec => []Inv
<1>1. Init => Inv
  BY InitInv
<1>2. Inv /\ [Next]_vars => Inv'
  BY NextInv
<1> QED BY <1>1, <1>2, PTL DEF Spec

-----------------------------------------------------------------------------
(* What the class promises.                                                 *)

\* For any numbers of workers, masters and checks, nTodo, nIdle and nTotal agree with what the
\* threads are doing between any two critical sections of Loop and Add.
THEOREM QueueCountsExactly == Spec => []CountersExact
<1>1. Inv => CountersExact
  BY InvCounters, ZenonT(20)
<1> QED BY <1>1, Always, PTL

\* Complete returns no failure exactly when no check added through its control fails, and
\* otherwise a failure of this control, however the batches were divided between the threads.
THEOREM CompleteIsExact == Spec => []ResultOfSession
<1>1. Inv => ResultOfSession
  BY DEF Inv, Results
<1> QED BY <1>1, Always, PTL

\* Loop executes only checks of the control that is open, and when Complete returns no check is
\* queued or running.
THEOREM ChecksStayInSession == Spec => []BatchesOfThisSession
<1>1. Inv => BatchesOfThisSession
  BY InvBatches
<1> QED BY <1>1, Always, PTL
=============================================================================
