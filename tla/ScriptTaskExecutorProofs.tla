---------------------- MODULE ScriptTaskExecutorProofs ----------------------
(***************************************************************************)
(* ThreadPool and ThreadPoolScriptTaskExecutor keep their promises for any  *)
(* number of workers, callers and tasks.                                    *)
(***************************************************************************)
EXTENDS ScriptTaskExecutor, CountingLemmas

Places == {"none", "loop", "wait", "run", "exited"}
Outcomes == {"ok", "error", "throws"}

-----------------------------------------------------------------------------
(* The inductive invariant.                                                 *)

\* What is accepted and what is being packaged stay within the bound.
Sums ==
  /\ accepted + Cardinality(Packaged) <= MaxTasks
  /\ \A c \in Callers : submit[c].n \in 0..MaxTasks

\* A task is accepted and not done exactly when it is in the queue or executed, in one place.
Placed ==
  /\ \A i, j \in DOMAIN m_work_queue : m_work_queue[i] = m_work_queue[j] => i = j
  /\ \A e, f \in Executors : running[e] # None /\ running[e] = running[f] => e = f
  /\ \A e \in Executors : \A i \in DOMAIN m_work_queue : running[e] # m_work_queue[i]
  /\ \A k \in Tasks : (k <= accepted /\ outcome[k] = None) <=>
       ((\E i \in DOMAIN m_work_queue : m_work_queue[i] = k) \/ (\E e \in Executors : running[e] = k))
  /\ \A k \in Tasks : k > accepted => outcome[k] = None

\* While the queue is not empty all the workers are there, or the controller has yet to drain
\* it; a worker that has left saw the queue empty and the pool interrupted.
Staffed ==
  /\ running[Stopper] # None <=> stop = "run"
  /\ stop # "idle" => m_workers = {} /\ m_interrupt
  /\ m_workers # {} => \A w \in Workers : pc[w] # "none"
  /\ m_workers = {} /\ stop = "idle" => \A w \in Workers : pc[w] = "none"
  /\ m_workers = {} /\ stop \in {"idle", "join", "reset"} => m_work_queue = <<>>
  /\ \A w \in Workers : pc[w] = "exited" => m_interrupt /\ m_work_queue = <<>>
  /\ stop = "reset" => \A w \in Workers : pc[w] = "none"
  /\ stop # "idle" /\ threads_to_join = {} => \A w \in Workers : pc[w] = "none"

PoolInv == PoolTypeOK /\ Sums /\ Placed /\ Staffed

\* The tasks that the futures from first on belong to, up to the i-th.
Own(b, i) == b.first..(b.first + i - 1)

\* The futures a caller has passed are ready and gave no exception, and its verdict fits its
\* tasks.
Fits(c) ==
  LET b == batch[c]
  IN  /\ b.next <= b.n /\ b.first + b.n - 1 <= accepted
      /\ submit[c].at # "idle" => result[c] = None
      /\ submit[c].at = "checked" => b.next = 0 /\ ~b.first_error /\ submit[c].n \in 1..MaxRange
      /\ submit[c].at \in {"notify", "queued"} => b.n # 0
      /\ \A k \in Own(b, b.next) : outcome[k] \in {"ok", "error"}
      /\ b.first_error <=> \E k \in Own(b, b.next) : outcome[k] = "error"
      /\ result[c] = "ok" => b.n # 0 /\ \A k \in Own(b, b.n) : outcome[k] = "ok"
      /\ result[c] = "error" => /\ \A k \in Own(b, b.n) : outcome[k] \in {"ok", "error"}
                                /\ \E k \in Own(b, b.n) : outcome[k] = "error"
      /\ result[c] = "system_error" => \E k \in Own(b, b.n) : outcome[k] = "throws"

Batches == [first : 1..(MaxTasks + 1), n : 0..MaxRange, next : 0..MaxRange, first_error : BOOLEAN]
Verdicts == {None, "submit_failed", "ok", "error", "system_error"}

Judged ==
  /\ batch \in [Submitters -> Batches] /\ result \in [Submitters -> Verdicts]
  /\ \A c \in Submitters : Fits(c)

Inv == PoolInv /\ Judged

-----------------------------------------------------------------------------
(* Constants.                                                               *)

\* The constants.
LEMMA Constants ==
  /\ IsFiniteSet(Callers) /\ MaxTasks \in Nat /\ MaxRange \in Nat \ {0} /\ Workers # {}
  /\ Workers \subseteq Callers /\ Submitters \subseteq Callers /\ Workers \cap Submitters = {}
  /\ Workers \subseteq Executors /\ Stopper \in Executors /\ Stopper \notin Workers
  /\ Executors = Workers \cup {Stopper}
  /\ None \notin Tasks /\ Tasks = 1..MaxTasks
<1>1. IsFiniteSet(Callers)
  BY PoolAssumption, UnionFinite DEF Callers
<1> QED BY <1>1, PoolAssumption, RangeAssumption DEF Callers, Executors, Tasks

\* How much a call of Submit is packaging.
Share(s) == IF s.at = "checked" THEN s.n ELSE 0
Shares(f) == {x \in Callers \X Tasks : f[x[1]].at = "checked" /\ x[2] <= f[x[1]].n}
Submits == [at : {"idle", "checked", "notify", "queued", "rejected"}, n : 0..MaxTasks]

\* When one caller makes a step, only its share changes.
LEMMA SharesChange ==
  ASSUME NEW f \in [Callers -> Submits], NEW g \in [Callers -> Submits], NEW c \in Callers,
         \A u \in Callers \ {c} : g[u] = f[u]
  PROVE  /\ Cardinality(Shares(f)) \in Nat /\ Share(f[c]) <= Cardinality(Shares(f))
         /\ Cardinality(Shares(g)) = Cardinality(Shares(f)) - Share(f[c]) + Share(g[c])
<1> DEFINE H(h) == [u \in Callers |-> Share(h[u])]
<1>1. H(f) \in [Callers -> 0..MaxTasks] /\ H(g) \in [Callers -> 0..MaxTasks]
  BY Constants DEF Share, Submits
<1>2. \A u \in Callers \ {c} : H(g)[u] = H(f)[u]
  OBVIOUS
<1>3. H(f)[c] = Share(f[c]) /\ H(g)[c] = Share(g[c])
  OBVIOUS
<1>4. ASSUME NEW h \in [Callers -> Submits] PROVE Shares(h) = Pairs(Callers, MaxTasks, H(h))
  <2>1. ASSUME NEW x \in Callers \X (1..MaxTasks)
        PROVE  (h[x[1]].at = "checked" /\ x[2] <= h[x[1]].n) <=> x[2] <= H(h)[x[1]]
    BY Constants DEF Share, Submits
  <2> HIDE DEF H
  <2> QED BY <2>1, Constants, Zenon DEF Shares, Pairs
<1> HIDE DEF H
<1>5. IsFiniteSet(Callers) /\ MaxTasks \in Nat
  BY Constants
<1>6. /\ Cardinality(Pairs(Callers, MaxTasks, H(f))) \in Nat
      /\ Cardinality(Pairs(Callers, MaxTasks, H(g))) = Cardinality(Pairs(Callers, MaxTasks, H(f))) - H(f)[c] + H(g)[c]
      /\ H(f)[c] <= Cardinality(Pairs(Callers, MaxTasks, H(f)))
  <2> DEFINE A == H(f)
             B == H(g)
  <2>1. /\ A \in [Callers -> 0..MaxTasks] /\ B \in [Callers -> 0..MaxTasks]
        /\ \A u \in Callers \ {c} : B[u] = A[u]
    BY <1>1, <1>2, Zenon
  <2> HIDE DEF A, B
  <2>2. Cardinality(Pairs(Callers, MaxTasks, A)) \in Nat
    BY <1>5, <2>1, PairsChange, Zenon
  <2>3. SumChanges(Callers, MaxTasks, A, B, c)
    BY <1>5, <2>1, PairsChange, Zenon
  <2>4. A[c] <= Cardinality(Pairs(Callers, MaxTasks, A))
    BY <1>5, <2>1, PairsChange, Zenon
  <2> QED BY <2>2, <2>3, <2>4, Zenon DEF A, B, SumChanges
<1> QED BY <1>3, <1>4, <1>6, Zenon

-----------------------------------------------------------------------------
(* The places of the tasks.                                                 *)

\* A step that moves no task.
LEMMA PlacedSame == ASSUME Placed, UNCHANGED <<m_work_queue, running, accepted, outcome>> PROVE Placed'
BY Zenon DEF Placed

\* The first task leaves the queue for the thread that takes it.
LEMMA TakePlaces ==
  ASSUME PoolTypeOK, Placed, NEW e \in Executors, running[e] = None, m_work_queue # <<>>, TakeTask(e),
         UNCHANGED <<accepted, outcome>>
  PROVE  /\ Placed' /\ m_work_queue' \in Seq(Tasks) /\ running' \in [Executors -> Tasks \cup {None}]
         /\ running'[e] # None /\ \A f \in Executors \ {e} : running'[f] = running[f]
<1> DEFINE q == m_work_queue
           h == Head(m_work_queue)
<1>1. q \in Seq(Tasks) /\ Len(q) \in Nat /\ Len(q) >= 1 /\ DOMAIN q = 1..Len(q) /\ q[1] \in Tasks /\ h = q[1]
  BY DEF PoolTypeOK
<1>2. /\ q' \in Seq(Tasks) /\ DOMAIN q' = 1..(Len(q) - 1)
      /\ \A i \in 1..(Len(q) - 1) : q'[i] = q[i + 1]
  BY <1>1 DEF TakeTask
<1>3. /\ running' \in [Executors -> Tasks \cup {None}] /\ running'[e] = q[1] /\ q[1] # None
      /\ \A f \in Executors \ {e} : running'[f] = running[f]
  BY <1>1, Constants DEF TakeTask, PoolTypeOK
<1> HIDE DEF q, h
<1>4. \A i \in 1..(Len(q) - 1) : i + 1 \in 1..Len(q) /\ i + 1 # 1
  BY <1>1
<1>5. \A i, j \in 1..Len(q) : q[i] = q[j] => i = j
  BY <1>1, Zenon DEF Placed, q
<1>6. \A i, j \in DOMAIN q' : q'[i] = q'[j] => i = j
  <2> SUFFICES ASSUME NEW i \in 1..(Len(q) - 1), NEW j \in 1..(Len(q) - 1), q'[i] = q'[j] PROVE i = j
    BY <1>2
  <2>1. i + 1 = j + 1
    BY <1>2, <1>4, <1>5, Zenon
  <2> QED BY <2>1, <1>1
<1>7. 1 \in 1..Len(q)
  BY <1>1
<1>8. \A i \in DOMAIN q' : q'[i] # q[1]
  BY <1>2, <1>4, <1>5, <1>7
<1>9. \A f \in Executors : \A i \in 1..Len(q) : running[f] # q[i]
  BY <1>1, Zenon DEF Placed, q
<1>10. \A f, g \in Executors : running'[f] # None /\ running'[f] = running'[g] => f = g
  <2>1. \A f, g \in Executors : running[f] # None /\ running[f] = running[g] => f = g
    BY DEF Placed
  <2> QED BY <1>3, <1>7, <1>9, <2>1
<1>11. \A f \in Executors : \A i \in DOMAIN q' : running'[f] # q'[i]
  BY <1>2, <1>3, <1>4, <1>8, <1>9
<1>12. ASSUME NEW k \in Tasks
       PROVE  ((\E i \in DOMAIN q : q[i] = k) \/ (\E f \in Executors : running[f] = k)) <=>
              ((\E i \in DOMAIN q' : q'[i] = k) \/ (\E f \in Executors : running'[f] = k))
  <2>1. ASSUME NEW i \in 1..Len(q), q[i] = k
        PROVE  (\E j \in DOMAIN q' : q'[j] = k) \/ (\E f \in Executors : running'[f] = k)
    <3>1. CASE i = 1
      BY <1>3, <2>1, <3>1, Zenon
    <3>2. CASE i # 1
      <4>1. i - 1 \in 1..(Len(q) - 1) /\ (i - 1) + 1 = i
        BY <1>1, <3>2
      <4> QED BY <1>2, <2>1, <4>1, Zenon
    <3> QED BY <3>1, <3>2
  <2>2. ASSUME NEW f \in Executors, running[f] = k PROVE \E g \in Executors : running'[g] = k
    <3>1. f # e
      BY <2>2, Constants
    <3> QED BY <1>3, <2>2, <3>1, Zenon
  <2>3. ASSUME NEW i \in DOMAIN q', q'[i] = k PROVE \E j \in DOMAIN q : q[j] = k
    BY <1>1, <1>2, <1>4, <2>3, Zenon
  <2>4. ASSUME NEW f \in Executors, running'[f] = k
        PROVE  (\E i \in DOMAIN q : q[i] = k) \/ (\E g \in Executors : running[g] = k)
    BY <1>1, <1>3, <1>7, <2>4, Zenon
  <2> QED BY <1>1, <2>1, <2>2, <2>3, <2>4, Zenon
<1>13. Placed'
  BY <1>6, <1>10, <1>11, <1>12, Zenon DEF Placed, q
<1> QED BY <1>2, <1>3, <1>13, Zenon DEF q

\* A task that returns has its outcome, and is nowhere any more.
LEMMA FinishPlaces ==
  ASSUME PoolTypeOK, Placed, NEW e \in Executors, FinishTask(e), UNCHANGED <<m_work_queue, accepted>>
  PROVE  /\ Placed' /\ running' \in [Executors -> Tasks \cup {None}] /\ running'[e] = None
         /\ \A f \in Executors \ {e} : running'[f] = running[f]
         /\ outcome' \in [Tasks -> {None} \cup Outcomes]
         /\ \A k \in Tasks : outcome[k] # None => outcome'[k] = outcome[k]
<1> DEFINE r == running[e]
<1>1. /\ r \in Tasks /\ outcome \in [Tasks -> {None} \cup Outcomes]
      /\ running \in [Executors -> Tasks \cup {None}] /\ accepted \in Nat /\ Tasks \subseteq Nat
  BY Constants DEF FinishTask, PoolTypeOK, Outcomes
<1>2. PICK o \in Outcomes : outcome' = [outcome EXCEPT ![r] = o]
  BY Zenon DEF FinishTask, Outcomes
<1>3. /\ outcome' \in [Tasks -> {None} \cup Outcomes] /\ outcome'[r] = o
      /\ \A k \in Tasks \ {r} : outcome'[k] = outcome[k]
  BY <1>1, <1>2
<1>4. /\ running' \in [Executors -> Tasks \cup {None}] /\ running'[e] = None
      /\ \A f \in Executors \ {e} : running'[f] = running[f]
  BY <1>1 DEF FinishTask
<1>5. o # None
  BY PoolAssumption DEF Outcomes
<1>6. r # None
  BY DEF FinishTask
<1> HIDE DEF r
<1>7. r <= accepted /\ outcome[r] = None
  BY <1>1, Zenon DEF Placed, r
<1>8. \A f \in Executors : running'[f] # r
  <2>1. \A f \in Executors : running[f] # None /\ running[f] = running[e] => f = e
    BY Zenon DEF Placed
  <2> QED BY <1>4, <1>6, <2>1 DEF r
<1>9. \A i \in DOMAIN m_work_queue : m_work_queue[i] # r
  BY Zenon DEF Placed, r
<1>10. /\ \A i, j \in DOMAIN m_work_queue : m_work_queue[i] = m_work_queue[j] => i = j
       /\ \A f, g \in Executors : running[f] # None /\ running[f] = running[g] => f = g
       /\ \A f \in Executors : \A i \in DOMAIN m_work_queue : running[f] # m_work_queue[i]
  BY Zenon DEF Placed
<1>11. \A f, g \in Executors : running'[f] # None /\ running'[f] = running'[g] => f = g
  BY <1>4, <1>10
<1>12. \A f \in Executors : \A i \in DOMAIN m_work_queue : running'[f] # m_work_queue[i]
  <2>1. \A i \in DOMAIN m_work_queue : m_work_queue[i] \in Tasks
    BY DEF PoolTypeOK
  <2> QED BY <1>4, <1>10, <2>1, Constants
<1>13. ASSUME NEW k \in Tasks
       PROVE  (k <= accepted /\ outcome'[k] = None) <=>
              ((\E i \in DOMAIN m_work_queue : m_work_queue[i] = k) \/ (\E f \in Executors : running'[f] = k))
  <2>1. CASE k = r
    BY <1>3, <1>5, <1>8, <1>9, <2>1, Zenon
  <2>2. CASE k # r
    <3>1. (\E f \in Executors : running'[f] = k) <=> (\E f \in Executors : running[f] = k)
      <4>1. k # None
        BY Constants
      <4> QED BY <1>4, <2>2, <4>1, Zenon DEF r
    <3> QED BY <1>3, <2>2, <3>1, Zenon DEF Placed
  <2> QED BY <2>1, <2>2
<1>14. \A k \in Tasks : k > accepted => outcome'[k] = None
  <2>1. ASSUME NEW k \in Tasks, k > accepted PROVE k # r
    BY <1>1, <1>7, <2>1
  <2> QED BY <1>3, <2>1, Zenon DEF Placed
<1>15. Placed'
  BY <1>10, <1>11, <1>12, <1>13, <1>14, ZenonT(60) DEF Placed
<1> QED BY <1>3, <1>4, <1>7, <1>15, Zenon

\* Accepted tasks get the next numbers, at the back of the queue.
LEMMA QueuePlaces ==
  ASSUME PoolTypeOK, Placed, NEW n \in Nat, accepted + n <= MaxTasks, accepted' = accepted + n,
         m_work_queue' = m_work_queue \o [i \in 1..n |-> accepted + i], UNCHANGED <<running, outcome>>
  PROVE  Placed' /\ m_work_queue' \in Seq(Tasks) /\ accepted' \in 0..MaxTasks
<1> DEFINE q == m_work_queue
           new == [i \in 1..n |-> accepted + i]
<1>1. q \in Seq(Tasks) /\ Len(q) \in Nat /\ DOMAIN q = 1..Len(q) /\ accepted \in Nat /\ MaxTasks \in Nat
  BY Constants DEF PoolTypeOK
<1>2. \A i \in 1..n : accepted + i \in Tasks
  BY <1>1, Constants
<1>3. new \in Seq(Tasks) /\ Len(new) = n
  <2>1. new \in [1..n -> Tasks]
    BY <1>2
  <2> QED BY <2>1
<1>4. \A i \in 1..n : new[i] = accepted + i
  OBVIOUS
<1>5. q' = q \o new
  OBVIOUS
<1> HIDE DEF q, new
<1>6. /\ q' \in Seq(Tasks) /\ DOMAIN q' = 1..(Len(q) + n)
      /\ \A i \in 1..(Len(q) + n) : q'[i] = IF i <= Len(q) THEN q[i] ELSE new[i - Len(q)]
  BY <1>1, <1>3, <1>5
<1>7. \A i \in 1..Len(q) : i \in DOMAIN q' /\ q'[i] = q[i]
  BY <1>1, <1>6
<1>8. ASSUME NEW i \in DOMAIN q', i \notin 1..Len(q)
      PROVE  q'[i] = accepted + (i - Len(q)) /\ i - Len(q) \in 1..n /\ q'[i] > accepted /\ q'[i] <= accepted + n
  <2>1. i - Len(q) \in 1..n /\ ~(i <= Len(q)) /\ i \in 1..(Len(q) + n)
    BY <1>1, <1>6, <1>8
  <2>2. q'[i] = accepted + (i - Len(q))
    BY <1>4, <1>6, <2>1, Zenon
  <2> QED BY <1>1, <2>1, <2>2
<1>9. \A i \in 1..Len(q) : q[i] \in Tasks /\ q[i] <= accepted
  <2>1. \A i \in 1..Len(q) : q[i] \in Tasks
    BY <1>1
  <2> QED BY <1>1, <2>1, Zenon DEF Placed, q
<1>10. \A i, j \in DOMAIN q' : q'[i] = q'[j] => i = j
  <2> SUFFICES ASSUME NEW i \in DOMAIN q', NEW j \in DOMAIN q', q'[i] = q'[j] PROVE i = j
    OBVIOUS
  <2>1. CASE i \in 1..Len(q) /\ j \in 1..Len(q)
    BY <1>1, <1>7, <2>1, ZenonT(60) DEF Placed, q
  <2>2. CASE i \in 1..Len(q) /\ j \notin 1..Len(q)
    BY <1>1, <1>7, <1>8, <1>9, <2>2 DEF Tasks
  <2>3. CASE i \notin 1..Len(q) /\ j \in 1..Len(q)
    BY <1>1, <1>7, <1>8, <1>9, <2>3 DEF Tasks
  <2>4. CASE i \notin 1..Len(q) /\ j \notin 1..Len(q)
    <3>1. q'[i] = accepted + (i - Len(q)) /\ q'[j] = accepted + (j - Len(q))
      BY <1>8, <2>4, Zenon
    <3>2. i \in Int /\ j \in Int /\ Len(q) \in Int /\ accepted \in Int
      BY <1>1, <1>6
    <3>3. accepted + (i - Len(q)) = accepted + (j - Len(q))
      BY <3>1, Zenon
    <3> QED BY ONLY <3>2, <3>3
  <2> QED BY <2>1, <2>2, <2>3, <2>4
<1>11. \A f \in Executors : running[f] \in Tasks => running[f] <= accepted /\ outcome[running[f]] = None
  BY Zenon DEF Placed
<1>12. ASSUME NEW f \in Executors, NEW i \in DOMAIN q' PROVE running[f] # q'[i]
  <2>1. CASE i \in 1..Len(q)
    <3>1. running[f] # q[i]
      BY <1>1, <2>1, Zenon DEF Placed, q
    <3> QED BY <1>7, <2>1, <3>1, Zenon
  <2>2. CASE i \notin 1..Len(q)
    <3>1. q'[i] \in Tasks /\ ~(q'[i] <= accepted)
      <4>1. q'[i] \in Tasks
        BY <1>6
      <4>2. q'[i] > accepted
        BY <1>8, <2>2, Zenon
      <4> QED BY <1>1, <4>1, <4>2 DEF Tasks
    <3> QED BY <1>11, <3>1, Zenon
  <2> QED BY <2>1, <2>2
<1>13. ASSUME NEW k \in Tasks
       PROVE  (k <= accepted + n /\ outcome[k] = None) <=>
              ((\E i \in DOMAIN q' : q'[i] = k) \/ (\E f \in Executors : running[f] = k))
  <2>1. (k <= accepted /\ outcome[k] = None) <=>
        ((\E i \in DOMAIN q : q[i] = k) \/ (\E f \in Executors : running[f] = k))
    BY Zenon DEF Placed, q
  <2>2. CASE k <= accepted
    <3>1. k <= accepted + n
      BY <1>1, <2>2 DEF Tasks
    <3>2. (\E i \in DOMAIN q' : q'[i] = k) <=> (\E i \in DOMAIN q : q[i] = k)
      <4>1. ASSUME NEW i \in DOMAIN q', q'[i] = k PROVE i \in 1..Len(q)
        BY <1>1, <1>8, <2>2, <4>1 DEF Tasks
      <4> QED BY <1>1, <1>7, <4>1, Zenon
    <3> QED BY <2>1, <2>2, <3>1, <3>2, Zenon
  <2>3. CASE k > accepted
    <3>1. outcome[k] = None
      BY <2>3, Zenon DEF Placed
    <3>2. ~(k <= accepted)
      BY <1>1, <2>3 DEF Tasks
    <3>3. ASSUME k <= accepted + n PROVE \E i \in DOMAIN q' : q'[i] = k
      <4>1. /\ Len(q) + (k - accepted) \in 1..(Len(q) + n) /\ Len(q) + (k - accepted) \notin 1..Len(q)
            /\ accepted + ((Len(q) + (k - accepted)) - Len(q)) = k
        BY <1>1, <2>3, <3>3 DEF Tasks
      <4> QED BY <1>6, <1>8, <4>1, Zenon
    <3>4. ASSUME NEW i \in DOMAIN q', q'[i] = k PROVE k <= accepted + n
      BY <1>7, <1>8, <1>9, <3>2, <3>4, Zenon
    <3> QED BY <2>1, <3>1, <3>2, <3>3, <3>4, Zenon
  <2>4. k <= accepted \/ k > accepted
    BY <1>1 DEF Tasks
  <2> QED BY <2>2, <2>3, <2>4
<1>14. \A k \in Tasks : k > accepted + n => outcome[k] = None
  <2>1. \A k \in Tasks : k > accepted + n => k > accepted
    BY <1>1 DEF Tasks
  <2> QED BY <2>1, Zenon DEF Placed
<1>15. Placed'
  BY <1>10, <1>12, <1>13, <1>14, ZenonT(60) DEF Placed, q
<1>16. accepted' \in 0..MaxTasks
  BY <1>1
<1> QED BY <1>6, <1>15, <1>16, Zenon DEF q

\* notify_one and notify_all only move waiting workers to the head of their loop.
LEMMA WokenWorkers ==
  ASSUME pc \in [Workers -> Places], NotifyAll \/ NotifyOne
  PROVE  /\ pc' \in [Workers -> Places]
         /\ \A w \in Workers : pc'[w] = pc[w] \/ (pc[w] = "wait" /\ pc'[w] = "loop")
<1>1. ASSUME NEW S, Woken(S)
      PROVE  /\ pc' \in [Workers -> Places]
             /\ \A w \in Workers : pc'[w] = pc[w] \/ (pc[w] = "wait" /\ pc'[w] = "loop")
  BY <1>1 DEF Woken, Places
<1>2. pc' = pc \/ \E S : Woken(S)
  BY Zenon DEF NotifyAll, NotifyOne
<1> QED BY <1>1, <1>2

-----------------------------------------------------------------------------
(* Steps of the pool.                                                       *)

\* What no step takes back: acceptance and outcomes.
Grows ==
  /\ accepted' \in Nat /\ accepted' >= accepted
  /\ \A k \in Tasks : outcome[k] # None => outcome'[k] = outcome[k]

\* The types, in the words of this module.
LEMMA Types ==
  PoolTypeOK <=>
    /\ m_work_queue \in Seq(Tasks) /\ m_interrupt \in BOOLEAN /\ m_workers \in {{}, Workers}
    /\ pc \in [Workers -> Places] /\ running \in [Executors -> Tasks \cup {None}]
    /\ \A w \in Workers : running[w] # None <=> pc[w] = "run"
    /\ submit \in [Callers -> [at : {"idle", "checked", "notify", "queued", "rejected"}, n : Nat]]
    /\ stop \in {"idle", "notify", "drain", "run", "join", "reset"} /\ threads_to_join \in {{}, Workers}
    /\ interrupter \in {"idle", "notify"} /\ accepted \in 0..MaxTasks
    /\ outcome \in [Tasks -> {None, "ok", "error", "throws"}]
BY Zenon DEF PoolTypeOK, Places

\* A step of the controllers or of a worker that moves no task.
LEMMA QuietKeeps ==
  ASSUME PoolInv, UNCHANGED <<m_work_queue, running, submit, accepted, outcome>>,
         m_interrupt' \in BOOLEAN, m_workers' \in {{}, Workers}, pc' \in [Workers -> Places],
         \A w \in Workers : pc'[w] = "run" <=> pc[w] = "run",
         stop' \in {"idle", "notify", "drain", "run", "join", "reset"}, threads_to_join' \in {{}, Workers},
         interrupter' \in {"idle", "notify"}, Staffed'
  PROVE  PoolInv' /\ Grows
<1>1. PoolTypeOK'
  BY Zenon DEF PoolInv, PoolTypeOK, Places
<1>2. Sums'
  BY Zenon DEF PoolInv, Sums, Packaged
<1>3. Placed'
  BY PlacedSame, Zenon DEF PoolInv
<1>4. accepted \in Nat /\ accepted >= accepted
  BY Constants DEF PoolInv, PoolTypeOK
<1> QED BY <1>1, <1>2, <1>3, <1>4, Zenon DEF PoolInv, Grows

\* Nothing happens.
LEMMA IdleKeeps ==
  ASSUME PoolInv, UNCHANGED <<m_work_queue, m_interrupt, m_workers, pc, running, submit, stop,
                              threads_to_join, interrupter, accepted, outcome>>
  PROVE  PoolInv' /\ Grows
<1>1. Staffed'
  BY Zenon DEF PoolInv, Staffed
<1>2. /\ m_interrupt' \in BOOLEAN /\ m_workers' \in {{}, Workers} /\ pc' \in [Workers -> Places]
      /\ stop' \in {"idle", "notify", "drain", "run", "join", "reset"} /\ threads_to_join' \in {{}, Workers}
      /\ interrupter' \in {"idle", "notify"} /\ \A w \in Workers : pc'[w] = "run" <=> pc[w] = "run"
  BY Zenon DEF PoolInv, PoolTypeOK, Places
<1> QED BY <1>1, <1>2, QuietKeeps, Zenon

\* Start.
LEMMA StartKeeps == ASSUME PoolInv, Start PROVE PoolInv' /\ Grows
<1>1. /\ ~m_interrupt /\ m_workers = {} /\ m_workers' = Workers /\ pc' = [w \in Workers |-> "loop"]
      /\ UNCHANGED <<m_work_queue, m_interrupt, running, submit, stop, threads_to_join, interrupter, accepted, outcome>>
  BY DEF Start
<1>2. stop = "idle" /\ m_work_queue = <<>> /\ \A w \in Workers : pc[w] = "none"
  BY <1>1 DEF PoolInv, Staffed
<1>3. pc' \in [Workers -> Places] /\ \A w \in Workers : pc'[w] = "loop"
  BY <1>1 DEF Places
<1>4. Staffed'
  BY <1>1, <1>2, <1>3, Zenon DEF PoolInv, Staffed
<1> QED BY <1>1, <1>2, <1>3, <1>4, QuietKeeps DEF PoolInv, PoolTypeOK

\* Stop closes the pool: what was running or queued stays so.
LEMMA StopBeginKeeps == ASSUME PoolInv, StopBegin PROVE PoolInv' /\ Grows
<1>1. /\ stop = "idle" /\ m_interrupt' = TRUE /\ threads_to_join' = m_workers /\ m_workers' = {} /\ stop' = "notify"
      /\ UNCHANGED <<m_work_queue, pc, running, submit, interrupter, accepted, outcome>>
  BY DEF StopBegin
<1>2. Staffed'
  BY <1>1, Zenon DEF PoolInv, Staffed
<1> QED BY <1>1, <1>2, QuietKeeps, Types DEF PoolInv

\* The notifications of Stop and Interrupt.
LEMMA NotifyKeeps == ASSUME PoolInv, StopNotify \/ InterruptNotify PROVE PoolInv' /\ Grows
<1>1. /\ NotifyAll /\ (stop' = stop \/ (stop = "notify" /\ stop' = "drain"))
      /\ interrupter' \in {"idle", "notify"}
      /\ UNCHANGED <<m_work_queue, m_interrupt, m_workers, running, submit, threads_to_join, accepted, outcome>>
  BY DEF StopNotify, InterruptNotify, PoolInv, PoolTypeOK
<1>2. /\ pc' \in [Workers -> Places]
      /\ \A w \in Workers : pc'[w] = pc[w] \/ (pc[w] = "wait" /\ pc'[w] = "loop")
  BY <1>1, WokenWorkers, Types DEF PoolInv
<1>3. \A w \in Workers : \A p \in {"none", "exited", "run"} : pc'[w] = p <=> pc[w] = p
  BY <1>2
<1>4. Staffed'
  BY <1>1, <1>3 DEF PoolInv, Staffed
<1>5. stop' \in {"idle", "notify", "drain", "run", "join", "reset"}
  BY <1>1 DEF PoolInv, PoolTypeOK
<1> QED BY <1>1, <1>2, <1>3, <1>4, <1>5, QuietKeeps, Types DEF PoolInv

\* Stop finds the queue empty, waits for the workers, and opens the pool for the next Start.
LEMMA StopEndKeeps ==
  ASSUME PoolInv, StopJoin \/ StopReset \/ (StopDrain /\ m_work_queue = <<>>)
  PROVE  PoolInv' /\ Grows
<1>1. CASE StopDrain /\ m_work_queue = <<>>
  <2>1. /\ stop = "drain" /\ stop' = "join"
        /\ UNCHANGED <<m_work_queue, m_interrupt, m_workers, pc, running, submit, threads_to_join, interrupter, accepted, outcome>>
    BY <1>1 DEF StopDrain
  <2>2. Staffed'
    BY <1>1, <2>1 DEF PoolInv, Staffed
  <2> QED BY <2>1, <2>2, QuietKeeps, Types DEF PoolInv
<1>2. CASE StopJoin
  <2>1. /\ stop = "join" /\ (\A w \in threads_to_join : pc[w] = "exited") /\ stop' = "reset"
        /\ threads_to_join' = {} /\ pc' = [w \in Workers |-> "none"]
        /\ UNCHANGED <<m_work_queue, m_interrupt, m_workers, running, submit, interrupter, accepted, outcome>>
    BY <1>2 DEF StopJoin
  <2>2. \A w \in Workers : pc[w] # "run"
    BY <2>1 DEF PoolInv, PoolTypeOK, Staffed
  <2>3. pc' \in [Workers -> Places] /\ \A w \in Workers : pc'[w] = "none"
    BY <2>1 DEF Places
  <2>4. Staffed'
    BY <2>1, <2>3, Zenon DEF PoolInv, Staffed
  <2> QED BY <2>1, <2>2, <2>3, <2>4, QuietKeeps, Types DEF PoolInv
<1>3. CASE StopReset
  <2>1. /\ stop = "reset" /\ stop' = "idle" /\ m_interrupt' = FALSE
        /\ UNCHANGED <<m_work_queue, m_workers, pc, running, submit, threads_to_join, interrupter, accepted, outcome>>
    BY <1>3 DEF StopReset
  <2>2. m_work_queue = <<>> /\ \A w \in Workers : pc[w] = "none"
    BY <2>1 DEF PoolInv, Staffed
  <2>3. Staffed'
    BY <2>1, <2>2 DEF PoolInv, Staffed
  <2> QED BY <2>1, <2>3, QuietKeeps, Types, Zenon DEF PoolInv
<1> QED BY <1>1, <1>2, <1>3

\* Interrupt.
LEMMA InterruptKeeps == ASSUME PoolInv, Interrupt PROVE PoolInv' /\ Grows
<1>1. /\ m_interrupt' = TRUE /\ interrupter' = "notify"
      /\ UNCHANGED <<m_work_queue, m_workers, pc, running, submit, stop, threads_to_join, accepted, outcome>>
  BY DEF Interrupt
<1>2. Staffed'
  BY <1>1, Zenon DEF PoolInv, Staffed
<1> QED BY <1>1, <1>2, QuietKeeps, Types DEF PoolInv

\* A worker waits, wakes up without a notification, or leaves an interrupted pool with nothing to do.
LEMMA IdleWorkerKeeps ==
  ASSUME PoolInv, NEW w \in Workers,
         SpuriousWake(w) \/ (WorkerLoop(w) /\ m_work_queue = <<>>)
  PROVE  PoolInv' /\ Grows
<1>1. PICK p \in {"loop", "wait", "exited"} :
        /\ pc[w] \in {"loop", "wait"} /\ pc' = [pc EXCEPT ![w] = p] /\ (p = "exited" => Leaves)
        /\ UNCHANGED <<m_work_queue, m_interrupt, m_workers, running, submit, stop, threads_to_join, interrupter, accepted, outcome>>
  <2>1. CASE SpuriousWake(w)
    BY <2>1 DEF SpuriousWake
  <2>2. CASE WorkerLoop(w) /\ m_work_queue = <<>>
    <3>1. CASE Leaves
      BY <2>2, <3>1 DEF WorkerLoop, Leaves
    <3>2. CASE ~Leaves
      BY <2>2, <3>2 DEF WorkerLoop, Leaves
    <3> QED BY <3>1, <3>2
  <2> QED BY <2>1, <2>2
<1>2. pc' \in [Workers -> Places] /\ pc'[w] = p /\ \A u \in Workers \ {w} : pc'[u] = pc[u]
  BY <1>1, Types DEF PoolInv, Places
<1>3. \A u \in Workers : /\ pc'[u] = "run" <=> pc[u] = "run"
                         /\ pc'[u] = "none" <=> pc[u] = "none"
                         /\ pc'[u] = "exited" => pc[u] = "exited" \/ Leaves
  BY <1>1, <1>2
<1>4. Staffed'
  BY <1>1, <1>3 DEF PoolInv, Staffed, Leaves
<1> QED BY <1>1, <1>2, <1>3, <1>4, QuietKeeps, Types DEF PoolInv

\* A worker takes a task.
LEMMA WorkerTakesKeeps ==
  ASSUME PoolInv, NEW w \in Workers, WorkerLoop(w), m_work_queue # <<>> PROVE PoolInv' /\ Grows
<1>1. /\ pc[w] = "loop" /\ TakeTask(w) /\ pc' = [pc EXCEPT ![w] = "run"]
      /\ UNCHANGED <<m_interrupt, m_workers, submit, stop, threads_to_join, interrupter, accepted, outcome>>
  BY DEF WorkerLoop, Leaves
<1>2. w \in Executors /\ w # Stopper /\ running[w] = None
  BY <1>1, Constants DEF PoolInv, PoolTypeOK
<1>3. /\ Placed' /\ m_work_queue' \in Seq(Tasks) /\ running' \in [Executors -> Tasks \cup {None}]
      /\ running'[w] # None /\ \A f \in Executors \ {w} : running'[f] = running[f]
  BY <1>1, <1>2, TakePlaces, Zenon DEF PoolInv
<1>4. pc' \in [Workers -> Places] /\ pc'[w] = "run" /\ \A u \in Workers \ {w} : pc'[u] = pc[u]
  BY <1>1, Types DEF PoolInv, Places
<1>5. \A u \in Workers : running'[u] # None <=> pc'[u] = "run"
  BY <1>3, <1>4, Constants, Zenon DEF PoolInv, PoolTypeOK
<1>6. PoolTypeOK'
  BY <1>1, <1>3, <1>4, <1>5, Zenon DEF PoolInv, PoolTypeOK, Places
<1>7. running'[Stopper] = running[Stopper]
  BY <1>2, <1>3, Constants
<1>8. \A u \in Workers : pc'[u] # "exited" /\ (pc'[u] = "none" <=> pc[u] = "none")
  BY <1>1, <1>4 DEF PoolInv, Staffed
<1>9. ~(m_workers = {} /\ stop \in {"idle", "join", "reset"})
  BY DEF PoolInv, Staffed
<1>10. Staffed'
  BY <1>1, <1>7, <1>8, <1>9, Zenon DEF PoolInv, Staffed
<1>11. Sums'
  BY <1>1, Zenon DEF PoolInv, Sums, Packaged
<1>12. accepted \in Nat /\ accepted >= accepted
  BY Constants DEF PoolInv, PoolTypeOK
<1> QED BY <1>1, <1>3, <1>6, <1>10, <1>11, <1>12, Zenon DEF PoolInv, Grows

\* Stop takes a task.
LEMMA StopTakesKeeps == ASSUME PoolInv, StopDrain, m_work_queue # <<>> PROVE PoolInv' /\ Grows
<1>1. /\ stop = "drain" /\ stop' = "run" /\ TakeTask(Stopper)
      /\ UNCHANGED <<m_interrupt, m_workers, pc, submit, threads_to_join, interrupter, accepted, outcome>>
  BY DEF StopDrain
<1>2. Stopper \in Executors /\ running[Stopper] = None
  BY <1>1, Constants DEF PoolInv, Staffed
<1>3. /\ Placed' /\ m_work_queue' \in Seq(Tasks) /\ running' \in [Executors -> Tasks \cup {None}]
      /\ running'[Stopper] # None /\ \A f \in Executors \ {Stopper} : running'[f] = running[f]
  BY <1>1, <1>2, TakePlaces, Zenon DEF PoolInv
<1>4. \A u \in Workers : running'[u] # None <=> pc'[u] = "run"
  BY <1>1, <1>3, Constants DEF PoolInv, PoolTypeOK
<1>5. PoolTypeOK'
  BY <1>1, <1>3, <1>4, Zenon DEF PoolInv, PoolTypeOK
<1>6. \A u \in Workers : pc[u] # "exited"
  BY DEF PoolInv, Staffed
<1>7. Staffed'
  BY <1>1, <1>3, <1>6 DEF PoolInv, Staffed
<1>8. Sums'
  BY <1>1, Zenon DEF PoolInv, Sums, Packaged
<1>9. accepted \in Nat /\ accepted >= accepted
  BY Constants DEF PoolInv, PoolTypeOK
<1> QED BY <1>1, <1>3, <1>5, <1>7, <1>8, <1>9, Zenon DEF PoolInv, Grows

\* Stop finishes a task.
LEMMA StopTaskDoneKeeps == ASSUME PoolInv, StopTaskDone PROVE PoolInv' /\ Grows
<1>1. /\ stop = "run" /\ stop' = "drain" /\ FinishTask(Stopper)
      /\ UNCHANGED <<m_work_queue, m_interrupt, m_workers, pc, submit, threads_to_join, interrupter, accepted>>
  BY DEF StopTaskDone
<1>2. /\ Placed' /\ running' \in [Executors -> Tasks \cup {None}] /\ running'[Stopper] = None
      /\ \A f \in Executors \ {Stopper} : running'[f] = running[f]
      /\ outcome' \in [Tasks -> {None} \cup Outcomes]
      /\ \A k \in Tasks : outcome[k] # None => outcome'[k] = outcome[k]
  BY <1>1, Constants, FinishPlaces, Zenon DEF PoolInv
<1>3. \A u \in Workers : running'[u] # None <=> pc'[u] = "run"
  BY <1>1, <1>2, Constants DEF PoolInv, PoolTypeOK
<1>4. outcome' \in [Tasks -> {None, "ok", "error", "throws"}]
  BY <1>2 DEF Outcomes
<1>5. PoolTypeOK'
  BY <1>1, <1>2, <1>3, <1>4, Zenon DEF PoolInv, PoolTypeOK
<1>6. Staffed'
  BY <1>1, <1>2 DEF PoolInv, Staffed
<1>7. Sums'
  BY <1>1, Zenon DEF PoolInv, Sums, Packaged
<1>8. accepted \in Nat /\ accepted >= accepted
  BY Constants DEF PoolInv, PoolTypeOK
<1> QED BY <1>1, <1>2, <1>5, <1>6, <1>7, <1>8, Zenon DEF PoolInv, Grows

\* The calls of Submit.
LEMMA SubmitTypes == ASSUME PoolTypeOK, Sums PROVE submit \in [Callers -> Submits]
<1>1. submit \in [Callers -> [at : {"idle", "checked", "notify", "queued", "rejected"}, n : Nat]]
  BY DEF PoolTypeOK
<1>2. \A c \in Callers : submit[c].n \in 0..MaxTasks
  BY DEF Sums
<1> QED BY <1>1, <1>2 DEF Submits

\* A step of one call of Submit changes its own share.
LEMMA ShareStep ==
  ASSUME PoolTypeOK, Sums, NEW c \in Callers, NEW s \in Submits, submit' = [submit EXCEPT ![c] = s]
  PROVE  /\ submit' \in [Callers -> Submits] /\ submit'[c] = s /\ \A u \in Callers \ {c} : submit'[u] = submit[u]
         /\ Cardinality(Packaged) \in Nat /\ Share(submit[c]) <= Cardinality(Packaged)
         /\ Cardinality(Packaged)' = Cardinality(Packaged) - Share(submit[c]) + Share(s)
         /\ Share(submit[c]) \in Nat /\ Share(s) \in Nat
<1>1. submit \in [Callers -> Submits]
  BY SubmitTypes
<1>2. submit' \in [Callers -> Submits] /\ submit'[c] = s /\ \A u \in Callers \ {c} : submit'[u] = submit[u]
  BY <1>1
<1>3. Packaged = Shares(submit) /\ Packaged' = Shares(submit')
  BY Zenon DEF Packaged, Shares
<1>4. /\ Cardinality(Shares(submit)) \in Nat /\ Share(submit[c]) <= Cardinality(Shares(submit))
      /\ Cardinality(Shares(submit')) = Cardinality(Shares(submit)) - Share(submit[c]) + Share(submit'[c])
  BY <1>1, <1>2, SharesChange, Zenon
<1>5. submit[c] \in Submits
  BY <1>1
<1>6. \A r \in Submits : Share(r) \in Nat
  BY Constants DEF Share, Submits
<1> QED BY <1>2, <1>3, <1>4, <1>5, <1>6, Zenon

\* A step of Submit that queues nothing.
LEMMA SubmitOnlyKeeps ==
  ASSUME PoolInv, NEW c \in Callers, NEW s \in Submits, submit' = [submit EXCEPT ![c] = s],
         accepted + Cardinality(Packaged) - Share(submit[c]) + Share(s) <= MaxTasks,
         UNCHANGED <<m_work_queue, m_interrupt, m_workers, running, stop, threads_to_join, interrupter, accepted, outcome>>,
         pc' \in [Workers -> Places], \A w \in Workers : pc'[w] = pc[w] \/ (pc[w] = "wait" /\ pc'[w] = "loop")
  PROVE  PoolInv' /\ Grows
<1>1. /\ submit' \in [Callers -> Submits] /\ Cardinality(Packaged) \in Nat
      /\ Cardinality(Packaged)' = Cardinality(Packaged) - Share(submit[c]) + Share(s)
      /\ Share(submit[c]) \in Nat /\ Share(s) \in Nat
  BY ShareStep, Zenon DEF PoolInv
<1>2. accepted \in Nat /\ accepted >= accepted /\ MaxTasks \in Nat
  BY Constants DEF PoolInv, PoolTypeOK
<1>3. \A u \in Callers : submit'[u].n \in 0..MaxTasks
  BY <1>1 DEF Submits
<1>4. accepted + Cardinality(Packaged)' <= MaxTasks
  BY <1>1, <1>2
<1>5. Sums'
  BY <1>3, <1>4, Zenon DEF Sums
<1>6. \A w \in Workers : \A p \in {"none", "exited", "run"} : pc'[w] = p <=> pc[w] = p
  OBVIOUS
<1>7. \A w \in Workers : pc'[w] = "run" <=> pc[w] = "run"
  BY <1>6
<1>8. submit' \in [Callers -> [at : {"idle", "checked", "notify", "queued", "rejected"}, n : Nat]]
  BY <1>1, <1>2 DEF Submits
<1>9. PoolTypeOK'
  BY <1>7, <1>8, Zenon DEF PoolInv, PoolTypeOK, Places
<1>10. Staffed'
  BY <1>6 DEF PoolInv, Staffed
<1>11. Placed'
  BY PlacedSame, Zenon DEF PoolInv
<1> QED BY <1>2, <1>5, <1>9, <1>10, <1>11, Zenon DEF PoolInv, Grows

\* The first look of Submit.
LEMMA SubmitCheckKeeps ==
  ASSUME PoolInv, NEW c \in Callers, NEW n \in Nat, SubmitCheck(c, n)
  PROVE  PoolInv' /\ Grows /\ (\A u \in Callers \ {c} : submit'[u] = submit[u]) /\ accepted' = accepted
         /\ submit'[c] \in {[at |-> "checked", n |-> n], [at |-> "rejected", n |-> 0]}
<1> DEFINE s == IF Accepting THEN [at |-> "checked", n |-> n] ELSE [at |-> "rejected", n |-> 0]
<1>1. /\ submit[c].at = "idle" /\ accepted + Cardinality(Packaged) + n <= MaxTasks
      /\ submit' = [submit EXCEPT ![c] = s]
      /\ UNCHANGED <<m_work_queue, m_interrupt, m_workers, pc, running, stop, threads_to_join, interrupter, accepted, outcome>>
  BY DEF SubmitCheck
<1>2. accepted \in Nat /\ Cardinality(Packaged) \in Nat /\ MaxTasks \in Nat /\ submit \in [Callers -> Submits]
  <2>1. submit \in [Callers -> Submits]
    BY SubmitTypes DEF PoolInv
  <2>2. Cardinality(Shares(submit)) \in Nat
    BY <2>1, SharesChange, Zenon
  <2> QED BY <2>1, <2>2, Constants DEF PoolInv, PoolTypeOK, Packaged, Shares
<1>3. n <= MaxTasks
  BY <1>1, <1>2
<1>4. s \in Submits /\ Share(s) <= n /\ Share(s) \in Nat
  BY <1>2, <1>3 DEF Submits, Share
<1>5. Share(submit[c]) = 0
  BY <1>1, Zenon DEF Share
<1>6. s \in {[at |-> "checked", n |-> n], [at |-> "rejected", n |-> 0]}
  OBVIOUS
<1> HIDE DEF s
<1>7. accepted + Cardinality(Packaged) - Share(submit[c]) + Share(s) <= MaxTasks
  BY <1>1, <1>2, <1>4, <1>5
<1>8. pc' \in [Workers -> Places] /\ \A w \in Workers : pc'[w] = pc[w] \/ (pc[w] = "wait" /\ pc'[w] = "loop")
  BY <1>1, Types DEF PoolInv
<1>9. PoolInv' /\ Grows
  BY <1>1, <1>4, <1>7, <1>8, SubmitOnlyKeeps, Zenon
<1>10. submit'[c] = s /\ \A u \in Callers \ {c} : submit'[u] = submit[u]
  BY <1>1, <1>2
<1> QED BY <1>1, <1>6, <1>9, <1>10, Zenon

\* The second look of Submit, which queues the tasks or rejects them.
LEMMA SubmitQueueKeeps ==
  ASSUME PoolInv, NEW c \in Callers, SubmitQueue(c)
  PROVE  /\ PoolInv' /\ Grows /\ \A u \in Callers \ {c} : submit'[u] = submit[u]
         /\ \/ submit'[c].at = "notify" /\ accepted' = accepted + submit[c].n
            \/ submit'[c].at = "rejected" /\ accepted' = accepted
<1>1. submit[c].at = "checked" /\ submit \in [Callers -> Submits] /\ submit[c] \in Submits /\ submit[c].n \in Nat
  <2>1. submit \in [Callers -> Submits]
    BY SubmitTypes DEF PoolInv
  <2> QED BY <2>1, Constants DEF SubmitQueue, Submits
<1>2. UNCHANGED <<m_interrupt, m_workers, pc, running, stop, threads_to_join, interrupter, outcome>>
  BY DEF SubmitQueue
<1>3. accepted \in Nat /\ MaxTasks \in Nat /\ accepted + Cardinality(Packaged) <= MaxTasks
  BY Constants DEF PoolInv, PoolTypeOK, Sums
<1> DEFINE s(p) == [submit[c] EXCEPT !.at = p]
<1>4. ASSUME NEW p \in {"notify", "rejected"}
      PROVE  s(p) \in Submits /\ s(p).at = p /\ Share(s(p)) = 0
  BY <1>1 DEF Submits, Share
<1>5. Share(submit[c]) = submit[c].n
  BY <1>1 DEF Share
<1>6. CASE ~Accepting
  <2>1. submit' = [submit EXCEPT ![c] = s("rejected")] /\ UNCHANGED <<m_work_queue, accepted>>
    BY <1>1, <1>6 DEF SubmitQueue
  <2>2. s("rejected") \in Submits /\ s("rejected").at = "rejected" /\ Share(s("rejected")) = 0
    BY <1>4
  <2> HIDE DEF s
  <2>3. /\ submit'[c] = s("rejected") /\ (\A u \in Callers \ {c} : submit'[u] = submit[u])
        /\ Cardinality(Packaged) \in Nat /\ Share(submit[c]) \in Nat
    BY <2>1, <2>2, ShareStep, Zenon DEF PoolInv
  <2>4. accepted + Cardinality(Packaged) - Share(submit[c]) + Share(s("rejected")) <= MaxTasks
    BY <1>3, <2>2, <2>3
  <2>5. pc' \in [Workers -> Places] /\ \A w \in Workers : pc'[w] = pc[w] \/ (pc[w] = "wait" /\ pc'[w] = "loop")
    BY <1>2, Types DEF PoolInv
  <2>6. PoolInv' /\ Grows
    BY <1>2, <2>1, <2>2, <2>4, <2>5, SubmitOnlyKeeps, Zenon
  <2> QED BY <2>1, <2>2, <2>3, <2>6, Zenon
<1>7. CASE Accepting
  <2>1. /\ submit' = [submit EXCEPT ![c] = s("notify")] /\ accepted' = accepted + submit[c].n
        /\ m_work_queue' = m_work_queue \o [i \in 1..submit[c].n |-> accepted + i]
    <3>1. /\ submit' = [submit EXCEPT ![c].at = "notify"] /\ accepted' = accepted + submit[c].n
          /\ m_work_queue' = m_work_queue \o [i \in 1..submit[c].n |-> accepted + i]
      BY <1>7, Zenon DEF SubmitQueue
    <3>2. [submit EXCEPT ![c].at = "notify"] = [submit EXCEPT ![c] = s("notify")]
      BY <1>1
    <3> QED BY <3>1, <3>2, Zenon
  <2>2. s("notify") \in Submits /\ s("notify").at = "notify" /\ Share(s("notify")) = 0
    BY <1>4
  <2> HIDE DEF s
  <2>3. /\ submit' \in [Callers -> Submits] /\ submit'[c] = s("notify")
        /\ (\A u \in Callers \ {c} : submit'[u] = submit[u])
        /\ Cardinality(Packaged) \in Nat /\ Share(submit[c]) <= Cardinality(Packaged)
        /\ Cardinality(Packaged)' = Cardinality(Packaged) - Share(submit[c]) + Share(s("notify"))
    BY <2>1, <2>2, ShareStep, Zenon DEF PoolInv
  <2>4. accepted + submit[c].n <= MaxTasks /\ accepted' + Cardinality(Packaged)' <= MaxTasks
    BY <1>1, <1>3, <1>5, <2>1, <2>2, <2>3
  <2>5. Placed' /\ m_work_queue' \in Seq(Tasks) /\ accepted' \in 0..MaxTasks
    BY <1>1, <1>2, <2>1, <2>4, QueuePlaces, Zenon DEF PoolInv
  <2>6. Sums'
    <3>1. \A u \in Callers : submit'[u].n \in 0..MaxTasks
      BY <2>3 DEF Submits
    <3> QED BY <2>4, <3>1, Zenon DEF Sums
  <2>7. submit' \in [Callers -> [at : {"idle", "checked", "notify", "queued", "rejected"}, n : Nat]]
    BY <1>3, <2>3 DEF Submits
  <2>8. PoolTypeOK'
    BY <1>2, <2>5, <2>7, Zenon DEF PoolInv, PoolTypeOK
  <2>9. m_workers # {} /\ ~m_interrupt /\ stop = "idle"
    BY <1>7, Zenon DEF Accepting, PoolInv, Staffed
  <2>10. Staffed'
    BY <1>2, <2>9, Zenon DEF PoolInv, Staffed
  <2>11. accepted' \in Nat /\ accepted' >= accepted
    BY <1>1, <1>3, <2>1
  <2> QED BY <1>2, <2>1, <2>2, <2>3, <2>5, <2>6, <2>8, <2>10, <2>11, Zenon DEF PoolInv, Grows
<1> QED BY <1>6, <1>7

\* The notification of Submit.
LEMMA SubmitNotifyKeeps ==
  ASSUME PoolInv, NEW c \in Callers, NEW range \in BOOLEAN, SubmitNotify(c, range)
  PROVE  /\ PoolInv' /\ Grows /\ \A u \in Callers \ {c} : submit'[u] = submit[u]
         /\ submit[c].at = "notify" /\ submit'[c].at = "queued" /\ accepted' = accepted
<1> DEFINE s == [submit[c] EXCEPT !.at = "queued"]
<1>1. /\ submit[c].at = "notify" /\ (NotifyAll \/ NotifyOne)
      /\ UNCHANGED <<m_work_queue, m_interrupt, m_workers, running, stop, threads_to_join, interrupter, accepted, outcome>>
  BY DEF SubmitNotify
<1>2. submit \in [Callers -> Submits]
  BY SubmitTypes DEF PoolInv
<1>3. submit' = [submit EXCEPT ![c] = s]
  BY <1>2 DEF SubmitNotify
<1>4. s \in Submits /\ s.at = "queued" /\ Share(s) = 0 /\ Share(submit[c]) = 0
  BY <1>1, <1>2 DEF Submits, Share
<1> HIDE DEF s
<1>5. /\ submit'[c] = s /\ (\A u \in Callers \ {c} : submit'[u] = submit[u]) /\ Cardinality(Packaged) \in Nat
  BY <1>3, <1>4, ShareStep, Zenon DEF PoolInv
<1>6. accepted + Cardinality(Packaged) - Share(submit[c]) + Share(s) <= MaxTasks
  <2>1. accepted \in Nat /\ MaxTasks \in Nat /\ accepted + Cardinality(Packaged) <= MaxTasks
    BY Constants DEF PoolInv, PoolTypeOK, Sums
  <2> QED BY <1>4, <1>5, <2>1
<1>7. /\ pc' \in [Workers -> Places]
      /\ \A w \in Workers : pc'[w] = pc[w] \/ (pc[w] = "wait" /\ pc'[w] = "loop")
  BY <1>1, WokenWorkers, Types, Zenon DEF PoolInv
<1>8. PoolInv' /\ Grows
  BY <1>1, <1>3, <1>4, <1>6, <1>7, SubmitOnlyKeeps, Zenon
<1> QED BY <1>1, <1>4, <1>5, <1>8, Zenon

\* A call of Submit is over.
LEMMA SubmitEndKeeps ==
  ASSUME PoolInv, NEW c \in Callers, submit[c].at # "checked", submit' = [submit EXCEPT ![c] = NoSubmit],
         UNCHANGED <<m_work_queue, m_interrupt, m_workers, pc, running, stop, threads_to_join, interrupter, accepted, outcome>>
  PROVE  PoolInv' /\ Grows /\ submit'[c] = NoSubmit /\ \A u \in Callers \ {c} : submit'[u] = submit[u]
<1>1. NoSubmit \in Submits /\ Share(NoSubmit) = 0 /\ Share(submit[c]) = 0
  BY Constants DEF NoSubmit, Submits, Share
<1>2. /\ submit'[c] = NoSubmit /\ (\A u \in Callers \ {c} : submit'[u] = submit[u]) /\ Cardinality(Packaged) \in Nat
  BY <1>1, ShareStep, Zenon DEF PoolInv
<1>3. accepted + Cardinality(Packaged) - Share(submit[c]) + Share(NoSubmit) <= MaxTasks
  <2>1. accepted \in Nat /\ MaxTasks \in Nat /\ accepted + Cardinality(Packaged) <= MaxTasks
    BY Constants DEF PoolInv, PoolTypeOK, Sums
  <2> QED BY <1>1, <1>2, <2>1
<1>4. pc' \in [Workers -> Places] /\ \A w \in Workers : pc'[w] = pc[w] \/ (pc[w] = "wait" /\ pc'[w] = "loop")
  BY Types DEF PoolInv
<1>5. PoolInv' /\ Grows
  BY <1>1, <1>3, <1>4, SubmitOnlyKeeps, Zenon
<1> QED BY <1>2, <1>5, Zenon

\* A worker finishes its task, and whatever the task submitted is over.
LEMMA WorkerTaskDoneKeeps ==
  ASSUME PoolInv, NEW w \in Workers, WorkerTaskDone(w)
  PROVE  PoolInv' /\ Grows /\ \A u \in Callers \ {w} : submit'[u] = submit[u]
<1>1. /\ pc[w] = "run" /\ submit[w].at # "checked" /\ FinishTask(w) /\ pc' = [pc EXCEPT ![w] = "loop"]
      /\ submit' = [submit EXCEPT ![w] = NoSubmit]
      /\ UNCHANGED <<m_work_queue, m_interrupt, m_workers, stop, threads_to_join, interrupter, accepted>>
  BY DEF WorkerTaskDone
<1>2. w \in Executors /\ w \in Callers /\ w # Stopper /\ Stopper \in Executors
  BY Constants
<1>3. /\ Placed' /\ running' \in [Executors -> Tasks \cup {None}] /\ running'[w] = None
      /\ \A f \in Executors \ {w} : running'[f] = running[f]
      /\ outcome' \in [Tasks -> {None} \cup Outcomes]
      /\ \A k \in Tasks : outcome[k] # None => outcome'[k] = outcome[k]
  BY <1>1, <1>2, FinishPlaces, Zenon DEF PoolInv
<1>4. pc' \in [Workers -> Places] /\ pc'[w] = "loop" /\ \A u \in Workers \ {w} : pc'[u] = pc[u]
  BY <1>1, Types DEF PoolInv, Places
<1>5. \A u \in Workers : running'[u] # None <=> pc'[u] = "run"
  <2>1. ASSUME NEW u \in Workers, u # w PROVE running'[u] # None <=> pc'[u] = "run"
    <3>1. u \in Executors \ {w} /\ u \in Workers \ {w}
      BY <2>1, Constants, Zenon
    <3>2. running[u] # None <=> pc[u] = "run"
      BY Zenon DEF PoolInv, PoolTypeOK
    <3> QED BY <1>3, <1>4, <3>1, <3>2, ZenonT(60)
  <2>2. running'[w] # None <=> pc'[w] = "run"
    BY <1>3, <1>4
  <2> QED BY <2>1, <2>2, Zenon
<1>6. NoSubmit \in Submits /\ Share(NoSubmit) = 0 /\ Share(submit[w]) = 0
  BY <1>1, Constants DEF NoSubmit, Submits, Share
<1>7. /\ submit' \in [Callers -> Submits] /\ (\A u \in Callers \ {w} : submit'[u] = submit[u])
      /\ Cardinality(Packaged) \in Nat
      /\ Cardinality(Packaged)' = Cardinality(Packaged) - Share(submit[w]) + Share(NoSubmit)
  BY <1>1, <1>2, <1>6, ShareStep, Zenon DEF PoolInv
<1>8. Sums'
  <2>1. \A u \in Callers : submit'[u].n \in 0..MaxTasks
    BY <1>7 DEF Submits
  <2>2. Cardinality(Packaged)' = Cardinality(Packaged)
    BY <1>6, <1>7
  <2> QED BY <1>1, <2>1, <2>2, Zenon DEF PoolInv, Sums
<1>9. /\ submit' \in [Callers -> [at : {"idle", "checked", "notify", "queued", "rejected"}, n : Nat]]
      /\ outcome' \in [Tasks -> {None, "ok", "error", "throws"}]
  BY <1>3, <1>7, Constants DEF Submits, Outcomes
<1>10. PoolTypeOK'
  BY <1>1, <1>3, <1>4, <1>5, <1>9, Zenon DEF PoolInv, PoolTypeOK, Places
<1>11. running'[Stopper] = running[Stopper]
  BY <1>2, <1>3, Zenon
<1>12. \A u \in Workers : /\ pc'[u] = "exited" => pc[u] = "exited"
                          /\ pc'[u] = "none" <=> pc[u] = "none"
  BY <1>1, <1>4
<1>13. Staffed'
  BY <1>1, <1>11, <1>12, Zenon DEF PoolInv, Staffed
<1>14. accepted \in Nat /\ accepted >= accepted
  BY Constants DEF PoolInv, PoolTypeOK
<1> QED BY <1>1, <1>3, <1>7, <1>8, <1>10, <1>13, <1>14, Zenon DEF PoolInv, Grows

-----------------------------------------------------------------------------
(* Execute.                                                                 *)

\* The tasks of a batch have been accepted.
LEMMA OwnAccepted ==
  ASSUME PoolTypeOK, NEW b \in Batches, b.first + b.n - 1 <= accepted, NEW i \in Nat, i <= b.n
  PROVE  /\ Own(b, i) \subseteq Tasks
         /\ \A k : k \in Own(b, i) <=> k \in Int /\ b.first <= k /\ k <= b.first + i - 1
<1>1. b.first \in Nat /\ b.first >= 1 /\ b.n \in Nat /\ accepted \in Nat /\ accepted <= MaxTasks /\ MaxTasks \in Nat
  BY Constants DEF Batches, PoolTypeOK
<1> QED BY <1>1 DEF Own, Tasks

\* A caller that makes no step keeps its futures and its verdict, whatever the others do.
LEMMA FitsStable ==
  ASSUME PoolTypeOK, NEW u \in Submitters, batch \in [Submitters -> Batches], Fits(u), Grows,
         batch'[u] = batch[u], result'[u] = result[u],
         submit'[u] = submit[u] \/ (submit[u].at = "notify" /\ submit'[u].at = "queued")
  PROVE  Fits(u)'
<1> DEFINE b == batch[u]
<1>1. b \in Batches /\ b.next \in Nat /\ b.n \in Nat /\ b.next <= b.n /\ b.first + b.n - 1 <= accepted
      /\ b.first \in Nat
  BY Constants DEF Batches, Fits
<1>2. Own(b, b.next) \subseteq Tasks /\ Own(b, b.n) \subseteq Tasks
  <2> HIDE DEF b
  <2>1. b.n <= b.n
    BY <1>1
  <2> QED BY <1>1, <2>1, OwnAccepted, Zenon
<1>3. b.first + b.n - 1 <= accepted'
  <2>1. accepted \in Nat /\ accepted' \in Nat /\ accepted' >= accepted
    BY Constants DEF PoolTypeOK, Grows
  <2> QED BY <1>1, <2>1
<1>4. \A k \in Tasks : outcome[k] # None => outcome'[k] = outcome[k]
  BY DEF Grows
<1>5. None \notin {"ok", "error", "throws"} /\ outcome \in [Tasks -> {None, "ok", "error", "throws"}]
  BY PoolAssumption DEF PoolTypeOK
<1>6. /\ \A k \in Own(b, b.next) : outcome[k] \in {"ok", "error"}
      /\ b.first_error <=> \E k \in Own(b, b.next) : outcome[k] = "error"
  BY Zenon DEF Fits
<1>7. /\ \A k \in Own(b, b.next) : outcome'[k] \in {"ok", "error"}
      /\ b.first_error <=> \E k \in Own(b, b.next) : outcome'[k] = "error"
  BY <1>2, <1>4, <1>5, <1>6
<1>8. /\ result[u] = "ok" => b.n # 0 /\ \A k \in Own(b, b.n) : outcome'[k] = "ok"
      /\ result[u] = "error" => /\ \A k \in Own(b, b.n) : outcome'[k] \in {"ok", "error"}
                                /\ \E k \in Own(b, b.n) : outcome'[k] = "error"
      /\ result[u] = "system_error" => \E k \in Own(b, b.n) : outcome'[k] = "throws"
  <2>1. /\ result[u] = "ok" => b.n # 0 /\ \A k \in Own(b, b.n) : outcome[k] = "ok"
        /\ result[u] = "error" => /\ \A k \in Own(b, b.n) : outcome[k] \in {"ok", "error"}
                                  /\ \E k \in Own(b, b.n) : outcome[k] = "error"
        /\ result[u] = "system_error" => \E k \in Own(b, b.n) : outcome[k] = "throws"
    BY Zenon DEF Fits
  <2> QED BY <1>2, <1>4, <1>5, <2>1
<1>9. /\ submit'[u].at # "idle" => result[u] = None
      /\ submit'[u].at = "checked" => b.next = 0 /\ ~b.first_error /\ submit'[u].n \in 1..MaxRange
      /\ submit'[u].at \in {"notify", "queued"} => b.n # 0
  BY DEF Fits
<1> HIDE DEF b
<1>10. batch'[u] = b
  BY DEF b
<1> QED BY <1>1, <1>3, <1>7, <1>8, <1>9, <1>10, ZenonT(60) DEF Fits

\* When one caller makes a step, only its own batch has to be looked at.
LEMMA JudgedStep ==
  ASSUME PoolTypeOK, Judged, Grows, NEW c \in Submitters,
         batch' \in [Submitters -> Batches], result' \in [Submitters -> Verdicts], Fits(c)',
         \A u \in Submitters \ {c} : batch'[u] = batch[u] /\ result'[u] = result[u] /\ submit'[u] = submit[u]
  PROVE  Judged'
<1>1. ASSUME NEW u \in Submitters, u # c PROVE Fits(u)'
  BY <1>1, FitsStable, Zenon DEF Judged
<1> QED BY <1>1, Zenon DEF Judged

\* A step that is none of the callers'.
LEMMA JudgedSame ==
  ASSUME PoolTypeOK, Judged, Grows, UNCHANGED <<batch, result>>,
         \A u \in Submitters : submit'[u] = submit[u] \/ (submit[u].at = "notify" /\ submit'[u].at = "queued")
  PROVE  Judged'
<1>1. ASSUME NEW u \in Submitters PROVE Fits(u)'
  BY FitsStable, Zenon DEF Judged
<1> QED BY <1>1, Zenon DEF Judged

\* Execute starts.
LEMMA ExecuteKeeps ==
  ASSUME Inv, NEW c \in Submitters, NEW n \in 1..MaxRange, Execute(c, n) PROVE Inv'
<1>1. c \in Callers /\ n \in Nat /\ MaxRange \in Nat /\ MaxTasks \in Nat /\ Submitters \subseteq Callers
  BY Constants
<1>2. SubmitCheck(c, n) /\ result' = [result EXCEPT ![c] = None] /\ batch' = [batch EXCEPT ![c] = NoBatch]
  BY DEF Execute
<1>3. /\ PoolInv' /\ Grows /\ (\A u \in Callers \ {c} : submit'[u] = submit[u]) /\ accepted' = accepted
      /\ submit'[c] \in {[at |-> "checked", n |-> n], [at |-> "rejected", n |-> 0]}
  BY <1>1, <1>2, SubmitCheckKeeps, Zenon DEF Inv
<1>4. /\ batch' \in [Submitters -> Batches] /\ batch'[c] = NoBatch /\ result' \in [Submitters -> Verdicts]
      /\ result'[c] = None /\ \A u \in Submitters \ {c} : batch'[u] = batch[u] /\ result'[u] = result[u]
  <2>1. NoBatch \in Batches
    BY <1>1 DEF NoBatch, Batches
  <2> QED BY <1>2, <2>1 DEF Inv, Judged, Verdicts
<1>5. Fits(c)'
  <2>1. Own(NoBatch, 0) = {} /\ NoBatch.next = 0 /\ NoBatch.n = 0 /\ NoBatch.first_error = FALSE /\ NoBatch.first = 1
    BY DEF Own, NoBatch
  <2>2. 1 + 0 - 1 <= accepted' /\ 0 <= 0
    BY <1>3 DEF Inv, PoolInv, PoolTypeOK
  <2>3. /\ submit'[c].at \in {"checked", "rejected"}
        /\ submit'[c].at = "checked" => submit'[c].n \in 1..MaxRange
    BY <1>3
  <2>4. None \notin {"ok", "error", "system_error"}
    BY RangeAssumption
  <2> QED BY <1>4, <2>1, <2>2, <2>3, <2>4 DEF Fits
<1>6. Judged'
  BY <1>1, <1>3, <1>4, <1>5, JudgedStep, Zenon DEF Inv, PoolInv
<1> QED BY <1>3, <1>6, Zenon DEF Inv

\* The batch of a call whose m tasks were queued after a others.
Queued(a, m) == [first |-> a + 1, n |-> m, next |-> 0, first_error |-> FALSE]

\* No future of that batch is passed yet.
LEMMA QueuedBatch ==
  ASSUME NEW a \in 0..MaxTasks, NEW m \in 0..MaxRange
  PROVE  /\ Queued(a, m) \in Batches /\ Own(Queued(a, m), 0) = {}
         /\ Queued(a, m).first = a + 1 /\ Queued(a, m).n = m /\ Queued(a, m).next = 0
         /\ Queued(a, m).first_error = FALSE
<1>1. MaxRange \in Nat /\ MaxTasks \in Nat
  BY Constants
<1>2. a + 1 \in 1..(MaxTasks + 1) /\ 0 \in 0..MaxRange /\ (a + 1)..(a + 1 + 0 - 1) = {}
  BY <1>1
<1> QED BY <1>2 DEF Batches, Own, Queued

\* What ExecuteQueue makes of the batch of the call.
LEMMA QueuedIs ==
  ASSUME NEW b \in Batches, NEW f, NEW m
  PROVE  [b EXCEPT !.first = f, !.n = m]
           = [first |-> f, n |-> m, next |-> b.next, first_error |-> b.first_error]
<1>1. [b EXCEPT !.first = f, !.n = m] = [[b EXCEPT !.first = f] EXCEPT !.n = m]
  OBVIOUS
<1>2. [b EXCEPT !.first = f] = [first |-> f, n |-> b.n, next |-> b.next, first_error |-> b.first_error]
  BY DEF Batches
<1>3. [[first |-> f, n |-> b.n, next |-> b.next, first_error |-> b.first_error] EXCEPT !.n = m]
        = [first |-> f, n |-> m, next |-> b.next, first_error |-> b.first_error]
  OBVIOUS
<1> QED BY <1>1, <1>2, <1>3, Zenon

\* How many tasks were queued.
LEMMA QueuedCount ==
  ASSUME NEW a \in Nat, NEW a2, NEW m \in 1..MaxRange, MaxRange \in Nat, a2 = a + m \/ a2 = a
  PROVE  a2 - a \in 0..MaxRange /\ (a2 = a + m => a2 - a # 0) /\ a + 1 + (a2 - a) - 1 = a2
OBVIOUS

\* Submit queued the range, or rejected it.
LEMMA ExecuteQueueKeeps == ASSUME Inv, NEW c \in Submitters, ExecuteQueue(c) PROVE Inv'
<1>1. c \in Callers /\ Submitters \subseteq Callers /\ MaxRange \in Nat /\ MaxTasks \in Nat
  BY Constants
<1>2. SubmitQueue(c) /\ submit[c].at = "checked" /\ UNCHANGED result
  BY Zenon DEF ExecuteQueue, SubmitQueue
<1>3. /\ PoolInv' /\ Grows /\ \A u \in Callers \ {c} : submit'[u] = submit[u]
      /\ \/ submit'[c].at = "notify" /\ accepted' = accepted + submit[c].n
         \/ submit'[c].at = "rejected" /\ accepted' = accepted
  BY <1>1, <1>2, SubmitQueueKeeps, Zenon DEF Inv
<1>4. /\ batch[c] \in Batches /\ batch[c].next = 0 /\ batch[c].first_error = FALSE
      /\ submit[c].n \in 1..MaxRange /\ result[c] = None
  BY <1>2 DEF Inv, Judged, Fits, Batches
<1>5. accepted \in 0..MaxTasks /\ accepted \in Nat
  BY <1>1 DEF Inv, PoolInv, PoolTypeOK
<1> DEFINE m == accepted' - accepted
<1>6. m \in 0..MaxRange /\ (accepted' = accepted + submit[c].n => m # 0) /\ accepted + 1 + m - 1 = accepted'
  BY <1>1, <1>3, <1>4, <1>5, QueuedCount, ZenonT(60)
<1>7. batch' = [batch EXCEPT ![c] = [batch[c] EXCEPT !.first = accepted + 1, !.n = m]]
  BY Zenon DEF ExecuteQueue, Inv, Judged
<1> HIDE DEF m
<1>8. batch' = [batch EXCEPT ![c] = Queued(accepted, m)]
  <2>1. [batch[c] EXCEPT !.first = accepted + 1, !.n = m]
          = [first |-> accepted + 1, n |-> m, next |-> batch[c].next, first_error |-> batch[c].first_error]
    BY <1>4, QueuedIs, Zenon
  <2>2. [batch[c] EXCEPT !.first = accepted + 1, !.n = m] = Queued(accepted, m)
    BY <1>4, <2>1, Zenon DEF Queued
  <2> QED BY <1>7, <2>2, Zenon
<1> DEFINE d == Queued(accepted, m)
<1>10. /\ d \in Batches /\ Own(d, 0) = {} /\ d.next = 0 /\ d.n = m /\ d.first_error = FALSE
       /\ d.first = accepted + 1
  BY <1>5, <1>6, QueuedBatch, Zenon
<1>11. batch' \in [Submitters -> Batches] /\ batch'[c] = d /\ \A u \in Submitters \ {c} : batch'[u] = batch[u]
  BY <1>8, <1>10, Zenon DEF Inv, Judged
<1> HIDE DEF d
<1>12. Fits(c)'
  <2>1. accepted' <= accepted' /\ 0 <= m
    BY <1>1, <1>5, <1>6
  <2>4. d.first + d.n - 1 <= accepted' /\ d.next <= d.n
    BY <1>6, <1>10, <2>1, Zenon
  <2>2. submit'[c].at # "checked" /\ (submit'[c].at \in {"notify", "queued"} => d.n # 0)
    BY <1>3, <1>6, <1>10
  <2>3. None \notin {"ok", "error", "system_error"} /\ result'[c] = None
    BY <1>2, <1>4, RangeAssumption
  <2> QED BY <1>10, <1>11, <2>4, <2>2, <2>3 DEF Fits
<1>13. Judged'
  <2>1. result' \in [Submitters -> Verdicts]
    BY <1>2, Zenon DEF Inv, Judged
  <2> QED BY <1>1, <1>2, <1>3, <1>11, <1>12, <2>1, JudgedStep, Zenon DEF Inv, PoolInv
<1> QED BY <1>3, <1>13, Zenon DEF Inv

\* A call returns with a verdict that fits its tasks.
LEMMA ReturnKeeps ==
  ASSUME Inv, NEW c \in Submitters, submit[c].at # "checked", NEW r \in Verdicts, Returns(c, r),
         UNCHANGED <<m_work_queue, m_interrupt, m_workers, pc, running, stop, threads_to_join, interrupter,
                     accepted, outcome, batch>>,
         r = "ok" => batch[c].n # 0 /\ \A k \in Own(batch[c], batch[c].n) : outcome[k] = "ok",
         r = "error" => /\ \A k \in Own(batch[c], batch[c].n) : outcome[k] \in {"ok", "error"}
                        /\ \E k \in Own(batch[c], batch[c].n) : outcome[k] = "error",
         r = "system_error" => \E k \in Own(batch[c], batch[c].n) : outcome[k] = "throws"
  PROVE  Inv'
<1>1. c \in Callers /\ Submitters \subseteq Callers
  BY Constants
<1>2. submit' = [submit EXCEPT ![c] = NoSubmit] /\ result' = [result EXCEPT ![c] = r]
  BY DEF Returns
<1>3. PoolInv' /\ Grows /\ submit'[c] = NoSubmit /\ \A u \in Callers \ {c} : submit'[u] = submit[u]
  BY <1>1, <1>2, SubmitEndKeeps, Zenon DEF Inv
<1>4. /\ result' \in [Submitters -> Verdicts] /\ result'[c] = r
      /\ \A u \in Submitters \ {c} : result'[u] = result[u]
  BY <1>2 DEF Inv, Judged
<1>5. submit'[c].at = "idle"
  BY <1>3 DEF NoSubmit
<1>6. /\ submit'[c].at # "checked" /\ submit'[c].at \notin {"notify", "queued"}
  BY <1>5
<1>7. Fits(c)
  BY DEF Inv, Judged
<1>8. Fits(c)'
  BY <1>4, <1>5, <1>6, <1>7, Zenon DEF Fits
<1>9. Judged'
  BY <1>1, <1>3, <1>4, <1>8, JudgedStep, Zenon DEF Inv, PoolInv, Judged
<1> QED BY <1>3, <1>9, Zenon DEF Inv

\* Execute returns because Submit rejected the range.
LEMMA ExecuteRejectedKeeps == ASSUME Inv, NEW c \in Submitters, ExecuteRejected(c) PROVE Inv'
<1>1. "submit_failed" \in Verdicts /\ submit[c].at # "checked"
  BY DEF Verdicts, ExecuteRejected
<1>2. "submit_failed" # "ok" /\ "submit_failed" # "error" /\ "submit_failed" # "system_error"
  OBVIOUS
<1> QED BY <1>1, <1>2, ReturnKeeps, Zenon DEF ExecuteRejected

\* What ExecuteGet makes of the batch when it goes on.
Passed(b, i, e) == [b EXCEPT !.next = i, !.first_error = e]

\* The fields of that batch.
LEMMA PassedIs ==
  ASSUME NEW b \in Batches, NEW i \in 0..MaxRange, NEW e \in BOOLEAN
  PROVE  /\ Passed(b, i, e).first = b.first /\ Passed(b, i, e).n = b.n
         /\ Passed(b, i, e).next = i /\ Passed(b, i, e).first_error = e
         /\ Passed(b, i, e) \in Batches
BY Zenon DEF Batches, Passed

\* The tasks of a batch up to and with the next one.
LEMMA OwnNext ==
  ASSUME NEW b \in Batches, b.next <= b.n, b.next # b.n
  PROVE  /\ b.next + 1 \in 0..MaxRange /\ b.next + 1 <= b.n
         /\ b.first..(b.first + (b.next + 1) - 1) = Own(b, b.next) \cup {b.first + b.next}
         /\ b.first + b.next \in Own(b, b.n)
<1>1. b.next \in 0..MaxRange /\ b.n \in 0..MaxRange /\ b.first \in Nat /\ MaxRange \in Nat
  BY Constants DEF Batches
<1>2. b.next + 1 \in 0..MaxRange /\ b.next + 1 <= b.n
  BY <1>1
<1> QED BY <1>1, <1>2 DEF Own

\* The last future is passed, and Execute returns.
LEMMA ExecuteEndKeeps ==
  ASSUME Inv, NEW c \in Submitters, submit[c].at = "queued", batch[c].next = batch[c].n,
         Returns(c, IF batch[c].first_error THEN "error" ELSE "ok"),
         UNCHANGED <<m_work_queue, m_interrupt, m_workers, pc, running, stop, threads_to_join, interrupter,
                     accepted, outcome, batch>>
  PROVE  Inv'
<1> DEFINE b == batch[c]
           r == IF b.first_error THEN "error" ELSE "ok"
<1>1. /\ b.n # 0 /\ (\A k \in Own(b, b.n) : outcome[k] \in {"ok", "error"})
      /\ b.first_error <=> \E k \in Own(b, b.n) : outcome[k] = "error"
  BY ZenonT(60) DEF Inv, Judged, Fits
<1>2. r \in Verdicts /\ r # "system_error"
  BY DEF Verdicts
<1>3. (r = "error" => b.first_error) /\ (r = "ok" => ~b.first_error)
  OBVIOUS
<1>4. submit[c].at # "checked" /\ Returns(c, r)
  BY Zenon
<1> HIDE DEF b, r
<1>5. r = "ok" => b.n # 0 /\ \A k \in Own(b, b.n) : outcome[k] = "ok"
  BY <1>1, <1>3, Zenon
<1>6. r = "error" => /\ \A k \in Own(b, b.n) : outcome[k] \in {"ok", "error"}
                     /\ \E k \in Own(b, b.n) : outcome[k] = "error"
  BY <1>1, <1>3, Zenon
<1>7. r = "system_error" => \E k \in Own(b, b.n) : outcome[k] = "throws"
  BY <1>2, Zenon
<1> QED BY <1>2, <1>4, <1>5, <1>6, <1>7, ReturnKeeps, Zenon DEF b

\* A task threw, and Execute returns.
LEMMA ExecuteThrowKeeps ==
  ASSUME Inv, NEW c \in Submitters, submit[c].at = "queued", batch[c].next # batch[c].n,
         outcome[batch[c].first + batch[c].next] = "throws", Returns(c, "system_error"),
         UNCHANGED <<m_work_queue, m_interrupt, m_workers, pc, running, stop, threads_to_join, interrupter,
                     accepted, outcome, batch>>
  PROVE  Inv'
<1>1. batch[c] \in Batches /\ batch[c].next <= batch[c].n
  BY Zenon DEF Inv, Judged, Fits
<1>2. \E k \in Own(batch[c], batch[c].n) : outcome[k] = "throws"
  BY <1>1, OwnNext, Zenon
<1>3. "system_error" \in Verdicts /\ "system_error" # "ok" /\ "system_error" # "error" /\ submit[c].at # "checked"
  BY DEF Verdicts
<1> QED BY <1>2, <1>3, ReturnKeeps, Zenon

\* Execute passes a future that gave no exception.
LEMMA ExecutePassKeeps ==
  ASSUME Inv, NEW c \in Submitters, submit[c].at = "queued", batch[c].next # batch[c].n,
         outcome[batch[c].first + batch[c].next] \in {"ok", "error"},
         batch' = [batch EXCEPT ![c] = [batch[c] EXCEPT !.next = batch[c].next + 1,
                     !.first_error = batch[c].first_error \/ outcome[batch[c].first + batch[c].next] = "error"]],
         UNCHANGED <<m_work_queue, m_interrupt, m_workers, pc, running, stop, threads_to_join, interrupter,
                     accepted, outcome, result, submit>>
  PROVE  Inv'
<1> DEFINE b == batch[c]
           k0 == b.first + b.next
           e == b.first_error \/ outcome[k0] = "error"
           d == Passed(b, b.next + 1, e)
<1>1. c \in Callers /\ Submitters \subseteq Callers
  BY Constants, Zenon
<1>2. b \in Batches /\ b.next <= b.n /\ Fits(c)
  BY Zenon DEF Inv, Judged, Fits
<1>3. /\ b.next + 1 \in 0..MaxRange /\ b.next + 1 <= b.n
      /\ b.first..(b.first + (b.next + 1) - 1) = Own(b, b.next) \cup {k0}
  BY <1>2, OwnNext, Zenon
<1>4. e \in BOOLEAN
  OBVIOUS
<1>6. batch' = [batch EXCEPT ![c] = d]
  BY Zenon DEF Passed
<1> HIDE DEF e
<1>12. d.first = b.first /\ d.n = b.n /\ d.next = b.next + 1 /\ d.first_error = e /\ d \in Batches
  <2> DEFINE i == b.next + 1
  <2>1. i \in 0..MaxRange /\ b \in Batches /\ e \in BOOLEAN
    BY <1>2, <1>3, <1>4, Zenon
  <2> HIDE DEF i, b
  <2>2. /\ Passed(b, i, e).first = b.first /\ Passed(b, i, e).n = b.n
        /\ Passed(b, i, e).next = i /\ Passed(b, i, e).first_error = e
        /\ Passed(b, i, e) \in Batches
    BY <2>1, PassedIs
  <2> QED BY <2>2, Zenon DEF i
<1> HIDE DEF d
<1>5. /\ d.first = b.first /\ d.n = b.n /\ d.next = b.next + 1 /\ d \in Batches
      /\ d.first_error <=> b.first_error \/ outcome[k0] = "error"
  BY <1>12, Zenon DEF e
<1>7. batch' \in [Submitters -> Batches] /\ batch'[c] = d /\ \A u \in Submitters \ {c} : batch'[u] = batch[u]
  BY <1>5, <1>6, ZenonT(60) DEF Inv, Judged
<1>8. Own(d, d.next) = Own(b, b.next) \cup {k0} /\ \A i : Own(d, i) = Own(b, i)
  BY <1>3, <1>5, Zenon DEF Own
<1>9. Fits(c)'
  <2>1. /\ \A k \in Own(b, b.next) : outcome[k] \in {"ok", "error"}
        /\ b.first_error <=> \E k \in Own(b, b.next) : outcome[k] = "error"
        /\ b.first + b.n - 1 <= accepted /\ b.n # 0 /\ result[c] = None
    BY <1>2 DEF Fits
  <2>2. /\ \A k \in Own(d, d.next) : outcome[k] \in {"ok", "error"}
        /\ d.first_error <=> \E k \in Own(d, d.next) : outcome[k] = "error"
    BY <1>5, <1>8, <2>1, Zenon
  <2>3. d.next <= d.n /\ d.first + d.n - 1 <= accepted /\ d.n # 0
    BY <1>3, <1>5, <2>1, Zenon
  <2>4. None \notin {"ok", "error", "system_error"}
    BY RangeAssumption
  <2> HIDE DEF b, k0
  <2> QED BY <1>7, <2>1, <2>2, <2>3, <2>4, Zenon DEF Fits
<1>10. PoolInv' /\ Grows
  BY IdleKeeps, Zenon DEF Inv
<1>11. Judged'
  BY <1>1, <1>7, <1>9, <1>10, JudgedStep, Zenon DEF Inv, PoolInv, Judged
<1> QED BY <1>10, <1>11, Zenon DEF Inv

\* Execute gets the next future.
LEMMA ExecuteGetKeeps == ASSUME Inv, NEW c \in Submitters, ExecuteGet(c) PROVE Inv'
<1> DEFINE o == outcome[batch[c].first + batch[c].next]
<1>1. /\ submit[c].at = "queued" /\ batch[c] \in Batches
      /\ batch[c].next <= batch[c].n /\ batch[c].first + batch[c].n - 1 <= accepted
  BY Zenon DEF Inv, Judged, Fits, ExecuteGet
<1>2. CASE batch[c].next = batch[c].n
  BY <1>2, ExecuteEndKeeps, Zenon DEF ExecuteGet
<1>3. CASE batch[c].next # batch[c].n
  <2>1. o # None
    BY <1>3, Zenon DEF ExecuteGet
  <2>2. o \in {"ok", "error", "throws"}
    <3>1. batch[c].n \in Nat /\ batch[c].n <= batch[c].n
      BY <1>1, Constants DEF Batches
    <3>2. batch[c].first + batch[c].next \in Own(batch[c], batch[c].n)
      BY <1>1, <1>3, OwnNext, Zenon
    <3>3. Own(batch[c], batch[c].n) \subseteq Tasks
      BY <1>1, <3>1, OwnAccepted, Zenon DEF Inv, PoolInv
    <3>4. outcome \in [Tasks -> {None, "ok", "error", "throws"}]
      BY Zenon DEF Inv, PoolInv, PoolTypeOK
    <3> QED BY <2>1, <3>2, <3>3, <3>4
  <2>3. CASE o = "throws"
    <3>1. /\ Returns(c, "system_error")
          /\ UNCHANGED <<m_work_queue, m_interrupt, m_workers, pc, running, stop, threads_to_join,
                         interrupter, accepted, outcome, batch>>
      BY <1>3, <2>3, Zenon DEF ExecuteGet, GivesUp
    <3> QED BY <1>1, <1>3, <2>3, <3>1, ExecuteThrowKeeps, Zenon
  <2>4. CASE o # "throws"
    <3>1. /\ batch' = [batch EXCEPT ![c] = [batch[c] EXCEPT !.next = batch[c].next + 1,
                                             !.first_error = batch[c].first_error \/ o = "error"]]
          /\ UNCHANGED <<m_work_queue, m_interrupt, m_workers, pc, running, stop, threads_to_join,
                         interrupter, accepted, outcome, result, submit>>
      BY <1>3, <2>4, Zenon DEF ExecuteGet, GivesUp
    <3>2. o \in {"ok", "error"}
      BY <2>2, <2>4, Zenon
    <3> QED BY <1>1, <1>3, <3>1, <3>2, ExecutePassKeeps, Zenon
  <2> QED BY <2>3, <2>4, Zenon
<1> QED BY <1>2, <1>3, Zenon

-----------------------------------------------------------------------------
(* Every step.                                                              *)

\* A step of a caller inside Execute.
LEMMA ExecuteStepKeeps == ASSUME Inv, NEW c \in Submitters, ExecuteStep(c) PROVE Inv'
<1>1. CASE SubmitNotify(c, TRUE) /\ UNCHANGED <<batch, result>>
  <2>1. c \in Callers /\ Submitters \subseteq Callers /\ TRUE \in BOOLEAN
    BY Constants, Zenon
  <2>2. /\ PoolInv' /\ Grows /\ (\A u \in Callers \ {c} : submit'[u] = submit[u])
        /\ submit[c].at = "notify" /\ submit'[c].at = "queued"
    BY <1>1, <2>1, SubmitNotifyKeeps, Zenon DEF Inv
  <2>3. Judged'
    BY <1>1, <2>1, <2>2, JudgedSame, Zenon DEF Inv, PoolInv
  <2> QED BY <2>2, <2>3, Zenon DEF Inv
<1> QED BY <1>1, ExecuteQueueKeeps, ExecuteRejectedKeeps, ExecuteGetKeeps, Zenon DEF ExecuteStep

\* A step of the pool that leaves the calls of Execute alone.
LEMMA PoolStepKeeps ==
  ASSUME Inv, PoolInv', Grows, UNCHANGED <<batch, result>>, \A u \in Submitters : submit'[u] = submit[u]
  PROVE  Inv'
BY JudgedSame, Zenon DEF Inv, PoolInv

\* A step of a worker.
LEMMA WorkerStepKeeps ==
  ASSUME Inv, NEW w \in Workers,
         WorkerStep(w) \/ PoolOnly(SpuriousWake(w)) \/ PoolOnly(SubmitCheck(w, 1))
  PROVE  Inv'
<1>1. w \in Callers /\ (\A u \in Submitters : u \in Callers \ {w}) /\ FALSE \in BOOLEAN /\ 1 \in Nat
  BY Constants
<1>2. UNCHANGED <<batch, result>>
  BY Zenon DEF WorkerStep, PoolOnly
<1>3. CASE SpuriousWake(w) \/ WorkerLoop(w)
  <2>1. PoolInv' /\ Grows
    BY <1>3, IdleWorkerKeeps, WorkerTakesKeeps, Zenon DEF Inv
  <2>2. UNCHANGED submit
    BY <1>3, Zenon DEF SpuriousWake, WorkerLoop
  <2> QED BY <1>2, <2>1, <2>2, PoolStepKeeps, Zenon
<1>4. CASE WorkerTaskDone(w)
  BY <1>1, <1>2, <1>4, WorkerTaskDoneKeeps, PoolStepKeeps, Zenon DEF Inv
<1>5. CASE SubmitQueue(w)
  BY <1>1, <1>2, <1>5, SubmitQueueKeeps, PoolStepKeeps, Zenon DEF Inv
<1>6. CASE SubmitNotify(w, FALSE)
  BY <1>1, <1>2, <1>6, SubmitNotifyKeeps, PoolStepKeeps, Zenon DEF Inv
<1>7. CASE SubmitCheck(w, 1)
  BY <1>1, <1>2, <1>7, SubmitCheckKeeps, PoolStepKeeps, Zenon DEF Inv
<1> QED BY <1>3, <1>4, <1>5, <1>6, <1>7, Zenon DEF WorkerStep, PoolOnly

\* A step of the controllers.
LEMMA ControlStepKeeps ==
  ASSUME Inv, UNCHANGED <<batch, result>>, Start \/ StopBegin \/ StopStep \/ Interrupt \/ InterruptNotify
  PROVE  Inv'
<1>1. UNCHANGED submit
  BY Zenon DEF Start, StopBegin, StopStep, Interrupt, InterruptNotify, StopNotify, StopDrain, StopTaskDone,
               StopJoin, StopReset
<1>2. PoolInv' /\ Grows
  <2>1. CASE StopStep
    BY <2>1, NotifyKeeps, StopEndKeeps, StopTakesKeeps, StopTaskDoneKeeps, Zenon DEF Inv, StopStep
  <2> QED BY <2>1, StartKeeps, StopBeginKeeps, InterruptKeeps, NotifyKeeps, Zenon DEF Inv
<1> QED BY <1>1, <1>2, PoolStepKeeps, Zenon

\* At the start there is neither a task nor a worker.
LEMMA InitInv == Init => Inv
<1> SUFFICES ASSUME Init PROVE Inv
  OBVIOUS
<1>1. /\ m_work_queue = <<>> /\ m_interrupt = FALSE /\ m_workers = {} /\ pc = [w \in Workers |-> "none"]
      /\ running = [e \in Executors |-> None] /\ submit = [c \in Callers |-> [at |-> "idle", n |-> 0]]
      /\ stop = "idle" /\ threads_to_join = {} /\ interrupter = "idle"
      /\ accepted = 0 /\ outcome = [k \in Tasks |-> None]
      /\ batch = [c \in Submitters |-> NoBatch] /\ result = [c \in Submitters |-> None]
  BY Zenon DEF Init, PoolInit, NoSubmit
<1>2. MaxTasks \in Nat /\ MaxRange \in Nat /\ Workers \subseteq Executors /\ Stopper \in Executors
      /\ Submitters \subseteq Callers /\ None \notin Tasks /\ Tasks = 1..MaxTasks
  BY Constants
<1>3. PoolTypeOK
  <2>1. m_work_queue \in Seq(Tasks) /\ accepted \in 0..MaxTasks
    BY <1>1, <1>2
  <2>2. submit \in [Callers -> [at : {"idle", "checked", "notify", "queued", "rejected"}, n : Nat]]
    BY <1>1
  <2>3. \A w \in Workers : running[w] # None <=> pc[w] = "run"
    BY <1>1, <1>2
  <2>4. /\ running \in [Executors -> Tasks \cup {None}] /\ outcome \in [Tasks -> {None, "ok", "error", "throws"}]
        /\ pc \in [Workers -> {"none", "loop", "wait", "run", "exited"}]
    BY <1>1, Zenon
  <2> QED BY <1>1, <2>1, <2>2, <2>3, <2>4, Zenon DEF PoolTypeOK
<1>4. Sums
  <2>1. \A c \in Callers : submit[c].at = "idle" /\ submit[c].n = 0
    BY <1>1
  <2>2. Packaged = {}
    <3>1. ASSUME NEW x \in Packaged PROVE FALSE
      <4>1. x[1] \in Callers /\ submit[x[1]].at = "checked"
        BY Zenon DEF Packaged
      <4> QED BY <2>1, <4>1
    <3> QED BY <3>1, Zenon
  <2>3. Cardinality(Packaged) = 0
    BY <2>2, FS_EmptySet, Zenon
  <2> QED BY <1>1, <1>2, <2>1, <2>3 DEF Sums
<1>5. Placed
  BY <1>1, <1>2 DEF Placed
<1>6. Staffed
  BY <1>1, <1>2 DEF Staffed
<1>7. Judged
  <2>1. NoBatch \in Batches /\ Own(NoBatch, 0) = {} /\ NoBatch.next = 0 /\ NoBatch.n = 0
        /\ NoBatch.first_error = FALSE /\ NoBatch.first = 1
    BY <1>2 DEF Own, NoBatch, Batches
  <2>2. None \notin {"ok", "error", "system_error"} /\ None \in Verdicts
    BY RangeAssumption DEF Verdicts
  <2>3. ASSUME NEW c \in Submitters PROVE Fits(c)
    <3>1. batch[c] = NoBatch /\ result[c] = None /\ submit[c].at = "idle"
      BY <1>1, <1>2
    <3>2. 1 + 0 - 1 <= accepted /\ 0 <= 0
      BY <1>1
    <3> QED BY <2>1, <2>2, <3>1, <3>2 DEF Fits
  <2> QED BY <1>1, <2>1, <2>2, <2>3, Zenon DEF Judged
<1> QED BY <1>3, <1>4, <1>5, <1>6, <1>7, Zenon DEF Inv, PoolInv

\* The invariant is inductive.
LEMMA NextKeeps == Inv /\ [Next]_vars => Inv'
<1> SUFFICES ASSUME Inv, [Next]_vars PROVE Inv'
  OBVIOUS
<1>1. CASE UNCHANGED vars
  <2>1. UNCHANGED <<m_work_queue, m_interrupt, m_workers, pc, running, submit, stop, threads_to_join,
                    interrupter, accepted, outcome, batch, result>>
    BY <1>1, Zenon DEF vars, poolVars
  <2>2. PoolInv' /\ Grows
    BY <2>1, IdleKeeps, Zenon DEF Inv
  <2> QED BY <2>1, <2>2, PoolStepKeeps, Zenon
<1>2. ASSUME NEW c \in Submitters, (\E n \in 1..MaxRange : Execute(c, n)) \/ ExecuteStep(c) PROVE Inv'
  BY <1>2, ExecuteKeeps, ExecuteStepKeeps, Zenon
<1>3. ASSUME NEW w \in Workers,
             WorkerStep(w) \/ PoolOnly(SpuriousWake(w)) \/ PoolOnly(SubmitCheck(w, 1))
      PROVE  Inv'
  BY <1>3, WorkerStepKeeps, Zenon
<1>4. CASE \/ PoolOnly(Start) \/ PoolOnly(StopBegin) \/ PoolOnly(StopStep)
           \/ PoolOnly(Interrupt) \/ PoolOnly(InterruptNotify)
  BY <1>4, ControlStepKeeps, Zenon DEF PoolOnly
<1>5. CASE \E w \in Workers : pc[w] = "run" /\ PoolOnly(SubmitCheck(w, 1))
  BY <1>3, <1>5, Zenon DEF PoolOnly
<1> QED BY <1>1, <1>2, <1>3, <1>4, <1>5, Zenon DEF Next

\* So it always holds.
LEMMA InvAlways == Spec => []Inv
BY InitInv, NextKeeps, PTL DEF Spec

-----------------------------------------------------------------------------
(* The properties.                                                          *)

\* A task that Submit accepted is in the queue, executed by one thread, or done, and as long as
\* the queue is not empty there is a worker, or the controller in Stop, to execute it.
THEOREM TasksAlwaysConserved == Spec => []TasksConserved
<1>1. Inv => TasksConserved
  <2> SUFFICES ASSUME Inv PROVE TasksConserved
    OBVIOUS
  <2>1. ASSUME NEW k \in 1..accepted
        PROVE  Cardinality({i \in DOMAIN m_work_queue : m_work_queue[i] = k})
                 + Cardinality({e \in Executors : running[e] = k}) = IF outcome[k] = None THEN 1 ELSE 0
    <3> DEFINE Q == {i \in DOMAIN m_work_queue : m_work_queue[i] = k}
               R == {e \in Executors : running[e] = k}
    <3>1. k \in Tasks /\ k # None /\ k <= accepted
      BY Constants DEF Inv, PoolInv, PoolTypeOK
    <3>2. (outcome[k] = None <=> Q # {} \/ R # {}) /\ (Q = {} \/ R = {})
      <4>1. /\ outcome[k] = None <=>
                 ((\E i \in DOMAIN m_work_queue : m_work_queue[i] = k) \/ (\E e \in Executors : running[e] = k))
            /\ \A e \in Executors : \A i \in DOMAIN m_work_queue : running[e] # m_work_queue[i]
        BY <3>1, Zenon DEF Inv, PoolInv, Placed
      <4> QED BY <4>1, Zenon
    <3>3. Cardinality(Q) = IF Q = {} THEN 0 ELSE 1
      <4>1. \A x, y \in Q : x = y
        BY Zenon DEF Inv, PoolInv, Placed
      <4> QED BY <4>1, OneOrNone, Zenon
    <3>4. Cardinality(R) = IF R = {} THEN 0 ELSE 1
      <4>1. \A x, y \in R : x = y
        BY <3>1, Zenon DEF Inv, PoolInv, Placed
      <4> QED BY <4>1, OneOrNone, Zenon
    <3> HIDE DEF Q, R
    <3>5. Cardinality(Q) + Cardinality(R) = IF outcome[k] = None THEN 1 ELSE 0
      BY <3>2, <3>3, <3>4
    <3> QED BY <3>5, Zenon DEF Q, R
  <2>2. m_work_queue # <<>> =>
          stop \in {"notify", "drain", "run"} \/ \E w \in Workers : pc[w] \in {"loop", "wait", "run"}
    <3> SUFFICES ASSUME m_work_queue # <<>>, stop \notin {"notify", "drain", "run"}
                 PROVE  \E w \in Workers : pc[w] \in {"loop", "wait", "run"}
      OBVIOUS
    <3>1. stop \in {"idle", "join", "reset"}
      BY DEF Inv, PoolInv, PoolTypeOK
    <3>2. \A w \in Workers : pc[w] # "none" /\ pc[w] # "exited"
      BY <3>1, Zenon DEF Inv, PoolInv, Staffed
    <3>3. \A w \in Workers : pc[w] \in {"none", "loop", "wait", "run", "exited"}
      BY Zenon DEF Inv, PoolInv, PoolTypeOK
    <3>4. Workers # {}
      BY Constants, Zenon
    <3> QED BY <3>2, <3>3, <3>4
  <2> QED BY <2>1, <2>2, Zenon DEF TasksConserved
<1> QED BY <1>1, InvAlways, PTL

\* While Stop is in progress the pool takes no task and starts no worker; before it lets the
\* pool start again the queue is empty and no worker of the old generation is left.
THEOREM StopAlwaysDrains == Spec => []StopDrains
<1>1. Inv => StopDrains
  <2> SUFFICES ASSUME Inv PROVE StopDrains
    OBVIOUS
  <2>1. stop # "idle" => m_workers = {} /\ m_interrupt
    BY Zenon DEF Inv, PoolInv, Staffed
  <2>2. stop = "reset" => m_work_queue = <<>> /\ \A w \in Workers : pc[w] = "none"
    BY <2>1 DEF Inv, PoolInv, Staffed
  <2>3. \A w \in Workers : pc[w] = "none" => running[w] = None
    BY DEF Inv, PoolInv, PoolTypeOK
  <2> QED BY <2>1, <2>2, <2>3, Zenon DEF StopDrains
<1> QED BY <1>1, InvAlways, PTL

\* What Execute returns is decided by its own tasks, whichever threads executed them, in whatever
\* order, and whatever interrupts and stops of the pool came in between.
THEOREM VerdictAlwaysOfBatch == Spec => []VerdictOfBatch
<1>1. Inv => VerdictOfBatch
  <2> SUFFICES ASSUME Inv PROVE VerdictOfBatch
    OBVIOUS
  <2>1. TypeOK
    <3>1. ASSUME NEW c \in Submitters
          PROVE  /\ batch[c].n \in 0..MaxRange /\ batch[c].next \in 0..batch[c].n
                 /\ batch[c].first_error \in BOOLEAN
      <4>1. batch[c] \in Batches /\ batch[c].next <= batch[c].n
        BY Zenon DEF Inv, Judged, Fits
      <4> QED BY <4>1, Constants DEF Batches
    <3> QED BY <3>1, Zenon DEF TypeOK, Inv, PoolInv, Judged, Verdicts
  <2>2. ASSUME NEW c \in Submitters
        PROVE  LET b == batch[c]
                   outcomes == {outcome[k] : k \in b.first..(b.first + b.n - 1)}
               IN  /\ result[c] = "ok" => outcomes = {"ok"}
                   /\ result[c] = "error" => "error" \in outcomes /\ outcomes \subseteq {"ok", "error"}
                   /\ result[c] = "system_error" => "throws" \in outcomes
    <3> DEFINE b == batch[c]
               O == Own(b, b.n)
    <3>1. b \in Batches /\ Fits(c)
      BY Zenon DEF Inv, Judged
    <3>2. /\ result[c] = "ok" => b.n # 0 /\ \A k \in O : outcome[k] = "ok"
          /\ result[c] = "error" => /\ \A k \in O : outcome[k] \in {"ok", "error"}
                                    /\ \E k \in O : outcome[k] = "error"
          /\ result[c] = "system_error" => \E k \in O : outcome[k] = "throws"
      BY <3>1, Zenon DEF Fits
    <3>3. b.n # 0 => O # {}
      BY <3>1, Constants DEF Own, Batches
    <3> HIDE DEF O, b
    <3>4. /\ result[c] = "ok" => {outcome[k] : k \in O} = {"ok"}
          /\ result[c] = "error" => "error" \in {outcome[k] : k \in O} /\ {outcome[k] : k \in O} \subseteq {"ok", "error"}
          /\ result[c] = "system_error" => "throws" \in {outcome[k] : k \in O}
      BY <3>2, <3>3, Zenon
    <3> QED BY <3>4, Zenon DEF O, b, Own
  <2> QED BY <2>1, <2>2, Zenon DEF VerdictOfBatch
<1> QED BY <1>1, InvAlways, PTL

=============================================================================
