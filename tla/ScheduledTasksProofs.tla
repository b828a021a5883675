------------------------ MODULE ScheduledTasksProofs ------------------------
(***************************************************************************)
(* The service threads of CScheduler lose no function and run none twice,   *)
(* for any threads, functions, delays and ways to stop.                     *)
(***************************************************************************)
EXTENDS ScheduledTasks, SchedulerLemmas, CountingLemmas

Functions == Once \cup Every

\* The functions of a queue, and that none of them is there twice.
Queued(q) == {q[i].f : i \in DOMAIN q}
Distinct(q) == \A i, j \in DOMAIN q : q[i].f = q[j].f => i = j

\* The functions that service threads are running.
InRun == {running[t].f : t \in {u \in Threads : pc[u] = "run"}}

\* The functions that still have to run, once or again.
Pending == {f \in called : f \in Every \/ f \notin ran}

\* Every pending function is in one place: in the queue or with one thread.
Placed ==
  /\ Distinct(taskQueue)
  /\ \A t, u \in Threads : pc[t] = "run" /\ pc[u] = "run" /\ running[t].f = running[u].f => t = u
  /\ Queued(taskQueue) \cap InRun = {}
  /\ Queued(taskQueue) \cup InRun = Pending

\* The inductive invariant: that of the scheduler, and the place of every function.
TasksInv ==
  /\ SchedInv(Functions)
  /\ called \subseteq Functions /\ ran \subseteq called /\ mocked \in 0..MaxMock
  /\ Placed

-----------------------------------------------------------------------------
(* The queue as a set of functions.                                         *)

\* The indices and entries of a queue.
LEMMA QueueIs ==
  ASSUME NEW F, NEW q \in Seq(Entries(F))
  PROVE  /\ Len(q) \in Nat /\ DOMAIN q = 1..Len(q) /\ Queued(q) \subseteq F
         /\ \A i \in 1..Len(q) : q[i] \in Entries(F) /\ q[i].f \in F
<1>1. Len(q) \in Nat /\ DOMAIN q = 1..Len(q) /\ \A i \in 1..Len(q) : q[i] \in Entries(F)
  OBVIOUS
<1> QED BY <1>1 DEF Entries, Queued

\* insert adds one function.
LEMMA InsertedQueued ==
  ASSUME NEW F, NEW q \in Seq(Entries(F)), NEW e \in Entries(F), Distinct(q), e.f \notin Queued(q)
  PROVE  /\ Inserted(q, e) \in Seq(Entries(F))
         /\ Queued(Inserted(q, e)) = Queued(q) \cup {e.f} /\ Distinct(Inserted(q, e))
<1> DEFINE r == Inserted(q, e)
<1>1. PICK k \in 1..(Len(q)+1) :
           /\ r \in Seq(Entries(F)) /\ Len(r) = Len(q) + 1
           /\ \A i \in 1..(Len(q)+1) : r[i] = IF i < k THEN q[i] ELSE IF i = k THEN e ELSE q[i-1]
  BY InsertedPlace
<1> HIDE DEF r
<1>2. /\ Len(q) \in Nat /\ DOMAIN q = 1..Len(q) /\ k \in 1..(Len(q)+1) /\ DOMAIN r = 1..(Len(q)+1)
      /\ r \in Seq(Entries(F))
  BY <1>1, QueueIs
<1>3. ASSUME NEW i \in 1..(Len(q)+1)
      PROVE  \/ i = k /\ r[i] = e
             \/ i < k /\ i \in DOMAIN q /\ r[i] = q[i]
             \/ i > k /\ i - 1 \in DOMAIN q /\ r[i] = q[i-1]
  BY <1>1, <1>2
<1>4. ASSUME NEW i \in DOMAIN q PROVE \E j \in 1..(Len(q)+1) : r[j] = q[i]
  <2>1. CASE i < k
    BY <1>1, <1>2, <2>1
  <2>2. CASE i >= k
    <3>1. i + 1 \in 1..(Len(q)+1) /\ ~(i + 1 < k) /\ i + 1 # k /\ i + 1 - 1 = i
      BY <1>2, <2>2
    <3>2. r[i + 1] = q[i]
      BY <3>1, <1>1
    <3> QED BY <3>1, <3>2
  <2> QED BY <1>2, <2>1, <2>2
<1>5. r[k] = e
  BY <1>1, <1>2
<1>6. Queued(r) = Queued(q) \cup {e.f}
  <2>1. ASSUME NEW i \in 1..(Len(q)+1) PROVE r[i].f \in Queued(q) \cup {e.f}
    BY <1>3 DEF Queued
  <2>2. ASSUME NEW i \in DOMAIN q PROVE q[i].f \in Queued(r)
    BY <1>2, <1>4 DEF Queued
  <2>3. e.f \in Queued(r)
    BY <1>2, <1>5 DEF Queued
  <2> QED BY <1>2, <2>1, <2>2, <2>3, Zenon DEF Queued
<1>7. Distinct(r)
  <2> SUFFICES ASSUME NEW i \in 1..(Len(q)+1), NEW j \in 1..(Len(q)+1), r[i].f = r[j].f PROVE i = j
    BY <1>2 DEF Distinct
  <2>1. \A m \in DOMAIN q : q[m].f # e.f
    BY DEF Queued
  <2>2. \A m, n \in DOMAIN q : q[m].f = q[n].f => m = n
    BY DEF Distinct
  <2>3. ASSUME NEW m \in 1..(Len(q)+1), m # k
        PROVE  \E n \in DOMAIN q : r[m] = q[n] /\ ((n < k /\ m = n) \/ (n >= k /\ m = n + 1))
    <3>1. CASE m < k
      <4>1. m \in DOMAIN q /\ r[m] = q[m]
        BY <1>2, <1>3, <3>1
      <4>2. m \in DOMAIN q
        BY <4>1
      <4> WITNESS m \in DOMAIN q
      <4> QED BY <3>1, <4>1
    <3>2. CASE m > k
      <4>1. m - 1 \in DOMAIN q /\ r[m] = q[m-1] /\ m - 1 >= k /\ m = (m - 1) + 1
        BY <1>2, <1>3, <3>2
      <4> QED BY <4>1, Zenon
    <3> QED BY <1>2, <2>3, <3>1, <3>2
  <2>4. CASE i = k \/ j = k
    BY <1>5, <2>1, <2>3, <2>4
  <2>5. CASE i # k /\ j # k
    <3>1. PICK m \in DOMAIN q : r[i] = q[m] /\ ((m < k /\ i = m) \/ (m >= k /\ i = m + 1))
      BY <2>3, <2>5
    <3>2. PICK n \in DOMAIN q : r[j] = q[n] /\ ((n < k /\ j = n) \/ (n >= k /\ j = n + 1))
      BY <2>3, <2>5
    <3>3. m = n
      BY <2>2, <3>1, <3>2
    <3> QED BY <3>1, <3>2, <3>3, <1>2
  <2> QED BY <2>4, <2>5
<1> QED BY <1>2, <1>6, <1>7 DEF r

\* erase of the first entry takes one function away.
LEMMA TailQueued ==
  ASSUME NEW F, NEW q \in Seq(Entries(F)), q # <<>>, Distinct(q)
  PROVE  /\ Head(q) \in Entries(F) /\ Head(q).f \in Queued(q)
         /\ Queued(Tail(q)) = Queued(q) \ {Head(q).f} /\ Distinct(Tail(q))
<1>1. /\ Len(q) \in Nat \ {0} /\ DOMAIN q = 1..Len(q) /\ Head(q) = q[1] /\ q[1] \in Entries(F)
      /\ DOMAIN Tail(q) = 1..(Len(q)-1) /\ \A i \in 1..(Len(q)-1) : Tail(q)[i] = q[i+1]
  OBVIOUS
<1>2. \A m, n \in DOMAIN q : q[m].f = q[n].f => m = n
  BY DEF Distinct
<1> DEFINE r == Tail(q)
<1>3. /\ DOMAIN r = 1..(Len(q)-1) /\ \A i \in 1..(Len(q)-1) : r[i] = q[i+1]
  BY <1>1
<1> HIDE DEF r
<1>4. ASSUME NEW i \in DOMAIN r PROVE r[i] = q[i+1] /\ i + 1 \in DOMAIN q /\ i + 1 # 1
  BY <1>1, <1>3
<1>5. ASSUME NEW i \in DOMAIN q, i # 1 PROVE \E j \in DOMAIN r : r[j] = q[i]
  <2>1. i - 1 \in 1..(Len(q)-1) /\ (i - 1) + 1 = i
    BY <1>1, <1>5
  <2> QED BY <1>3, <2>1
<1>6. Queued(r) = Queued(q) \ {q[1].f}
  <2>1. ASSUME NEW i \in DOMAIN r PROVE r[i].f \in Queued(q) /\ r[i].f # q[1].f
    BY <1>1, <1>2, <1>4 DEF Queued
  <2>2. ASSUME NEW i \in DOMAIN q, q[i].f # q[1].f PROVE q[i].f \in Queued(r)
    BY <1>5, <2>2 DEF Queued
  <2> QED BY <2>1, <2>2 DEF Queued
<1>7. Distinct(r)
  <2> SUFFICES ASSUME NEW i \in DOMAIN r, NEW j \in DOMAIN r, r[i].f = r[j].f PROVE i = j
    BY DEF Distinct
  <2>1. i + 1 = j + 1
    BY <1>2, <1>4
  <2> QED BY <1>3, <1>1, <2>1
<1>8. q[1].f \in Queued(q)
  BY <1>1 DEF Queued
<1> QED BY <1>1, <1>6, <1>7, <1>8 DEF r

-----------------------------------------------------------------------------
(* Steps.                                                                   *)

\* What the invariant of the scheduler says of its variables.
LEMMA SchedIs ==
  ASSUME SchedInv(Functions)
  PROVE  /\ pc \in [Threads -> {"start", "wait", "wait_until", "woken", "woken_until", "run", "returned", "exited"}]
         /\ taskQueue \in Seq(Entries(Functions)) /\ running \in [Threads -> Entries(Functions) \cup {None}]
         /\ \A t \in Threads : pc[t] = "run" => running[t] \in Entries(Functions)
  BY DEF SchedInv, SchedTypeOK

\* Steps that take no function from the queue and finish none.
LEMMA NobodyMoves ==
  ASSUME TasksInv, SchedInv(Functions)', UNCHANGED <<taskQueue, running, called, ran, mocked>>,
         \A t \in Threads : pc'[t] = "run" <=> pc[t] = "run"
  PROVE  TasksInv'
<1>1. InRun' = InRun
  BY DEF InRun
<1>2. Pending' = Pending
  BY DEF Pending
<1>3. Placed'
  BY <1>1, <1>2 DEF TasksInv, Placed
<1> QED BY <1>3 DEF TasksInv

\* The outer loop does not touch functions.
LEMMA LoopTopMovesNobody ==
  ASSUME TasksInv, NEW t \in Threads, pc[t] # "run", NEW servicing, LoopTop(t, servicing)
  PROVE  /\ UNCHANGED <<taskQueue, running>>
         /\ \A u \in Threads : pc'[u] = "run" <=> pc[u] = "run"
<1>1. pc \in [Threads -> {"start", "wait", "wait_until", "woken", "woken_until", "run", "returned", "exited"}]
  BY SchedIs DEF TasksInv
<1>2. /\ UNCHANGED <<taskQueue, running>>
      /\ \E at \in {"exited", "wait", "wait_until"} : pc' = [pc EXCEPT ![t] = at]
  BY DEF LoopTop, Leave, WaitForTask, WaitForTime
<1> QED BY <1>1, <1>2

\* A thread that leaves its wait takes the first function from the queue.
LEMMA TakingKeeps ==
  ASSUME TasksInv, SchedInv(Functions)', NEW t \in Threads, pc[t] # "run", taskQueue # <<>>,
         running' = [running EXCEPT ![t] = Head(taskQueue)], taskQueue' = Tail(taskQueue),
         pc' = [pc EXCEPT ![t] = "run"], UNCHANGED <<called, ran, mocked>>
  PROVE  TasksInv'
<1>1. /\ pc \in [Threads -> {"start", "wait", "wait_until", "woken", "woken_until", "run", "returned", "exited"}]
      /\ taskQueue \in Seq(Entries(Functions)) /\ running \in [Threads -> Entries(Functions) \cup {None}]
  BY SchedIs DEF TasksInv
<1> DEFINE h == Head(taskQueue).f
<1>2. /\ h \in Queued(taskQueue) /\ Queued(taskQueue') = Queued(taskQueue) \ {h} /\ Distinct(taskQueue')
  BY <1>1, TailQueued DEF TasksInv, Placed
<1>3. /\ pc'[t] = "run" /\ running'[t].f = h
      /\ \A u \in Threads \ {t} : pc'[u] = pc[u] /\ running'[u] = running[u]
  BY <1>1
<1> HIDE DEF h
<1>4. InRun' = InRun \cup {h}
  <2>1. ASSUME NEW u \in Threads, pc'[u] = "run" PROVE running'[u].f \in InRun \cup {h}
    BY <1>3, <2>1 DEF InRun
  <2>2. ASSUME NEW u \in Threads, pc[u] = "run" PROVE running[u].f \in InRun'
    <3>1. pc'[u] = "run" /\ running'[u] = running[u]
      BY <1>3, <2>2
    <3> QED BY <3>1, Zenon DEF InRun
  <2>3. h \in InRun'
    BY <1>3, Zenon DEF InRun
  <2> QED BY <2>1, <2>2, <2>3, Zenon DEF InRun
<1>5. Pending' = Pending
  BY DEF Pending
<1>6. /\ Queued(taskQueue) \cap InRun = {} /\ Queued(taskQueue) \cup InRun = Pending
      /\ \A u, v \in Threads : pc[u] = "run" /\ pc[v] = "run" /\ running[u].f = running[v].f => u = v
  BY DEF TasksInv, Placed
<1>7. \A u \in Threads : pc[u] = "run" => running[u].f # h
  BY <1>2, <1>6 DEF InRun
<1>8. \A u, v \in Threads : pc'[u] = "run" /\ pc'[v] = "run" /\ running'[u].f = running'[v].f => u = v
  BY <1>3, <1>6, <1>7
<1>9. /\ Queued(taskQueue') \cap InRun' = {} /\ Queued(taskQueue') \cup InRun' = Pending'
  BY <1>2, <1>4, <1>5, <1>6
<1>10. Placed'
  BY <1>2, <1>8, <1>9 DEF Placed, Distinct, Queued
<1> QED BY <1>10 DEF TasksInv

\* The three ways through serviceQueue.
LEMMA ServiceMoves ==
  ASSUME TasksInv, NEW t \in Threads, ServiceQueue(t) \/ Relock(t) \/ WakeTimeout(t),
         UNCHANGED <<called, ran, mocked>>
  PROVE  TasksInv'
<1>1. SchedInv(Functions)'
  BY ServiceKeeps DEF TasksInv
<1>2. pc[t] # "run"
  BY DEF ServiceQueue, Relock, WakeTimeout
<1>3. ASSUME NEW servicing, LoopTop(t, servicing) PROVE TasksInv'
  BY <1>1, <1>2, <1>3, LoopTopMovesNobody, NobodyMoves
<1>4. CASE ServiceQueue(t) \/ Relock(t)
  BY <1>3, <1>4 DEF ServiceQueue, Relock
<1>5. CASE WakeTimeout(t)
  <2>1. CASE LoopTop(t, nThreadsServicingQueue)
    BY <1>3, <2>1
  <2>2. ASSUME taskQueue # <<>>,
               running' = [running EXCEPT ![t] = Head(taskQueue)], taskQueue' = Tail(taskQueue),
               pc' = [pc EXCEPT ![t] = "run"]
        PROVE  TasksInv'
    BY <1>1, <1>2, <2>2, TakingKeeps, Zenon
  <2> QED BY <1>5, <2>1, <2>2 DEF WakeTimeout
<1> QED BY <1>4, <1>5

\* MockForward moves the times and keeps the functions.
LEMMA MockKeeps ==
  ASSUME TasksInv, ClientMockForward
  PROVE  TasksInv'
<1>1. /\ taskQueue' = [i \in DOMAIN taskQueue |-> [taskQueue[i] EXCEPT !.time = @ - 1]]
      /\ notifies' = notifies + 1 /\ mocked' = mocked + 1 /\ mocked < MaxMock
      /\ UNCHANGED <<nThreadsServicingQueue, stopRequested, stopWhenEmpty, stopper, now, pc, until, running, called, ran>>
  BY DEF ClientMockForward, MockForward, threadVars
<1>2. /\ taskQueue \in Seq(Entries(Functions)) /\ Len(taskQueue) \in Nat /\ DOMAIN taskQueue = 1..Len(taskQueue)
      /\ \A i \in DOMAIN taskQueue : taskQueue[i] \in Entries(Functions)
  BY SchedIs, QueueIs DEF TasksInv
<1>3. DOMAIN taskQueue' = DOMAIN taskQueue
  BY <1>1
<1>4. ASSUME NEW i \in DOMAIN taskQueue
      PROVE  /\ taskQueue'[i] \in Entries(Functions) /\ taskQueue'[i].f = taskQueue[i].f
             /\ taskQueue'[i].time \in Int
  BY <1>1, <1>2 DEF Entries
<1>5. taskQueue' \in Seq(Entries(Functions)) /\ (taskQueue' = <<>> <=> taskQueue = <<>>)
  <2>1. taskQueue' = [i \in 1..Len(taskQueue) |-> taskQueue'[i]]
    BY <1>1, <1>2
  <2>2. \A i \in 1..Len(taskQueue) : taskQueue'[i] \in Entries(Functions)
    BY <1>2, <1>4
  <2> HIDE DEF Entries
  <2>3. taskQueue' \in Seq(Entries(Functions)) /\ Len(taskQueue') = Len(taskQueue)
    BY <1>2, <2>1, <2>2
  <2> QED BY <1>2, <2>3
<1>6. SchedInv(Functions)'
  <2>1. \A i \in DOMAIN taskQueue' : taskQueue'[i].time \in Int
    BY <1>3, <1>4
  <2>2. SchedTypeOK'
    <3>1. SchedTypeOK
      BY DEF TasksInv, SchedInv
    <3>2. notifies' \in Nat
      BY <1>1, <3>1 DEF SchedTypeOK
    <3> QED BY <1>1, <2>1, <3>1, <3>2, Zenon DEF SchedTypeOK
  <2>3. StoppedCleanly'
    BY <1>1, <1>5 DEF TasksInv, SchedInv, StoppedCleanly
  <2> QED BY <1>1, <1>5, <2>2, <2>3 DEF TasksInv, SchedInv
<1>7. Queued(taskQueue') = Queued(taskQueue) /\ (Distinct(taskQueue') <=> Distinct(taskQueue))
  BY <1>3, <1>4 DEF Queued, Distinct
<1>8. InRun' = InRun /\ Pending' = Pending
  BY <1>1 DEF InRun, Pending
<1>9. Placed'
  BY <1>1, <1>7, <1>8, Zenon DEF TasksInv, Placed, Queued, Distinct
<1>10. mocked' \in 0..MaxMock
  BY <1>1, TasksAssumption DEF TasksInv
<1> QED BY <1>1, <1>6, <1>9, <1>10 DEF TasksInv

\* A client hands over a function that is nowhere yet.
LEMMA ClientScheduleKeeps ==
  ASSUME TasksInv, NEW f \in Functions, NEW delta \in 0..MaxDelta, ClientSchedule(f, delta)
  PROVE  TasksInv'
<1>1. /\ stopper = "none" /\ f \notin called /\ schedule(f, now + delta) /\ called' = called \cup {f}
      /\ UNCHANGED <<stopper, now, threadVars>> /\ UNCHANGED <<pc, running, ran, mocked>>
  BY DEF ClientSchedule, threadVars
<1> DEFINE e == [time |-> now + delta, f |-> f]
<1>2. now + delta \in Int /\ ~stopWhenEmpty
  BY <1>1, SchedulerAssumption, TasksAssumption DEF TasksInv, SchedInv, SchedTypeOK
<1>3. e \in Entries(Functions) /\ e.f = f
  BY <1>2 DEF Entries
<1>4. SchedInv(Functions)'
  BY <1>1, <1>2, ScheduleKeeps DEF TasksInv
<1>5. /\ taskQueue \in Seq(Entries(Functions)) /\ Distinct(taskQueue)
      /\ Queued(taskQueue) \cap InRun = {} /\ Queued(taskQueue) \cup InRun = Pending
      /\ called \subseteq Functions /\ ran \subseteq called
  BY SchedIs DEF TasksInv, Placed
<1>6. f \notin Pending
  BY <1>1 DEF Pending
<1>7. taskQueue' = Inserted(taskQueue, e)
  BY <1>1 DEF schedule
<1> HIDE DEF e
<1>8. Queued(taskQueue') = Queued(taskQueue) \cup {f} /\ Distinct(taskQueue')
  BY <1>3, <1>5, <1>6, <1>7, InsertedQueued
<1>9. Pending' = Pending \cup {f}
  BY <1>1, <1>5 DEF Pending
<1>10. InRun' = InRun
  BY <1>1 DEF InRun
<1>11. Queued(taskQueue') \cap InRun' = {} /\ Queued(taskQueue') \cup InRun' = Pending'
  BY <1>5, <1>6, <1>8, <1>9, <1>10
<1>12. Placed'
  BY <1>1, <1>8, <1>11, Zenon DEF TasksInv, Placed, Distinct, Queued
<1> QED BY <1>1, <1>4, <1>5, <1>12 DEF TasksInv

\* A thread whose function has returned runs none.
LEMMA ReturnLeaves ==
  ASSUME TasksInv, NEW t \in Threads, pc[t] = "run",
         pc' = [pc EXCEPT ![t] = "returned"], running' = [running EXCEPT ![t] = None]
  PROVE  /\ running[t].f \in InRun /\ InRun' = InRun \ {running[t].f}
         /\ \A u, v \in Threads : pc'[u] = "run" /\ pc'[v] = "run" /\ running'[u].f = running'[v].f => u = v
<1>1. /\ pc \in [Threads -> {"start", "wait", "wait_until", "woken", "woken_until", "run", "returned", "exited"}]
      /\ running \in [Threads -> Entries(Functions) \cup {None}]
  BY SchedIs DEF TasksInv
<1>2. pc'[t] # "run" /\ \A u \in Threads \ {t} : pc'[u] = pc[u] /\ running'[u] = running[u]
  BY <1>1
<1>3. \A u, v \in Threads : pc[u] = "run" /\ pc[v] = "run" /\ running[u].f = running[v].f => u = v
  BY DEF TasksInv, Placed
<1>4. running[t].f \in InRun
  BY Zenon DEF InRun
<1>5. ASSUME NEW u \in Threads, pc'[u] = "run" PROVE running'[u].f \in InRun \ {running[t].f}
  <2>1. u # t /\ pc[u] = "run" /\ running'[u] = running[u]
    BY <1>2, <1>5
  <2>2. running[u].f \in InRun /\ running[u].f # running[t].f
    BY <2>1, <1>3, Zenon DEF InRun
  <2> QED BY <2>1, <2>2
<1>6. ASSUME NEW u \in Threads, pc[u] = "run", running[u].f # running[t].f PROVE running[u].f \in InRun'
  <2>1. pc'[u] = "run" /\ running'[u] = running[u]
    BY <1>2, <1>6
  <2> QED BY <2>1, Zenon DEF InRun
<1>7. InRun' = InRun \ {running[t].f}
  <2>1. ASSUME NEW x \in InRun' PROVE x \in InRun \ {running[t].f}
    BY <1>5, <2>1 DEF InRun
  <2>2. ASSUME NEW x \in InRun, x # running[t].f PROVE x \in InRun'
    BY <1>6, <2>2, Zenon DEF InRun
  <2> QED BY <2>1, <2>2
<1> QED BY <1>2, <1>3, <1>4, <1>7

\* The function returns; Repeat puts it back into the queue, and any other is done for good.
LEMMA RunKeeps ==
  ASSUME TasksInv, NEW t \in Threads, Run(t)
  PROVE  TasksInv'
<1> DEFINE f == running[t].f
<1>1. /\ pc[t] = "run" /\ pc' = [pc EXCEPT ![t] = "returned"] /\ running' = [running EXCEPT ![t] = None]
      /\ ran' = ran \cup {f} /\ UNCHANGED <<stopper, now, until>> /\ UNCHANGED <<called, mocked>>
      /\ \/ f \in Every /\ schedule(f, now + 1)
         \/ f \in Once /\ UNCHANGED <<queueVars, notifies>>
  BY DEF Run
<1>2. /\ f \in InRun /\ InRun' = InRun \ {f}
      /\ \A u, v \in Threads : pc'[u] = "run" /\ pc'[v] = "run" /\ running'[u].f = running'[v].f => u = v
  BY <1>1, ReturnLeaves, Zenon
<1>3. /\ taskQueue \in Seq(Entries(Functions)) /\ running[t] \in Entries(Functions) /\ now \in Int
  BY <1>1, SchedIs, SchedulerAssumption DEF TasksInv, SchedInv, SchedTypeOK
<1>4. f \in Functions
  BY <1>3 DEF Entries
<1>5. /\ Distinct(taskQueue) /\ Queued(taskQueue) \cap InRun = {} /\ Queued(taskQueue) \cup InRun = Pending
      /\ called \subseteq Functions /\ ran \subseteq called /\ mocked \in 0..MaxMock
  BY DEF TasksInv, Placed
<1>6. f \in called /\ f \notin Queued(taskQueue)
  BY <1>2, <1>5 DEF Pending
<1> HIDE DEF f
<1>7. SchedInv(Functions)'
  <2>1. now + 1 \in Int
    BY <1>3
  <2>2. SchedInv(Functions)
    BY DEF TasksInv
  <2>3. \/ UNCHANGED <<queueVars, notifies>>
        \/ \E g \in Functions, time \in Int : schedule(g, time)
    BY <1>1, <1>4, <2>1, Zenon
  <2> QED BY <1>1, <2>2, <2>3, ReturnKeeps, Zenon
<1>8. /\ Distinct(taskQueue') /\ Queued(taskQueue') = IF f \in Every THEN Queued(taskQueue) \cup {f} ELSE Queued(taskQueue)
  <2>1. CASE f \in Every /\ schedule(f, now + 1)
    <3> DEFINE e == [time |-> now + 1, f |-> f]
    <3>1. e \in Entries(Functions) /\ e.f = f
      BY <1>3, <1>4 DEF Entries
    <3>2. taskQueue' = Inserted(taskQueue, e)
      BY <2>1 DEF schedule
    <3> HIDE DEF e
    <3> QED BY <1>3, <1>5, <1>6, <2>1, <3>1, <3>2, InsertedQueued, Zenon
  <2>2. CASE f \in Once /\ UNCHANGED <<queueVars, notifies>>
    <3>1. f \notin Every /\ taskQueue' = taskQueue
      BY <2>2, TasksAssumption DEF queueVars
    <3> QED BY <1>5, <3>1
  <2> QED BY <1>1, <2>1, <2>2
<1>9. Pending' = IF f \in Every THEN Pending ELSE Pending \ {f}
  BY <1>1, <1>5, <1>6 DEF Pending
<1>10. Queued(taskQueue') \cap InRun' = {} /\ Queued(taskQueue') \cup InRun' = Pending'
  <2>1. CASE f \in Every
    BY <1>2, <1>5, <1>6, <1>8, <1>9, <2>1, Zenon
  <2>2. CASE f \notin Every
    BY <1>2, <1>5, <1>6, <1>8, <1>9, <2>2, Zenon
  <2> QED BY <2>1, <2>2
<1>11. Placed'
  BY <1>2, <1>8, <1>10, Zenon DEF Placed, Distinct, Queued
<1>12. called' \subseteq Functions /\ ran' \subseteq called' /\ mocked' \in 0..MaxMock
  BY <1>1, <1>5, <1>6
<1> QED BY <1>7, <1>11, <1>12 DEF TasksInv

\* Notifications, the stops and the clock move no function.
LEMMA OtherSteps ==
  ASSUME TasksInv, UNCHANGED <<called, ran, mocked>>,
         \/ NotifyOne \/ StopNotify \/ \E t \in Threads : SpuriousWake(t)
         \/ Tick \/ StopJoin \/ \E drain \in BOOLEAN : Stop(drain)
  PROVE  TasksInv'
<1>0. SchedInv(Functions)
  BY DEF TasksInv
<1>1. pc \in [Threads -> {"start", "wait", "wait_until", "woken", "woken_until", "run", "returned", "exited"}]
  BY <1>0, SchedIs
<1>2. CASE NotifyOne \/ StopNotify \/ \E t \in Threads : SpuriousWake(t)
  <2>1. SchedInv(Functions)'
    BY <1>0, <1>2, WakingKeeps
  <2>2. UNCHANGED <<taskQueue, running>>
    BY <1>2, Zenon DEF NotifyOne, StopNotify, SpuriousWake, queueVars
  <2>3. pc' = pc \/ \E S : pc' = Woken(S) /\ S \subseteq Waiting
    BY <1>2, ZenonT(60) DEF NotifyOne, StopNotify, SpuriousWake
  <2>4. \A t \in Threads : pc'[t] = "run" <=> pc[t] = "run"
    BY <1>1, <2>3 DEF Woken, Waiting
  <2> QED BY <2>1, <2>2, <2>4, NobodyMoves
<1>3. CASE Tick \/ StopJoin \/ \E drain \in BOOLEAN : Stop(drain)
  <2>1. SchedInv(Functions)'
    BY <1>0, <1>3, StopKeeps
  <2>2. UNCHANGED <<taskQueue, running, pc>>
    BY <1>3 DEF Tick, StopJoin, Stop, queueVars, threadVars
  <2> QED BY <2>1, <2>2, NobodyMoves
<1> QED BY <1>2, <1>3

-----------------------------------------------------------------------------
(* The promise of the class.                                                *)

\* Nothing is scheduled at first.
LEMMA InitTasks == ASSUME Init PROVE TasksInv
<1>1. SchedInit /\ called = {} /\ ran = {} /\ mocked = 0
  BY DEF Init
<1>2. SchedInv(Functions)
  BY <1>1, SchedInitInv
<1>3. taskQueue = <<>> /\ \A t \in Threads : pc[t] = "start"
  BY <1>1 DEF SchedInit
<1>4. Queued(<<>>) = {} /\ Distinct(<<>>)
  BY DEF Queued, Distinct
<1>5. InRun = {} /\ Pending = {}
  BY <1>1, <1>3 DEF InRun, Pending
<1>6. Placed
  BY <1>3, <1>4, <1>5 DEF Placed
<1>7. mocked \in 0..MaxMock
  BY <1>1, TasksAssumption
<1> QED BY <1>1, <1>2, <1>6, <1>7 DEF TasksInv

\* Every step keeps the invariant.
LEMMA NextTasks == ASSUME TasksInv, [Next]_vars PROVE TasksInv'
<1>1. ASSUME NEW t \in Threads, LoopStep(t) \/ TimeoutStep(t) PROVE TasksInv'
  BY <1>1, ServiceMoves DEF LoopStep, TimeoutStep
<1>2. ASSUME NEW t \in Threads, Run(t) PROVE TasksInv'
  BY <1>2, RunKeeps
<1>3. ASSUME NEW f \in Once \cup Every, NEW delta \in 0..MaxDelta, ClientSchedule(f, delta) PROVE TasksInv'
  BY <1>3, ClientScheduleKeeps DEF Functions
<1>4. CASE ClientMockForward
  BY <1>4, MockKeeps
<1>5. CASE \/ NotifyStep \/ StopStep \/ ClockStep
           \/ \E t \in Threads : SpuriousWake(t) /\ UNCHANGED <<called, ran, mocked>>
           \/ \E drain \in BOOLEAN : Stop(drain) /\ UNCHANGED <<called, ran, mocked>>
  BY <1>5, OtherSteps DEF NotifyStep, StopStep, ClockStep
<1>6. CASE UNCHANGED vars
  BY <1>6 DEF vars, schedVars, queueVars, threadVars, TasksInv, SchedInv, SchedTypeOK, StoppedCleanly, Placed,
              InRun, Pending
<1> QED BY <1>1, <1>2, <1>3, <1>4, <1>5, <1>6, Zenon DEF Next

\* The place of a function, counted.
LEMMA InvNothingLost == ASSUME TasksInv PROVE NothingLost
<1>1. /\ Distinct(taskQueue) /\ Queued(taskQueue) \cap InRun = {} /\ Queued(taskQueue) \cup InRun = Pending
      /\ \A t, u \in Threads : pc[t] = "run" /\ pc[u] = "run" /\ running[t].f = running[u].f => t = u
      /\ called \subseteq Functions /\ ran \subseteq called /\ mocked \in 0..MaxMock /\ SchedInv(Functions)
  BY DEF TasksInv, Placed
<1>2. ASSUME NEW f \in called
      PROVE  Cardinality({i \in DOMAIN taskQueue : taskQueue[i].f = f})
               + Cardinality({t \in Threads : pc[t] = "run" /\ running[t].f = f})
             = IF f \in Every \/ f \notin ran THEN 1 ELSE 0
  <2> DEFINE queued == {i \in DOMAIN taskQueue : taskQueue[i].f = f}
             in_run == {t \in Threads : pc[t] = "run" /\ running[t].f = f}
  <2>1. queued # {} <=> f \in Queued(taskQueue)
    BY Zenon DEF Queued
  <2>2. in_run # {} <=> f \in InRun
    BY Zenon DEF InRun
  <2>3. \A x, y \in queued : x = y
    BY <1>1 DEF Distinct
  <2>4. \A x, y \in in_run : x = y
    BY <1>1
  <2> HIDE DEF queued, in_run
  <2>5. Cardinality(queued) = IF queued = {} THEN 0 ELSE 1
    BY <2>3, OneOrNone
  <2>6. Cardinality(in_run) = IF in_run = {} THEN 0 ELSE 1
    BY <2>4, OneOrNone
  <2>7. (f \in Queued(taskQueue) \/ f \in InRun) <=> f \in Every \/ f \notin ran
    BY <1>1 DEF Pending
  <2>8. ~(f \in Queued(taskQueue) /\ f \in InRun)
    BY <1>1
  <2>9. Cardinality(queued) + Cardinality(in_run) = IF f \in Every \/ f \notin ran THEN 1 ELSE 0
    BY <2>1, <2>2, <2>5, <2>6, <2>7, <2>8
  <2> QED BY <2>9 DEF queued, in_run
<1>3. \A i \in DOMAIN taskQueue : taskQueue[i].f \in called
  <2>1. Queued(taskQueue) \subseteq called
    BY <1>1 DEF Pending
  <2> QED BY <2>1, Zenon DEF Queued
<1>4. SchedTypeOK /\ StoppedCleanly
  BY <1>1 DEF SchedInv
<1>5. TypeOK
  BY <1>1, <1>3, <1>4 DEF TypeOK, Functions
<1> QED BY <1>2, <1>4, <1>5 DEF NothingLost

\* serviceQueue on any number of threads neither loses a function handed to schedule nor runs it
\* twice at the same time, Repeat and MockForward included; nThreadsServicingQueue is exact, and
\* after StopWhenDrained the queue is empty.
THEOREM NoFunctionLost == Spec => []NothingLost
<1>1. Init => TasksInv
  BY InitTasks
<1>2. TasksInv /\ [Next]_vars => TasksInv'
  BY NextTasks
<1>3. TasksInv => NothingLost
  BY InvNothingLost
<1> QED BY <1>1, <1>2, <1>3, PTL DEF Spec
=============================================================================
