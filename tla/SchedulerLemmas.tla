--------------------------- MODULE SchedulerLemmas ---------------------------
(***************************************************************************)
(* What every operation of CScheduler keeps, for any finite set of service  *)
(* threads and any functions: the facts the proofs about its clients share. *)
(***************************************************************************)
EXTENDS Scheduler, FiniteSetTheorems, TLAPS

\* The entries of a queue whose functions are in F.
Entries(F) == [time : Int, f : F]

\* The threads between the entry and the exit of serviceQueue.
Serving == {t \in Threads : pc[t] \notin {"start", "exited"}}

\* The inductive invariant of the scheduler.  StoppedCleanly needs two more facts: the stopping
\* call has joined every thread, and when the last thread has left after StopWhenDrained, the
\* queue was empty and nobody is left to fill it.
SchedInv(F) ==
  /\ SchedTypeOK /\ StoppedCleanly
  /\ taskQueue \in Seq(Entries(F))
  /\ running \in [Threads -> Entries(F) \cup {None}]
  /\ \A t \in Threads : pc[t] = "run" => running[t] \in Entries(F)
  /\ stopRequested \/ stopWhenEmpty => stopper # "none"
  /\ ~(stopRequested /\ stopWhenEmpty)
  /\ \A t \in Threads : pc[t] = "exited" => stopper # "none"
  /\ stopper = "done" => \A t \in Threads : pc[t] = "exited"
  /\ stopWhenEmpty /\ (\A t \in Threads : pc[t] = "exited") => taskQueue = <<>>

\* The times of a queue are times.
LEMMA EntriesTimed ==
  ASSUME NEW F, NEW q \in Seq(Entries(F))
  PROVE  \A i \in DOMAIN q : q[i].time \in Int
<1> TAKE i \in DOMAIN q
<1>1. i \in 1..Len(q)
  OBVIOUS
<1>2. q[i] \in Entries(F)
  BY <1>1
<1> QED BY <1>2 DEF Entries

\* A new scheduler.
LEMMA SchedInitInv == ASSUME NEW F, SchedInit PROVE SchedInv(F)
<1>1. {t \in Threads : pc[t] \notin {"start", "exited"}} = {}
  BY DEF SchedInit
<1>2. Cardinality({}) = 0 /\ Cardinality(Threads) \in Nat /\ MaxTime \in Nat
  BY SchedulerAssumption, FS_EmptySet, FS_CardinalityType
<1>3. StoppedCleanly
  BY <1>1, <1>2, Zenon DEF SchedInit, StoppedCleanly
<1>4. SchedTypeOK
  <2>1. \A i \in DOMAIN taskQueue : taskQueue[i].time \in Int
    BY DEF SchedInit
  <2>2. {stopRequested, stopWhenEmpty} \subseteq BOOLEAN
    BY Zenon DEF SchedInit
  <2> QED BY <1>2, <2>1, <2>2 DEF SchedInit, SchedTypeOK
<1> QED BY <1>3, <1>4, SchedulerAssumption DEF SchedInit, SchedInv

\* Threads at work are counted: the sets of threads are finite, and one that enters or leaves
\* makes the difference of one.
LEMMA ServingFinite ==
  /\ IsFiniteSet(Serving) /\ Cardinality(Serving) \in 0..Cardinality(Threads)
  /\ \A t \in Threads :
       /\ Cardinality(Serving \cup {t}) = IF t \in Serving THEN Cardinality(Serving) ELSE Cardinality(Serving) + 1
       /\ Cardinality(Serving \cup {t}) \in 0..Cardinality(Threads)
       /\ Cardinality(Serving \ {t}) = Cardinality(Serving \cup {t}) - 1
<1>1. IsFiniteSet(Threads)
  BY SchedulerAssumption
<1>2. Serving \subseteq Threads
  BY DEF Serving
<1>3. IsFiniteSet(Serving) /\ Cardinality(Serving) \in Nat /\ Cardinality(Threads) \in Nat
      /\ Cardinality(Serving) <= Cardinality(Threads)
  BY <1>1, <1>2, FS_Subset, FS_CardinalityType
<1>4. ASSUME NEW t \in Threads
      PROVE  /\ Cardinality(Serving \cup {t}) = IF t \in Serving THEN Cardinality(Serving) ELSE Cardinality(Serving) + 1
             /\ Cardinality(Serving \cup {t}) \in 0..Cardinality(Threads)
             /\ Cardinality(Serving \ {t}) = Cardinality(Serving \cup {t}) - 1
  <2>1. Cardinality(Serving \cup {t}) = IF t \in Serving THEN Cardinality(Serving) ELSE Cardinality(Serving) + 1
    BY <1>3, FS_AddElement, Zenon
  <2>2. Cardinality(Serving \ {t}) = IF t \in Serving THEN Cardinality(Serving) - 1 ELSE Cardinality(Serving)
    BY <1>3, FS_RemoveElement, Zenon
  <2>3. Serving \cup {t} \in SUBSET Threads
    BY <1>2
  <2>4. Cardinality(Serving \cup {t}) <= Cardinality(Threads)
    BY <2>3, <1>1, FS_Subset
  <2> QED BY <2>1, <2>2, <2>4, <1>3
<1> QED BY <1>3, <1>4

\* Leaving the loop or waiting, with the number of threads at work after t has entered.
LEMMA LoopTopKeeps ==
  ASSUME NEW F, SchedInv(F), NEW t \in Threads, pc[t] # "exited",
         NEW servicing, servicing = Cardinality(Serving \cup {t}), LoopTop(t, servicing)
  PROVE  SchedInv(F)'
<1> USE DEF SchedInv
<1>0. /\ pc \in [Threads -> {"start", "wait", "wait_until", "woken", "woken_until", "run", "returned", "exited"}]
      /\ until \in [Threads -> Int] /\ notifies \in Nat /\ stopper # "done"
      /\ nThreadsServicingQueue = Cardinality(Serving)
  BY DEF SchedTypeOK, StoppedCleanly, Serving
<1>1. CASE Leave(t, servicing)
  <2>1. pc' = [pc EXCEPT ![t] = "exited"] /\ until' = [until EXCEPT ![t] = 0]
        /\ UNCHANGED <<taskQueue, stopRequested, stopWhenEmpty, stopper, now, running>>
        /\ notifies' = notifies + 1 /\ nThreadsServicingQueue' = servicing - 1
    BY <1>1 DEF Leave
  <2>2. Serving' = Serving \ {t}
    BY <1>0, <2>1 DEF Serving
  <2>3. nThreadsServicingQueue' = Cardinality(Serving') /\ nThreadsServicingQueue' \in 0..Cardinality(Threads)
    <3>1. Cardinality(Serving \ {t}) = servicing - 1 /\ servicing \in 0..Cardinality(Threads)
          /\ Cardinality(Serving) \in 0..Cardinality(Threads)
      BY ServingFinite, Zenon
    <3>2. Cardinality(Serving \ {t}) \in Nat
      BY ServingFinite, FS_RemoveElement, FS_CardinalityType
    <3>3. Cardinality(Threads) \in Nat
      BY SchedulerAssumption, FS_CardinalityType
    <3>4. servicing - 1 \in 0..Cardinality(Threads)
      BY <3>1, <3>2, <3>3
    <3> QED BY <2>1, <2>2, <3>1, <3>4
  <2>4. SchedTypeOK'
    BY <1>0, <2>1, <2>3, SMTT(30) DEF SchedTypeOK
  <2>5. StoppedCleanly'
    BY <1>0, <2>1, <2>3 DEF StoppedCleanly, Serving
  <2>6. (stopWhenEmpty /\ (\A u \in Threads : pc[u] = "exited") => taskQueue = <<>>)'
    BY <1>1, <2>1 DEF Leave, shouldStop
  <2>7. stopper # "none"
    BY <1>1 DEF Leave, shouldStop
  <2> QED BY <1>0, <2>1, <2>4, <2>5, <2>6, <2>7
<1>2. ASSUME NEW at \in {"wait", "wait_until"}, NEW time \in Int,
             pc' = [pc EXCEPT ![t] = at], until' = [until EXCEPT ![t] = time],
             nThreadsServicingQueue' = servicing,
             UNCHANGED <<taskQueue, stopRequested, stopWhenEmpty, notifies, stopper, now, running>>
      PROVE  SchedInv(F)'
  <2>1. Serving' = Serving \cup {t}
    BY <1>0, <1>2 DEF Serving
  <2>2. nThreadsServicingQueue' = Cardinality(Serving') /\ nThreadsServicingQueue' \in 0..Cardinality(Threads)
    BY <1>2, <2>1, ServingFinite, Zenon
  <2>3. SchedTypeOK'
    BY <1>0, <1>2, <2>2, SMTT(30) DEF SchedTypeOK
  <2>4. StoppedCleanly'
    BY <1>0, <1>2, <2>2 DEF StoppedCleanly, Serving
  <2> QED BY <1>0, <1>2, <2>3, <2>4
<1>3. CASE WaitForTask(t, servicing)
  <2>1. pc' = [pc EXCEPT ![t] = "wait"] /\ until' = [until EXCEPT ![t] = 0]
        /\ nThreadsServicingQueue' = servicing
        /\ UNCHANGED <<taskQueue, stopRequested, stopWhenEmpty, notifies, stopper, now, running>>
    BY <1>3 DEF WaitForTask
  <2>2. "wait" \in {"wait", "wait_until"} /\ 0 \in Int
    OBVIOUS
  <2> HIDE DEF SchedInv
  <2> QED BY <1>2, <2>1, <2>2, Zenon
<1>4. CASE WaitForTime(t, servicing)
  <2>1. Head(taskQueue) \in Entries(F)
    BY <1>4 DEF WaitForTime
  <2>2. Head(taskQueue).time \in Int
    BY <2>1 DEF Entries
  <2>3. pc' = [pc EXCEPT ![t] = "wait_until"] /\ until' = [until EXCEPT ![t] = Head(taskQueue).time]
        /\ nThreadsServicingQueue' = servicing
        /\ UNCHANGED <<taskQueue, stopRequested, stopWhenEmpty, notifies, stopper, now, running>>
    BY <1>4 DEF WaitForTime
  <2>4. "wait_until" \in {"wait", "wait_until"}
    OBVIOUS
  <2> HIDE DEF SchedInv
  <2> QED BY <1>2, <2>2, <2>3, <2>4, Zenon
<1> QED BY <1>1, <1>3, <1>4 DEF LoopTop

\* The steps of serviceQueue.
LEMMA ServiceKeeps ==
  ASSUME NEW F, SchedInv(F), NEW t \in Threads, ServiceQueue(t) \/ Relock(t) \/ WakeTimeout(t)
  PROVE  SchedInv(F)'
<1>0. nThreadsServicingQueue = Cardinality(Serving)
      /\ pc \in [Threads -> {"start", "wait", "wait_until", "woken", "woken_until", "run", "returned", "exited"}]
  BY DEF SchedInv, SchedTypeOK, StoppedCleanly, Serving
<1>1. CASE ServiceQueue(t)
  <2>1. t \notin Serving
    BY <1>1 DEF ServiceQueue, Serving
  <2>2. nThreadsServicingQueue + 1 = Cardinality(Serving \cup {t})
    BY <2>1, <1>0, ServingFinite
  <2> QED BY <1>1, <2>2, LoopTopKeeps DEF ServiceQueue
<1>2. ASSUME t \in Serving PROVE nThreadsServicingQueue = Cardinality(Serving \cup {t})
  BY <1>2, <1>0, ServingFinite
<1>3. CASE Relock(t)
  <2>1. t \in Serving /\ pc[t] # "exited"
    BY <1>3 DEF Relock, Serving
  <2> QED BY <1>3, <1>2, <2>1, LoopTopKeeps DEF Relock
<1>4. CASE WakeTimeout(t)
  <2>1. t \in Serving /\ pc[t] # "exited"
    BY <1>4 DEF WakeTimeout, Serving
  <2>2. CASE LoopTop(t, nThreadsServicingQueue)
    BY <1>2, <2>1, <2>2, LoopTopKeeps
  <2>3. CASE /\ taskQueue # <<>>
             /\ running' = [running EXCEPT ![t] = Head(taskQueue)]
             /\ taskQueue' = Tail(taskQueue)
             /\ pc' = [pc EXCEPT ![t] = "run"]
             /\ until' = [until EXCEPT ![t] = 0]
             /\ UNCHANGED <<nThreadsServicingQueue, stopRequested, stopWhenEmpty, notifies, stopper, now>>
    <3>1. Head(taskQueue) \in Entries(F) /\ taskQueue' \in Seq(Entries(F))
      BY <2>3 DEF SchedInv
    <3>2. Serving' = Serving
      BY <1>0, <2>1, <2>3 DEF Serving
    <3>3. \A i \in DOMAIN taskQueue' : taskQueue'[i].time \in Int
      BY <3>1, EntriesTimed
    <3>4. SchedTypeOK'
      BY <1>0, <2>3, <3>3 DEF SchedInv, SchedTypeOK
    <3>5. StoppedCleanly'
      BY <2>1, <2>3, <3>2, Zenon DEF SchedInv, StoppedCleanly, Serving
    <3> QED BY <1>0, <2>1, <2>3, <3>1, <3>4, <3>5 DEF SchedInv
  <2> QED BY <1>4, <2>2, <2>3 DEF WakeTimeout
<1> QED BY <1>1, <1>3, <1>4

\* Notifications wake threads, and wake nobody who does not wait.
LEMMA WakingKeeps ==
  ASSUME NEW F, SchedInv(F),
         \/ NotifyOne \/ StopNotify \/ \E t \in Threads : SpuriousWake(t)
  PROVE  SchedInv(F)'
<1>0. pc \in [Threads -> {"start", "wait", "wait_until", "woken", "woken_until", "run", "returned", "exited"}]
  BY DEF SchedInv, SchedTypeOK
<1>1. PICK S \in SUBSET Waiting : pc' = Woken(S)
  <2>1. CASE NotifyOne /\ Waiting = {}
    <3>1. pc' = Woken({})
      BY <2>1, <1>0 DEF NotifyOne, Woken
    <3> QED BY <3>1
  <2>2. CASE NotifyOne /\ Waiting # {}
    BY <2>2, Zenon DEF NotifyOne
  <2> QED BY <2>1, <2>2, Zenon DEF StopNotify, SpuriousWake
<1>2. \A t \in Threads : /\ pc'[t] = pc[t] \/ (pc[t] \in {"wait", "wait_until"} /\ pc'[t] \in {"woken", "woken_until"})
  BY <1>0, <1>1 DEF Woken, Waiting
<1>3. pc' \in [Threads -> {"start", "wait", "wait_until", "woken", "woken_until", "run", "returned", "exited"}]
  BY <1>0, <1>1 DEF Woken, Waiting
<1>4. Serving' = Serving
  BY <1>0, <1>2 DEF Serving
<1>5. /\ UNCHANGED <<queueVars, now, until, running>> /\ notifies' \in Nat
      /\ stopper' = stopper \/ (stopper = "notify" /\ stopper' = "join")
  <2>0. notifies \in Nat
    BY DEF SchedInv, SchedTypeOK
  <2>1. CASE NotifyOne
    <3>1. notifies > 0 /\ notifies' = notifies - 1 /\ UNCHANGED <<queueVars, stopper, now, until, running>>
      BY <2>1 DEF NotifyOne
    <3> QED BY <3>1, <2>0
  <2>2. CASE StopNotify
    BY <2>0, <2>2 DEF StopNotify
  <2>3. CASE \E t \in Threads : SpuriousWake(t)
    BY <2>0, <2>3 DEF SpuriousWake
  <2> QED BY <2>1, <2>2, <2>3
<1>6. SchedTypeOK'
  BY <1>3, <1>5 DEF SchedInv, SchedTypeOK, queueVars
<1>7. StoppedCleanly'
  BY <1>4, <1>5, Zenon DEF SchedInv, StoppedCleanly, Serving, queueVars
<1> QED BY <1>0, <1>2, <1>5, <1>6, <1>7 DEF SchedInv, queueVars

\* schedule puts the entry somewhere into the queue and moves the later ones.
LEMMA InsertedPlace ==
  ASSUME NEW S, NEW q \in Seq(S), NEW e \in S
  PROVE  \E k \in 1..(Len(q)+1) :
           /\ Inserted(q, e) \in Seq(S) /\ Len(Inserted(q, e)) = Len(q) + 1
           /\ \A i \in 1..(Len(q)+1) :
                Inserted(q, e)[i] = IF i < k THEN q[i] ELSE IF i = k THEN e ELSE q[i-1]
<1> DEFINE n == Cardinality({i \in DOMAIN q : q[i].time <= e.time})
           a == SubSeq(q, 1, n)
           b == SubSeq(q, n+1, Len(q))
           am == a \o <<e>>
           r == am \o b
<1>1. Len(q) \in Nat /\ DOMAIN q = 1..Len(q) /\ n \in Nat /\ n <= Len(q)
  <2>1. Len(q) \in Nat /\ DOMAIN q = 1..Len(q)
    OBVIOUS
  <2>2. IsFiniteSet(1..Len(q)) /\ Cardinality(1..Len(q)) = Len(q)
    <3>1. 1 \in Int /\ Len(q) \in Int
      BY <2>1
    <3>2. IsFiniteSet(1..Len(q)) /\ Cardinality(1..Len(q)) = IF 1 > Len(q) THEN 0 ELSE Len(q)-1+1
      BY <3>1, FS_Interval, Zenon
    <3> QED BY <2>1, <3>2
  <2> QED BY <2>1, <2>2, FS_Subset, FS_CardinalityType
<1>2. Inserted(q, e) = r
  BY DEF Inserted
<1> HIDE DEF n
<1>3. a \in Seq(S) /\ Len(a) = n /\ \A i \in 1..n : a[i] = q[i]
  BY <1>1
<1>4. b \in Seq(S) /\ Len(b) = Len(q) - n /\ \A i \in 1..(Len(q) - n) : b[i] = q[n+i]
  <2>1. \A i \in 1..(Len(q) - n) : b[i] = q[n+i]
    <3>1. \A i \in 1..(Len(q) - (n+1) + 1) : b[i] = q[(n+1)+i-1]
      BY <1>1
    <3> HIDE DEF b
    <3>2. \A i \in 1..(Len(q) - n) : (n+1)+i-1 = n+i /\ i \in 1..(Len(q) - (n+1) + 1)
      BY <1>1
    <3> QED BY <3>1, <3>2
  <2>2. b \in Seq(S)
    BY <1>1
  <2>3. Len(b) = Len(q) - n
    <3>1. Len(b) = IF n + 1 <= Len(q) THEN Len(q) - (n+1) + 1 ELSE 0
      BY <1>1
    <3>2. \A x, y \in Nat : y <= x => (IF y + 1 <= x THEN x - (y+1) + 1 ELSE 0) = x - y
      OBVIOUS
    <3> HIDE DEF b
    <3> QED BY <1>1, <3>1, <3>2, Zenon
  <2> HIDE DEF b
  <2> QED BY <1>1, <2>1, <2>2, <2>3
<1> HIDE DEF a, b
<1>5. am \in Seq(S) /\ Len(am) = n + 1 /\ am[n+1] = e /\ \A i \in 1..n : am[i] = q[i]
  BY <1>1, <1>3
<1> HIDE DEF am
<1>6. /\ r \in Seq(S) /\ Len(r) = Len(q) + 1
      /\ \A i \in 1..(n+1) : r[i] = am[i]
      /\ \A i \in (n+2)..(Len(q)+1) : r[i] = b[i-(n+1)]
  <2>1. /\ r \in Seq(S) /\ Len(r) = Len(am) + Len(b)
        /\ \A i \in 1..(Len(am) + Len(b)) : r[i] = IF i <= Len(am) THEN am[i] ELSE b[i - Len(am)]
    <3>1. am \in Seq(S) /\ b \in Seq(S)
      BY <1>4, <1>5, Zenon
    <3> QED BY <3>1
  <2> HIDE DEF r
  <2>2. Len(am) = n + 1 /\ Len(am) + Len(b) = Len(q) + 1
    BY <1>1, <1>4, <1>5
  <2> QED BY <1>1, <2>1, <2>2
<1> HIDE DEF r
<1>7. ASSUME NEW i \in 1..(Len(q)+1)
      PROVE  r[i] = IF i < n + 1 THEN q[i] ELSE IF i = n + 1 THEN e ELSE q[i-1]
  <2>1. CASE i < n + 1
    BY <1>1, <1>5, <1>6, <2>1
  <2>2. CASE i = n + 1
    BY <1>1, <1>5, <1>6, <2>2
  <2>3. CASE i > n + 1
    <3>1. i-(n+1) \in 1..(Len(q) - n) /\ n + (i-(n+1)) = i-1 /\ i \in (n+2)..(Len(q)+1)
      BY <1>1, <2>3
    <3>2. r[i] = b[i-(n+1)] /\ b[i-(n+1)] = q[n + (i-(n+1))]
      BY <1>4, <1>6, <3>1, Zenon
    <3> QED BY <1>1, <2>3, <3>1, <3>2
  <2>4. i < n + 1 \/ i = n + 1 \/ i > n + 1
    BY <1>1
  <2> QED BY <2>1, <2>2, <2>3, <2>4, Zenon
<1>8. n + 1 \in 1..(Len(q)+1)
  BY <1>1
<1> WITNESS n + 1 \in 1..(Len(q)+1)
<1> QED BY <1>2, <1>6, <1>7, Zenon

\* schedule, by a client, or by the function that a service thread is running.
LEMMA ScheduleKeeps ==
  ASSUME NEW F, SchedInv(F), NEW f \in F, NEW time \in Int, schedule(f, time), ~stopWhenEmpty,
         UNCHANGED <<stopper, now, threadVars>>
  PROVE  SchedInv(F)'
<1>1. [time |-> time, f |-> f] \in Entries(F)
  BY DEF Entries
<1>2. taskQueue' \in Seq(Entries(F))
  BY <1>1, InsertedPlace DEF schedule, SchedInv
<1>3. \A i \in DOMAIN taskQueue' : taskQueue'[i].time \in Int
  BY <1>2, EntriesTimed
<1> QED BY <1>2, <1>3 DEF schedule, SchedInv, SchedTypeOK, StoppedCleanly, threadVars

\* The function that a service thread ran returns; it may have scheduled another one.
LEMMA ReturnKeeps ==
  ASSUME NEW F, SchedInv(F), NEW t \in Threads, pc[t] = "run",
         pc' = [pc EXCEPT ![t] = "returned"], running' = [running EXCEPT ![t] = None],
         UNCHANGED <<stopper, now, until>>,
         \/ UNCHANGED <<queueVars, notifies>>
         \/ \E f \in F, time \in Int : schedule(f, time)
  PROVE  SchedInv(F)'
<1>0. pc \in [Threads -> {"start", "wait", "wait_until", "woken", "woken_until", "run", "returned", "exited"}]
  BY DEF SchedInv, SchedTypeOK
<1>1. /\ UNCHANGED <<nThreadsServicingQueue, stopRequested, stopWhenEmpty>> /\ notifies' \in Nat
      /\ taskQueue' \in Seq(Entries(F))
  <2>1. ASSUME NEW f \in F, NEW time \in Int, schedule(f, time)
        PROVE  taskQueue' \in Seq(Entries(F))
    <3>1. [time |-> time, f |-> f] \in Entries(F)
      BY DEF Entries
    <3> QED BY <2>1, <3>1, InsertedPlace DEF schedule, SchedInv
  <2>2. CASE UNCHANGED <<queueVars, notifies>>
    BY <2>2 DEF queueVars, SchedInv, SchedTypeOK
  <2>3. ASSUME NEW f \in F, NEW time \in Int, schedule(f, time)
        PROVE  UNCHANGED <<nThreadsServicingQueue, stopRequested, stopWhenEmpty>> /\ notifies' \in Nat
    BY <2>3 DEF schedule, SchedInv, SchedTypeOK
  <2> QED BY <2>1, <2>2, <2>3
<1>2. \A i \in DOMAIN taskQueue' : taskQueue'[i].time \in Int
  BY <1>1, EntriesTimed
<1>3. Serving' = Serving
  BY <1>0 DEF Serving
<1>4. SchedTypeOK'
  BY <1>0, <1>1, <1>2 DEF SchedInv, SchedTypeOK
<1>5. pc[t] # "exited" /\ pc'[t] # "exited" /\ stopper # "done"
  BY <1>0 DEF SchedInv
<1>6. StoppedCleanly'
  BY <1>1, <1>3, <1>5, Zenon DEF SchedInv, StoppedCleanly, Serving
<1> QED BY <1>0, <1>1, <1>4, <1>5, <1>6 DEF SchedInv

\* The rest of the two stops, and the clock.
LEMMA StopKeeps ==
  ASSUME NEW F, SchedInv(F), Tick \/ StopJoin \/ \E drain \in BOOLEAN : Stop(drain)
  PROVE  SchedInv(F)'
<1>0. /\ Threads # {}
      /\ pc \in [Threads -> {"start", "wait", "wait_until", "woken", "woken_until", "run", "returned", "exited"}]
  BY SchedulerAssumption DEF SchedInv, SchedTypeOK
<1>1. CASE Tick
  BY <1>1, SchedulerAssumption DEF Tick, SchedInv, SchedTypeOK, StoppedCleanly, queueVars, threadVars
<1>2. CASE StopJoin
  <2>1. Serving = {}
    BY <1>2 DEF StopJoin, Serving
  <2>2. nThreadsServicingQueue = 0
    BY <2>1, FS_EmptySet DEF SchedInv, StoppedCleanly, Serving
  <2> QED BY <1>2, <2>2 DEF StopJoin, SchedInv, SchedTypeOK, StoppedCleanly, queueVars, threadVars
<1>3. ASSUME NEW drain \in BOOLEAN, Stop(drain) PROVE SchedInv(F)'
  <2>1. ~(\A t \in Threads : pc[t] = "exited")
    BY <1>0, <1>3 DEF Stop, SchedInv
  <2> QED BY <1>3, <2>1 DEF Stop, SchedInv, SchedTypeOK, StoppedCleanly, threadVars
<1> QED BY <1>1, <1>2, <1>3
=============================================================================
