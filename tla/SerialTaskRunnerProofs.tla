----------------------- MODULE SerialTaskRunnerProofs -----------------------
(***************************************************************************)
(* SerialTaskRunner runs one callback at a time and implements SerialQueue, *)
(* for any number of service threads, clients and callbacks.                *)
(***************************************************************************)
EXTENDS SerialTaskRunner, SchedulerLemmas

F == {"ProcessQueue"}

\* The inductive invariant: besides the run's invariant, the scheduler's, which of its places
\* each kind of thread can be at, and that an executor holds a callback exactly while it
\* executes it.
Inv ==
  /\ SchedInv(F) /\ ~stopWhenEmpty
  /\ OneCallbackAtATime
  /\ \A c \in Clients : apc[c] \in {"idle", "maybe", "schedule"}
  /\ \A t \in Threads : apc[t] \in {"idle", "maybe", "schedule", "callback", "clear"}
                        /\ (apc[t] # "idle" => pc[t] = "run")
  /\ \A a \in Executors : callback[a] # None <=> apc[a] = "callback"

\* The part of the invariant that does not speak of the scheduler.
RunnerTypeOK ==
  /\ m_callbacks_pending \in Seq(Callbacks) /\ finished \in Seq(Callbacks)
  /\ m_are_callbacks_running \in BOOLEAN
  /\ apc \in [Actors -> {"idle", "maybe", "schedule", "process", "callback", "clear", "flush", "flushed"}]
  /\ callback \in [Executors -> Callbacks \cup {None}]
  /\ inserted \in 0..MaxCallbacks

RunnerInv ==
  /\ RunnerTypeOK
  /\ \A a, b \in Busy : a = b
  /\ m_are_callbacks_running <=> Busy # {}
  /\ \A c \in Clients : apc[c] \in {"idle", "maybe", "schedule"}
  /\ \A t \in Threads : apc[t] \in {"idle", "maybe", "schedule", "callback", "clear"}
  /\ \A a \in Executors : callback[a] # None <=> apc[a] = "callback"

\* A service thread that is inside the runner is running an entry of the scheduler.
InsideRun == \A t \in Threads : apc[t] # "idle" => pc[t] = "run"

\* The invariant is that of the scheduler and that of the runner.
LEMMA InvSplit == Inv <=> SchedInv(F) /\ ~stopWhenEmpty /\ RunnerInv /\ InsideRun
BY DEF Inv, RunnerInv, RunnerTypeOK, InsideRun, OneCallbackAtATime, TypeOK, SchedInv

\* The same after a step.
LEMMA InvNext == ASSUME SchedInv(F)', ~stopWhenEmpty', RunnerInv', InsideRun' PROVE Inv'
BY DEF Inv, RunnerInv, RunnerTypeOK, InsideRun, OneCallbackAtATime, TypeOK, SchedInv

\* Who is who.
LEMMA Sets ==
  /\ Executors \subseteq Actors /\ Clients \subseteq Actors /\ Threads \subseteq Executors
  /\ Flusher \in Executors /\ Flusher \notin Threads /\ Clients \cap Executors = {}
  /\ MaxCallbacks \in Nat /\ None \notin Callbacks
BY RunnerAssumption DEF Actors, Executors, Callbacks

-----------------------------------------------------------------------------
(* Steps of the scheduler.                                                  *)

\* The scheduler never touches a thread that is inside a function.
LEMMA SchedulerStepKeeps ==
  ASSUME Inv, UNCHANGED runnerVars,
         \/ \E t \in Threads : ServiceQueue(t) \/ Relock(t) \/ WakeTimeout(t) \/ SpuriousWake(t)
         \/ Stop(FALSE) \/ NotifyOne \/ StopNotify \/ StopJoin
  PROVE  Inv'
<1>0. SchedInv(F) /\ RunnerInv /\ InsideRun /\ ~stopWhenEmpty
      /\ pc \in [Threads -> {"start", "wait", "wait_until", "woken", "woken_until", "run", "returned", "exited"}]
  BY InvSplit DEF SchedInv, SchedTypeOK
<1>1. SchedInv(F)'
  BY <1>0, ServiceKeeps, WakingKeeps, StopKeeps, Zenon
<1>2. ~stopWhenEmpty'
  BY <1>0, Zenon DEF ServiceQueue, Relock, WakeTimeout, LoopTop, Leave, WaitForTask, WaitForTime, SpuriousWake,
              Stop, NotifyOne, StopNotify, StopJoin, queueVars
<1>3. \A t \in Threads : pc[t] = "run" => pc'[t] = "run"
  <2>1. ASSUME NEW u \in Threads, ServiceQueue(u) \/ Relock(u) \/ WakeTimeout(u)
        PROVE  \A t \in Threads : pc[t] = "run" => pc'[t] = "run"
    <3>1. pc[u] # "run" /\ \E v : pc' = [pc EXCEPT ![u] = v]
      BY <2>1 DEF ServiceQueue, Relock, WakeTimeout, LoopTop, Leave, WaitForTask, WaitForTime
    <3> QED BY <1>0, <3>1
  <2>2. ASSUME NotifyOne \/ StopNotify \/ \E t \in Threads : SpuriousWake(t)
        PROVE  \A t \in Threads : pc[t] = "run" => pc'[t] = "run"
    <3>1. pc' = pc \/ \E S \in SUBSET Waiting : pc' = Woken(S)
      BY <2>2, Zenon DEF NotifyOne, StopNotify, SpuriousWake
    <3> QED BY <1>0, <3>1 DEF Woken, Waiting
  <2>3. ASSUME Stop(FALSE) \/ StopJoin PROVE pc' = pc
    BY <2>3 DEF Stop, StopJoin, threadVars
  <2> QED BY <2>1, <2>2, <2>3, Zenon
<1>4. InsideRun'
  BY <1>0, <1>3 DEF InsideRun, runnerVars
<1>5. RunnerInv'
  BY <1>0 DEF RunnerInv, RunnerTypeOK, Busy, runnerVars
<1> QED BY <1>1, <1>2, <1>4, <1>5, InvNext

-----------------------------------------------------------------------------
(* Steps of the runner.                                                     *)

\* A thread leaves the runner: a service thread goes back to serviceQueue.
LEMMA ReturnStep ==
  ASSUME Inv, NEW a \in Actors, apc[a] \in {"maybe", "schedule", "process"} \/ Entering(a), Return(a),
         UNCHANGED <<stopper, now, until>>,
         \/ UNCHANGED <<queueVars, notifies>>
         \/ schedule("ProcessQueue", now),
         UNCHANGED <<m_callbacks_pending, m_are_callbacks_running, callback, inserted, finished>>
  PROVE  Inv'
<1>0. /\ SchedInv(F) /\ RunnerInv /\ InsideRun /\ ~stopWhenEmpty /\ now \in Int
      /\ pc \in [Threads -> {"start", "wait", "wait_until", "woken", "woken_until", "run", "returned", "exited"}]
  BY InvSplit DEF SchedInv, SchedTypeOK
<1>1. apc[a] \notin {"callback", "clear"}
  BY DEF Entering
<1>2. SchedInv(F)' /\ InsideRun'
  <2>1. CASE a \in Threads
    <3>1. pc[a] = "run"
      BY <1>0, <2>1 DEF InsideRun, Entering
    <3>2. a # Flusher
      BY <2>1, Sets
    <3>3. SchedInv(F)'
      BY <1>0, <2>1, <3>1, ReturnKeeps, Zenon DEF Return, F
    <3>4. InsideRun'
      BY <1>0, <2>1, <3>2 DEF InsideRun, Return, RunnerInv, RunnerTypeOK
    <3> QED BY <3>3, <3>4
  <2>2. CASE a \notin Threads
    <3>1. pc' = pc /\ running' = running
      BY <2>2 DEF Return
    <3>2. SchedInv(F)'
      <4>1. CASE UNCHANGED <<queueVars, notifies>>
        BY <1>0, <3>1, <4>1 DEF SchedInv, SchedTypeOK, StoppedCleanly, queueVars
      <4>2. CASE schedule("ProcessQueue", now)
        BY <1>0, <3>1, <4>2, ScheduleKeeps DEF F, threadVars
      <4> QED BY <4>1, <4>2
    <3>3. InsideRun'
      BY <1>0, <2>2, <3>1, Sets DEF InsideRun, Return, RunnerInv, RunnerTypeOK
    <3> QED BY <3>2, <3>3
  <2> QED BY <2>1, <2>2
<1>3. Busy' = Busy
  BY <1>0, <1>1 DEF Busy, Return, RunnerInv, RunnerTypeOK, Executors, Actors
<1>4. RunnerInv'
  <2>1. apc' = [apc EXCEPT ![a] = IF a = Flusher THEN "flush" ELSE "idle"]
    BY DEF Return
  <2>2. RunnerTypeOK'
    BY <1>0, <2>1 DEF RunnerInv, RunnerTypeOK
  <2>3. \A e \in Executors : callback'[e] # None <=> apc'[e] = "callback"
    BY <1>0, <1>1, <2>1, Sets DEF RunnerInv, RunnerTypeOK
  <2>4. /\ \A c \in Clients : apc'[c] \in {"idle", "maybe", "schedule"}
        /\ \A t \in Threads : apc'[t] \in {"idle", "maybe", "schedule", "callback", "clear"}
    BY <1>0, <2>1, Sets DEF RunnerInv, RunnerTypeOK
  <2> QED BY <1>0, <1>3, <2>2, <2>3, <2>4 DEF RunnerInv
<1>5. ~stopWhenEmpty'
  BY <1>0 DEF schedule, queueVars
<1> QED BY <1>2, <1>4, <1>5, InvNext

\* Steps that leave the scheduler alone.
LEMMA LocalStep ==
  ASSUME Inv, UNCHANGED schedVars, RunnerInv', InsideRun'
  PROVE  Inv'
<1>1. SchedInv(F)' /\ ~stopWhenEmpty'
  BY InvSplit DEF SchedInv, SchedTypeOK, StoppedCleanly, schedVars, queueVars, threadVars
<1> QED BY <1>1, InvNext

\* insert.
LEMMA InsertKeeps == ASSUME Inv, NEW c \in Clients, insert(c) PROVE Inv'
<1>0. RunnerInv /\ InsideRun /\ apc \in [Actors -> {"idle", "maybe", "schedule", "process", "callback", "clear", "flush", "flushed"}]
  BY InvSplit DEF RunnerInv, RunnerTypeOK
<1>1. c \in Actors /\ c \notin Executors /\ c \notin Threads
  BY Sets
<1>2. inserted + 1 \in Callbacks /\ inserted' \in 0..MaxCallbacks
  BY <1>0, Sets DEF insert, Callbacks, RunnerInv, RunnerTypeOK
<1>3. m_callbacks_pending' \in Seq(Callbacks)
  BY <1>0, <1>2 DEF insert, RunnerInv, RunnerTypeOK
<1>4. \A a \in Executors : apc'[a] = apc[a]
  BY <1>0, <1>1, Sets DEF insert
<1>5. Busy' = Busy
  BY <1>4 DEF Busy
<1>6. RunnerInv'
  BY <1>0, <1>1, <1>2, <1>3, <1>4, <1>5, Sets DEF insert, RunnerInv, RunnerTypeOK
<1>7. InsideRun'
  BY <1>0, <1>4, Sets DEF insert, InsideRun, schedVars, threadVars
<1> QED BY <1>6, <1>7, LocalStep DEF insert

\* MaybeScheduleProcessQueue decides to schedule.
LEMMA DecideKeeps ==
  ASSUME Inv, NEW a \in Actors, MaybeScheduleProcessQueue(a) PROVE Inv'
<1>0. RunnerInv /\ InsideRun /\ apc \in [Actors -> {"idle", "maybe", "schedule", "process", "callback", "clear", "flush", "flushed"}]
  BY InvSplit DEF RunnerInv, RunnerTypeOK
<1>1. CASE Return(a)
  BY <1>1, ReturnStep DEF MaybeScheduleProcessQueue
<1>2. CASE apc' = [apc EXCEPT ![a] = "schedule"] /\ UNCHANGED <<pc, running>>
  <2>1. UNCHANGED schedVars
    BY <1>2 DEF MaybeScheduleProcessQueue, schedVars, threadVars
  <2>2. apc[a] = "maybe"
        /\ UNCHANGED <<m_callbacks_pending, m_are_callbacks_running, callback, inserted, finished>>
    BY DEF MaybeScheduleProcessQueue
  <2>3. Busy' = Busy
    BY <1>0, <1>2, <2>2, Sets DEF Busy
  <2>4. RunnerInv'
    BY <1>0, <1>2, <2>2, <2>3, Sets DEF RunnerInv, RunnerTypeOK
  <2>5. InsideRun'
    BY <1>0, <1>2, <2>2, Sets DEF InsideRun
  <2> QED BY <2>1, <2>4, <2>5, LocalStep
<1> QED BY <1>1, <1>2 DEF MaybeScheduleProcessQueue

\* ProcessQueue takes a callback only when nobody is inside one.
LEMMA ProcessQueueKeeps ==
  ASSUME Inv, NEW a \in Executors, ProcessQueue(a) PROVE Inv'
<1>0. RunnerInv /\ InsideRun /\ apc \in [Actors -> {"idle", "maybe", "schedule", "process", "callback", "clear", "flush", "flushed"}]
  BY InvSplit DEF RunnerInv, RunnerTypeOK
<1>1. CASE m_are_callbacks_running \/ m_callbacks_pending = <<>>
  BY <1>1, ReturnStep, Sets DEF ProcessQueue
<1>2. CASE ~(m_are_callbacks_running \/ m_callbacks_pending = <<>>)
  <2>1. UNCHANGED schedVars
    BY <1>2 DEF ProcessQueue, schedVars, threadVars
  <2>2. /\ m_are_callbacks_running' = TRUE
        /\ callback' = [callback EXCEPT ![a] = Head(m_callbacks_pending)]
        /\ m_callbacks_pending' = Tail(m_callbacks_pending)
        /\ apc' = [apc EXCEPT ![a] = "callback"]
        /\ UNCHANGED <<inserted, finished>>
    BY <1>2 DEF ProcessQueue
  <2>3. Head(m_callbacks_pending) \in Callbacks /\ Tail(m_callbacks_pending) \in Seq(Callbacks)
    BY <1>0, <1>2 DEF RunnerInv, RunnerTypeOK
  <2>4. Busy = {} /\ Busy' = {a}
    BY <1>0, <1>2, <2>2, Sets DEF Busy, RunnerInv
  <2>5. RunnerTypeOK'
    BY <1>0, <2>2, <2>3, Sets DEF RunnerInv, RunnerTypeOK
  <2>6. \A e \in Executors : callback'[e] # None <=> apc'[e] = "callback"
    BY <1>0, <2>2, <2>3, Sets DEF RunnerInv, RunnerTypeOK
  <2>7. RunnerInv'
    BY <1>0, <2>2, <2>4, <2>5, <2>6, Sets DEF RunnerInv
  <2>8. InsideRun'
    BY <1>0, <2>1, <2>2, Sets DEF InsideRun, ProcessQueue, Entering, schedVars, threadVars
  <2> QED BY <2>1, <2>7, <2>8, LocalStep
<1> QED BY <1>1, <1>2

\* A callback returns, and RAIICallbacksRunning clears the flag.
LEMMA CallbackReturnsKeeps ==
  ASSUME Inv, NEW a \in Executors, CallbackReturns(a) \/ ClearRunning(a) PROVE Inv'
<1>0. RunnerInv /\ InsideRun /\ apc \in [Actors -> {"idle", "maybe", "schedule", "process", "callback", "clear", "flush", "flushed"}]
  BY InvSplit DEF RunnerInv, RunnerTypeOK
<1>1. UNCHANGED schedVars /\ a \in Busy /\ a \in Actors
  BY Sets DEF CallbackReturns, ClearRunning, Busy
<1>2. CASE CallbackReturns(a)
  <2>1. /\ apc[a] = "callback" /\ apc' = [apc EXCEPT ![a] = "clear"]
        /\ callback' = [callback EXCEPT ![a] = None]
        /\ finished' = Append(finished, callback[a])
        /\ UNCHANGED <<m_callbacks_pending, m_are_callbacks_running, inserted>>
    BY <1>2 DEF CallbackReturns
  <2>2. callback[a] \in Callbacks
    BY <1>0, <2>1 DEF RunnerInv, RunnerTypeOK
  <2>3. finished' \in Seq(Callbacks)
    BY <1>0, <2>1, <2>2 DEF RunnerInv, RunnerTypeOK
  <2>4. Busy' = Busy
    BY <1>0, <2>1, Sets DEF Busy
  <2>5. RunnerTypeOK'
    BY <1>0, <2>1, <2>3, Zenon DEF RunnerInv, RunnerTypeOK
  <2>6. \A e \in Executors : callback'[e] # None <=> apc'[e] = "callback"
    BY <1>0, <2>1, Sets DEF RunnerInv, RunnerTypeOK
  <2>7. RunnerInv'
    BY <1>0, <2>1, <2>4, <2>5, <2>6, Sets DEF RunnerInv
  <2>8. InsideRun'
    BY <1>0, <1>1, <2>1, Sets DEF InsideRun, schedVars, threadVars
  <2> QED BY <1>1, <2>7, <2>8, LocalStep
<1>3. CASE ClearRunning(a)
  <2>1. /\ apc[a] = "clear" /\ apc' = [apc EXCEPT ![a] = "maybe"]
        /\ m_are_callbacks_running' = FALSE
        /\ UNCHANGED <<m_callbacks_pending, callback, inserted, finished>>
    BY <1>3 DEF ClearRunning
  <2>2. Busy = {a}
    BY <1>0, <1>1 DEF RunnerInv
  <2>3. Busy' = {}
    BY <1>0, <2>1, <2>2, Sets DEF Busy
  <2>4. RunnerTypeOK'
    BY <1>0, <2>1, Zenon DEF RunnerInv, RunnerTypeOK
  <2>5. \A e \in Executors : callback'[e] # None <=> apc'[e] = "callback"
    BY <1>0, <2>1, Sets DEF RunnerInv, RunnerTypeOK
  <2>6. RunnerInv'
    BY <1>0, <2>1, <2>3, <2>4, <2>5, Sets DEF RunnerInv
  <2>7. InsideRun'
    BY <1>0, <1>1, <2>1, Sets DEF InsideRun, schedVars, threadVars
  <2> QED BY <1>1, <2>6, <2>7, LocalStep
<1> QED BY <1>2, <1>3

\* The loop of flush.
LEMMA FlushKeeps == ASSUME Inv, FlushStep PROVE Inv'
<1>0. RunnerInv /\ InsideRun /\ apc \in [Actors -> {"idle", "maybe", "schedule", "process", "callback", "clear", "flush", "flushed"}]
  BY InvSplit DEF RunnerInv, RunnerTypeOK
<1>1. UNCHANGED schedVars
  BY DEF FlushStep, flush, FlushAgain
<1>2. /\ apc[Flusher] \in {"idle", "flush"}
      /\ \E v \in {"process", "flushed"} : apc' = [apc EXCEPT ![Flusher] = v]
      /\ UNCHANGED <<m_callbacks_pending, m_are_callbacks_running, callback, inserted, finished>>
  BY DEF FlushStep, flush, FlushAgain
<1>3. Busy' = Busy
  BY <1>0, <1>2, Sets DEF Busy
<1>4. RunnerInv'
  BY <1>0, <1>2, <1>3, Sets DEF RunnerInv, RunnerTypeOK
<1>5. InsideRun'
  BY <1>0, <1>1, <1>2, Sets DEF InsideRun, schedVars, threadVars
<1> QED BY <1>1, <1>4, <1>5, LocalStep

-----------------------------------------------------------------------------
\* A new runner.
LEMMA InitInv == Init => Inv
<1> SUFFICES ASSUME Init PROVE Inv
  OBVIOUS
<1>1. RunnerInv
  <2>1. Busy = {}
    BY Sets DEF Init, Busy
  <2>2. RunnerTypeOK
    <3>1. m_callbacks_pending \in Seq(Callbacks) /\ finished \in Seq(Callbacks)
      BY DEF Init
    <3>2. callback \in [Executors -> Callbacks \cup {None}]
      BY DEF Init
    <3>3. inserted \in 0..MaxCallbacks
      BY Sets DEF Init
    <3> QED BY <3>1, <3>2, <3>3, Zenon DEF Init, RunnerTypeOK
  <2> QED BY <2>1, <2>2, Sets DEF Init, RunnerInv
<1>2. InsideRun
  BY Sets DEF Init, InsideRun
<1>3. SchedInv(F) /\ ~stopWhenEmpty
  BY SchedInitInv, Zenon DEF Init, SchedInit
<1> QED BY <1>1, <1>2, <1>3, InvSplit

\* Every step keeps the invariant.
LEMMA NextInv == ASSUME Inv, [Next]_vars PROVE Inv'
<1>1. CASE UNCHANGED vars
  BY <1>1 DEF vars, schedVars, queueVars, threadVars, runnerVars, Inv, SchedInv, SchedTypeOK, StoppedCleanly,
              OneCallbackAtATime, TypeOK, Busy
<1>2. ASSUME NEW t \in Threads, LoopStep(t) \/ TimeoutStep(t) \/ (SpuriousWake(t) /\ UNCHANGED runnerVars)
      PROVE  Inv'
  BY <1>2, SchedulerStepKeeps, Zenon DEF LoopStep, TimeoutStep
<1>3. ASSUME NEW a \in Actors, RunnerStep(a) PROVE Inv'
  <2>1. CASE ScheduleProcessQueue(a)
    BY <2>1, ReturnStep DEF ScheduleProcessQueue
  <2> QED BY <1>3, <2>1, DecideKeeps, ProcessQueueKeeps, CallbackReturnsKeeps DEF RunnerStep
<1>4. ASSUME NEW c \in Clients, insert(c) PROVE Inv'
  BY <1>4, InsertKeeps
<1>5. CASE (Stop(FALSE) /\ UNCHANGED runnerVars) \/ NotifyStep \/ StopStep
  BY <1>5, SchedulerStepKeeps, Zenon DEF NotifyStep, StopStep
<1>6. CASE FlushStep
  BY <1>6, FlushKeeps
<1> QED BY <1>1, <1>2, <1>3, <1>4, <1>5, <1>6, Zenon DEF Next

\* Two callbacks never run at the same time and m_are_callbacks_running says whether one does,
\* whatever the number of service threads and of ProcessQueue entries they find in the scheduler.
THEOREM RunnerExclusive == Spec => []OneCallbackAtATime
<1>1. Inv => OneCallbackAtATime
  BY DEF Inv
<1> QED BY InitInv, NextInv, <1>1, PTL DEF Spec

-----------------------------------------------------------------------------
(* The refinement of SerialQueue.                                           *)

\* The callback being executed, as SerialQueue sees it.
Current == IF \E a \in Executors : callback[a] # None
           THEN callback[CHOOSE a \in Executors : callback[a] # None] ELSE None

\* With one executor at a time, it is the one that executor holds.
LEMMA CurrentIsHeld ==
  ASSUME Inv
  PROVE  /\ (\A a \in Executors : callback[a] = None) => Current = None
         /\ \A a \in Executors : callback[a] # None => Current = callback[a]
<1>1. ASSUME NEW a \in Executors, NEW b \in Executors, callback[a] # None, callback[b] # None PROVE a = b
  BY <1>1 DEF Inv, OneCallbackAtATime, Busy
<1> QED BY <1>1 DEF Current

\* The same after a step.
LEMMA CurrentIsHeldNext ==
  ASSUME Inv'
  PROVE  /\ (\A a \in Executors : callback'[a] = None) => Current' = None
         /\ \A a \in Executors : callback'[a] # None => Current' = callback'[a]
<1>1. ASSUME NEW a \in Executors, NEW b \in Executors, callback'[a] # None, callback'[b] # None PROVE a = b
  BY <1>1 DEF Inv, OneCallbackAtATime, Busy
<1> QED BY <1>1 DEF Current

\* Steps that start and finish no callback leave it alone.
LEMMA RunnerStepSerial ==
  ASSUME Inv, Inv', [Next]_vars
  PROVE  [Serial!Next]_(Serial!vars)
<1> USE DEF Serial!vars
<1>0. RunnerInv
  BY InvSplit
<1>1. Current' = Current \/ callback' # callback
  BY Zenon DEF Current
<1>2. ASSUME UNCHANGED <<m_callbacks_pending, callback, finished>> PROVE UNCHANGED Serial!vars
  BY <1>2
<1>3. ASSUME NEW c \in Clients, insert(c) PROVE Serial!Next
  <2>1. inserted + 1 \in Callbacks
    BY <1>0, <1>3, Sets DEF insert, Callbacks, RunnerInv, RunnerTypeOK
  <2>2. Serial!Insert(inserted + 1)
    BY <1>3 DEF insert, Serial!Insert
  <2> QED BY <2>1, <2>2 DEF Serial!Next
<1>4. ASSUME NEW a \in Executors, ProcessQueue(a) PROVE [Serial!Next]_(Serial!vars)
  <2>1. CASE m_are_callbacks_running \/ m_callbacks_pending = <<>>
    BY <1>2, <1>4, <2>1 DEF ProcessQueue
  <2>2. CASE ~(m_are_callbacks_running \/ m_callbacks_pending = <<>>)
    <3>1. \A e \in Executors : callback[e] = None
      BY <1>0, <2>2 DEF RunnerInv, Busy
    <3>2. callback'[a] = Head(m_callbacks_pending) /\ Head(m_callbacks_pending) \in Callbacks
      BY <1>0, <1>4, <2>2 DEF ProcessQueue, RunnerInv, RunnerTypeOK
    <3>3. Current = None
      BY <3>1, CurrentIsHeld
    <3>4. Current' = Head(m_callbacks_pending)
      <4>1. callback'[a] # None
        BY <3>2, Sets
      <4> QED BY <3>2, <4>1, CurrentIsHeldNext
    <3>5. Serial!Start
      BY <1>4, <2>2, <3>3, <3>4 DEF Serial!Start, ProcessQueue, Current
    <3> QED BY <3>5 DEF Serial!Next
  <2> QED BY <2>1, <2>2
<1>5. ASSUME NEW a \in Executors, CallbackReturns(a) PROVE Serial!Next
  <2>1. callback[a] # None
    BY <1>0, <1>5 DEF RunnerInv, CallbackReturns
  <2>2. Current = callback[a]
    BY <2>1, CurrentIsHeld
  <2>3. \A e \in Executors : callback'[e] = None
    <3>1. ASSUME NEW e \in Executors, callback[e] # None PROVE e = a
      BY <2>1, <3>1, <1>0 DEF RunnerInv, Busy
    <3> QED BY <3>1, <1>0, <1>5 DEF CallbackReturns, RunnerInv, RunnerTypeOK
  <2>4. Current' = None
    BY <2>3, CurrentIsHeldNext
  <2>5. Serial!Finish
    BY <1>5, <2>1, <2>2, <2>4 DEF Serial!Finish, CallbackReturns, Current
  <2> QED BY <2>5 DEF Serial!Next
<1>6. ASSUME NEW a \in Actors, RunnerStep(a) PROVE [Serial!Next]_(Serial!vars)
  BY <1>2, <1>4, <1>5, <1>6, Zenon DEF RunnerStep, MaybeScheduleProcessQueue, ScheduleProcessQueue, ClearRunning
<1>7. ASSUME UNCHANGED runnerVars PROVE UNCHANGED Serial!vars
  BY <1>2, <1>7 DEF runnerVars
<1>8. ASSUME FlushStep PROVE UNCHANGED Serial!vars
  BY <1>2, <1>8 DEF FlushStep, flush, FlushAgain
<1>9. ASSUME UNCHANGED vars PROVE UNCHANGED runnerVars
  BY <1>9 DEF vars
<1> QED BY <1>3, <1>6, <1>7, <1>8, <1>9, Zenon DEF Next, LoopStep, TimeoutStep, NotifyStep, StopStep

\* The runner implements SerialQueue: callbacks are executed one at a time, each once, in the
\* order in which insert was called, although ProcessQueue runs on any service thread, and on
\* the flushing thread at the end.
THEOREM RunnerIsSerialQueue == Spec => SerialSpec
<1>1. Init => Serial!Init
  BY DEF Init, Serial!Init
<1>2. Inv /\ Inv' /\ [Next]_vars => [Serial!Next]_(Serial!vars)
  BY RunnerStepSerial
<1> QED BY <1>1, <1>2, InitInv, NextInv, PTL DEF Spec, SerialSpec, Serial!Spec
=============================================================================
