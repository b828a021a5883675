----------------------------- MODULE CheckQueue -----------------------------
(***************************************************************************)
(* CCheckQueue and CCheckQueueControl (checkqueue.h): a master adds batches *)
(* of script checks, joins the workers until all are done, and gets one     *)
(* failure or none.  A critical section of m_mutex is one action; waiting   *)
(* on a condition variable, being notified and waking up are separate.      *)
(***************************************************************************)
EXTENDS Integers, FiniteSets, Sequences

CONSTANTS
  Workers,     \* the worker threads
  Masters,     \* threads that create a CCheckQueueControl
  nBatchSize,  \* maximum number of checks taken at once
  MaxSessions, \* bound: controls created over a behaviour
  MaxAdd,      \* bound: checks passed to one Add
  MaxQueue,    \* bound: checks added during one session
  None         \* the empty optional, and "nobody"

ASSUME ThreadsAssumption == /\ IsFiniteSet(Workers) /\ IsFiniteSet(Masters)
                           /\ Workers \cap Masters = {} /\ None \notin Masters
ASSUME BoundsAssumption == /\ nBatchSize \in Nat \ {0} /\ {MaxSessions, MaxAdd, MaxQueue} \subseteq Nat
                          /\ None \notin 1..MaxSessions

Threads == Workers \cup Masters

\* A check remembers the session that added it, and whether it fails.
Checks == [ses : 1..MaxSessions, bad : BOOLEAN]

VARIABLES
  queue, nIdle, nTotal, nTodo, m_result, m_request_stop,  \* guarded by m_mutex
  m_control_mutex,  \* the master that owns the control, or None
  session,          \* number of the current or last control
  added,            \* checks added in this session
  pc,               \* where each thread is
  vChecks,          \* the batch each thread took
  nNow,             \* its size, 0 before the first batch
  local_result,     \* the thread's own result: a session whose check failed, or None
  do_work,          \* whether the batch is to be executed
  returned,         \* what Complete returned to a master
  destructor        \* progress of ~CCheckQueue

controlVars == <<m_control_mutex, session, added>>
lockVars == <<queue, nIdle, nTotal, nTodo, m_result, m_request_stop>>
threadVars == <<vChecks, nNow, local_result, do_work>>
vars == <<lockVars, controlVars, pc, threadVars, returned, destructor>>

CheckSeq == UNION {[1..n -> Checks] : n \in 0..MaxQueue}

Init ==
  /\ queue = <<>> /\ nIdle = 0 /\ nTotal = 0 /\ nTodo = 0
  /\ m_result = None /\ m_request_stop = FALSE
  /\ m_control_mutex = None /\ session = 0 /\ added = <<>>
  /\ pc = [t \in Threads |-> IF t \in Workers THEN "lock" ELSE "out"]
  /\ vChecks = [t \in Threads |-> <<>>]
  /\ nNow = [t \in Threads |-> 0]
  /\ local_result = [t \in Threads |-> None]
  /\ do_work = [t \in Threads |-> FALSE]
  /\ returned = [t \in Masters |-> None]
  /\ destructor = "none"

-----------------------------------------------------------------------------
(* Loop(fMaster).                                                           *)

\* max(1, min(nBatchSize, queue.size() / (nTotal + nIdle + 1)))
BatchSize(total, idle) ==
  LET share == Len(queue) \div (total + idle + 1)
  IN  IF share < 1 THEN 1 ELSE IF share < nBatchSize THEN share ELSE nBatchSize

\* The master leaves with the result and resets it.
Leave(t, total, idle, todo, result) ==
  /\ queue = <<>> /\ ~m_request_stop
  /\ t \in Masters /\ todo = 0
  /\ nTotal' = total - 1 /\ nIdle' = idle /\ nTodo' = todo
  /\ m_result' = None
  /\ returned' = [returned EXCEPT ![t] = result]
  /\ UNCHANGED <<queue, vChecks, do_work>>

\* Wait on the thread's condition variable.
Wait(t, total, idle, todo, result) ==
  /\ queue = <<>> /\ ~m_request_stop
  /\ ~(t \in Masters /\ todo = 0)
  /\ nIdle' = idle + 1 /\ nTotal' = total /\ nTodo' = todo /\ m_result' = result
  /\ UNCHANGED <<queue, vChecks, do_work, returned, destructor>>

Stopped(t, total, idle, todo, result) ==
  /\ m_request_stop
  /\ nIdle' = idle /\ nTotal' = total /\ nTodo' = todo /\ m_result' = result
  /\ UNCHANGED <<queue, vChecks, do_work, returned, destructor>>

\* Faulty form: the batch stops counting as outstanding when it is taken.
Take_CountsEarly(t, total, idle, todo, result) ==
  /\ queue # <<>> /\ ~m_request_stop
  /\ LET keep == Len(queue) - BatchSize(total, idle)
     IN  /\ vChecks' = [vChecks EXCEPT ![t] = SubSeq(queue, keep + 1, Len(queue))]
         /\ queue' = SubSeq(queue, 1, keep)
         /\ nTodo' = todo - BatchSize(total, idle)
  /\ do_work' = [do_work EXCEPT ![t] = result = None]
  /\ nIdle' = idle /\ nTotal' = total /\ m_result' = result
  /\ UNCHANGED returned

\* Take a batch from the end of the queue.
Take(t, total, idle, todo, result) ==
  /\ queue # <<>> /\ ~m_request_stop
  /\ LET keep == Len(queue) - BatchSize(total, idle)
     IN  /\ vChecks' = [vChecks EXCEPT ![t] = SubSeq(queue, keep + 1, Len(queue))]
         /\ queue' = SubSeq(queue, 1, keep)
  /\ do_work' = [do_work EXCEPT ![t] = result = None]
  /\ nIdle' = idle /\ nTotal' = total /\ nTodo' = todo /\ m_result' = result
  /\ UNCHANGED returned

\* What follows the clean-up, or a wake-up, inside the same critical section.  others is
\* the program counters after any notification made before.
Proceed(t, total, idle, todo, result, others) ==
  \/ Leave(t, total, idle, todo, result) /\ pc' = [others EXCEPT ![t] = "left"] /\ UNCHANGED nNow
  \/ Wait(t, total, idle, todo, result) /\ pc' = [others EXCEPT ![t] = "wait"] /\ UNCHANGED nNow
  \/ Stopped(t, total, idle, todo, result) /\ pc' = [others EXCEPT ![t] = "exit"] /\ UNCHANGED nNow
  \/ /\ Take(t, total, idle, todo, result)
     /\ pc' = [others EXCEPT ![t] = "execute"]
     /\ nNow' = [nNow EXCEPT ![t] = BatchSize(total, idle)]

\* Notified threads go on to reacquire the mutex.
Woken(S) == [t \in Threads |-> IF t \in S THEN "woken" ELSE pc[t]]
WaitingMasters == {t \in Masters : pc[t] = "wait"}
WaitingWorkers == {t \in Workers : pc[t] = "wait"}

\* The sets of threads that a notify_one on a condition variable may wake.
NotifyOneOf(waiting) == IF waiting = {} THEN {{}} ELSE {{t} : t \in waiting}

\* A worker that finished the last outstanding check notifies the waiting master.
NotifyFinished(t, todo) ==
  IF nNow[t] # 0 /\ todo = 0 /\ t \in Workers THEN NotifyOneOf(WaitingMasters) ELSE {{}}

\* Enter the critical section: clean up after the previous batch, or register the thread.
Lock(t) ==
  /\ pc[t] = "lock"
  /\ LET publish == nNow[t] # 0 /\ local_result[t] # None /\ m_result = None
         todo    == nTodo - nNow[t]
         total   == IF nNow[t] = 0 THEN nTotal + 1 ELSE nTotal
         result  == IF publish THEN local_result[t] ELSE m_result
     IN  /\ local_result' = IF publish THEN [local_result EXCEPT ![t] = None] ELSE local_result
         /\ \E S \in NotifyFinished(t, todo) : Proceed(t, total, nIdle, todo, result, Woken(S))
  /\ UNCHANGED <<m_request_stop, controlVars, destructor>>

\* Return from cond.wait with the mutex held.
Wake(t) ==
  /\ pc[t] = "woken"
  /\ Proceed(t, nTotal, nIdle - 1, nTodo, m_result, pc)
  /\ UNCHANGED <<m_request_stop, controlVars, local_result, destructor>>

\* A condition variable may wake up without a notification.
SpuriousWake(t) ==
  /\ pc[t] = "wait"
  /\ pc' = [pc EXCEPT ![t] = "woken"]
  /\ UNCHANGED <<lockVars, controlVars, threadVars, returned, destructor>>

\* Faulty form: a passing batch leaves an older failure in the local result.
Execute_KeepsLocal(t) ==
  /\ pc[t] = "execute"
  /\ local_result' =
       IF do_work[t] /\ \E i \in DOMAIN vChecks[t] : vChecks[t][i].bad
       THEN [local_result EXCEPT ![t] = vChecks[t][1].ses] ELSE local_result
  /\ vChecks' = [vChecks EXCEPT ![t] = <<>>]
  /\ pc' = [pc EXCEPT ![t] = "lock"]
  /\ UNCHANGED <<lockVars, controlVars, nNow, do_work, returned, destructor>>

\* Run the batch without the lock, up to the first failing check.
Execute(t) ==
  /\ pc[t] = "execute"
  /\ local_result' =
       IF do_work[t]
       THEN [local_result EXCEPT ![t] =
               IF \E i \in DOMAIN vChecks[t] : vChecks[t][i].bad THEN vChecks[t][1].ses ELSE None]
       ELSE local_result
  /\ vChecks' = [vChecks EXCEPT ![t] = <<>>]
  /\ pc' = [pc EXCEPT ![t] = "lock"]
  /\ UNCHANGED <<lockVars, controlVars, nNow, do_work, returned, destructor>>

-----------------------------------------------------------------------------
(* CCheckQueueControl, Add and the destructor.                              *)

\* Faulty form: a control does not wait for the previous one.
Control_NoMutex(m) ==
  /\ pc[m] = "out" /\ session < MaxSessions /\ destructor = "none"
  /\ m_control_mutex' = m
  /\ session' = session + 1
  /\ pc' = [pc EXCEPT ![m] = "adding"]
  /\ UNCHANGED <<lockVars, added, threadVars, returned, destructor>>

\* The constructor of CCheckQueueControl locks m_control_mutex.
Control(m) ==
  /\ pc[m] = "out" /\ session < MaxSessions /\ destructor = "none"
  /\ m_control_mutex = None
  /\ m_control_mutex' = m
  /\ session' = session + 1
  /\ pc' = [pc EXCEPT ![m] = "adding"]
  /\ UNCHANGED <<lockVars, added, threadVars, returned, destructor>>

\* Add appends under the lock; the notification follows after the unlock.
Add(m) ==
  /\ pc[m] = "adding"
  /\ \E n \in 1..MaxAdd :
       /\ Len(added) + n <= MaxQueue
       /\ \E b \in [1..n -> BOOLEAN] :
            LET new == [i \in 1..n |-> [ses |-> session, bad |-> b[i]]]
            IN  /\ queue' = queue \o new
                /\ added' = added \o new
       /\ nTodo' = nTodo + n
       /\ pc' = [pc EXCEPT ![m] = IF n = 1 THEN "notify_one" ELSE "notify_all"]
  /\ UNCHANGED <<nIdle, nTotal, m_result, m_request_stop, m_control_mutex, session, threadVars, returned, destructor>>

NotifyOne(m) ==
  /\ pc[m] = "notify_one"
  /\ \E S \in NotifyOneOf(WaitingWorkers) : pc' = [Woken(S) EXCEPT ![m] = "adding"]
  /\ UNCHANGED <<lockVars, controlVars, threadVars, returned, destructor>>

NotifyAll(m) ==
  /\ pc[m] = "notify_all"
  /\ pc' = [Woken(WaitingWorkers) EXCEPT ![m] = "adding"]
  /\ UNCHANGED <<lockVars, controlVars, threadVars, returned, destructor>>

\* Complete, called by the owner or by the destructor of the control: the master joins the
\* loop.
Complete(m) ==
  /\ pc[m] = "adding"
  /\ pc' = [pc EXCEPT ![m] = "lock"]
  /\ UNCHANGED <<lockVars, controlVars, threadVars, returned, destructor>>

\* The control is destroyed after Complete returned; the locals of Loop are gone.
Release(m) ==
  /\ pc[m] = "left"
  /\ m_control_mutex' = None
  /\ pc' = [pc EXCEPT ![m] = "out"]
  /\ nNow' = [nNow EXCEPT ![m] = 0]
  /\ local_result' = [local_result EXCEPT ![m] = None]
  /\ do_work' = [do_work EXCEPT ![m] = FALSE]
  /\ returned' = [returned EXCEPT ![m] = None]
  /\ added' = <<>>
  /\ UNCHANGED <<lockVars, session, vChecks, destructor>>

\* The destructor of the queue: its owner runs it when no control exists any more.
RequestStop ==
  /\ destructor = "none"
  /\ \A m \in Masters : pc[m] = "out"
  /\ m_request_stop' = TRUE
  /\ destructor' = "notify"
  /\ UNCHANGED <<queue, nIdle, nTotal, nTodo, m_result, controlVars, pc, threadVars, returned>>

\* Faulty form: the workers that wait are not notified.
NotifyStop_Silent ==
  /\ destructor = "notify"
  /\ destructor' = "join"
  /\ UNCHANGED <<lockVars, controlVars, pc, threadVars, returned>>

NotifyStop ==
  /\ destructor = "notify"
  /\ pc' = Woken(WaitingWorkers)
  /\ destructor' = "join"
  /\ UNCHANGED <<lockVars, controlVars, threadVars, returned>>

Join ==
  /\ destructor = "join"
  /\ \A w \in Workers : pc[w] = "exit"
  /\ destructor' = "done"
  /\ UNCHANGED <<lockVars, controlVars, pc, threadVars, returned>>

ThreadStep(t) == Lock(t) \/ Wake(t) \/ Execute(t)
MasterStep(m) == NotifyOne(m) \/ NotifyAll(m) \/ Complete(m) \/ Release(m)
DestructorStep == NotifyStop \/ Join

Next ==
  \/ \E t \in Threads : ThreadStep(t) \/ SpuriousWake(t)
  \/ \E m \in Masters : Control(m) \/ Add(m) \/ MasterStep(m)
  \/ RequestStop \/ DestructorStep
  \/ destructor = "done" /\ UNCHANGED vars

\* Every thread keeps running: the scheduler of the operating system is fair and m_mutex
\* does not starve a thread.  Nothing forces a control to be made, checks to be added or
\* the queue to be destroyed, and nothing forces a spurious wake-up.
Spec ==
  /\ Init /\ [][Next]_vars
  /\ \A t \in Threads : WF_vars(ThreadStep(t))
  /\ \A m \in Masters : WF_vars(MasterStep(m))
  /\ WF_vars(DestructorStep)

-----------------------------------------------------------------------------
(* Properties.                                                              *)

TypeOK ==
  /\ queue \in CheckSeq /\ added \in CheckSeq
  /\ {nIdle, nTotal} \subseteq 0..Cardinality(Threads)
  /\ nTodo \in 0..MaxQueue
  /\ m_result \in {None} \cup 1..MaxSessions
  /\ m_request_stop \in BOOLEAN
  /\ m_control_mutex \in Masters \cup {None}
  /\ session \in 0..MaxSessions
  /\ pc \in [Threads -> {"out", "adding", "notify_one", "notify_all", "lock", "wait", "woken",
                         "execute", "left", "exit"}]
  /\ vChecks \in [Threads -> CheckSeq]
  /\ nNow \in [Threads -> 0..nBatchSize]
  /\ local_result \in [Threads -> {None} \cup 1..MaxSessions]
  /\ do_work \in [Threads -> BOOLEAN]
  /\ returned \in [Masters -> {None} \cup 1..MaxSessions]
  /\ destructor \in {"none", "notify", "join", "done"}

Outstanding(t) == IF pc[t] \in {"execute", "lock"} THEN nNow[t] ELSE 0

\* One pair for every check of an unfinished batch.
Unfinished == {x \in Threads \X (1..nBatchSize) : x[2] <= Outstanding(x[1])}

Registered(t) == pc[t] \in {"wait", "woken", "execute"} \/ (pc[t] = "lock" /\ nNow[t] # 0)

\* The counters of Loop agree with the threads whatever they are doing: nTodo counts the
\* queued checks and those in unfinished batches, nIdle the threads inside cond.wait, and
\* nTotal those that registered in their first iteration and have not returned.
CountersExact ==
  /\ TypeOK
  /\ nTodo = Len(queue) + Cardinality(Unfinished)
  /\ ~m_request_stop =>
       /\ nIdle = Cardinality({t \in Threads : pc[t] \in {"wait", "woken"}})
       /\ nTotal = Cardinality({t \in Threads : Registered(t)})

\* What Complete promises: it returns no failure exactly when no check added through this
\* control fails, and the failure it returns is one of this control's, although a worker may
\* carry an unpublished failure of an earlier session in its local result.
ResultOfSession ==
  \A m \in Masters : pc[m] = "left" =>
    returned[m] = IF \E i \in DOMAIN added : added[i].bad THEN session ELSE None

\* A thread only ever executes checks of the control that is currently open, and when Complete
\* returns no check of the session is queued or still running in a worker (the checks hold
\* pointers into the block and coins of the caller).
BatchesOfThisSession ==
  /\ \A t \in Threads : \A i \in DOMAIN vChecks[t] :
       vChecks[t][i].ses = session /\ m_control_mutex # None
  /\ \A m \in Masters : pc[m] = "left" => queue = <<>> /\ \A t \in Threads : vChecks[t] = <<>>

\* Complete always returns: no notification that the master waits for is lost.
CompleteReturns == \A m \in Masters : (pc[m] = "lock") ~> (pc[m] = "left")

\* The destructor joins every worker, wherever it was when the stop was requested.
DestructorJoins == (destructor = "notify") ~> (destructor = "done")

\* No notification on m_master_cv or m_worker_cv is lost: whoever waits gets on.
EverybodyReturns == CompleteReturns /\ DestructorJoins

=============================================================================
