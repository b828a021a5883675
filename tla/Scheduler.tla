------------------------------ MODULE Scheduler ------------------------------
(***************************************************************************)
(* CScheduler (scheduler.h, scheduler.cpp): threads in serviceQueue() run   *)
(* the functions of a queue ordered by time.  newTaskMutex is held from one *)
(* wait, or call of a function, to the next, so that stretch is one action. *)
(***************************************************************************)
EXTENDS Integers, FiniteSets, Sequences

CONSTANTS
  Threads,    \* threads that run serviceQueue
  MaxTime,    \* bound: the clock stops here
  None

ASSUME SchedulerAssumption == IsFiniteSet(Threads) /\ Threads # {} /\ MaxTime \in Nat

VARIABLES
  taskQueue,               \* entries [time, f] in the order of the multimap
  nThreadsServicingQueue,
  stopRequested,
  stopWhenEmpty,
  notifies,                \* calls of notify_one that were not made yet
  stopper,                 \* progress of stop() or StopWhenDrained()
  now,                     \* the steady clock
  pc,                      \* where each service thread is
  until,                   \* the time a thread waits for in wait_until, 0 elsewhere
  running                  \* the entry a thread is running

queueVars == <<taskQueue, nThreadsServicingQueue, stopRequested, stopWhenEmpty>>
threadVars == <<pc, until, running>>
schedVars == <<queueVars, notifies, stopper, now, threadVars>>

SchedInit ==
  /\ taskQueue = <<>>
  /\ nThreadsServicingQueue = 0
  /\ stopRequested = FALSE /\ stopWhenEmpty = FALSE
  /\ notifies = 0 /\ stopper = "none" /\ now = 0
  /\ pc = [t \in Threads |-> "start"]
  /\ until = [t \in Threads |-> 0]
  /\ running = [t \in Threads |-> None]

\* Faulty form: StopWhenDrained does not wait for the queue.
shouldStop_Undrained == stopRequested \/ stopWhenEmpty

shouldStop == stopRequested \/ (stopWhenEmpty /\ taskQueue = <<>>)

-----------------------------------------------------------------------------
(* Changing the queue.                                                      *)

\* multimap::insert puts an entry behind those of the same time.
Inserted(q, e) ==
  LET n == Cardinality({i \in DOMAIN q : q[i].time <= e.time})
  IN  SubSeq(q, 1, n) \o <<e>> \o SubSeq(q, n + 1, Len(q))

\* Faulty form: nobody is told about the new entry.
schedule_NoNotify(f, t) ==
  /\ taskQueue' = Inserted(taskQueue, [time |-> t, f |-> f])
  /\ UNCHANGED <<nThreadsServicingQueue, stopRequested, stopWhenEmpty, notifies>>

\* schedule: insert under the lock, notify_one after it.
schedule(f, t) ==
  /\ taskQueue' = Inserted(taskQueue, [time |-> t, f |-> f])
  /\ notifies' = notifies + 1
  /\ UNCHANGED <<nThreadsServicingQueue, stopRequested, stopWhenEmpty>>

\* MockForward makes every entry due sooner.
MockForward(delta) ==
  /\ taskQueue' = [i \in DOMAIN taskQueue |-> [taskQueue[i] EXCEPT !.time = @ - delta]]
  /\ notifies' = notifies + 1
  /\ UNCHANGED <<nThreadsServicingQueue, stopRequested, stopWhenEmpty, stopper, now, threadVars>>

-----------------------------------------------------------------------------
(* newTaskScheduled.                                                        *)

Waiting == {t \in Threads : pc[t] \in {"wait", "wait_until"}}
Woken(S) ==
  [t \in Threads |-> IF t \notin S THEN pc[t]
                     ELSE IF pc[t] = "wait" THEN "woken" ELSE "woken_until"]

\* One of the notify_one calls that are due: any waiting thread, or nobody.
NotifyOne ==
  /\ notifies > 0
  /\ notifies' = notifies - 1
  /\ pc' \in IF Waiting = {} THEN {pc} ELSE {Woken({t}) : t \in Waiting}
  /\ UNCHANGED <<queueVars, stopper, now, until, running>>

\* A wait may end without a notification.
SpuriousWake(t) ==
  /\ t \in Waiting
  /\ pc' = Woken({t})
  /\ UNCHANGED <<queueVars, notifies, stopper, now, until, running>>

-----------------------------------------------------------------------------
(* serviceQueue.                                                            *)

\* Leave the loop, and notify one more thread.
Leave(t, servicing) ==
  /\ shouldStop
  /\ nThreadsServicingQueue' = servicing - 1
  /\ notifies' = notifies + 1
  /\ pc' = [pc EXCEPT ![t] = "exited"]
  /\ until' = [until EXCEPT ![t] = 0]
  /\ UNCHANGED <<taskQueue, stopRequested, stopWhenEmpty, stopper, now, running>>

WaitForTask(t, servicing) ==
  /\ ~shouldStop /\ taskQueue = <<>>
  /\ nThreadsServicingQueue' = servicing
  /\ pc' = [pc EXCEPT ![t] = "wait"]
  /\ until' = [until EXCEPT ![t] = 0]
  /\ UNCHANGED <<taskQueue, stopRequested, stopWhenEmpty, notifies, stopper, now, running>>

WaitForTime(t, servicing) ==
  /\ ~shouldStop /\ taskQueue # <<>>
  /\ nThreadsServicingQueue' = servicing
  /\ pc' = [pc EXCEPT ![t] = "wait_until"]
  /\ until' = [until EXCEPT ![t] = Head(taskQueue).time]
  /\ UNCHANGED <<taskQueue, stopRequested, stopWhenEmpty, notifies, stopper, now, running>>

\* The outer loop with the lock held, up to the next wait or the exit.  Both inner loops
\* test the same conditions again after a wake-up, so every woken thread continues here.
LoopTop(t, servicing) == Leave(t, servicing) \/ WaitForTask(t, servicing) \/ WaitForTime(t, servicing)

\* Entry of serviceQueue.
ServiceQueue(t) == pc[t] = "start" /\ LoopTop(t, nThreadsServicingQueue + 1)

\* The lock is taken again after a notification, or after the function has returned.
Relock(t) == pc[t] \in {"woken", "woken_until", "returned"} /\ LoopTop(t, nThreadsServicingQueue)

\* wait_until returns timeout, which it may also do when it was notified late.  The first
\* entry of the queue as it is now is taken, unless there is none or the thread must stop.
WakeTimeout(t) ==
  /\ pc[t] \in {"wait_until", "woken_until"} /\ now >= until[t]
  /\ \/ (shouldStop \/ taskQueue = <<>>) /\ LoopTop(t, nThreadsServicingQueue)
     \/ /\ ~shouldStop /\ taskQueue # <<>>
        /\ running' = [running EXCEPT ![t] = Head(taskQueue)]
        /\ taskQueue' = Tail(taskQueue)
        /\ pc' = [pc EXCEPT ![t] = "run"]
        /\ until' = [until EXCEPT ![t] = 0]
        /\ UNCHANGED <<nThreadsServicingQueue, stopRequested, stopWhenEmpty, notifies, stopper, now>>

-----------------------------------------------------------------------------
(* stop() and StopWhenDrained().                                            *)

Stop(drain) ==
  /\ stopper = "none"
  /\ stopRequested' = ~drain /\ stopWhenEmpty' = drain
  /\ stopper' = "notify"
  /\ UNCHANGED <<taskQueue, nThreadsServicingQueue, notifies, now, threadVars>>

\* notify_all.
StopNotify ==
  /\ stopper = "notify"
  /\ pc' = Woken(Waiting)
  /\ stopper' = "join"
  /\ UNCHANGED <<queueVars, notifies, now, until, running>>

\* The service threads are joined.
StopJoin ==
  /\ stopper = "join"
  /\ \A t \in Threads : pc[t] = "exited"
  /\ stopper' = "done"
  /\ UNCHANGED <<queueVars, notifies, now, threadVars>>

Tick ==
  /\ now < MaxTime
  /\ now' = now + 1
  /\ UNCHANGED <<queueVars, notifies, stopper, threadVars>>

-----------------------------------------------------------------------------
(* The promises of the class.                                               *)

SchedTypeOK ==
  /\ \A i \in DOMAIN taskQueue : taskQueue[i].time \in Int
  /\ nThreadsServicingQueue \in 0..Cardinality(Threads)
  /\ {stopRequested, stopWhenEmpty} \subseteq BOOLEAN
  /\ notifies \in Nat
  /\ stopper \in {"none", "notify", "join", "done"}
  /\ now \in 0..MaxTime
  /\ pc \in [Threads -> {"start", "wait", "wait_until", "woken", "woken_until", "run", "returned", "exited"}]
  /\ until \in [Threads -> Int]

\* nThreadsServicingQueue, which AreThreadsServicingQueue and the destructor's assertion
\* read, counts the threads between the entry and the exit of serviceQueue.  Once the stopping
\* call has returned none is left, and after StopWhenDrained the queue is empty.
StoppedCleanly ==
  /\ nThreadsServicingQueue = Cardinality({t \in Threads : pc[t] \notin {"start", "exited"}})
  /\ stopper = "done" => nThreadsServicingQueue = 0 /\ (stopWhenEmpty => taskQueue = <<>>)

\* schedule: "Call func at/after time t" (scheduler.h:48).
NeverEarly ==
  [][\A t \in Threads : (pc[t] # "run" /\ pc'[t] = "run") => running'[t].time <= now]_schedVars

=============================================================================
