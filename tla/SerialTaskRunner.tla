-------------------------- MODULE SerialTaskRunner --------------------------
(***************************************************************************)
(* SerialTaskRunner (scheduler.cpp) on top of CScheduler: a list of         *)
(* callbacks, and ProcessQueue entries in the scheduler that run its head.  *)
(* Any number of threads may service the scheduler.  flush() runs           *)
(* ProcessQueue on the calling thread after the scheduler has stopped.      *)
(***************************************************************************)
EXTENDS Scheduler

CONSTANTS
  Clients,        \* threads that insert callbacks
  Flusher,        \* the thread that stops the scheduler and then flushes
  MaxCallbacks    \* bound: callbacks inserted over a behaviour

ASSUME RunnerAssumption == MaxCallbacks \in Nat /\ None \notin 1..MaxCallbacks
                           /\ Threads \cap Clients = {} /\ Flusher \notin Threads \cup Clients

VARIABLES
  m_callbacks_pending,
  m_are_callbacks_running,
  apc,        \* progress of insert, ProcessQueue and MaybeScheduleProcessQueue per thread
  callback,   \* the callback taken by ProcessQueue
  inserted,   \* number of callbacks inserted
  finished    \* callbacks in the order in which they finished

runnerVars == <<m_callbacks_pending, m_are_callbacks_running, apc, callback, inserted, finished>>
vars == <<schedVars, runnerVars>>

Actors == Threads \cup Clients \cup {Flusher}
Executors == Threads \cup {Flusher}
Callbacks == 1..MaxCallbacks

Init ==
  /\ SchedInit
  /\ m_callbacks_pending = <<>> /\ m_are_callbacks_running = FALSE
  /\ apc = [a \in Actors |-> "idle"]
  /\ callback = [a \in Executors |-> None]
  /\ inserted = 0 /\ finished = <<>>

\* Control returns to the caller of the last function: serviceQueue for a service thread,
\* the loop of flush for the flusher.
Return(a) ==
  /\ apc' = [apc EXCEPT ![a] = IF a = Flusher THEN "flush" ELSE "idle"]
  /\ pc' = IF a \in Threads THEN [pc EXCEPT ![a] = "returned"] ELSE pc
  /\ running' = IF a \in Threads THEN [running EXCEPT ![a] = None] ELSE running

\* Faulty form: the newest callback goes first.
insert_Front(c) ==
  /\ apc[c] = "idle" /\ apc[Flusher] = "idle"
  /\ inserted < MaxCallbacks
  /\ inserted' = inserted + 1
  /\ m_callbacks_pending' = <<inserted + 1>> \o m_callbacks_pending
  /\ apc' = [apc EXCEPT ![c] = "maybe"]
  /\ UNCHANGED <<schedVars, m_are_callbacks_running, callback, finished>>

\* insert: append under m_callbacks_mutex, then MaybeScheduleProcessQueue.
insert(c) ==
  /\ apc[c] = "idle" /\ apc[Flusher] = "idle"
  /\ inserted < MaxCallbacks
  /\ inserted' = inserted + 1
  /\ m_callbacks_pending' = Append(m_callbacks_pending, inserted + 1)
  /\ apc' = [apc EXCEPT ![c] = "maybe"]
  /\ UNCHANGED <<schedVars, m_are_callbacks_running, callback, finished>>

\* MaybeScheduleProcessQueue: the decision is made under the lock, the call of schedule
\* comes after it.
MaybeScheduleProcessQueue(a) ==
  /\ apc[a] = "maybe"
  /\ IF m_are_callbacks_running \/ m_callbacks_pending = <<>>
     THEN Return(a)
     ELSE apc' = [apc EXCEPT ![a] = "schedule"] /\ UNCHANGED <<pc, running>>
  /\ UNCHANGED <<queueVars, notifies, stopper, now, until,
                 m_callbacks_pending, m_are_callbacks_running, callback, inserted, finished>>

ScheduleProcessQueue(a) ==
  /\ apc[a] = "schedule"
  /\ schedule("ProcessQueue", now)
  /\ Return(a)
  /\ UNCHANGED <<stopper, now, until, m_callbacks_pending, m_are_callbacks_running, callback, inserted, finished>>

\* Where ProcessQueue is entered: a service thread runs the entry, or flush calls it.
Entering(a) == (a \in Threads /\ pc[a] = "run" /\ apc[a] = "idle") \/ apc[a] = "process"

\* Faulty form: a second ProcessQueue does not look whether a callback is running.
ProcessQueue_NotExclusive(a) ==
  /\ Entering(a)
  /\ IF m_callbacks_pending = <<>>
     THEN Return(a) /\ UNCHANGED <<m_callbacks_pending, m_are_callbacks_running, callback>>
     ELSE /\ m_are_callbacks_running' = TRUE
          /\ callback' = [callback EXCEPT ![a] = Head(m_callbacks_pending)]
          /\ m_callbacks_pending' = Tail(m_callbacks_pending)
          /\ apc' = [apc EXCEPT ![a] = "callback"]
          /\ UNCHANGED <<pc, running>>
  /\ UNCHANGED <<queueVars, notifies, stopper, now, until, inserted, finished>>

\* ProcessQueue: nothing to do, or take the first callback.
ProcessQueue(a) ==
  /\ Entering(a)
  /\ IF m_are_callbacks_running \/ m_callbacks_pending = <<>>
     THEN Return(a) /\ UNCHANGED <<m_callbacks_pending, m_are_callbacks_running, callback>>
     ELSE /\ m_are_callbacks_running' = TRUE
          /\ callback' = [callback EXCEPT ![a] = Head(m_callbacks_pending)]
          /\ m_callbacks_pending' = Tail(m_callbacks_pending)
          /\ apc' = [apc EXCEPT ![a] = "callback"]
          /\ UNCHANGED <<pc, running>>
  /\ UNCHANGED <<queueVars, notifies, stopper, now, until, inserted, finished>>

\* callback() returns.
CallbackReturns(a) ==
  /\ apc[a] = "callback"
  /\ finished' = Append(finished, callback[a])
  /\ callback' = [callback EXCEPT ![a] = None]
  /\ apc' = [apc EXCEPT ![a] = "clear"]
  /\ UNCHANGED <<schedVars, m_callbacks_pending, m_are_callbacks_running, inserted>>

\* Faulty form: nothing is scheduled for the callbacks that arrived in the meantime.
ClearRunning_NoSchedule(a) ==
  /\ apc[a] = "clear"
  /\ m_are_callbacks_running' = FALSE
  /\ Return(a)
  /\ UNCHANGED <<queueVars, notifies, stopper, now, until, m_callbacks_pending, callback, inserted, finished>>

\* ~RAIICallbacksRunning, up to its call of MaybeScheduleProcessQueue.
ClearRunning(a) ==
  /\ apc[a] = "clear"
  /\ m_are_callbacks_running' = FALSE
  /\ apc' = [apc EXCEPT ![a] = "maybe"]
  /\ UNCHANGED <<schedVars, m_callbacks_pending, callback, inserted, finished>>

\* flush asserts that no thread services the scheduler, and calls ProcessQueue until the
\* list is empty.  Its caller stopped the scheduler and every client before.
flush ==
  /\ stopper = "done" /\ nThreadsServicingQueue = 0
  /\ apc[Flusher] = "idle" /\ \A c \in Clients : apc[c] = "idle"
  /\ apc' = [apc EXCEPT ![Flusher] = "process"]
  /\ UNCHANGED <<schedVars, m_callbacks_pending, m_are_callbacks_running, callback, inserted, finished>>

FlushAgain ==
  /\ apc[Flusher] = "flush"
  /\ apc' = [apc EXCEPT ![Flusher] = IF m_callbacks_pending # <<>> THEN "process" ELSE "flushed"]
  /\ UNCHANGED <<schedVars, m_callbacks_pending, m_are_callbacks_running, callback, inserted, finished>>

LoopStep(t) == (ServiceQueue(t) \/ Relock(t)) /\ UNCHANGED runnerVars
TimeoutStep(t) == WakeTimeout(t) /\ UNCHANGED runnerVars
RunnerStep(a) ==
  \/ MaybeScheduleProcessQueue(a) \/ ScheduleProcessQueue(a)
  \/ a \in Executors /\ (ProcessQueue(a) \/ CallbackReturns(a) \/ ClearRunning(a))
NotifyStep == NotifyOne /\ UNCHANGED runnerVars
StopStep == (StopNotify \/ StopJoin) /\ UNCHANGED runnerVars
FlushStep == flush \/ FlushAgain

Next ==
  \/ \E t \in Threads : LoopStep(t) \/ TimeoutStep(t) \/ (SpuriousWake(t) /\ UNCHANGED runnerVars)
  \/ \E a \in Actors : RunnerStep(a)
  \/ \E c \in Clients : insert(c)
  \/ Stop(FALSE) /\ UNCHANGED runnerVars
  \/ NotifyStep \/ StopStep \/ FlushStep
  \/ apc[Flusher] = "flushed" /\ UNCHANGED vars

\* Threads keep running, callbacks return, and the caller of stop() goes on to flush().
Fairness ==
  /\ \A t \in Threads : WF_vars(LoopStep(t)) /\ WF_vars(TimeoutStep(t))
  /\ \A a \in Actors : WF_vars(RunnerStep(a))
  /\ WF_vars(NotifyStep) /\ WF_vars(StopStep) /\ WF_vars(FlushStep)

Spec == Init /\ [][Next]_vars /\ Fairness

-----------------------------------------------------------------------------
(* Properties.                                                              *)

TypeOK ==
  /\ SchedTypeOK
  /\ m_callbacks_pending \in Seq(Callbacks) /\ finished \in Seq(Callbacks)
  /\ m_are_callbacks_running \in BOOLEAN
  /\ apc \in [Actors -> {"idle", "maybe", "schedule", "process", "callback", "clear", "flush", "flushed"}]
  /\ callback \in [Executors -> Callbacks \cup {None}]
  /\ inserted \in 0..MaxCallbacks

\* The executors inside a callback, or between it and the destructor of RAIICallbacksRunning.
Busy == {a \in Executors : apc[a] \in {"callback", "clear"}}

\* m_are_callbacks_running is true exactly while one executor is inside a callback, and two
\* never are, although two ProcessQueue entries may be queued at the same time.
OneCallbackAtATime ==
  /\ TypeOK
  /\ \A a, b \in Busy : a = b
  /\ m_are_callbacks_running <=> Busy # {}

\* The runner implements the queue its clients see.
Serial == INSTANCE SerialQueue WITH
  pending <- m_callbacks_pending,
  current <- IF \E a \in Executors : callback[a] # None
             THEN callback[CHOOSE a \in Executors : callback[a] # None] ELSE None
SerialSpec == Serial!Spec

\* Every callback that was inserted is executed, unless the scheduler is stopped first.
EventuallyExecuted ==
  \A c \in Callbacks : (inserted >= c) ~> ((\E i \in DOMAIN finished : finished[i] = c) \/ stopRequested)

\* When the scheduler is stopped, flush returns with every callback executed.
FlushDrains == stopRequested ~> (apc[Flusher] = "flushed" /\ Len(finished) = inserted)

\* insert and flush: no callback is left behind, neither by the decision not to schedule a
\* ProcessQueue while a callback runs nor by the end of the scheduler.
AllExecuted == EventuallyExecuted /\ FlushDrains

=============================================================================
