--------------------------- MODULE ScheduledTasks ---------------------------
(***************************************************************************)
(* CScheduler and its clients: functions scheduled once, functions that     *)
(* Repeat reschedules, MockForward, and the two ways to stop.               *)
(***************************************************************************)
EXTENDS Scheduler

CONSTANTS
  Once,       \* functions given to scheduleFromNow
  Every,      \* functions given to scheduleEvery, with a delta of one tick
  MaxDelta,   \* bound: the largest delay
  MaxMock     \* bound: calls of MockForward

ASSUME TasksAssumption == IsFiniteSet(Once) /\ IsFiniteSet(Every) /\ Once \cap Every = {}
                          /\ {MaxDelta, MaxMock} \subseteq Nat

VARIABLES
  called,  \* functions handed to the scheduler
  ran,     \* functions that ran
  mocked   \* calls of MockForward so far

vars == <<schedVars, called, ran, mocked>>

Init == SchedInit /\ called = {} /\ ran = {} /\ mocked = 0

\* scheduleFromNow, or scheduleEvery.  No client calls it once the scheduler is stopped.
ClientSchedule(f, delta) ==
  /\ stopper = "none" /\ f \notin called
  /\ schedule(f, now + delta)
  /\ called' = called \cup {f}
  /\ UNCHANGED <<stopper, now, threadVars, ran, mocked>>

ClientMockForward ==
  /\ stopper = "none" /\ mocked < MaxMock
  /\ MockForward(1)
  /\ mocked' = mocked + 1
  /\ UNCHANGED <<called, ran>>

\* The function runs without the lock; Repeat then schedules it again.
Run(t) ==
  /\ pc[t] = "run"
  /\ pc' = [pc EXCEPT ![t] = "returned"]
  /\ running' = [running EXCEPT ![t] = None]
  /\ ran' = ran \cup {running[t].f}
  /\ \/ running[t].f \in Every /\ schedule(running[t].f, now + 1)
     \/ running[t].f \in Once /\ UNCHANGED <<queueVars, notifies>>
  /\ UNCHANGED <<stopper, now, until, called, mocked>>

LoopStep(t) == (ServiceQueue(t) \/ Relock(t)) /\ UNCHANGED <<called, ran, mocked>>
TimeoutStep(t) == WakeTimeout(t) /\ UNCHANGED <<called, ran, mocked>>
NotifyStep == NotifyOne /\ UNCHANGED <<called, ran, mocked>>
StopStep == (StopNotify \/ StopJoin) /\ UNCHANGED <<called, ran, mocked>>
ClockStep == Tick /\ UNCHANGED <<called, ran, mocked>>

Next ==
  \/ \E t \in Threads : LoopStep(t) \/ TimeoutStep(t) \/ Run(t)
  \/ \E t \in Threads : SpuriousWake(t) /\ UNCHANGED <<called, ran, mocked>>
  \/ \E f \in Once \cup Every, delta \in 0..MaxDelta : ClientSchedule(f, delta)
  \/ ClientMockForward
  \/ \E drain \in BOOLEAN : Stop(drain) /\ UNCHANGED <<called, ran, mocked>>
  \/ NotifyStep \/ StopStep \/ ClockStep
  \/ stopper = "done" /\ UNCHANGED vars

\* Threads run, functions return, the clock advances, a notification that was called is
\* delivered, and a wait_until whose time has passed reports it (however often it is also
\* woken).  Nothing forces a client to schedule or to stop, or a spurious wake-up.
Fairness ==
  /\ \A t \in Threads : WF_vars(LoopStep(t)) /\ WF_vars(TimeoutStep(t)) /\ WF_vars(Run(t))
  /\ WF_vars(NotifyStep) /\ WF_vars(StopStep) /\ WF_vars(ClockStep)

Spec == Init /\ [][Next]_vars /\ Fairness

-----------------------------------------------------------------------------
(* Properties.                                                              *)

\* The types of the scheduler and of the bookkeeping of its clients.
TypeOK ==
  /\ SchedTypeOK
  /\ called \subseteq Once \cup Every /\ ran \subseteq called /\ mocked \in 0..MaxMock
  /\ \A i \in DOMAIN taskQueue : taskQueue[i].f \in called

\* Every function handed over is queued, being run, or was run and is not repeated: no
\* interleaving of several service threads loses one or runs it twice at the same time.
\* The stopping call leaves no thread behind, and StopWhenDrained no function.
NothingLost ==
  /\ TypeOK /\ StoppedCleanly
  /\ \A f \in called :
       LET queued == {i \in DOMAIN taskQueue : taskQueue[i].f = f}
           in_run == {t \in Threads : pc[t] = "run" /\ running[t].f = f}
           copies == Cardinality(queued) + Cardinality(in_run)
       IN  copies = IF f \in Every \/ f \notin ran THEN 1 ELSE 0

\* Unless the scheduler is told to stop, a function whose time comes is run, although
\* schedule wakes one waiting thread only.
EventuallyRun ==
  \A f \in Once \cup Every :
    (\E i \in DOMAIN taskQueue : taskQueue[i].f = f /\ taskQueue[i].time <= MaxTime)
      ~> (f \in ran \/ stopRequested)

CanDrain == called \cap Every = {} /\ \A i \in DOMAIN taskQueue : taskQueue[i].time <= MaxTime

\* stop() returns: every service thread hears of it.  So does StopWhenDrained, when nothing
\* reschedules itself and the clock reaches the times of what is queued.
StopReturns ==
  (stopper = "notify" /\ (stopRequested \/ CanDrain)) ~> (stopper = "done")

\* serviceQueue on several threads: no notification of schedule or of the stops is lost, so due
\* functions are run and the stops return.
SchedulerLive == EventuallyRun /\ StopReturns
=============================================================================
