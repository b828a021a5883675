------------------------- MODULE ScriptTaskExecutor -------------------------
(***************************************************************************)
(* ThreadPoolScriptTaskExecutor (validation/script_task_executor.cpp) on    *)
(* top of ThreadPool: Execute submits the script checks of a block as one   *)
(* range and waits for their futures in order.  Tasks may submit others.    *)
(***************************************************************************)
EXTENDS ThreadPool

CONSTANT MaxRange    \* bound: the tasks of one Execute

ASSUME RangeAssumption ==
  MaxRange \in Nat \ {0} /\ None \notin {"submit_failed", "ok", "error", "system_error"}

VARIABLES
  batch,     \* the futures of each caller of Execute, and the first error met so far
  result     \* what its last Execute returned

vars == <<poolVars, batch, result>>

NoBatch == [first |-> 1, n |-> 0, next |-> 0, first_error |-> FALSE]

Init ==
  /\ PoolInit
  /\ batch = [c \in Submitters |-> NoBatch]
  /\ result = [c \in Submitters |-> None]

\* Execute with n tasks, up to the first check of Submit.
Execute(c, n) ==
  /\ SubmitCheck(c, n)
  /\ result' = [result EXCEPT ![c] = None] /\ batch' = [batch EXCEPT ![c] = NoBatch]

ExecuteQueue(c) ==
  /\ SubmitQueue(c)
  /\ batch' = [batch EXCEPT ![c].first = accepted + 1, ![c].n = accepted' - accepted]
  /\ UNCHANGED result

Returns(c, r) ==
  /\ result' = [result EXCEPT ![c] = r]
  /\ submit' = [submit EXCEPT ![c] = NoSubmit]

ExecuteRejected(c) ==
  /\ submit[c].at = "rejected"
  /\ Returns(c, "submit_failed")
  /\ UNCHANGED <<m_work_queue, m_interrupt, m_workers, pc, running, stop, threads_to_join,
                 interrupter, accepted, outcome, batch>>

\* Faulty form: the first error found is returned at once.
GivesUp_OnError(c, o) == o # "ok"

\* future.get throws what the task threw: the rest is not waited for.
GivesUp(c, o) == o = "throws"

\* future.get of the next future, or the return after the last one.
ExecuteGet(c) ==
  /\ submit[c].at = "queued"
  /\ LET b == batch[c]
         o == outcome[b.first + b.next]
     IN  IF b.next = b.n
         THEN Returns(c, IF b.first_error THEN "error" ELSE "ok") /\ UNCHANGED batch
         ELSE /\ o # None
              /\ IF GivesUp(c, o)
                 THEN Returns(c, IF o = "throws" THEN "system_error" ELSE "error") /\ UNCHANGED batch
                 ELSE /\ batch' = [batch EXCEPT ![c].next = @ + 1, ![c].first_error = @ \/ o = "error"]
                      /\ UNCHANGED <<result, submit>>
  /\ UNCHANGED <<m_work_queue, m_interrupt, m_workers, pc, running, stop, threads_to_join,
                 interrupter, accepted, outcome>>

ExecuteStep(c) ==
  \/ ExecuteQueue(c) \/ ExecuteRejected(c) \/ ExecuteGet(c)
  \/ SubmitNotify(c, TRUE) /\ UNCHANGED <<batch, result>>

PoolOnly(A) == A /\ UNCHANGED <<batch, result>>

WorkerStep(w) ==
  PoolOnly(WorkerLoop(w) \/ WorkerTaskDone(w) \/ SubmitQueue(w) \/ SubmitNotify(w, FALSE))

Next ==
  \/ \E c \in Submitters : (\E n \in 1..MaxRange : Execute(c, n)) \/ ExecuteStep(c)
  \/ \E w \in Workers : WorkerStep(w)
  \/ \E w \in Workers : PoolOnly(SpuriousWake(w))
  \/ \E w \in Workers : pc[w] = "run" /\ PoolOnly(SubmitCheck(w, 1))
  \/ PoolOnly(Start) \/ PoolOnly(StopBegin) \/ PoolOnly(StopStep)
  \/ PoolOnly(Interrupt) \/ PoolOnly(InterruptNotify)

\* Threads run and tasks return.  Nothing forces a call, a spurious wake-up, or a stop.
Fairness ==
  /\ \A c \in Submitters : WF_vars(ExecuteStep(c))
  /\ \A w \in Workers : WF_vars(WorkerStep(w))
  /\ WF_vars(PoolOnly(StopStep)) /\ WF_vars(PoolOnly(InterruptNotify))

Spec == Init /\ [][Next]_vars /\ Fairness

-----------------------------------------------------------------------------
TypeOK ==
  /\ PoolTypeOK
  /\ result \in [Submitters -> {None, "submit_failed", "ok", "error", "system_error"}]
  /\ \A c \in Submitters : batch[c].n \in 0..MaxRange /\ batch[c].next \in 0..batch[c].n
                           /\ batch[c].first_error \in BOOLEAN

\* What Execute returns is decided by its own tasks alone, whoever executed them and in whatever
\* order, also when the pool was interrupted or stopped meanwhile: success when all succeeded,
\* an error when one failed, and then none of them is left queued or running; a system error
\* when one threw.
VerdictOfBatch ==
  /\ TypeOK
  /\ \A c \in Submitters :
       LET b == batch[c]
           outcomes == {outcome[k] : k \in b.first..(b.first + b.n - 1)}
       IN  /\ result[c] = "ok" => outcomes = {"ok"}
           /\ result[c] = "error" => "error" \in outcomes /\ outcomes \subseteq {"ok", "error"}
           /\ result[c] = "system_error" => "throws" \in outcomes

\* Execute and Stop return: no notification is lost, and no task accepted before an interrupt is
\* forgotten.
EverybodyReturns ==
  /\ \A c \in Submitters : (submit[c].at # "idle") ~> (submit[c].at = "idle")
  /\ (stop # "idle") ~> (stop = "idle")
=============================================================================
