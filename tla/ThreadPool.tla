----------------------------- MODULE ThreadPool -----------------------------
(***************************************************************************)
(* ThreadPool (util/threadpool.h): a queue of tasks, worker threads, and    *)
(* one condition variable.  Every section under m_mutex is one action; the  *)
(* notifications come after it, without the lock.                           *)
(***************************************************************************)
EXTENDS Integers, Sequences, FiniteSets

CONSTANTS
  Workers,     \* the threads that Start creates
  Stopper,     \* the controller inside Stop, which helps to drain the queue
  Submitters,  \* the threads outside the pool that call Submit
  MaxTasks,    \* bound: tasks accepted over a behaviour
  None

ASSUME PoolAssumption ==
  /\ IsFiniteSet(Workers) /\ Workers # {} /\ IsFiniteSet(Submitters) /\ MaxTasks \in Nat
  /\ Stopper \notin Workers \cup Submitters /\ Workers \cap Submitters = {}
  /\ None \notin 1..MaxTasks /\ None \notin {"ok", "error", "throws"}

VARIABLES
  m_work_queue, m_interrupt, m_workers,
  pc,                \* the loop of each worker
  running,           \* the task a worker or the controller executes
  submit,            \* the progress of Submit: what is to be queued, or notified
  stop,              \* the progress of Stop
  threads_to_join,
  interrupter,       \* the progress of Interrupt
  accepted,          \* the number of tasks queued so far, which are numbered
  outcome            \* what became of each task

poolVars == <<m_work_queue, m_interrupt, m_workers, pc, running, submit, stop, threads_to_join,
              interrupter, accepted, outcome>>

Tasks == 1..MaxTasks
Callers == Submitters \cup Workers
Executors == Workers \cup {Stopper}

NoSubmit == [at |-> "idle", n |-> 0]

PoolInit ==
  /\ m_work_queue = <<>> /\ m_interrupt = FALSE /\ m_workers = {}
  /\ pc = [w \in Workers |-> "none"] /\ running = [e \in Executors |-> None]
  /\ submit = [c \in Callers |-> NoSubmit]
  /\ stop = "idle" /\ threads_to_join = {} /\ interrupter = "idle"
  /\ accepted = 0 /\ outcome = [k \in Tasks |-> None]

-----------------------------------------------------------------------------
(* Workers *)

\* A worker leaves when the pool is interrupted and the queue empty.
Leaves == m_interrupt /\ m_work_queue = <<>>

TakeTask(e) ==
  /\ running' = [running EXCEPT ![e] = Head(m_work_queue)]
  /\ m_work_queue' = Tail(m_work_queue)

\* WorkerThread from the start of its loop, or from a wake-up that evaluates the predicate
\* again: wait, leave, or take the first task.
WorkerLoop(w) ==
  /\ pc[w] = "loop"
  /\ \/ /\ ~m_interrupt /\ m_work_queue = <<>>
        /\ pc' = [pc EXCEPT ![w] = "wait"] /\ UNCHANGED <<running, m_work_queue>>
     \/ /\ Leaves
        /\ pc' = [pc EXCEPT ![w] = "exited"] /\ UNCHANGED <<running, m_work_queue>>
     \/ /\ m_work_queue # <<>> /\ ~Leaves
        /\ TakeTask(w) /\ pc' = [pc EXCEPT ![w] = "run"]
  /\ UNCHANGED <<m_interrupt, m_workers, submit, stop, threads_to_join, interrupter, accepted, outcome>>

\* The task returns, with or without a script error, or throws; its future is ready.
FinishTask(e) ==
  /\ running[e] # None
  /\ \E o \in {"ok", "error", "throws"} : outcome' = [outcome EXCEPT ![running[e]] = o]
  /\ running' = [running EXCEPT ![e] = None]

WorkerTaskDone(w) ==
  /\ pc[w] = "run" /\ submit[w].at \notin {"checked", "notify"}
  /\ FinishTask(w)
  /\ pc' = [pc EXCEPT ![w] = "loop"]
  /\ submit' = [submit EXCEPT ![w] = NoSubmit]
  /\ UNCHANGED <<m_work_queue, m_interrupt, m_workers, stop, threads_to_join, interrupter, accepted>>

\* wait may return without a notification.
SpuriousWake(w) ==
  /\ pc[w] = "wait"
  /\ pc' = [pc EXCEPT ![w] = "loop"]
  /\ UNCHANGED <<m_work_queue, m_interrupt, m_workers, running, submit, stop, threads_to_join, interrupter, accepted, outcome>>

Woken(ws) == pc' = [w \in Workers |-> IF w \in ws /\ pc[w] = "wait" THEN "loop" ELSE pc[w]]

NotifyAll == Woken(Workers)

NotifyOne ==
  IF \E w \in Workers : pc[w] = "wait"
  THEN \E w \in Workers : pc[w] = "wait" /\ Woken({w})
  ELSE UNCHANGED pc

-----------------------------------------------------------------------------
(* Submit, of one task or of a range of n *)

\* Faulty form: the flag is not looked at.
Accepting_WhenInterrupted == m_workers # {}

\* Neither Inactive nor Interrupted.
Accepting == m_workers # {} /\ ~m_interrupt

\* The tasks that the callers between their two looks are packaging, for the bound.
Packaged == {x \in Callers \X Tasks : submit[x[1]].at = "checked" /\ x[2] <= submit[x[1]].n}

\* The first look, before the tasks are packaged.
SubmitCheck(c, n) ==
  /\ submit[c].at = "idle"
  /\ accepted + Cardinality(Packaged) + n <= MaxTasks
  /\ submit' = [submit EXCEPT ![c] = IF Accepting THEN [at |-> "checked", n |-> n]
                                     ELSE [at |-> "rejected", n |-> 0]]
  /\ UNCHANGED <<m_work_queue, m_interrupt, m_workers, pc, running, stop, threads_to_join,
                 interrupter, accepted, outcome>>

\* The second, with the lock under which they are queued.
SubmitQueue(c) ==
  /\ submit[c].at = "checked"
  /\ IF Accepting
     THEN /\ m_work_queue' = m_work_queue \o [i \in 1..submit[c].n |-> accepted + i]
          /\ accepted' = accepted + submit[c].n
          /\ submit' = [submit EXCEPT ![c].at = "notify"]
     ELSE submit' = [submit EXCEPT ![c].at = "rejected"] /\ UNCHANGED <<m_work_queue, accepted>>
  /\ UNCHANGED <<m_interrupt, m_workers, pc, running, stop, threads_to_join, interrupter, outcome>>

\* Faulty form: nobody is woken.
SubmitNotify_None(c, range) ==
  /\ submit[c].at = "notify"
  /\ submit' = [submit EXCEPT ![c].at = "queued"]
  /\ UNCHANGED <<m_work_queue, m_interrupt, m_workers, pc, running, stop, threads_to_join,
                 interrupter, accepted, outcome>>

\* notify_one for a task, notify_all for a range.
SubmitNotify(c, range) ==
  /\ submit[c].at = "notify"
  /\ IF range THEN NotifyAll ELSE NotifyOne
  /\ submit' = [submit EXCEPT ![c].at = "queued"]
  /\ UNCHANGED <<m_work_queue, m_interrupt, m_workers, running, stop, threads_to_join,
                 interrupter, accepted, outcome>>

-----------------------------------------------------------------------------
(* The controllers.  Start and Interrupt may come at any time, also during Stop; two calls of
   Stop are never made at the same time. *)

\* Start creates the workers.  Otherwise it throws.
Start ==
  /\ ~m_interrupt /\ m_workers = {}
  /\ m_workers' = Workers /\ pc' = [w \in Workers |-> "loop"]
  /\ UNCHANGED <<m_work_queue, m_interrupt, running, submit, stop, threads_to_join, interrupter,
                 accepted, outcome>>

StopBegin ==
  /\ stop = "idle"
  /\ m_interrupt' = TRUE /\ threads_to_join' = m_workers /\ m_workers' = {}
  /\ stop' = "notify"
  /\ UNCHANGED <<m_work_queue, pc, running, submit, interrupter, accepted, outcome>>

StopNotify ==
  /\ stop = "notify" /\ NotifyAll /\ stop' = "drain"
  /\ UNCHANGED <<m_work_queue, m_interrupt, m_workers, running, submit, threads_to_join,
                 interrupter, accepted, outcome>>

\* ProcessTask takes a task, until there is none.
StopDrain ==
  /\ stop = "drain"
  /\ IF m_work_queue = <<>> THEN stop' = "join" /\ UNCHANGED <<running, m_work_queue>>
     ELSE stop' = "run" /\ TakeTask(Stopper)
  /\ UNCHANGED <<m_interrupt, m_workers, pc, submit, threads_to_join, interrupter, accepted, outcome>>

StopTaskDone ==
  /\ stop = "run" /\ FinishTask(Stopper) /\ stop' = "drain"
  /\ UNCHANGED <<m_work_queue, m_interrupt, m_workers, pc, submit, threads_to_join, interrupter, accepted>>

\* Faulty form: the workers are not waited for.
StopJoin_Never ==
  /\ stop = "join"
  /\ stop' = "reset" /\ threads_to_join' = {}
  /\ UNCHANGED <<m_work_queue, m_interrupt, m_workers, pc, running, submit, interrupter, accepted, outcome>>

StopJoin ==
  /\ stop = "join" /\ \A w \in threads_to_join : pc[w] = "exited"
  /\ stop' = "reset" /\ threads_to_join' = {}
  /\ pc' = [w \in Workers |-> "none"]
  /\ UNCHANGED <<m_work_queue, m_interrupt, m_workers, running, submit, interrupter, accepted, outcome>>

StopReset ==
  /\ stop = "reset" /\ stop' = "idle" /\ m_interrupt' = FALSE
  /\ UNCHANGED <<m_work_queue, m_workers, pc, running, submit, threads_to_join, interrupter,
                 accepted, outcome>>

StopStep == StopNotify \/ StopDrain \/ StopTaskDone \/ StopJoin \/ StopReset

Interrupt ==
  /\ interrupter = "idle" /\ m_interrupt' = TRUE /\ interrupter' = "notify"
  /\ UNCHANGED <<m_work_queue, m_workers, pc, running, submit, stop, threads_to_join, accepted, outcome>>

InterruptNotify ==
  /\ interrupter = "notify" /\ NotifyAll /\ interrupter' = "idle"
  /\ UNCHANGED <<m_work_queue, m_interrupt, m_workers, running, submit, stop, threads_to_join,
                 accepted, outcome>>

-----------------------------------------------------------------------------
PoolTypeOK ==
  /\ m_work_queue \in Seq(Tasks) /\ m_interrupt \in BOOLEAN /\ m_workers \in {{}, Workers}
  /\ pc \in [Workers -> {"none", "loop", "wait", "run", "exited"}]
  /\ running \in [Executors -> Tasks \cup {None}]
  /\ \A w \in Workers : running[w] # None <=> pc[w] = "run"
  /\ submit \in [Callers -> [at : {"idle", "checked", "notify", "queued", "rejected"}, n : Nat]]
  /\ stop \in {"idle", "notify", "drain", "run", "join", "reset"} /\ threads_to_join \in {{}, Workers}
  /\ interrupter \in {"idle", "notify"} /\ accepted \in 0..MaxTasks
  /\ outcome \in [Tasks -> {None, "ok", "error", "throws"}]

\* A task that Submit accepted is queued, being executed by one thread, or done: none is lost,
\* executed twice, or queued when nobody is left to execute it.
TasksConserved ==
  /\ \A k \in 1..accepted :
       LET places == Cardinality({i \in DOMAIN m_work_queue : m_work_queue[i] = k})
                       + Cardinality({e \in Executors : running[e] = k})
       IN  places = IF outcome[k] = None THEN 1 ELSE 0
  /\ m_work_queue # <<>> =>
       stop \in {"notify", "drain", "run"} \/ \E w \in Workers : pc[w] \in {"loop", "wait", "run"}

\* Stop: "Concurrent calls to Start() will be rejected while Stop() is in progress", so that no
\* worker of the next generation runs.  When Stop returns the queue is empty, as it assumes, and
\* its workers are gone.
StopDrains ==
  /\ stop # "idle" => m_workers = {} /\ m_interrupt
  /\ stop = "reset" => /\ m_work_queue = <<>>
                       /\ \A w \in Workers : pc[w] = "none" /\ running[w] = None
=============================================================================
