-------------------------- MODULE ValidationSignals --------------------------
(***************************************************************************)
(* Delivery of validation events (validationinterface.cpp): the list of     *)
(* subscribers that Register, Unregister, Clear and Iterate share, the      *)
(* threads that raise events, the queue that carries them and the order of  *)
(* Shutdown (init.cpp).                                                     *)
(*                                                                         *)
(* Activators run ChainstateActivationOrchestrator::Activate: they hold     *)
(* m_chainstate_mutex throughout and cs_main while they commit.  Submitters *)
(* run BroadcastTransaction.  The background queue is the one               *)
(* SerialTaskRunner implements (SerialQueue); with ImmediateTaskRunner, the *)
(* kernel library's, insert calls the function instead.                     *)
(*                                                                         *)
(* A critical section of m_mutex is one action; a callback runs between two *)
(* of them, with m_mutex released.                                          *)
(***************************************************************************)
EXTENDS Integers, FiniteSets, Sequences

CONSTANTS
  None,
  Subscribers,
  Peerman,           \* the subscriber that Shutdown destroys, registered by a raw pointer
  NeedsMain,         \* subscribers whose callbacks lock cs_main
  Activators, Submitters,
  Worker, Shutter,   \* the scheduler's thread and the thread that runs Shutdown
  Runners,           \* a subset of {"serial", "immediate"}
  QueueLimit,        \* callbacks pending from which activation waits: 10 in the code
  MaxEvents, MaxRegistrations, MaxThrows   \* bounds

ASSUME SignalsAssumption ==
  /\ Peerman \in Subscribers /\ NeedsMain \subseteq Subscribers
  /\ QueueLimit \in Nat /\ MaxEvents \in Nat /\ MaxRegistrations \in Nat /\ MaxThrows \in Nat
  /\ IsFiniteSet(Activators) /\ IsFiniteSet(Submitters) /\ Activators \cap Submitters = {}
  /\ Worker # Shutter /\ {Worker, Shutter} \cap (Activators \cup Submitters) = {}
  /\ Runners \subseteq {"serial", "immediate"} /\ None \notin 0..MaxRegistrations
  /\ None \notin {"event"} \X Nat /\ None \notin {"sync"} \X (Activators \cup Submitters)

VARIABLES
  runner,                      \* which task runner was given to ValidationSignals
  m_list,                      \* id -> [sub, count]; ids stand for the list iterators, in order
  m_map,                       \* subscriber -> id of its entry, or None
  nextId,
  pending, current, finished,  \* the queue, as in SerialQueue
  cs_main, m_chainstate_mutex, \* their holders
  pc,
  iter,                        \* per thread: the Iterate in progress
  events,                      \* number of events raised, in the order of the cs_main sections
  seen,                        \* per subscriber: the last queued event it was called with
  owed,                        \* per subscriber: the last event queued while it was registered
  destroyed,                   \* node.peerman was reset
  throws

listVars == <<m_list, m_map, nextId>>
queueVars == <<pending, current, finished>>
lockVars == <<cs_main, m_chainstate_mutex>>
historyVars == <<events, seen, owed>>
vars == <<runner, listVars, queueVars, lockVars, pc, iter, historyVars, destroyed, throws>>

Producers == Activators \cup Submitters
Executors == {Worker, Shutter}
Actors == Producers \cup Executors
Items == ({"event"} \X (1..MaxEvents + 1)) \cup ({"sync"} \X Producers)

Queue == INSTANCE SerialQueue WITH Callbacks <- Items

\* at: the entry whose callback runs.  due: entries registered since the beginning.  got:
\* entries called.
NotIterating == [at |-> None, due |-> {}, got |-> {}]

Init ==
  /\ runner \in Runners
  /\ m_list = [id \in {0} |-> [sub |-> Peerman, count |-> 1]]
  /\ m_map = [s \in Subscribers |-> IF s = Peerman THEN 0 ELSE None]
  /\ nextId = 1
  /\ Queue!Init
  /\ cs_main = None /\ m_chainstate_mutex = None
  /\ pc = [a \in Actors |-> "idle"]
  /\ iter = [a \in Actors |-> NotIterating]
  /\ events = 0
  /\ seen = [s \in Subscribers |-> 0] /\ owed = [s \in Subscribers |-> 0]
  /\ destroyed = FALSE /\ throws = 0

-----------------------------------------------------------------------------
(* The list of subscribers.                                                 *)

Ids == DOMAIN m_list
Registered == {s \in Subscribers : m_map[s] # None}
SubOf(id) == m_list[id].sub

\* "if (!--count) erase", for each of ids: what is left of the list.
Drop(ids) ==
  [id \in {i \in Ids : i \in ids => m_list[i].count # 1} |->
     [sub |-> m_list[id].sub, count |-> IF id \in ids THEN m_list[id].count - 1 ELSE m_list[id].count]]

Register(s) ==
  /\ pc[Shutter] = "idle" /\ nextId <= MaxRegistrations
  /\ m_map[s] = None
  /\ m_map' = [m_map EXCEPT ![s] = nextId]
  /\ m_list' = [id \in Ids \cup {nextId} |->
                  IF id = nextId THEN [sub |-> s, count |-> 1] ELSE m_list[id]]
  /\ nextId' = nextId + 1
  /\ UNCHANGED <<runner, queueVars, lockVars, pc, iter, historyVars, destroyed, throws>>

\* The loop of Clear over m_map; Unregister is the case of one subscriber.
RemoveEntries(subs) ==
  LET ids == {m_map[s] : s \in subs} IN
  /\ m_list' = Drop(ids)
  /\ m_map' = [s \in Subscribers |-> IF s \in subs THEN None ELSE m_map[s]]
  /\ iter' = [a \in Actors |-> [at |-> iter[a].at, due |-> iter[a].due \ ids, got |-> iter[a].got]]

\* NotificationsHandlerImpl::disconnect and the kernel's ~Context: any time, from any thread.
Unregister(s) ==
  /\ s \in Registered /\ (s = Peerman => runner = "immediate")
  /\ RemoveEntries({s})
  /\ owed' = [owed EXCEPT ![s] = 0]
  /\ UNCHANGED <<runner, nextId, queueVars, lockVars, pc, events, seen, destroyed, throws>>

\* What a call of Iterate by actor a carries: the item of the queue, or ActiveTipChange.
ItemOf(a) == IF a \in Executors THEN current ELSE <<"event", events>>
Queued(a) == pc[a] \in {"begin", "deliver"}

\* std::next: the first of the entries behind one.
Behind(list, id) == {i \in DOMAIN list : i > id}
First(ids) == {i \in ids : \A j \in ids : i <= j}

\* The callback of the entry behind id starts, or Iterate ends and control goes on at `after`.
Visit(a, list, id, due, got, after) ==
  \/ /\ Behind(list, id) = {}
     /\ m_list' = list
     /\ iter' = [iter EXCEPT ![a] = [at |-> None, due |-> due, got |-> got]]
     /\ pc' = [pc EXCEPT ![a] = after]
     /\ UNCHANGED seen
  \/ \E i \in First(Behind(list, id)) :
     /\ m_list' = [list EXCEPT ![i] = [sub |-> list[i].sub, count |-> list[i].count + 1]]
     /\ iter' = [iter EXCEPT ![a] = [at |-> i, due |-> due, got |-> got \cup {i}]]
     /\ pc' = [pc EXCEPT ![a] = IF Queued(a) THEN "deliver" ELSE "notify"]
     /\ seen' = IF Queued(a) THEN [seen EXCEPT ![list[i].sub] = ItemOf(a)[2]] ELSE seen

\* Where control goes when Iterate returns.
After(a) ==
  IF a \in Executors THEN "finish"
  ELSE IF a \in Activators /\ Queued(a) THEN "tipchange" ELSE "unlock"

\* Iterate up to the first callback.
BeginIterate(a) ==
  /\ pc[a] \in {"begin", "tipchange"}
  /\ a \in Executors => ItemOf(a)[1] = "event"
  /\ Visit(a, m_list, -1, {m_map[s] : s \in Registered}, {}, After(a))
  /\ UNCHANGED <<runner, m_map, nextId, queueVars, lockVars, events, owed, destroyed, throws>>

\* A callback that locks cs_main returns only once it had it.
MayReturn(a) ==
  /\ pc[a] \in {"deliver", "notify"}
  /\ SubOf(iter[a].at) \in NeedsMain => cs_main \in {None, a}

\* Faulty form: erase has given the next entry, and the loop advances all the same.
CallbackReturns_SkipsNext(a) ==
  /\ MayReturn(a)
  /\ LET id == iter[a].at
         list == Drop({id})
         next == First(Behind(list, id))
     IN  \E from \in IF id \in DOMAIN list \/ next = {} THEN {id} ELSE next :
           Visit(a, list, from, iter[a].due, iter[a].got, After(a))
  /\ UNCHANGED <<runner, m_map, nextId, queueVars, lockVars, events, owed, destroyed, throws>>

\* f(*it->callbacks) returns; Iterate moves on to the next entry.
CallbackReturns(a) ==
  /\ MayReturn(a)
  /\ LET id == iter[a].at IN Visit(a, Drop({id}), id, iter[a].due, iter[a].got, After(a))
  /\ UNCHANGED <<runner, m_map, nextId, queueVars, lockVars, events, owed, destroyed, throws>>

Released(lock, a) == IF lock = a THEN None ELSE lock

\* KernelInvokeCallback throws: Iterate is left without "--it->count", and the exception
\* releases the locks on its way to the kernel's API.
CallbackThrows(a) ==
  /\ MayReturn(a) /\ runner = "immediate" /\ throws < MaxThrows
  /\ throws' = throws + 1
  /\ iter' = [iter EXCEPT ![a] = NotIterating]
  /\ pc' = [pc EXCEPT ![a] = "idle"]
  /\ cs_main' = Released(cs_main, a) /\ m_chainstate_mutex' = Released(m_chainstate_mutex, a)
  /\ UNCHANGED <<runner, listVars, queueVars, historyVars, destroyed>>

-----------------------------------------------------------------------------
(* The threads that raise events.                                           *)

\* insert calls the function on this thread: ImmediateTaskRunner.
Inline == runner = "immediate"

NewEvent ==
  /\ events' = events + 1
  /\ owed' = [s \in Subscribers |-> IF s \in Registered THEN events + 1 ELSE owed[s]]

\* Faulty form: the event overtakes those that wait.
Raise_Front(a, next) ==
  /\ NewEvent
  /\ IF Inline THEN pc' = [pc EXCEPT ![a] = "begin"] /\ UNCHANGED queueVars
     ELSE /\ pending' = <<<<"event", events + 1>>>> \o pending /\ UNCHANGED <<current, finished>>
          /\ pc' = [pc EXCEPT ![a] = next]

\* ENQUEUE_AND_LOG_EVENT by a thread that holds cs_main; it goes on at `next` when the
\* event was queued.
Raise(a, next) ==
  /\ NewEvent
  /\ IF Inline THEN pc' = [pc EXCEPT ![a] = "begin"] /\ UNCHANGED queueVars
     ELSE Queue!Insert(<<"event", events + 1>>) /\ pc' = [pc EXCEPT ![a] = next]

\* A producer starts only if the events still allowed suffice for all that have started.
MayStart(a) ==
  /\ pc[a] = "idle" /\ pc[Shutter] = "idle"
  /\ events + Cardinality({b \in Producers : pc[b] # "idle"}) < MaxEvents

\* RunSerialized.
Activate(a) ==
  /\ MayStart(a) /\ m_chainstate_mutex = None
  /\ m_chainstate_mutex' = a
  /\ pc' = [pc EXCEPT ![a] = "limit"]
  /\ UNCHANGED <<runner, listVars, queueVars, cs_main, iter, historyVars, destroyed, throws>>

CallbacksPending == IF runner = "immediate" THEN 0 ELSE Len(pending)

\* Faulty form: the limit is looked at with cs_main held.
LimitValidationInterfaceQueue_Locked(a) ==
  /\ pc[a] = "limit" /\ cs_main = None
  /\ IF CallbacksPending > QueueLimit
     THEN Queue!Insert(<<"sync", a>>) /\ pc' = [pc EXCEPT ![a] = "sync"] /\ cs_main' = a
     ELSE pc' = [pc EXCEPT ![a] = "commit"] /\ UNCHANGED <<queueVars, cs_main>>
  /\ UNCHANGED <<runner, listVars, m_chainstate_mutex, iter, historyVars, destroyed, throws>>

\* Faulty form: activation never waits for the subscribers.
LimitValidationInterfaceQueue_Never(a) ==
  /\ pc[a] = "limit"
  /\ pc' = [pc EXCEPT ![a] = "commit"]
  /\ UNCHANGED <<runner, listVars, queueVars, lockVars, iter, historyVars, destroyed, throws>>

\* LimitValidationInterfaceQueue, with m_chainstate_mutex and without cs_main.
LimitValidationInterfaceQueue(a) ==
  /\ pc[a] = "limit"
  /\ IF CallbacksPending > QueueLimit
     THEN Queue!Insert(<<"sync", a>>) /\ pc' = [pc EXCEPT ![a] = "sync"]
     ELSE pc' = [pc EXCEPT ![a] = "commit"] /\ UNCHANGED queueVars
  /\ UNCHANGED <<runner, listVars, lockVars, iter, historyVars, destroyed, throws>>

\* ActivateLocked moves the tip and NotifyLocked raises UpdatedBlockTip, in one section of
\* cs_main; NotifyLocked's ActiveTipChange is an Iterate on this thread ("tipchange").
Commit(a) ==
  /\ pc[a] = "commit" /\ cs_main = None
  /\ cs_main' = a
  /\ Raise(a, "tipchange")
  /\ UNCHANGED <<runner, listVars, m_chainstate_mutex, iter, seen, destroyed, throws>>

\* BroadcastTransaction: the transaction enters the mempool and TransactionAddedToMempool is
\* raised in one section of cs_main.
BroadcastTransaction(a) ==
  /\ MayStart(a) /\ cs_main = None
  /\ Raise(a, "wait")
  /\ cs_main' = IF Inline THEN a ELSE None
  /\ UNCHANGED <<runner, listVars, m_chainstate_mutex, iter, seen, destroyed, throws>>

\* SyncWithValidationInterfaceQueue, after cs_main was released.
SyncWithValidationInterfaceQueue(a) ==
  /\ pc[a] = "wait"
  /\ Queue!Insert(<<"sync", a>>)
  /\ pc' = [pc EXCEPT ![a] = "sync"]
  /\ UNCHANGED <<runner, listVars, lockVars, iter, historyVars, destroyed, throws>>

\* The locks go.  The loop of Activate keeps m_chainstate_mutex for another round; taking it
\* again gives the same rounds.
Unlock(a) ==
  /\ pc[a] = "unlock"
  /\ cs_main' = Released(cs_main, a) /\ m_chainstate_mutex' = Released(m_chainstate_mutex, a)
  /\ iter' = [iter EXCEPT ![a] = NotIterating]
  /\ pc' = [pc EXCEPT ![a] = "idle"]
  /\ UNCHANGED <<runner, listVars, queueVars, historyVars, destroyed, throws>>

-----------------------------------------------------------------------------
(* The queue's thread, and Shutdown.                                        *)

\* The scheduler's thread until it is told to stop, then FlushBackgroundCallbacks.
MayExecute(e) ==
  IF e = Worker THEN pc[Worker] = "idle" /\ pc[Shutter] \in {"idle", "unregistered"}
                ELSE pc[Shutter] = "flush"

ProcessQueue(e) ==
  /\ MayExecute(e) /\ Queue!Start
  /\ pc' = [pc EXCEPT ![e] = "begin"]
  /\ UNCHANGED <<runner, listVars, lockVars, iter, historyVars, destroyed, throws>>

\* promise.set_value() of SyncWithValidationInterfaceQueue.
SetPromise(e) ==
  /\ pc[e] = "begin" /\ ItemOf(e)[1] = "sync"
  /\ LET a == ItemOf(e)[2]
     IN  pc' = [pc EXCEPT ![e] = "finish", ![a] = IF a \in Activators THEN "commit" ELSE "idle"]
  /\ UNCHANGED <<runner, listVars, queueVars, lockVars, iter, historyVars, destroyed, throws>>

FinishCallback(e) ==
  /\ pc[e] = "finish" /\ Queue!Finish
  /\ iter' = [iter EXCEPT ![e] = NotIterating]
  /\ pc' = [pc EXCEPT ![e] = IF e = Worker THEN "idle" ELSE "flush"]
  /\ UNCHANGED <<runner, listVars, lockVars, historyVars, destroyed, throws>>

\* Shutdown begins: the peer manager is unregistered, and the threads that raise events are
\* stopped one after another.
UnregisterPeerman ==
  /\ pc[Shutter] = "idle" /\ runner = "serial"
  /\ RemoveEntries({Peerman})
  /\ pc' = [pc EXCEPT ![Shutter] = "unregistered"]
  /\ owed' = [owed EXCEPT ![Peerman] = 0]
  /\ UNCHANGED <<runner, nextId, queueVars, lockVars, events, seen, destroyed, throws>>

\* connman->Stop() and the joins after it have returned; scheduler->stop() asks the thread to
\* stop ...
StopScheduler ==
  /\ pc[Shutter] = "unregistered" /\ \A a \in Producers : pc[a] = "idle"
  /\ pc' = [pc EXCEPT ![Shutter] = "joining"]
  /\ UNCHANGED <<runner, listVars, queueVars, lockVars, iter, historyVars, destroyed, throws>>

\* ... and joins it; then peerman.reset().
ResetPeerman ==
  /\ pc[Shutter] = "joining" /\ pc[Worker] = "idle"
  /\ destroyed' = TRUE
  /\ pc' = [pc EXCEPT ![Shutter] = "reset"]
  /\ UNCHANGED <<runner, listVars, queueVars, lockVars, iter, historyVars, throws>>

\* ForceFlushStateToDisk raises ChainStateFlushed.
RaiseFlushed ==
  /\ pc[Shutter] = "reset" /\ cs_main = None
  /\ NewEvent /\ Queue!Insert(<<"event", events + 1>>)
  /\ pc' = [pc EXCEPT ![Shutter] = "flush"]
  /\ UNCHANGED <<runner, listVars, lockVars, iter, seen, destroyed, throws>>

\* Faulty form: subscribers are removed although callbacks are pending.
UnregisterAll_Early ==
  /\ pc[Shutter] = "flush"
  /\ RemoveEntries(Registered)
  /\ pc' = [pc EXCEPT ![Shutter] = "done"]
  /\ UNCHANGED <<runner, nextId, queueVars, lockVars, historyVars, destroyed, throws>>

\* flush() returned; UnregisterAllValidationInterfaces.
UnregisterAll ==
  /\ pc[Shutter] = "flush" /\ pending = <<>>
  /\ RemoveEntries(Registered)
  /\ pc' = [pc EXCEPT ![Shutter] = "done"]
  /\ UNCHANGED <<runner, nextId, queueVars, lockVars, historyVars, destroyed, throws>>

ProducerStep(a) ==
  \/ LimitValidationInterfaceQueue(a) \/ Commit(a) \/ SyncWithValidationInterfaceQueue(a)
  \/ Unlock(a)
IterateStep(a) == BeginIterate(a) \/ CallbackReturns(a)
ExecutorStep(e) == ProcessQueue(e) \/ SetPromise(e) \/ FinishCallback(e)
ShutdownStep == StopScheduler \/ ResetPeerman \/ RaiseFlushed \/ UnregisterAll

Next ==
  \/ \E s \in Subscribers : Register(s) \/ Unregister(s)
  \/ \E a \in Activators : Activate(a)
  \/ \E a \in Submitters : BroadcastTransaction(a)
  \/ \E a \in Producers : ProducerStep(a)
  \/ \E a \in Actors : IterateStep(a) \/ CallbackThrows(a)
  \/ \E e \in Executors : ExecutorStep(e)
  \/ UnregisterPeerman \/ ShutdownStep

\* Threads that have started go on: callbacks return, and the queue's thread takes the next
\* callback, which SerialTaskRunner guarantees (EventuallyExecuted, FlushDrains).  A thread
\* waiting for cs_main gets it.  Nothing forces an event, a registration or a shutdown.
Fairness ==
  /\ \A a \in Producers : WF_vars(ProducerStep(a))
  /\ \A a \in Actors : WF_vars(IterateStep(a))
  /\ \A e \in Executors : WF_vars(ExecutorStep(e))
  /\ WF_vars(ShutdownStep)

Spec == Init /\ [][Next]_vars /\ Fairness

-----------------------------------------------------------------------------
(* Properties.                                                              *)

Executing(id) == {a \in Actors : iter[a].at = id}

\* The count of an entry is the number of its executions plus one if it is registered, so an
\* entry leaves the list when its last callback returns and never while one runs, whatever
\* is unregistered, cleared or registered again meanwhile.  A callback that threw leaves the
\* count one too high for good: then the entry stays, which is the safe side.
CountsHold ==
  /\ \A a \in Actors : iter[a].at # None => iter[a].at \in Ids
  /\ \A s \in Registered : m_map[s] \in Ids /\ SubOf(m_map[s]) = s
  /\ \A id \in Ids :
       LET count == m_list[id].count
           uses == Cardinality(Executing(id)) + (IF m_map[SubOf(id)] = id THEN 1 ELSE 0)
       IN  /\ count > 0 /\ count >= uses
           /\ throws = 0 => count = uses

\* An Iterate in progress still has every due entry before it or behind it: an entry that
\* stays registered is called exactly once per event, although its neighbours are erased and
\* the lock is released during every callback.
CalledExactlyOnce ==
  \A a \in Actors :
    LET it == iter[a] IN
    IF it.at = None THEN it.due \subseteq it.got
    ELSE /\ it.due \subseteq it.got \cup Behind(m_list, it.at)
         /\ it.got \cap Behind(m_list, it.at) = {}

\* Iterate, which gives up the lock for every callback, is sound: no entry is erased while it
\* is executed, and every due one is called exactly once.
IterationSound == CountsHold /\ CalledExactlyOnce

\* Every subscriber is called with the queued events in the order in which the sections of
\* cs_main raised them, the order UpdatedBlockTip's comment asks for, on whichever thread.
InOrder == [][\A s \in Subscribers : seen'[s] # seen[s] => seen'[s] > seen[s]]_seen

\* The peer manager, registered by a raw pointer, is not reachable from the list when
\* Shutdown destroys it: no thread is in one of its callbacks or can begin one.
DestroyedUnreachable == destroyed => \A id \in Ids : SubOf(id) # Peerman

\* Shutdown misses no callback: a subscriber that did not unregister has been called with the
\* last event, ChainStateFlushed included, before Clear removes it.
FlushedBeforeClear ==
  pc[Shutter] = "done" => \A s \in Subscribers : owed[s] = 0 \/ seen[s] = owed[s]

\* Shutdown's order of joining, flushing, unregistering and destroying is safe and complete.
ShutdownClean == DestroyedUnreachable /\ FlushedBeforeClear

\* Activation never runs further ahead of the subscribers than the limit of the queue allows:
\* the limit, the block that is being committed, and the waiting thread's own callback.
QueueBounded ==
  Cardinality({i \in DOMAIN pending : pending[i][1] = "event"})
    <= QueueLimit + 1 + Cardinality(Submitters)

\* No thread waits for ever: the queue drains while activation waits for it, because the
\* subscribers can take cs_main, and Shutdown ends.
EverybodyReturns ==
  /\ \A a \in Producers : (pc[a] # "idle") ~> (pc[a] = "idle")
  /\ (pc[Shutter] # "idle") ~> (pc[Shutter] = "done")

=============================================================================
