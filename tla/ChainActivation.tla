-------------------------- MODULE ChainActivation --------------------------
(***************************************************************************)
(* Moving the active chain to the best one while other threads use the      *)
(* block index: ChainstateActivationOrchestrator, InvalidateBlock,          *)
(* PreciousBlock and ResetBlockFailureFlags (chainstate.cpp), the connection*)
(* steps of validation/core_chain_activation.cpp, and ProcessNewBlock       *)
(* (validation/block_validation.cpp).                                       *)
(*                                                                         *)
(* m_chainstate_mutex serialises activation and InvalidateBlock.  cs_main   *)
(* protects the block index and the chain; CoreChainLock::RunUnlocked       *)
(* releases it while a block is read and its connection is executed, except *)
(* in a reorganisation with an event sink.  A function that runs with       *)
(* cs_main held is one action; the actions that leave cs_main free are where*)
(* other threads come in.                                                   *)
(*                                                                         *)
(* The batches of 32 blocks of NextCoreChainConnectBatch leave no trace in  *)
(* the state: they are walked in order, and MarkInvalidChainFound of a      *)
(* batch's last block repeats what MarkInvalidBlockFound of the culprit did.*)
(***************************************************************************)
EXTENDS BlockIndex

CONSTANTS
  Threads, None,
  Scenarios,       \* what is on disk at the start and what happens, see below
  MaxPrecious,     \* bound: how far nBlockReverseSequenceId is counted down
  MaxSequenceId    \* bound: nBlockSequenceId

AllOps == {"header", "block", "unrequested", "tip_candidate", "commit_ready",
           "invalidate", "precious", "reconsider", "prune", "interrupt"}

\* loaded and tip: the blocks on disk and the active tip at the start.
\* threads, ops, blocks: which threads call which entry points, for which blocks.
\* sink: activation runs with a ChainstateEventSink (the node) or without (the kernel).
\* faults: a bound on the reads, disconnections, commits and flushes that fail.
ASSUME ScenarioAssumption ==
  /\ None \notin Threads /\ MaxPrecious \in Nat /\ MaxSequenceId \in Nat
  /\ \A s \in Scenarios :
       /\ Loadable(s.loaded, s.tip)
       /\ s.threads \subseteq Threads /\ s.ops \subseteq AllOps /\ s.blocks \subseteq Blocks
       /\ s.sink \in BOOLEAN /\ s.faults \in Nat

VARIABLES
  cs_main, m_chainstate_mutex,     \* the holders
  pc,
  target,          \* the block a thread's call is about
  act,             \* ChainstateActivationOrchestrator and its step, of the mutex holder
  inv,             \* the locals of InvalidateBlock, of the mutex holder
  coins,           \* the best block of the coins view
  sink,            \* what the node's event sink has been told: the tip, and a repair under way
  buffered,        \* ChainstateEventRecorder
  signalled,       \* the tip that the queued BlockConnected and BlockDisconnected signals add up to
  notified,        \* the last tip given to the blockTip notification
  nBlockReverseSequenceId, nLastPreciousChainwork,
  scenario,
  m_interrupt,
  faults, fatal    \* failures so far; fatalError has been notified

eventVars == <<sink, buffered, signalled, notified>>
preciousVars == <<nBlockReverseSequenceId, nLastPreciousChainwork, scenario>>
threadVars == <<cs_main, m_chainstate_mutex, pc, target>>
vars == <<indexVars, threadVars, act, inv, coins, eventVars, preciousVars, m_interrupt, faults, fatal>>

WithSink == scenario.sink
Ops == scenario.ops

NoAct == [most_work |-> NoBlock, new_tip |-> NoBlock, starting_tip |-> NoBlock,
          blocks_connected |-> FALSE, old_tip |-> NoBlock, fork |-> NoBlock,
          cached |-> NoBlock, target_block |-> NoBlock, ready |-> FALSE,
          disconnected |-> FALSE, at |-> NoBlock, connected |-> <<>>, invalid |-> FALSE]
NoInv == [highpow |-> {}, to_mark_failed |-> NoBlock, pindex_was_in_chain |-> FALSE]

Init ==
  /\ scenario \in Scenarios
  /\ IndexInit(scenario.loaded, scenario.tip)
  /\ cs_main = None /\ m_chainstate_mutex = None
  /\ pc = [t \in Threads |-> "idle"] /\ target = [t \in Threads |-> NoBlock]
  /\ act = NoAct /\ inv = NoInv
  /\ coins = tip
  /\ sink = [tip |-> tip, repairing |-> FALSE] /\ buffered = <<>>
  /\ signalled = tip /\ notified = tip
  /\ nBlockReverseSequenceId = -1 /\ nLastPreciousChainwork = 0
  /\ m_interrupt = FALSE /\ faults = 0 /\ fatal = FALSE

-----------------------------------------------------------------------------
(* Events *)

\* How the sink takes an event.  One that does not fit the tip it knows leaves it without a tip.
Take(s, e) ==
  CASE e.type = "BlockDisconnected" ->
         [tip |-> IF s.tip = e.block THEN Parent[e.block] ELSE NoBlock, repairing |-> TRUE]
    [] e.type = "BlockConnected" ->
         [s EXCEPT !.tip = IF s.tip = Parent[e.block] THEN e.block ELSE NoBlock]
    [] e.type = "ReorgCompleted" -> [s EXCEPT !.repairing = FALSE]

TakeAll(s, events) == FoldLeft(Take, s, events)

Event(type, b) == [type |-> type, block |-> b]

\* A reorganisation with a sink keeps cs_main and records the events for the end of the step.
Repair == WithSink /\ act.old_tip # act.fork

\* Events of the step under way, given to the recorder or to the sink.
Publish(events) ==
  IF ~WithSink THEN UNCHANGED <<sink, buffered>>
  ELSE IF Repair THEN buffered' = buffered \o events /\ UNCHANGED sink
  ELSE sink' = TakeAll(sink, events) /\ UNCHANGED buffered

\* The recorder's events are processed when the step returns, whatever its result.
PublishAndProcess(events) ==
  IF ~WithSink THEN UNCHANGED <<sink, buffered>>
  ELSE sink' = TakeAll(sink, buffered \o events) /\ buffered' = <<>>

\* The tip after the signals BlockConnected of blocks.
Signal(s, blocks) == FoldLeft(LAMBDA x, b : IF x = Parent[b] THEN b ELSE NoBlock, s, blocks)

-----------------------------------------------------------------------------
(* Entry points.  Each runs under cs_main alone and then goes on to activation. *)

\* After a fatal error the node shuts down: only the call that met it comes to its end.  And once
\* a key of the ordered candidate set has been changed what follows is undefined: the model begins
\* nothing more.
Running == ~fatal /\ ~rekeyed

Idle(t) == t \in scenario.threads /\ pc[t] = "idle" /\ cs_main = None /\ Running

Goto(t, where, b) == pc' = [pc EXCEPT ![t] = where] /\ target' = [target EXCEPT ![t] = b]

\* ProcessNewBlockHeaders of one header.
ProcessNewBlockHeaders(t, b) ==
  /\ "header" \in Ops /\ Idle(t)
  /\ AcceptBlockHeader(b)
  /\ UNCHANGED <<threadVars, act, inv, coins, eventVars, preciousVars, m_interrupt, faults, fatal>>

\* ShouldAttemptActivation: whatever became of the data, unless the block was rejected.
AfterAcceptance(t, b, force, where) ==
  IF ShouldStoreBlockData(b, force) /\ b \in BodyBad THEN Goto(t, "idle", NoBlock)
  ELSE Goto(t, where, b)

AcceptNewBlockData(t, b, force, where) ==
  /\ Idle(t)
  /\ AcceptBlock(b, force) /\ nBlockSequenceId' <= MaxSequenceId
  /\ AfterAcceptance(t, b, force, where)
  /\ UNCHANGED <<cs_main, m_chainstate_mutex, act, inv, coins, eventVars, preciousVars,
                 m_interrupt, faults, fatal>>

\* ProcessNewBlock of a requested block and of one nobody asked for; the structural checks that
\* come before it touch no state.
ProcessNewBlock(t, b) ==
  \/ "block" \in Ops /\ AcceptNewBlockData(t, b, TRUE, "activate")
  \/ "unrequested" \in Ops /\ AcceptNewBlockData(t, b, FALSE, "activate")

\* AcceptNewBlockData followed by ActivateAcceptedTipCandidate, or by the prepared commit.
AcceptTipCandidate(t, b) ==
  \/ "tip_candidate" \in Ops /\ AcceptNewBlockData(t, b, TRUE, "activate_tip")
  \/ "commit_ready" \in Ops /\ AcceptNewBlockData(t, b, TRUE, "prepare_ready")

\* The candidates once b has its place in the order s.
PreciousCandidates(s, b) ==
  IF CanBeBlockIndexCandidate(b, failed)
  THEN PruneBlockIndexCandidates(s, setBlockIndexCandidates \cup {b}, tip)
  ELSE setBlockIndexCandidates \ {b}

PreciousBlock(t, b) ==
  /\ "precious" \in Ops /\ Idle(t) /\ b \in known
  /\ nChainWork[b] >= nChainWork[tip]
  /\ LET reset == nChainWork[tip] > nLastPreciousChainwork
         id == IF reset THEN -1 ELSE nBlockReverseSequenceId
     IN /\ id >= -MaxPrecious
        /\ nBlockReverseSequenceId' = id - 1
        /\ nSequenceId' = [nSequenceId EXCEPT ![b] = id]
  /\ nLastPreciousChainwork' = nChainWork[tip]
  /\ setBlockIndexCandidates' = PreciousCandidates(nSequenceId', b)
  /\ Goto(t, "activate", NoBlock)
  /\ UNCHANGED <<known, data, processed, linked, failed, nBlockSequenceId, rekeyed, m_blocks_unlinked,
                 m_best_header, tip, cs_main, m_chainstate_mutex, act, inv, coins, eventVars,
                 scenario, m_interrupt, faults, fatal>>

\* ResetBlockFailureFlags under cs_main, then ActivateBestChain.
ReconsiderBlock(t, b) ==
  /\ "reconsider" \in Ops /\ Idle(t) /\ b \in known
  /\ ResetBlockFailureFlags(b)
  /\ Goto(t, "activate", NoBlock)
  /\ UNCHANGED <<known, data, processed, linked, nSequenceId, nBlockSequenceId, rekeyed, m_blocks_unlinked,
                 tip, cs_main, m_chainstate_mutex, act, inv, coins, eventVars, preciousVars,
                 m_interrupt, faults, fatal>>

\* Pruning by a flush, at a moment and of a file the model leaves open.  The flushes that run
\* inside another section prune for the states that follow it.
Prune(b) ==
  /\ "prune" \in Ops /\ cs_main = None /\ Running
  /\ PruneOneBlockFile(b)
  /\ UNCHANGED <<threadVars, act, inv, coins, eventVars, preciousVars, m_interrupt, faults, fatal>>

Interrupt ==
  /\ "interrupt" \in Ops /\ ~m_interrupt
  /\ m_interrupt' = TRUE
  /\ UNCHANGED <<indexVars, threadVars, act, inv, coins, eventVars, preciousVars, faults, fatal>>

-----------------------------------------------------------------------------
(* ActivateBestChain *)

\* The mutex that serialises activation is free, and the node is not shutting down.
MayActivate == m_chainstate_mutex = None /\ Running

\* ActivateSerialized begins; LimitValidationInterfaceQueue only waits.
LockActivation(t) ==
  /\ pc[t] \in {"activate", "activate_tip"} /\ MayActivate
  /\ m_chainstate_mutex' = t
  /\ act' = [NoAct EXCEPT !.cached = target[t],
                          !.target_block = IF pc[t] = "activate_tip" THEN target[t] ELSE NoBlock]
  /\ Goto(t, "locked", NoBlock)
  /\ UNCHANGED <<indexVars, cs_main, inv, coins, eventVars, preciousVars, m_interrupt, faults, fatal>>

\* ActivateLocked up to its loop.
ActivateLocked(t) ==
  /\ pc[t] = "locked" /\ cs_main = None
  /\ cs_main' = t
  /\ act' = [act EXCEPT !.starting_tip = tip, !.blocks_connected = FALSE]
  /\ Goto(t, "select", NoBlock)
  /\ UNCHANGED <<indexVars, m_chainstate_mutex, inv, coins, eventVars, preciousVars, m_interrupt,
                 faults, fatal>>

\* SelectMostWorkCandidate, given what FindMostWorkChain returned.
SelectMostWorkCandidate(most_work) ==
  IF act.target_block = NoBlock THEN most_work
  ELSE IF most_work = act.target_block /\ Parent[most_work] = tip THEN most_work ELSE NoBlock

\* The loop of ActivateLocked: choose where to go, unless that is known; leave when there.
SelectMostWork(t) ==
  /\ pc[t] = "select"
  /\ \E best \in Tree \cup {NoBlock} :
       /\ IF act.most_work # NoBlock
          THEN best = act.most_work /\ UNCHANGED <<setBlockIndexCandidates, m_blocks_unlinked>>
          ELSE \E found \in Tree \cup {NoBlock} :
                 FindMostWorkChain(found) /\ best = SelectMostWorkCandidate(found)
       /\ IF best \in {NoBlock, tip}
          THEN /\ act' = [act EXCEPT !.most_work = best]
               /\ Goto(t, "notify", NoBlock)
          ELSE /\ act' = [act EXCEPT !.most_work = best, !.old_tip = tip,
                                     !.fork = FindFork(tip, best), !.at = FindFork(tip, best),
                                     !.disconnected = FALSE, !.connected = <<>>, !.invalid = FALSE]
               /\ Goto(t, IF tip \in Anc[best] THEN "connect" ELSE "disconnect", NoBlock)
  /\ UNCHANGED <<known, data, processed, linked, failed, nSequenceId, nBlockSequenceId, rekeyed,
                 m_best_header, tip, cs_main, m_chainstate_mutex, inv, coins, eventVars,
                 preciousVars, m_interrupt, faults, fatal>>

\* The step returns SystemError, and so do its callers.
SystemError(t) ==
  /\ cs_main' = None /\ m_chainstate_mutex' = None
  /\ act' = NoAct
  /\ Goto(t, "idle", NoBlock)

Fault == faults < scenario.faults /\ faults' = faults + 1

\* What DisconnectTip does to the chain and the coins, and the signal it queues.
DisconnectTip ==
  /\ tip \in data
  /\ coins' = Parent[tip] /\ tip' = Parent[tip]
  /\ signalled' = IF signalled = tip THEN Parent[tip] ELSE NoBlock

\* DisconnectTip fails: the block cannot be read or undone, or the flush after the coins were
\* changed fails.
DisconnectTipFails ==
  /\ \/ tip \notin data /\ UNCHANGED <<coins, faults>>
     \/ tip \in data /\ Fault /\ coins' \in {coins, Parent[tip]}
  /\ UNCHANGED <<tip, signalled>>

\* One turn of DisconnectCoreChainToFork.
DisconnectToFork(t) ==
  /\ pc[t] = "disconnect"
  /\ \/ /\ DisconnectTip
        /\ Publish(<<Event("BlockDisconnected", tip)>>)
        /\ setBlockIndexCandidates' =    \* refreshed once the fork is reached
             IF tip' = act.fork THEN RefreshBlockIndexCandidates(failed, tip')
             ELSE setBlockIndexCandidates
        /\ act' = [act EXCEPT !.disconnected = TRUE]
        /\ Goto(t, IF tip' = act.fork THEN "connect" ELSE "disconnect", NoBlock)
        /\ UNCHANGED <<cs_main, m_chainstate_mutex, faults, fatal>>
     \/ /\ DisconnectTipFails
        /\ PublishAndProcess(<<Event("ReorgCompleted", NoBlock)>>)
        /\ fatal' = TRUE
        /\ SystemError(t)
        /\ UNCHANGED setBlockIndexCandidates
  /\ UNCHANGED <<known, data, processed, linked, failed, nSequenceId, nBlockSequenceId, rekeyed,
                 m_blocks_unlinked, m_best_header, inv, notified, preciousVars, m_interrupt>>

\* The block the step connects next.
NextBlock == CHOOSE b \in Anc[act.most_work] \ {Genesis} : Parent[b] = act.at

\* RunUnlocked of CoreChainLock, or of none during a repair.
Unlocked(t) == IF Repair THEN t ELSE None
Relockable(t) == cs_main \in {None, t}

\* PrepareCoreConnectTip: a cached block goes straight to execution, any other is read first.
PrepareConnectTip(t) ==
  /\ pc[t] = "connect"
  /\ cs_main' = Unlocked(t)
  /\ Goto(t, IF NextBlock = act.most_work /\ NextBlock = act.cached THEN "execute" ELSE "read", NoBlock)
  /\ UNCHANGED <<indexVars, m_chainstate_mutex, act, inv, coins, eventVars, preciousVars,
                 m_interrupt, faults, fatal>>

\* A failure of the connection step: the sink is told, and the error is passed up.
StepFails(t) == PublishAndProcess(<<Event("ReorgCompleted", NoBlock)>>) /\ SystemError(t)

\* The read returns; under cs_main the connection is planned and the coins it spends copied.
ReadBlock(t) ==
  /\ pc[t] = "read" /\ Relockable(t)
  /\ \/ /\ NextBlock \in data
        /\ cs_main' = Unlocked(t)
        /\ Goto(t, "execute", NoBlock)
        /\ UNCHANGED <<m_chainstate_mutex, act, sink, buffered, faults, fatal>>
     \/ /\ IF NextBlock \in data THEN Fault ELSE UNCHANGED faults
        /\ fatal' = TRUE
        /\ StepFails(t)
  /\ UNCHANGED <<indexVars, inv, coins, signalled, notified, preciousVars, m_interrupt>>

\* ReportCoreConnectTipExecution of a block that breaks a rule.
RejectExecuted(t) ==
  /\ NextBlock \in ConnectBad
  /\ InvalidBlockFound(NextBlock, m_best_header)
  /\ act' = [act EXCEPT !.invalid = TRUE]
  /\ cs_main' = t
  /\ Goto(t, "step_end", NoBlock)
  /\ UNCHANGED <<known, data, processed, linked, nSequenceId, nBlockSequenceId, rekeyed, m_blocks_unlinked,
                 tip, m_chainstate_mutex, coins, sink, buffered, faults, fatal>>

\* Faulty form: a connection prepared on another tip is committed.
CommitFits_AnyTip(b) == TRUE

\* ReadyCommitMatchesCommitTarget, and the comparison with the coins view in the commit.
CommitFits(b) == Parent[b] = tip /\ coins = Parent[b]

\* The step ends when it is better off than before, or at its goal.
StepDone(b) == b = act.most_work \/ nChainWork[b] > nChainWork[act.old_tip]

\* CommitCoreConnectTip and PruneBlockIndexCandidates.
CommitExecuted(t) ==
  /\ NextBlock \notin ConnectBad
  /\ \/ /\ CommitFits(NextBlock)
        /\ coins' = NextBlock /\ tip' = NextBlock
        /\ setBlockIndexCandidates' =
             PruneBlockIndexCandidates(nSequenceId, setBlockIndexCandidates, NextBlock)
        /\ Publish(<<Event("BlockConnected", NextBlock)>>)
        /\ act' = [act EXCEPT !.at = NextBlock, !.connected = Append(@, NextBlock)]
        /\ cs_main' = t
        /\ Goto(t, IF StepDone(NextBlock) THEN "step_end" ELSE "connect", NoBlock)
        /\ UNCHANGED <<m_chainstate_mutex, faults, fatal>>
     \/ /\ ~CommitFits(NextBlock)
        /\ StepFails(t)
        /\ UNCHANGED <<setBlockIndexCandidates, tip, coins, faults, fatal>>
     \/ /\ CommitFits(NextBlock)
        /\ Fault /\ fatal' = TRUE
        /\ coins' \in {coins, NextBlock}    \* before or after the coins were changed
        /\ StepFails(t)
        /\ UNCHANGED <<setBlockIndexCandidates, tip>>
  /\ UNCHANGED <<known, data, processed, linked, failed, nSequenceId, nBlockSequenceId, rekeyed,
                 m_blocks_unlinked, m_best_header>>

\* The execution, which reads nothing of the shared state, is over.
ExecuteConnectTip(t) ==
  /\ pc[t] = "execute" /\ Relockable(t)
  /\ RejectExecuted(t) \/ CommitExecuted(t)
  /\ UNCHANGED <<inv, signalled, notified, preciousVars, m_interrupt>>

\* The BlockConnected signals at the end of a step.
SignalConnected(s, blocks) == Signal(s, blocks)

\* An invalid block ends the way to the goal: the next round looks for another.
GoalAfterStep == IF act.invalid THEN NoBlock ELSE act.most_work

\* The rest of ActivateCoreBestChainStep and of the loop in ActivateLocked.
StepEnd(t) ==
  /\ pc[t] = "step_end"
  /\ PublishAndProcess(IF act.disconnected THEN <<Event("ReorgCompleted", NoBlock)>> ELSE <<>>)
  /\ signalled' = SignalConnected(signalled, act.connected)
  /\ act' = [NoAct EXCEPT !.most_work = GoalAfterStep,
                          !.new_tip = tip, !.starting_tip = act.starting_tip,
                          !.blocks_connected = TRUE, !.cached = act.cached,
                          !.target_block = act.target_block]
  /\ Goto(t, IF Worse(nSequenceId, tip, act.starting_tip) THEN "select" ELSE "notify", NoBlock)
  /\ UNCHANGED <<indexVars, cs_main, m_chainstate_mutex, inv, coins, notified, preciousVars,
                 m_interrupt, faults, fatal>>

\* ActivateSerialized returns.
Return(t) ==
  /\ m_chainstate_mutex' = None
  /\ act' = NoAct
  /\ Goto(t, "idle", NoBlock)

\* The tip is not one the chain already had.
NewTipSeen == FindFork(tip, act.starting_tip) # act.new_tip

\* Faulty form: ActivateLocked answers Continue, and not NoWork, when no step was needed.
NotifyLocked_NeverNoWork(t) ==
  /\ pc[t] = "notify"
  /\ cs_main' = None
  /\ \/ /\ notified' = IF act.blocks_connected /\ NewTipSeen THEN act.new_tip ELSE notified
        /\ Goto(t, "flush", NoBlock)
        /\ UNCHANGED <<m_chainstate_mutex, act, m_interrupt>>
     \/ /\ act.blocks_connected /\ NewTipSeen
        /\ "interrupt" \in Ops /\ m_interrupt' = TRUE
        /\ notified' = act.new_tip
        /\ Return(t)
  /\ UNCHANGED <<indexVars, inv, coins, sink, buffered, signalled, preciousVars, faults, fatal>>

\* The end of ActivateLocked.  The blockTip notification may answer Interrupted.
NotifyLocked(t) ==
  /\ pc[t] = "notify"
  /\ cs_main' = None
  /\ \/ /\ ~act.blocks_connected
        /\ Return(t)
        /\ UNCHANGED <<notified, m_interrupt>>
     \/ /\ act.blocks_connected
        /\ notified' = IF NewTipSeen THEN act.new_tip ELSE notified
        /\ Goto(t, "flush", NoBlock)
        /\ UNCHANGED <<m_chainstate_mutex, act, m_interrupt>>
     \/ /\ act.blocks_connected /\ NewTipSeen
        /\ "interrupt" \in Ops /\ m_interrupt' = TRUE
        /\ notified' = act.new_tip
        /\ Return(t)
  /\ UNCHANGED <<indexVars, inv, coins, sink, buffered, signalled, preciousVars, faults, fatal>>

\* Faulty form: one step is enough.
Arrived_AfterOneStep == TRUE

\* ActivateSerialized has nothing more to do, or was told to stop.
Arrived == act.ready \/ m_interrupt \/ act.new_tip = act.most_work

\* FlushPeriodic, and whether ActivateSerialized goes round again.
FlushPeriodic(t) ==
  /\ pc[t] = "flush" /\ cs_main = None
  /\ \/ /\ Arrived
        /\ Return(t)
        /\ UNCHANGED <<faults, fatal>>
     \/ /\ ~Arrived
        /\ Goto(t, "locked", NoBlock)
        /\ UNCHANGED <<m_chainstate_mutex, act, faults, fatal>>
     \/ /\ Fault /\ fatal' = TRUE
        /\ Return(t)
  /\ UNCHANGED <<indexVars, cs_main, inv, coins, eventVars, preciousVars, m_interrupt>>

-----------------------------------------------------------------------------
(* A connection validated ahead of its commit *)

\* PrepareAcceptedTipCommitWork: the block is validated on the tip of the moment, under no mutex.
PrepareAcceptedTipCommitWork(t) ==
  /\ pc[t] = "prepare_ready" /\ cs_main = None /\ Running
  /\ IF Parent[target[t]] = tip /\ target[t] \notin ConnectBad
     THEN Goto(t, "commit_ready", target[t]) ELSE Goto(t, "idle", NoBlock)
  /\ UNCHANGED <<indexVars, cs_main, m_chainstate_mutex, act, inv, coins, eventVars, preciousVars,
                 m_interrupt, faults, fatal>>

\* CommitReadyTipLocked.  The mutex and then cs_main are taken for the whole of it.
CommitReadyTip(t) ==
  LET b == target[t] IN
  /\ pc[t] = "commit_ready" /\ MayActivate /\ cs_main = None
  /\ \E most_work \in Tree \cup {NoBlock} :
       /\ most_work = MostWork(setBlockIndexCandidates)
       /\ IF most_work # NoBlock /\ b \in Anc[most_work] /\ CommitFits(b)
          THEN /\ coins' = b /\ tip' = b
               /\ setBlockIndexCandidates' =
                    PruneBlockIndexCandidates(nSequenceId, CandidatesLeft(most_work), b)
               /\ m_blocks_unlinked' = UnlinkedWith(most_work)
               /\ sink' = IF WithSink THEN Take(sink, Event("BlockConnected", b)) ELSE sink
               /\ signalled' = Signal(signalled, <<b>>)
               /\ notified' = b
               /\ m_chainstate_mutex' = t
               /\ act' = [NoAct EXCEPT !.ready = TRUE]
               /\ Goto(t, "flush", NoBlock)
          ELSE /\ FindMostWorkChain(most_work)
               /\ Goto(t, "idle", NoBlock)
               /\ UNCHANGED <<coins, tip, sink, signalled, notified, m_chainstate_mutex, act>>
  /\ UNCHANGED <<known, data, processed, linked, failed, nSequenceId, nBlockSequenceId, rekeyed,
                 m_best_header, cs_main, inv, buffered, preciousVars, m_interrupt, faults, fatal>>

-----------------------------------------------------------------------------
(* InvalidateBlock *)

\* The call takes the mutex and, under cs_main, collects the blocks it may have to look at.
InvalidateBlock(t, b) ==
  /\ "invalidate" \in Ops /\ Idle(t) /\ m_chainstate_mutex = None
  /\ b \in known \ {Genesis}
  /\ m_chainstate_mutex' = t
  /\ inv' = [highpow |-> {c \in known \ (Anc[tip] \cup failed) : ~Worse(nSequenceId, c, Parent[b])},
             to_mark_failed |-> b, pindex_was_in_chain |-> FALSE]
  /\ Goto(t, "inv_loop", b)
  /\ UNCHANGED <<indexVars, cs_main, act, coins, eventVars, preciousVars, m_interrupt, faults, fatal>>

\* The best header after a disconnection: the new tip, or better ones among the collected.
BestOf(new_tip, others) ==
  LET most == {c \in others : \A d \in others : nChainWork[d] <= nChainWork[c]}
  IN IF \A c \in most : nChainWork[c] <= nChainWork[new_tip] THEN {new_tip} ELSE most

\* The candidates once the tip has been disconnected, given the collected blocks that stay valid.
InvalidateCandidates(new_tip, others) ==
  (setBlockIndexCandidates \ {tip}) \cup {new_tip}
    \cup {c \in others : CanBeBlockIndexCandidate(c, failed) /\ ~Worse(nSequenceId, c, new_tip)}

\* One turn of the loop: the tip is disconnected and marked, in one section of cs_main.
InvalidateDisconnect(t) ==
  /\ pc[t] = "inv_loop" /\ cs_main = None /\ ~m_interrupt
  /\ target[t] \in Anc[tip]
  /\ \/ LET new_tip == Parent[tip]
            above == {c \in inv.highpow : nChainWork[c] >= nChainWork[new_tip]}
            doomed == {c \in above : tip \in Anc[c]}
        IN /\ DisconnectTip
           /\ sink' = IF WithSink
                      THEN TakeAll(sink, <<Event("BlockDisconnected", tip), Event("ReorgCompleted", NoBlock)>>)
                      ELSE sink
           /\ failed' = failed \cup {tip} \cup doomed
           /\ setBlockIndexCandidates' = InvalidateCandidates(new_tip, above \ doomed)
           /\ m_best_header' \in IF tip \in Anc[m_best_header] THEN BestOf(new_tip, above \ doomed)
                                ELSE {m_best_header}
           /\ inv' = [highpow |-> inv.highpow \ doomed, to_mark_failed |-> tip,
                      pindex_was_in_chain |-> TRUE]
           /\ UNCHANGED <<threadVars, faults, fatal>>
     \/ /\ DisconnectTipFails
        /\ fatal' = (coins' # coins)        \* a flush that fails is fatal, a read is not
        /\ sink' = IF WithSink THEN Take(sink, Event("ReorgCompleted", NoBlock)) ELSE sink
        /\ m_chainstate_mutex' = None /\ inv' = NoInv
        /\ Goto(t, "activate", NoBlock)
        /\ UNCHANGED <<failed, setBlockIndexCandidates, m_best_header, cs_main>>
  /\ UNCHANGED <<known, data, processed, linked, nSequenceId, nBlockSequenceId, rekeyed, m_blocks_unlinked,
                 act, buffered, notified, preciousVars, m_interrupt>>

\* Faulty form: an interrupted invalidation marks its block whatever the chain.
Interfered_Never(b) == FALSE

\* The block to be marked is still in the active chain.
Interfered(b) == b \in Anc[tip]

\* The loop is over; the last section marks what is left and repairs the candidates.
InvalidateFinish(t) ==
  LET b == target[t] IN
  /\ pc[t] = "inv_loop" /\ cs_main = None
  /\ m_interrupt \/ b \notin Anc[tip]
  /\ IF Interfered(inv.to_mark_failed)
     THEN /\ m_chainstate_mutex' = None /\ inv' = NoInv
          /\ Goto(t, "activate", NoBlock)
          /\ UNCHANGED <<failed, setBlockIndexCandidates, m_best_header>>
     ELSE /\ InvalidChainFound(inv.to_mark_failed,
               failed \cup (IF inv.pindex_was_in_chain THEN {} ELSE {b}), m_best_header)
          /\ Goto(t, "inv_notify", b)
          /\ UNCHANGED <<m_chainstate_mutex, inv>>
  /\ UNCHANGED <<known, data, processed, linked, nSequenceId, nBlockSequenceId, rekeyed, m_blocks_unlinked,
                 tip, cs_main, act, coins, eventVars, preciousVars, m_interrupt, faults, fatal>>

\* The tip that InvalidateBlock's notification names.
InvalidatedTip == Parent[inv.to_mark_failed]

\* The notification, with the mutex but without cs_main.  The caller goes on to ActivateBestChain.
InvalidateNotify(t) ==
  /\ pc[t] = "inv_notify"
  /\ notified' = IF inv.pindex_was_in_chain THEN InvalidatedTip ELSE notified
  /\ m_chainstate_mutex' = None /\ inv' = NoInv
  /\ Goto(t, "activate", NoBlock)
  /\ UNCHANGED <<indexVars, cs_main, act, coins, sink, buffered, signalled, preciousVars,
                 m_interrupt, faults, fatal>>

-----------------------------------------------------------------------------
\* Steps of a call that has begun.
CallStep(t) ==
  \/ LockActivation(t) \/ ActivateLocked(t) \/ SelectMostWork(t) \/ DisconnectToFork(t)
  \/ PrepareConnectTip(t) \/ ReadBlock(t) \/ ExecuteConnectTip(t) \/ StepEnd(t)
  \/ NotifyLocked(t) \/ FlushPeriodic(t)
  \/ PrepareAcceptedTipCommitWork(t) \/ CommitReadyTip(t)
  \/ InvalidateDisconnect(t) \/ InvalidateFinish(t) \/ InvalidateNotify(t)

\* Calls that begin.
Call(t) ==
  \E b \in scenario.blocks :
    \/ ProcessNewBlockHeaders(t, b) \/ ProcessNewBlock(t, b) \/ AcceptTipCandidate(t, b)
    \/ PreciousBlock(t, b) \/ ReconsiderBlock(t, b) \/ InvalidateBlock(t, b)

\* The node shuts down once the call that met the error has ended.
Stopped == ~Running /\ m_chainstate_mutex = None /\ UNCHANGED vars

Next ==
  \/ \E t \in Threads : CallStep(t) \/ Call(t)
  \/ \E b \in Blocks : Prune(b)
  \/ Interrupt
  \/ Stopped

Spec == Init /\ [][Next]_vars

\* When CallStep(t) is enabled: the locks the next step takes are free.
CanStep(t) ==
  \/ pc[t] \in {"activate", "activate_tip"} /\ MayActivate
  \/ pc[t] \in {"locked", "flush", "inv_loop"} /\ cs_main = None
  \/ pc[t] = "prepare_ready" /\ cs_main = None /\ Running
  \/ pc[t] = "commit_ready" /\ cs_main = None /\ MayActivate
  \/ pc[t] \in {"read", "execute"} /\ Relockable(t)
  \/ pc[t] \in {"select", "disconnect", "connect", "step_end", "notify", "inv_notify"}

\* A thread that has begun a call goes on with it (weak fairness of CallStep).
FairSpec == Spec /\ \A t \in Threads : []<>~CanStep(t) \/ []<><<CallStep(t)>>_vars

-----------------------------------------------------------------------------
TypeOK ==
  /\ IndexTypeOK
  /\ {cs_main, m_chainstate_mutex} \subseteq Threads \cup {None}
  /\ pc \in [Threads -> {"idle", "activate", "activate_tip", "locked", "select", "disconnect",
                         "connect", "read", "execute", "step_end", "notify", "flush",
                         "prepare_ready", "commit_ready", "inv_loop", "inv_notify"}]
  /\ target \in [Threads -> Tree \cup {NoBlock}]
  /\ {act.most_work, act.new_tip, act.starting_tip, act.old_tip, act.fork, act.at, act.cached,
      act.target_block} \subseteq Tree \cup {NoBlock}
  /\ act.connected \in Seq(Tree)
  /\ inv.highpow \subseteq Tree
  /\ coins \in Tree /\ sink.tip \in Tree \cup {NoBlock}
  /\ signalled \in Tree \cup {NoBlock} /\ notified \in Tree
  /\ faults \in 0..scenario.faults

\* InvalidateBlock is between two of its sections.
Invalidating == \E t \in Threads : pc[t] = "inv_loop"

\* What CheckCoreBlockIndexInvariants asserts of the flags and the two sets holds whenever no
\* thread has cs_main and InvalidateBlock is not half done: the failed flags, the linked blocks,
\* the candidates and the unlinked blocks agree, whatever was received, connected or invalidated
\* while a connection was executed without the lock.  And no valid block has more work than the
\* best header, where InvalidateBlock is not called.
IndexConsistent ==
  /\ TypeOK
  /\ cs_main = None /\ ~Invalidating /\ ~fatal =>
       /\ FailedPropagationRule /\ LinkedRule /\ CandidateRule /\ UnlinkedRule
       /\ "invalidate" \notin Ops => BestHeaderRule

\* CheckCoreBlockIndexInvariants: "non-failed block has more work than best header" is never
\* reported when no thread has cs_main and InvalidateBlock is not half done.
BestHeaderConsistent == cs_main = None /\ ~Invalidating => BestHeaderRule

\* LoadChainTip's comment: "nSequenceId is one of the keys used to sort setBlockIndexCandidates.
\* Ensure the candidate set is empty to avoid UB, as nSequenceId is about to be modified."
\* ReceivedBlockTransactions, too, leaves the keys of blocks in the set alone.
CandidateKeysFixed == ~rekeyed

\* PrepareCoreConnectTip asserts that the block extends the active tip, and ConnectPrepared that
\* the coins are those of the parent; both still hold when the unlocked execution is committed,
\* so a prepared connection is never stale.  And the block that is read without cs_main has its
\* data: pruning never overtakes activation.
ConnectionOnTip ==
  \A t \in Threads :
    /\ pc[t] \in {"connect", "read", "execute"} => act.at = tip /\ coins = tip
    /\ pc[t] = "read" => NextBlock \in data

\* When cs_main is free the active chain has no failed block and its tip is a candidate
\* (PruneBlockIndexCandidates asserts that there is one), also in the middle of InvalidateBlock.
ActiveChainValid ==
  cs_main = None => Anc[tip] \cap failed = {} /\ (~fatal => tip \in setBlockIndexCandidates)

\* With cs_main free the coins are those of the tip, unless a failed write is shutting the node
\* down.
CoinsAtTip == cs_main = None /\ ~fatal => coins = tip

\* With cs_main free the event sink knows the tip and no repair is pending: "Reorg repair must
\* not be visible until the chain transition reaches a stable point".
SinkAtTip == WithSink /\ cs_main = None => sink = [tip |-> tip, repairing |-> FALSE] /\ buffered = <<>>

\* The BlockConnected and BlockDisconnected signals, taken in the order they are queued, lead
\* from tip to tip.  They have been queued when activation lets go of its mutex and, with an
\* event sink, whenever cs_main is free.
SignalsAddUp ==
  /\ signalled # NoBlock
  /\ ~fatal /\ (m_chainstate_mutex = None \/ (WithSink /\ cs_main = None)) => signalled = tip

\* Once no call is under way the last blockTip notification is about the tip.
NotifiedTip ==
  (\A t \in Threads : pc[t] = "idle") /\ faults = 0 /\ ~fatal => notified = tip

\* What activation keeps beside the chain agrees with the tip wherever another thread can look:
\* the coins, the event sink, the queued signals and the blockTip notification.
ObserversAtTip == CoinsAtTip /\ SinkAtTip /\ SignalsAddUp /\ NotifiedTip

\* Once no call is under way the active chain is the best there is: no block with all its data
\* and no failed ancestor is better than the tip.  The calls that activate one tip candidate or
\* commit one prepared connection, and look at no other block, promise less.
BestChainActive ==
  (Ops \cap {"tip_candidate", "commit_ready"} = {}) /\ (\A t \in Threads : pc[t] = "idle") /\ faults = 0 /\ ~fatal /\ ~m_interrupt =>
    \A b \in linked : MissingData(b) = {} /\ FailedAncestors(b) = {} => ~Worse(nSequenceId, tip, b)

\* A call that holds m_chainstate_mutex gives it back.
MutexReleased == \A t \in Threads : m_chainstate_mutex = t ~> m_chainstate_mutex # t
=============================================================================
