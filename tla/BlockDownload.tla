---------------------------- MODULE BlockDownload ----------------------------
(***************************************************************************)
(* Block download by the peer manager (net_processing.cpp): which blocks    *)
(* are asked of which peer, how full and compact blocks are taken in, and   *)
(* how silent peers are given up.  The module composes the tracker of       *)
(* BlockDownloadTracker with the planner (node/block_download_planner.cpp,   *)
(* node/ibd_block_download.h), the message handler thread, the socket       *)
(* thread that finalizes peers and a mining client that submits blocks.        *)
(* Each action is one critical section and makes at most one tracker call;   *)
(* "locked" handler states keep cs_main between two such calls.             *)
(***************************************************************************)
EXTENDS BlockDownloadTracker

CONSTANTS
  Genesis, NoBlock,
  Parent,             \* the header tree: block -> previous block
  Reliable,           \* peers that answer every question in time
  Scenarios,          \* starting points, see Init
  MaxInTransit,       \* MAX_BLOCKS_IN_TRANSIT_PER_PEER
  Window,             \* BLOCK_DOWNLOAD_WINDOW
  NearTip             \* how far above the tip a compact block is worth rebuilding

ASSUME TreeAssumption ==
  /\ Genesis \notin Blocks /\ NoBlock \notin Blocks \cup {Genesis}
  /\ Parent \in [Blocks -> Blocks \cup {Genesis}]
ASSUME LimitsAssumption ==
  /\ Reliable \subseteq Peers
  /\ {Window, NearTip} \subseteq Nat \ {0}
  /\ MaxInTransit \in Nat \ {0, 1}

VARIABLES
  scenario,       \* the starting point of this behaviour
  connections,    \* connections each peer has made, up to a bound of the scenario
  connected,      \* keys of m_node_states
  fDisconnect,    \* peers whose connection is to be closed
  best,           \* m_best_known_block
  lastCommon,     \* m_last_common_block
  headers,        \* blocks whose header is in the block index
  have,           \* blocks whose data is stored
  tip,            \* tip of the active chain
  mapBlockSource, \* block -> peer to blame for it
  wire,           \* questions each peer has not answered yet
  wiped,          \* partial blocks whose header a failed FillBlock cleared
  handler,        \* the message handler thread
  submitting      \* the mining client's thread has stored a block and not activated yet

\* MAX_CMPCTBLOCKS_INFLIGHT_PER_BLOCK, a parameter of the scenario.
MaxParallel == scenario.parallel

chainVars == <<headers, have, tip, submitting>>
peerVars  == <<connections, connected, fDisconnect, best, lastCommon>>
vars == <<trackerVars, chainVars, peerVars, scenario, mapBlockSource, wire, wiped, handler>>

\* getdata for a full block, getdata for a compact block, getblocktxn.
Questions == {"block", "cmpct", "txn"}

-----------------------------------------------------------------------------
(* The header tree.  Every block adds the same work, so height stands for    *)
(* chain work.                                                               *)

Chain ==
  LET upTo[b \in Blocks \cup {Genesis}] ==
        IF b = Genesis THEN {Genesis} ELSE upTo[Parent[b]] \cup {b}
  IN  [b \in Blocks \cup {Genesis} |-> upTo[b]]

Height(b) == Cardinality(Chain[b]) - 1

\* The lowest and the highest block of a nonempty set of blocks of one chain.
Lowest(S)  == CHOOSE b \in S : \A c \in S : Height(b) <= Height(c)
Highest(S) == CHOOSE b \in S : \A c \in S : Height(b) >= Height(c)

LastCommonAncestor(a, b) == Highest(Chain[a] \cap Chain[b])

\* HaveNumChainTxs: the data of the block and of all its ancestors is stored.
HaveNumChainTxs(b) == Chain[b] \subseteq have

\* What activation arrives at (module ChainActivation): the active chain keeps
\* its tip unless a fully stored chain has more work.
MostWork(stored) ==
  LET ready == {b \in stored : Chain[b] \subseteq stored /\ Height(b) > Height(tip)}
  IN  {b \in ready : \A c \in ready : Height(c) <= Height(b)} \cup (IF ready = {} THEN {tip} ELSE {})

\* The time of the tip lies within twenty block intervals of now.
CanDirectFetch == tip \in scenario.recent

\* UpdateBlockAvailability for a block of the index: the later of two equals wins.
UpdateBlockAvailability(p, b) ==
  [best EXCEPT ![p] = IF @ = NoBlock \/ Height(b) >= Height(@) THEN b ELSE @]

FirstPeer(b) == m_by_block[b][1]

-----------------------------------------------------------------------------
(* The planner.                                                              *)

\* FindBlockDownloadCandidatesLocked: only a chain with the tip's work or more
\* is of interest.
Interesting(p) == best[p] # NoBlock /\ Height(best[p]) >= Height(tip)

\* The stored last common block of the peer, replaced by the fork point when it
\* is unset, lies below it or left the peer's chain.
LastCommonBlock(p) ==
  LET fork == LastCommonAncestor(best[p], tip)
  IN  IF lastCommon[p] = NoBlock \/ Height(fork) > Height(lastCommon[p])
         \/ lastCommon[p] \notin Chain[best[p]]
      THEN fork ELSE lastCommon[p]

WindowEnd(p) == Height(LastCommonBlock(p)) + Window

Candidates(p) ==
  {b \in Chain[best[p]] : Height(LastCommonBlock(p)) < Height(b) /\ Height(b) <= WindowEnd(p) + 1}

\* Faulty form: the height that is committed next counts as stale.
AdmitIbdBlockDownloadCandidate_Next(b) ==
  /\ Height(b) > Height(tip) + 1
  /\ Height(b) - (Height(tip) + 1) < Window

\* The window built by BuildIbdBlockDownloadWindow from the active tip accepts b.
AdmitIbdBlockDownloadCandidate(b) ==
  /\ Height(b) >= Height(tip) + 1
  /\ Height(b) = Height(tip) + 1 => Parent[b] = tip
  /\ Height(b) - (Height(tip) + 1) < Window

\* Candidates that are neither stored, nor active, nor asked of anyone.
Missing(p) == {b \in Candidates(p) : b \notin have \cup Chain[tip] /\ Count(b) = 0}

\* The loop returns at the first missing candidate outside either window.
Plannable(p) ==
  {b \in Missing(p) : \A a \in Missing(p) \cap Chain[b] :
     Height(a) <= WindowEnd(p) /\ AdmitIbdBlockDownloadCandidate(a)}

\* PlanNextBlocksToDownload: the lowest of them, as many as the budget admits.
Plan(p) ==
  LET budget == MaxInTransit - PeerInFlightCount(p)
      chosen == {b \in Plannable(p) :
                   Cardinality({a \in Plannable(p) : Height(a) < Height(b)}) < budget}
  IN  SetToSortSeq(chosen, LAMBDA a, b : Height(a) < Height(b))

PlannedLastCommon(p) ==
  Highest({LastCommonBlock(p)} \cup {b \in Candidates(p) : HaveNumChainTxs(b)})

\* The peer that holds the window back: the first missing candidate lies beyond
\* the window and an earlier one is in flight from somebody else.
Staller(p) ==
  LET flying == {b \in Candidates(p) : b \notin have \cup Chain[tip] /\ Count(b) > 0}
  IN  IF /\ Missing(p) # {} /\ Height(Lowest(Missing(p))) > WindowEnd(p)
         /\ flying # {} /\ FirstPeer(Lowest(flying)) # p
      THEN FirstPeer(Lowest(flying)) ELSE NoPeer

-----------------------------------------------------------------------------
(* Control of the message handler thread and what it shares.                 *)

Idle == [pc |-> "idle", peer |-> NoPeer, block |-> NoBlock, todo |-> <<>>, ask |-> "block",
         first |-> FALSE, force |-> FALSE, optimistic |-> FALSE, new |-> FALSE]

At(pc, p, b) == [Idle EXCEPT !.pc = pc, !.peer = p, !.block = b]

\* A received block on its way through ProcessBlock.
Processing(p, b, force, optimistic) ==
  [At("source", p, b) EXCEPT !.force = force, !.optimistic = optimistic]

\* The handler keeps cs_main between its critical sections.
CsMainHeld == handler.pc \in {"request", "init"}

\* The handler serves p next: it skips peers that are being disconnected.
Serves(p) == handler = Idle /\ p \in connected \ fDisconnect

Ask(p, q, b) == [wire EXCEPT ![p] = @ \cup {<<q, b>>}]
Answered(p, q, b) == [wire EXCEPT ![p] = @ \ {<<q, b>>}]

\* The blocks the peer has: it announces its tip and answers for the others.
Offers(p) == Chain[scenario.peerTip[p]] \ {Genesis}

\* A scenario fixes the tip of the stored chain, the blocks recent enough to allow
\* direct fetching, the chain of each peer, the answers they also give unasked, the
\* blocks submitted locally, the number of peers that may serve one block and the
\* bound on the connections a peer makes.
DownloadInit ==
  /\ Init
  /\ scenario \in Scenarios
  /\ connections = [p \in Peers |-> 0]
  /\ connected = {} /\ fDisconnect = {}
  /\ best = [p \in Peers |-> NoBlock] /\ lastCommon = [p \in Peers |-> NoBlock]
  /\ have = Chain[scenario.tip] /\ headers = have /\ tip = scenario.tip
  /\ mapBlockSource = <<>>
  /\ wire = [p \in Peers |-> {}] /\ wiped = {}
  /\ handler = Idle
  /\ submitting = FALSE

-----------------------------------------------------------------------------
(* Connections.                                                              *)

\* InitializeNode.  A new connection gets a new node id; as FinalizeNode leaves
\* nothing of the old one, the id is used again here.
InitializeNode(p) ==
  /\ p \notin connected /\ connections[p] < scenario.connections
  /\ ~CsMainHeld
  /\ connected' = connected \cup {p}
  /\ connections' = [connections EXCEPT ![p] = @ + 1]
  /\ UNCHANGED <<trackerVars, chainVars, scenario, fDisconnect, best, lastCommon,
                 mapBlockSource, wire, wiped, handler>>

\* The socket thread closes the connection, on our decision or because the peer
\* left, once no handler refers to the node.
FinalizeNode(p) ==
  /\ p \in connected
  /\ p \in fDisconnect \/ p \notin Reliable
  /\ ~CsMainHeld /\ handler.peer # p
  /\ ForgetPeer(p)
  /\ connected' = connected \ {p} /\ fDisconnect' = fDisconnect \ {p}
  /\ best' = [best EXCEPT ![p] = NoBlock] /\ lastCommon' = [lastCommon EXCEPT ![p] = NoBlock]
  /\ wire' = [wire EXCEPT ![p] = {}] /\ wiped' = wiped \cap partialBlock'
  /\ UNCHANGED <<chainVars, scenario, connections, mapBlockSource, handler>>

\* SendMessages gives the peer up: its stalling or download timeout has passed.
TimeOut(p) ==
  /\ Serves(p) /\ p \notin Reliable
  /\ StallingSince(p) # 0 \/ QueueOf(p) # <<>>
  /\ fDisconnect' = fDisconnect \cup {p}
  /\ UNCHANGED <<trackerVars, chainVars, scenario, connections, connected, best, lastCommon,
                 mapBlockSource, wire, wiped, handler>>

-----------------------------------------------------------------------------
(* Asking for blocks.                                                        *)

\* SendMessages asks p for what the planner chose, or marks the peer that holds
\* the window back.  A plan with blocks names no staller.
SendMessages(p) ==
  /\ Serves(p)
  /\ PeerInFlightCount(p) < MaxInTransit /\ Interesting(p)
  /\ lastCommon' = [lastCommon EXCEPT ![p] = PlannedLastCommon(p)]
  /\ \/ /\ Plan(p) # <<>>
        /\ handler' = [At("request", p, NoBlock) EXCEPT !.todo = Plan(p)]
        /\ UNCHANGED trackerVars
     \/ /\ Plan(p) = <<>> /\ handler' = handler
        /\ IF Staller(p) # NoPeer /\ QueueOf(p) = <<>>
           THEN \E now \in Times : MarkStallingIfUnset(Staller(p), now)
           ELSE UNCHANGED trackerVars
  /\ UNCHANGED <<chainVars, scenario, connections, connected, fDisconnect, best,
                 mapBlockSource, wire, wiped>>

\* BlockRequested for the next block of the list; the getdata with all of them is
\* sent at the end of the critical section, before the peer can answer any.
RequestNext ==
  /\ handler.pc = "request"
  /\ LET p == handler.peer
         b == Head(handler.todo)
     IN  /\ \E now \in Times : RequestBlock(p, b, FALSE, now)
         /\ wire' = Ask(p, handler.ask, b)
         /\ handler' = IF Len(handler.todo) = 1 \/ PeerInFlightCount(p) + 1 >= MaxInTransit
                       THEN Idle ELSE [handler EXCEPT !.todo = Tail(@)]
  /\ UNCHANGED <<chainVars, peerVars, scenario, mapBlockSource, wiped>>

\* A headers message ending in the peer's tip: the headers enter the index and
\* UpdatePeerStateForReceivedHeaders notes what the peer has.
Headers(p) ==
  /\ Serves(p)
  /\ LET b == scenario.peerTip[p]
     IN  /\ headers' = headers \cup Chain[b]
         /\ best' = UpdateBlockAvailability(p, b)
         /\ handler' = At("direct", p, b)
  /\ UNCHANGED <<trackerVars, have, tip, submitting, scenario, connections, connected, fDisconnect,
                 lastCommon, mapBlockSource, wire, wiped>>

\* HeadersDirectFetchBlocks: the missing blocks between the active chain and the
\* last header, unless they are too many; a single one may be asked for compactly.
HeadersDirectFetchBlocks ==
  /\ handler.pc = "direct"
  /\ LET p == handler.peer
         b == handler.block
         want == {c \in Chain[b] \ Chain[tip] : c \notin have /\ Count(c) = 0}
         large_reorg == \E c \in want : /\ Parent[c] \notin Chain[tip]
                                        /\ Cardinality({d \in want : Height(d) >= Height(c)}) = MaxInTransit
         single == Cardinality(want) = 1 /\ m_size = 0 /\ Parent[b] \in Chain[tip]
         fetch == /\ CanDirectFetch /\ Height(b) >= Height(tip) /\ ~large_reorg /\ want # {}
                  /\ PeerInFlightCount(p) < MaxInTransit
     IN  \E ask \in {"block"} \cup (IF single THEN {"cmpct"} ELSE {}) :
           handler' = IF ~fetch THEN Idle
                      ELSE [At("request", p, NoBlock) EXCEPT
                              !.todo = SetToSortSeq(want, LAMBDA c, d : Height(c) < Height(d)), !.ask = ask]
  /\ UNCHANGED <<trackerVars, chainVars, peerVars, scenario, mapBlockSource, wire, wiped>>

-----------------------------------------------------------------------------
(* Compact blocks.                                                           *)

\* The block gets a (further) slot, or p already holds one.
MayReconstruct(p, b) ==
  \/ Count(b) < MaxParallel /\ PeerInFlightCount(p) < MaxInTransit
  \/ InFlight(b, p)

\* The block is wanted as a compact block: stored blocks, blocks without more
\* work than the tip and new blocks while we are far behind are not.
WantedCompact(b) ==
  b \notin have /\ Height(b) > Height(tip) /\ (Count(b) > 0 \/ CanDirectFetch)

NearActiveTip(b) == Height(b) <= Height(tip) + NearTip

\* The peer was asked for the block, but rebuilding it is pointless: ask for all of it.
AskInFull(p, b) ==
  /\ b \notin have /\ InFlight(b, p)
  /\ Height(b) <= Height(tip) \/ (WantedCompact(b) /\ ~NearActiveTip(b))

\* CMPCTBLOCK, asked for or announced.  Its header is accepted just before, in a
\* critical section of its own.
CmpctBlock(p, b) ==
  /\ Serves(p) /\ b \in Offers(p) /\ Parent[b] \in headers
  /\ <<"cmpct", b>> \in wire[p] \cup scenario.unasked
  /\ headers' = headers \cup {b}
  /\ best' = UpdateBlockAvailability(p, b)
  /\ wire' = IF AskInFull(p, b) THEN [wire EXCEPT ![p] = (@ \ {<<"cmpct", b>>}) \cup {<<"block", b>>}]
                                ELSE Answered(p, "cmpct", b)
  /\ \/ /\ ~WantedCompact(b) \/ (InFlight(b, p) /\ ~NearActiveTip(b))
        /\ UNCHANGED <<trackerVars, handler>>
     \/ /\ WantedCompact(b) /\ NearActiveTip(b) /\ MayReconstruct(p, b)
        /\ IF InFlight(b, p) /\ <<p, b>> \notin partialBlock
           THEN AttachPartialBlock(p, b)
           ELSE \E now \in Times : RequestBlock(p, b, TRUE, now)
        /\ handler' = IF <<p, b>> \in partialBlock THEN Idle
                      ELSE [At("init", p, b) EXCEPT !.first = Count(b) = 0 \/ FirstPeer(b) = p]
     \/ /\ WantedCompact(b) /\ NearActiveTip(b) /\ ~MayReconstruct(p, b)
        /\ handler' \in {Idle, Processing(p, b, TRUE, TRUE)}
        /\ UNCHANGED trackerVars
     \/ /\ WantedCompact(b) /\ ~NearActiveTip(b) /\ ~InFlight(b, p)
        /\ handler' = At("direct", p, b)
        /\ UNCHANGED trackerVars
  /\ UNCHANGED <<have, tip, submitting, scenario, connections, connected, fDisconnect, lastCommon,
                 mapBlockSource, wiped>>

\* Faulty form: the compact-block state goes, the request stays.
GiveUp_PartialOnly(p, b, misbehaving) ==
  /\ partialBlock' = partialBlock \ {<<p, b>>}
  /\ fDisconnect' = IF misbehaving THEN fDisconnect \cup {p} ELSE fDisconnect
  /\ wiped' = wiped \cap partialBlock'
  /\ UNCHANGED <<m_peer_download, m_by_block, m_size, m_peers_downloading_from>>

\* Removes p's request for b and, if the peer misbehaved, disconnects it.
GiveUp(p, b, misbehaving) ==
  /\ \E now \in Times : RemoveBlockRequest(b, p, now)
  /\ fDisconnect' = IF misbehaving THEN fDisconnect \cup {p} ELSE fDisconnect
  /\ wiped' = wiped \cap partialBlock'

\* Still in the same critical section: InitData on the partial block.
InitData ==
  /\ handler.pc = "init"
  /\ LET p == handler.peer
         b == handler.block
     IN  \* READ_STATUS_INVALID
         \/ /\ p \notin Reliable
            /\ GiveUp(p, b, TRUE) /\ handler' = Idle /\ UNCHANGED wire
         \* READ_STATUS_FAILED, or transactions are missing: only the first peer is
         \* sure to be asked again, for the block or for the transactions ...
         \/ /\ handler.first
            /\ wire' = Ask(p, "block", b) \/ wire' = Ask(p, "txn", b)
            /\ handler' = Idle /\ UNCHANGED <<trackerVars, fDisconnect, wiped>>
         \* ... another one for the transactions, depending on the kind of the peers ...
         \/ /\ ~handler.first
            /\ wire' = Ask(p, "txn", b)
            /\ handler' = Idle /\ UNCHANGED <<trackerVars, fDisconnect, wiped>>
         \* ... or not at all.
         \/ /\ ~handler.first
            /\ GiveUp(p, b, FALSE) /\ handler' = Idle /\ UNCHANGED wire
         \* Nothing is missing: on to ProcessCompactBlockTxns, without the locks.
         \/ /\ handler' = At("txns", p, b) /\ UNCHANGED <<trackerVars, fDisconnect, wire, wiped>>
  /\ UNCHANGED <<chainVars, scenario, connections, connected, best, lastCommon, mapBlockSource>>

\* Faulty form: the request is kept, but nothing is asked of the peer.
BlockTxnFailed_Silent(p, b) ==
  /\ wire' = Answered(p, "txn", b)
  /\ wiped' = wiped \cup {<<p, b>>}
  /\ UNCHANGED <<trackerVars, fDisconnect>>

\* READ_STATUS_FAILED from FillBlock: the first peer is asked for the whole block
\* under the same request, any other is given up.
BlockTxnFailed(p, b) ==
  IF FirstPeer(b) = p
  THEN /\ wire' = [wire EXCEPT ![p] = (@ \ {<<"txn", b>>}) \cup {<<"block", b>>}]
       /\ wiped' = wiped \cup {<<p, b>>}
       /\ UNCHANGED <<trackerVars, fDisconnect>>
  ELSE GiveUp(p, b, FALSE) /\ wire' = Answered(p, "txn", b)

\* ProcessCompactBlockTxns, called with the transactions of a BLOCKTXN message or
\* with none.  The source is recorded in the same critical section.
ProcessCompactBlockTxns(p, b) ==
  /\ \/ /\ <<p, b>> \notin partialBlock
        /\ wire' = Answered(p, "txn", b) /\ handler' = Idle
        /\ UNCHANGED <<trackerVars, fDisconnect, wiped, mapBlockSource>>
     \/ /\ <<p, b>> \in partialBlock /\ (<<p, b>> \in wiped \/ p \notin Reliable)
        /\ GiveUp(p, b, TRUE)
        /\ wire' = Answered(p, "txn", b) /\ handler' = Idle /\ UNCHANGED mapBlockSource
     \/ /\ <<p, b>> \in partialBlock \ wiped
        /\ BlockTxnFailed(p, b)
        /\ handler' = Idle /\ UNCHANGED mapBlockSource
     \/ /\ <<p, b>> \in partialBlock \ wiped
        /\ GiveUp(p, b, FALSE)
        /\ wire' = Answered(p, "txn", b)
        /\ mapBlockSource' = mapBlockSource @@ (b :> p)
        /\ handler' = [Processing(p, b, TRUE, FALSE) EXCEPT !.pc = "process"]
  /\ UNCHANGED <<chainVars, scenario, connections, connected, best, lastCommon>>

\* BLOCKTXN, as an answer or sent again.
BlockTxn(p, b) ==
  /\ Serves(p)
  /\ <<"txn", b>> \in wire[p] \cup (IF p \in Reliable THEN {} ELSE scenario.unasked)
  /\ ProcessCompactBlockTxns(p, b)

FillFromMempool == handler.pc = "txns" /\ ProcessCompactBlockTxns(handler.peer, handler.block)

-----------------------------------------------------------------------------
(* Full blocks, and what every received block goes through.                  *)

\* BLOCK, asked for or not: a mutated block costs the peer its connection, any
\* other is forced into storage if somebody was asked for it.
Block(p, b) ==
  /\ Serves(p) /\ b \in Offers(p) /\ Parent[b] \in headers
  /\ <<"block", b>> \in wire[p] \cup scenario.unasked
  /\ wire' = Answered(p, "block", b)
  /\ \/ p \notin Reliable /\ GiveUp(p, b, TRUE) /\ handler' = Idle
     \/ GiveUp(p, b, FALSE) /\ handler' = Processing(p, b, Count(b) > 0, FALSE)
  /\ UNCHANGED <<chainVars, scenario, connections, connected, best, lastCommon, mapBlockSource>>

\* mapBlockSource.emplace keeps an earlier source.
RecordSource ==
  /\ handler.pc = "source"
  /\ mapBlockSource' = mapBlockSource @@ (handler.block :> handler.peer)
  /\ handler' = [handler EXCEPT !.pc = "process"]
  /\ UNCHANGED <<trackerVars, chainVars, peerVars, scenario, wire, wiped>>

\* GetBlockDataAdmissionResult: an unrequested block needs the work of the tip.
ShouldStoreBlockData(b, force) == b \notin have /\ (force \/ Height(b) >= Height(tip))

\* AcceptBlock.
StoreBlock ==
  /\ handler.pc = "process"
  /\ LET b == handler.block
         store == ShouldStoreBlockData(b, handler.force)
     IN  /\ headers' = headers \cup {b}
         /\ have' = IF store THEN have \cup {b} ELSE have
         /\ handler' = [handler EXCEPT !.pc = "activate", !.new = store]
  /\ UNCHANGED <<trackerVars, peerVars, tip, submitting, scenario, mapBlockSource, wire, wiped>>

\* ActivateBestChain: every block it connects is reported to BlockChecked, which
\* erases its source.
Activate ==
  /\ tip' \in MostWork(have)
  /\ mapBlockSource' = Restrict(mapBlockSource, DOMAIN mapBlockSource \ (Chain[tip'] \ Chain[tip]))

ActivateBlock ==
  /\ handler.pc = "activate"
  /\ Activate
  /\ handler' = [handler EXCEPT !.pc = "finish"]
  /\ UNCHANGED <<trackerVars, peerVars, headers, have, submitting, scenario, wire, wiped>>

\* Faulty form: a block that was not stored keeps its source.
FinishBlock_KeepsSource ==
  /\ handler.pc = "finish"
  /\ IF handler.new THEN \E now \in Times : RemoveBlockRequest(handler.block, NoPeer, now)
                    ELSE UNCHANGED trackerVars
  /\ wiped' = wiped \cap partialBlock'
  /\ handler' = IF handler.optimistic THEN [handler EXCEPT !.pc = "clear"] ELSE Idle
  /\ UNCHANGED <<chainVars, peerVars, scenario, wire, mapBlockSource>>

\* The end of ProcessBlock: a newly stored block is in flight from nobody, the
\* source of any other is dropped.
FinishBlock ==
  /\ handler.pc = "finish"
  /\ IF handler.new
     THEN (\E now \in Times : RemoveBlockRequest(handler.block, NoPeer, now)) /\ UNCHANGED mapBlockSource
     ELSE /\ mapBlockSource' = Restrict(mapBlockSource, DOMAIN mapBlockSource \ {handler.block})
          /\ UNCHANGED trackerVars
  /\ wiped' = wiped \cap partialBlock'
  /\ handler' = IF handler.optimistic THEN [handler EXCEPT !.pc = "clear"] ELSE Idle
  /\ UNCHANGED <<chainVars, peerVars, scenario, wire>>

\* After an optimistic reconstruction the requests are removed even if somebody
\* else had stored the block meanwhile.
ClearRequests ==
  /\ handler.pc = "clear"
  /\ IF handler.block \in have THEN \E now \in Times : RemoveBlockRequest(handler.block, NoPeer, now)
                               ELSE UNCHANGED trackerVars
  /\ wiped' = wiped \cap partialBlock'
  /\ handler' = Idle
  /\ UNCHANGED <<chainVars, peerVars, scenario, mapBlockSource, wire>>

\* submitSolution (node/interfaces.cpp): ProcessNewBlock on an IPC thread stores the block, then activates.
SubmitBlock(b) ==
  /\ ~submitting /\ ~CsMainHeld
  /\ b \in scenario.submitted \ have /\ Parent[b] \in headers
  /\ have' = have \cup {b} /\ headers' = headers \cup {b} /\ submitting' = TRUE
  /\ UNCHANGED <<trackerVars, peerVars, tip, scenario, mapBlockSource, wire, wiped, handler>>

ActivateSubmitted ==
  /\ submitting /\ ~CsMainHeld
  /\ Activate
  /\ submitting' = FALSE
  /\ UNCHANGED <<trackerVars, peerVars, headers, have, scenario, wire, wiped, handler>>

-----------------------------------------------------------------------------
HandlerStep ==
  \/ RequestNext \/ HeadersDirectFetchBlocks \/ InitData \/ FillFromMempool
  \/ RecordSource \/ StoreBlock \/ ActivateBlock \/ FinishBlock \/ ClearRequests

\* The peer sends what the handler takes in next.
Answers(p) == \E b \in Blocks :
  \/ <<"block", b>> \in wire[p] /\ Block(p, b)
  \/ <<"cmpct", b>> \in wire[p] /\ CmpctBlock(p, b)
  \/ <<"txn", b>> \in wire[p] /\ BlockTxn(p, b)

DownloadNext ==
  \/ \E p \in Peers :
       \/ InitializeNode(p) \/ FinalizeNode(p) \/ TimeOut(p) \/ SendMessages(p) \/ Headers(p)
       \/ \E b \in Blocks : CmpctBlock(p, b) \/ BlockTxn(p, b) \/ Block(p, b)
  \/ HandlerStep
  \/ \E b \in Blocks : SubmitBlock(b)
  \/ ActivateSubmitted

\* The handler runs on.  Whoever waits for cs_main gets it in the end, although the
\* handler takes it again and again; the message loop visits every peer again and
\* again, although a visit does not always find something to do: strong fairness.
Fairness ==
  /\ WF_vars(HandlerStep) /\ SF_vars(ActivateSubmitted)
  /\ \A p \in Peers : SF_vars(p \in fDisconnect /\ FinalizeNode(p)) /\ SF_vars(TimeOut(p))
  /\ \A p \in Reliable : /\ SF_vars(InitializeNode(p))
                         /\ SF_vars(Headers(p)) /\ SF_vars(SendMessages(p)) /\ SF_vars(Answers(p))

DownloadSpec == DownloadInit /\ [][DownloadNext]_vars
FairDownloadSpec == DownloadSpec /\ Fairness

-----------------------------------------------------------------------------
(* Properties.                                                               *)

\* Every step of the peer manager is a step of the tracker or leaves it alone, so
\* what is proved of the tracker holds here, in every interleaving of its callers.
TrackerSpec == Spec

\* Only connected peers have download state, so that the checks FinalizeNode makes
\* when the last peer leaves hold (states empty, index empty, counter zero), and
\* State(staller) exists when a staller is marked.  "We should not have requested too
\* many of this block": no block is in flight from more peers than the limit of
\* BlockRequestedLocked, and no peer is asked for more blocks at a time than its own.
\* And a request is never forgotten: while a block is in flight from a peer and not
\* stored, the peer still owes an answer that will end the request, or the handler
\* is about to ask.  Otherwise an honest peer would be disconnected by the timeout.
RequestsLegal ==
  /\ DOMAIN m_peer_download \subseteq connected
  /\ \A b \in Blocks : Count(b) <= MaxParallel
  /\ \A p \in Peers : PeerInFlightCount(p) <= MaxInTransit
  /\ \A p \in Peers, b \in Blocks : InFlight(b, p) =>
       \/ b \in have
       \/ \E q \in Questions : <<q, b>> \in wire[p]
       \/ handler.pc \in {"init", "txns"} /\ handler.peer = p /\ handler.block = b

\* A block source is kept only while its block is processed or waits, stored, for
\* its connection: mapBlockSource does not grow with blocks that come to nothing.
SourcesPending ==
  \A b \in DOMAIN mapBlockSource :
    \/ handler.block = b /\ handler.pc \in {"process", "activate", "finish"}
    \/ b \in have \ Chain[tip]

\* Where the peers' chain extends ours, it becomes the active chain as long as one
\* peer serves it, whatever silent, slow or misbehaving peers were asked before.
DownloadCompletes ==
  \A p \in Reliable : (scenario.tip \in Chain[scenario.peerTip[p]]) => <>[](tip = scenario.peerTip[p])

\* The same for any chain with more work than ours: what compact block relay cannot
\* fetch is left to the parallel block fetch ("let parallel block fetch work its magic").
BestChainDownloaded ==
  \A p \in Reliable : (Height(scenario.peerTip[p]) > Height(scenario.tip)) => <>[](tip = scenario.peerTip[p])
=============================================================================
