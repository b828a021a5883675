----------------------------- MODULE TxDownload -----------------------------
(***************************************************************************)
(* Transaction download: TxDownloadManagerImpl (node/txdownloadman_impl.cpp) *)
(* over the request tracker and the orphanage, with its callers in          *)
(* net_processing.cpp: the message handler thread (inv, tx, notfound,       *)
(* orphan processing, getdata), the thread that finalizes peers, chain       *)
(* updates, and the callbacks of the validation signals that report them     *)
(* later.  m_tx_download_mutex is held for a whole handler, so a handler     *)
(* is one action.  Peers announce transactions and answer requests; what     *)
(* mempool validation says is given by Verdict.  The rolling filters are      *)
(* sets, without their false positives.                                      *)
(***************************************************************************)
EXTENDS TxRequestTracker, TxOrphanage

CONSTANTS
  Txs,                 \* transactions
  Coin,                \* stands for the confirmed transactions that fund them
  Segwit,              \* transactions with a witness: txid and wtxid differ
  Verdict,             \* what mempool policy thinks of each, see MempoolAccept
  Peers,               \* NodeIds
  Preferred,           \* m_preferred
  Reliable,            \* peers that answer every request
  Scenarios,           \* starting points, see Init
  GetDataInterval      \* GETDATA_TX_INTERVAL, in units of the request delays

ASSUME TxAssumption ==
  /\ Coin \notin Txs /\ Segwit \subseteq Txs
  /\ Verdict \in [Txs -> {"good", "lowfee", "nonstandard", "inputs_nonstandard"}]
  /\ DOMAIN Inputs = Txs /\ DOMAIN Weight = Txs /\ DOMAIN LatencyScore = Txs
  /\ \A x \in Txs : Inputs[x] # {} /\ \A out \in Inputs[x] : out[1] \in (Txs \ {x}) \cup {Coin}
ASSUME PeersAssumption ==
  Peers \subseteq Nat /\ Preferred \cup Reliable \subseteq Peers
\* m_reserved_usage_per_peer is above the weight of a standard transaction,
\* and there is a unit of latency score for every peer.
ASSUME ScenarioAssumption ==
  /\ GetDataInterval \in Nat \ {0}
  /\ \A s \in Scenarios : /\ s.reserved > 0 /\ \A x \in Txs : Weight[x] <= s.reserved
                          /\ s.maxLatency >= Cardinality(Peers)
                          /\ s.permitted \cup s.wtxid \cup s.late \cup s.leaving \subseteq Peers

VARIABLES
  scenario,            \* the starting point of this behaviour
  man,                 \* m_txdownloadman: its requests, orphanage and filters
  m_peer_info,         \* the peers known to it
  m_num_wtxid_peers,
  mempool,             \* transactions in the mempool
  chain,               \* blocks of the active chain above the start: sets of transactions
  callbacks,           \* queued BlockConnected and BlockDisconnected callbacks
  announcing,          \* what each peer has yet to announce
  wire,                \* hashes asked of each peer and not answered
  clock                \* how often the clock may still be set back

vars == <<scenario, man, m_peer_info, m_num_wtxid_peers, mempool, chain, callbacks,
          announcing, wire, clock>>
peerVars == <<m_peer_info, m_num_wtxid_peers>>
chainVars == <<chain, callbacks>>

Txid(x) == <<x, "txid">>
Wtxid(x) == IF x \in Segwit THEN <<x, "wtxid">> ELSE Txid(x)
Hashes == {Txid(x) : x \in Txs \cup {Coin}} \cup {Wtxid(x) : x \in Txs}
Parents(x) == {out[1] : out \in Inputs[x]}

\* m_relay_permissions and m_wtxid_relay.
RelayPermitted == scenario.permitted
WtxidRelay == scenario.wtxid

\* MAX_PEER_TX_ANNOUNCEMENTS and MAX_PEER_TX_REQUEST_IN_FLIGHT.
MaxAnnouncements == scenario.announcements
MaxInFlight == scenario.inflight

-----------------------------------------------------------------------------
(* Mempool validation.                                                       *)
Confirmed(blocks) == UNION ToSet(blocks)

\* The output exists and no confirmed transaction has spent it.
Available(out, pool, blocks) ==
  /\ out[1] \in pool \cup Confirmed(blocks) \cup {Coin}
  /\ \A x \in Confirmed(blocks) : out \notin Inputs[x]

\* Inputs that are gone because the transaction itself is in the chain show
\* as a conflict while its outputs are cached.
MempoolAccept(x, pool, cached) ==
  IF Verdict[x] = "nonstandard" THEN "NOT_STANDARD"
  ELSE IF x \in pool THEN "CONFLICT"
  ELSE IF \E out \in Inputs[x] : ~Available(out, pool, chain)
       THEN IF x \in Confirmed(chain) /\ cached THEN "CONFLICT" ELSE "MISSING_INPUTS"
  ELSE IF Verdict[x] = "inputs_nonstandard" THEN "INPUTS_NOT_STANDARD"
  ELSE IF Verdict[x] = "lowfee" THEN "RECONSIDERABLE"
  ELSE "VALID"

\* AcceptPackage of a parent and its child: each alone, then the two together
\* if both failed for a reason that may not apply to the package.  A child
\* of good feerate pays for its parent.
AcceptTogether(x, c, pool, parent, child) ==
  CASE ~({parent, child} \subseteq {"RECONSIDERABLE", "MISSING_INPUTS"}) -> <<parent, child>>
    [] parent = "MISSING_INPUTS" -> <<parent, child>>
    [] \E out \in Inputs[c] : ~Available(out, pool \cup {x}, chain) -> <<parent, "MISSING_INPUTS">>
    [] Verdict[c] = "inputs_nonstandard" -> <<parent, "INPUTS_NOT_STANDARD">>
    [] Verdict[c] = "lowfee" -> <<parent, "RECONSIDERABLE">>
    [] OTHER -> <<"VALID", "VALID">>
AcceptChild(x, c, pool, parent, cached) ==
  AcceptTogether(x, c, pool, parent,
    IF c \in pool THEN "MEMPOOL_ENTRY"
    ELSE MempoolAccept(c, IF parent = "VALID" THEN pool \cup {x} ELSE pool, cached))
AcceptPackage(x, c, pool, cached) == AcceptChild(x, c, pool, MempoolAccept(x, pool, cached), cached)

-----------------------------------------------------------------------------
(* TxDownloadManagerImpl.  d is the manager's state, pool the mempool.       *)
AlreadyHaveTx(d, pool, h, includeReconsiderable) ==
  \/ h = Wtxid(h[1]) /\ HaveTx(d.orphanage, h[1])
  \/ includeReconsiderable /\ h \in d.reconsiderable
  \/ h \in d.confirmed
  \/ h \in d.rejects
  \/ h[1] \in pool

ForgetBoth(d, x) == [d EXCEPT !.requests = ForgetTxHash(ForgetTxHash(@, Txid(x)), Wtxid(x))]

\* Each of the three delays is one unit.
RequestDelay(d, p, byTxid) ==
  One(p \notin Preferred) + One(byTxid /\ m_num_wtxid_peers > 0)
    + One(p \notin RelayPermitted /\ CountInFlight(d.requests, p) >= MaxInFlight)

MissingParents(d, pool, x) ==
  {h \in {Txid(y) : y \in Parents(x)} : ~AlreadyHaveTx(d, pool, h, FALSE)}

\* MaybeAddOrphanResolutionCandidate: may p resolve the orphan, and its
\* missing parents taken as announced by p.
MayResolve(d, parents, x, p) ==
  /\ p \in m_peer_info
  /\ ~HaveTxFromPeer(d.orphanage, x, p)
  /\ \/ p \in RelayPermitted
     \/ Count(d.requests, p) + Cardinality(parents) <= MaxAnnouncements
AnnounceParents(d, parents, p) ==
  LET delay == RequestDelay(d, p, TRUE)
      Inv(h, t) == ReceivedInv(t, p, h, p \in Preferred, delay)
  IN  [d EXCEPT !.requests = FoldSet(Inv, @, parents)]

AddTxAnnouncement(d, pool, p, h) ==
  LET x == h[1]
      parents == MissingParents(d, pool, x)
  IN  IF p \in WtxidRelay /\ HaveTx(d.orphanage, x)
      THEN IF parents # {} /\ MayResolve(d, parents, x, p)
           THEN [AnnounceParents(d, parents, p) EXCEPT !.orphanage = AddAnnouncer(@, x, p)]
           ELSE d
      ELSE IF \/ AlreadyHaveTx(d, pool, h, TRUE)
              \/ p \notin m_peer_info
              \/ p \notin RelayPermitted /\ Count(d.requests, p) >= MaxAnnouncements
      THEN d
      ELSE [d EXCEPT !.requests = ReceivedInv(@, p, h, p \in Preferred,
                                              RequestDelay(d, p, p \notin WtxidRelay))]

\* The first child of x that p announced and that was not refused with it yet.
Find1P1CPackage(d, x, p) ==
  SelectSeq(GetChildrenFromSamePeer(d.orphanage, x, p),
            LAMBDA c : <<x, c>> \notin d.reconsiderable /\ Txid(c) \notin d.rejects)

\* Faulty form: the children of x are not put up for reconsideration.
MempoolAcceptedTx_ChildrenWait(d, x, rng) ==
  [ForgetBoth(d, x) EXCEPT !.orphanage = EraseTx(@, x)]
MempoolAcceptedTx(d, x, rng) ==
  [ForgetBoth(d, x) EXCEPT !.orphanage = EraseTx(AddChildrenToWorkSet(@, x, rng), x)]

\* A parent was refused for good, or two were for their fee.
RejectedParents(d, pool, x) ==
  LET lowfee == {y \in Parents(x) : Txid(y) \in d.reconsiderable /\ y \notin pool}
  IN  \/ \E y \in Parents(x) : Txid(y) \in d.rejects
      \/ Cardinality(lowfee) > 1

\* x and its resolution candidates go to the orphanage: the sender first, then
\* those that announced x.
\* Faulty form: requests for the new orphan are kept.
KeepOrphan_StillRequested(d, pool, x, p) ==
  LET parents == MissingParents(d, pool, x)
      others == SetToSeq(GetCandidatePeers(d.requests, Txid(x)))
                  \o (IF x \in Segwit THEN SetToSeq(GetCandidatePeers(d.requests, Wtxid(x))) ELSE <<>>)
      Add(e, r) == IF ~MayResolve(e, parents, x, r) THEN e
                   ELSE [AnnounceParents(e, parents, r) EXCEPT !.orphanage = AddOrphan(@, x, r)]
  IN  FoldLeft(Add, d, <<p>> \o others)
KeepOrphan(d, pool, x, p) ==
  LET parents == MissingParents(d, pool, x)
      others == SetToSeq(GetCandidatePeers(d.requests, Txid(x)))
                  \o (IF x \in Segwit THEN SetToSeq(GetCandidatePeers(d.requests, Wtxid(x))) ELSE <<>>)
      Add(e, r) == IF ~MayResolve(e, parents, x, r) THEN e
                   ELSE [AnnounceParents(e, parents, r) EXCEPT !.orphanage = AddOrphan(@, x, r)]
  IN  ForgetBoth(FoldLeft(Add, d, <<p>> \o others), x)

MempoolRejectedTx(d, pool, x, result, p, firstTime) ==
  LET missing ==
        IF ~firstTime \/ Wtxid(x) \in d.rejects THEN d
        ELSE IF RejectedParents(d, pool, x)
        THEN ForgetBoth([d EXCEPT !.rejects = @ \cup {Txid(x), Wtxid(x)}], x)
        ELSE KeepOrphan(d, pool, x, p)
      noted == CASE result = "RECONSIDERABLE" -> [d EXCEPT !.reconsiderable = @ \cup {Wtxid(x)}]
                 [] result = "INPUTS_NOT_STANDARD" -> [d EXCEPT !.rejects = @ \cup {Txid(x), Wtxid(x)}]
                 [] OTHER -> [d EXCEPT !.rejects = @ \cup {Wtxid(x)}]
      forgotten == IF result = "INPUTS_NOT_STANDARD" THEN ForgetBoth(noted, x)
                   ELSE [noted EXCEPT !.requests = ForgetTxHash(@, Wtxid(x))]
  IN  IF result = "MISSING_INPUTS" THEN missing
      ELSE [forgotten EXCEPT !.orphanage = EraseTx(@, x)]

-----------------------------------------------------------------------------
(* The callers in net_processing.cpp.  s is [man, pool]; rng[c] is the       *)
(* announcer the random generator assigns to the orphan c.                   *)
ProcessResult(s, x, result, p, rng) ==
  CASE result = "VALID" -> [s EXCEPT !.man = MempoolAcceptedTx(@, x, rng)]
    [] result = "MEMPOOL_ENTRY" -> s
    [] OTHER -> [s EXCEPT !.man = MempoolRejectedTx(@, s.pool, x, result, p, FALSE)]

\* A package that Find1P1CPackage found was submitted, with these results:
\* the child's is processed before the parent's (ProcessPackageResult).
ProcessPackageResult(s, x, c, results, p, rng) ==
  LET valid == {y \in {x, c} : results[IF y = x THEN 1 ELSE 2] = "VALID"}
      accepted == ToSet(results) \subseteq {"VALID", "MEMPOOL_ENTRY"}
      noted == [man |-> [s.man EXCEPT !.reconsiderable = IF accepted THEN @ ELSE @ \cup {<<x, c>>}],
                pool |-> s.pool \cup valid]
  IN  ProcessResult(ProcessResult(noted, c, results[2], p, rng), x, results[1], p, rng)
TryPackage(s, packages, x, p, rng, cached) ==
  IF packages = <<>> THEN s
  ELSE ProcessPackageResult(s, x, Head(packages), AcceptPackage(x, Head(packages), s.pool, cached), p, rng)

\* The TX message: once the response is noted (ReceivedTx), validation of the
\* transaction alone or in a package.
ValidateTx(s, p, x, result, rng, cached) ==
  IF AlreadyHaveTx(s.man, s.pool, Wtxid(x), FALSE) THEN s
  ELSE IF Wtxid(x) \notin s.man.reconsiderable /\ result = "VALID"
  THEN [man |-> MempoolAcceptedTx(s.man, x, rng), pool |-> s.pool \cup {x}]
  ELSE TryPackage([s EXCEPT !.man = IF Wtxid(x) \in @.reconsiderable THEN @
                                    ELSE MempoolRejectedTx(@, s.pool, x, result, p, TRUE)],
                  IF Wtxid(x) \in s.man.reconsiderable \/ result = "RECONSIDERABLE"
                  THEN Find1P1CPackage(s.man, x, p) ELSE <<>>,
                  x, p, rng, cached)
ReceivedTx(s, p, x, rng, cached) ==
  ValidateTx([s EXCEPT !.man.requests = ReceivedResponse(ReceivedResponse(@, p, Txid(x)), p, Wtxid(x))],
             p, x, MempoolAccept(x, s.pool, cached), rng, cached)

\* The orphans of p up to the first that no longer misses inputs are taken
\* off its work set; that one is processed (ProcessOrphanTx).
NextOrphan(o, p) == o.anns[ToReconsider(o, p)].tx
SkipOrphans(s, p, cached) ==
  LET Skip(o, i) == IF /\ HaveTxToReconsider(o, p)
                       /\ MempoolAccept(NextOrphan(o, p), s.pool, cached) = "MISSING_INPUTS"
                    THEN GetTxToReconsider(o, p) ELSE o
  IN  [s EXCEPT !.man.orphanage = FoldLeft(Skip, @, @.anns)]
ReconsiderOrphan(s, p, x, result, rng) ==
  ProcessResult([man |-> [s.man EXCEPT !.orphanage = GetTxToReconsider(@, p)],
                 pool |-> IF result = "VALID" THEN s.pool \cup {x} ELSE s.pool],
                x, result, p, rng)
ReconsiderFirst(s, p, rng, cached) ==
  IF ~HaveTxToReconsider(s.man.orphanage, p) THEN s
  ELSE ReconsiderOrphan(s, p, NextOrphan(s.man.orphanage, p),
                        MempoolAccept(NextOrphan(s.man.orphanage, p), s.pool, cached), rng)
ReconsiderOrphans(s, p, rng, cached) == ReconsiderFirst(SkipOrphans(s, p, cached), p, rng, cached)

\* GetRequestsToSend: of what may be requested, that which is not already
\* there is, and the rest is forgotten.
Wanted(d, pool, p) == {h \in Requestable(d.requests, p) : ~AlreadyHaveTx(d, pool, h, FALSE)}
SendRequests(d, p, wanted) ==
  LET Send(h, t) == IF h \in wanted THEN RequestedTx(t, p, h, GetDataInterval) ELSE ForgetTxHash(t, h)
  IN  [d EXCEPT !.requests = FoldSet(Send, @, Requestable(@, p))]
RequestsOf(d, pool, p) ==
  [man |-> SendRequests(d, p, Wanted(d, pool, p)), getdata |-> Wanted(d, pool, p)]
GetRequestsToSend(d, pool, p) == RequestsOf([d EXCEPT !.requests = SetTimePoint(@)], pool, p)

BlockConnected(d, block) ==
  LET Forget(x, e) == ForgetBoth(e, x)
  IN  FoldSet(Forget, [d EXCEPT !.orphanage = EraseForBlock(@, block),
                                !.confirmed = @ \cup {Txid(x) : x \in block} \cup {Wtxid(x) : x \in block}],
              block)
BlockDisconnected(d) == [d EXCEPT !.confirmed = {}]
ActiveTipChange(d) == [d EXCEPT !.rejects = {}, !.reconsiderable = {}]

-----------------------------------------------------------------------------
(* Actions.                                                                  *)

\* A scenario has the salt of the tracker, the limits, what each peer
\* announces and stores, the blocks to come, whether the last of them is
\* replaced, who may leave, and how often the clock may be set back.
Init ==
  /\ scenario \in Scenarios
  /\ man = [requests |-> EmptyTracker(scenario.salt),
            orphanage |-> EmptyOrphanage(scenario.maxLatency, scenario.reserved),
            rejects |-> {}, reconsiderable |-> {}, confirmed |-> {}]
  /\ m_peer_info = Peers \ scenario.late
  /\ m_num_wtxid_peers = Cardinality(m_peer_info \cap WtxidRelay)
  /\ mempool = {} /\ chain = <<>> /\ callbacks = <<>>
  /\ announcing = scenario.announces
  /\ wire = [p \in Peers |-> {}]
  /\ clock = scenario.clock

\* VERACK.
ConnectedPeer(p) ==
  /\ p \notin m_peer_info /\ announcing[p] # {}
  /\ m_peer_info' = m_peer_info \cup {p}
  /\ m_num_wtxid_peers' = m_num_wtxid_peers + One(p \in WtxidRelay)
  /\ UNCHANGED <<scenario, man, mempool, chainVars, announcing, wire, clock>>

\* FinalizeNode.
Disconnect(p) ==
  /\ p \in m_peer_info \cap scenario.leaving
  /\ man' = [man EXCEPT !.orphanage = EraseForPeer(@, p), !.requests = DisconnectedPeer(@, p)]
  /\ m_peer_info' = m_peer_info \ {p}
  /\ m_num_wtxid_peers' = m_num_wtxid_peers - One(p \in WtxidRelay)
  /\ announcing' = [announcing EXCEPT ![p] = {}]
  /\ wire' = [wire EXCEPT ![p] = {}]
  /\ UNCHANGED <<scenario, mempool, chainVars, clock>>

\* The handler takes p's next message once p has no orphans to reconsider.
Messages(p) == p \in m_peer_info /\ ~HaveTxToReconsider(man.orphanage, p)

Inv(p) ==
  /\ Messages(p)
  /\ \E x \in announcing[p] :
       /\ man' = AddTxAnnouncement(man, mempool, p, IF p \in WtxidRelay THEN Wtxid(x) ELSE Txid(x))
       /\ announcing' = [announcing EXCEPT ![p] = @ \ {x}]
  /\ UNCHANGED <<scenario, peerVars, mempool, chainVars, wire, clock>>

\* The random generator assigns an announcer to every orphan.  Whether the
\* outputs of a confirmed transaction are cached matters only for that one.
Assignments ==
  LET orphans == {a.tx : a \in ToSet(man.orphanage.anns)}
  IN  {rng \in [orphans -> Peers] : \A c \in orphans : rng[c] \in Announcers(man.orphanage, c)}
Cached == IF chain = <<>> THEN {TRUE} ELSE BOOLEAN

Tx(p) ==
  /\ Messages(p)
  /\ \E h \in wire[p], rng \in Assignments, cached \in Cached :
       LET s == ReceivedTx([man |-> man, pool |-> mempool], p, h[1], rng, cached)
       IN  /\ h[1] \in scenario.stores[p]
           /\ man' = s.man /\ mempool' = s.pool
           /\ wire' = [wire EXCEPT ![p] = @ \ {h}]
  /\ UNCHANGED <<scenario, peerVars, chainVars, announcing, clock>>

NotFound(p) ==
  /\ Messages(p)
  /\ \E h \in wire[p] :
       /\ p \in Reliable => h[1] \notin scenario.stores[p]
       /\ man' = [man EXCEPT !.requests = ReceivedResponse(@, p, h)]
       /\ wire' = [wire EXCEPT ![p] = @ \ {h}]
  /\ UNCHANGED <<scenario, peerVars, mempool, chainVars, announcing, clock>>

ProcessOrphanTx(p) ==
  /\ p \in m_peer_info /\ HaveTxToReconsider(man.orphanage, p)
  /\ \E rng \in Assignments, cached \in Cached :
       LET s == ReconsiderOrphans([man |-> man, pool |-> mempool], p, rng, cached)
       IN  man' = s.man /\ mempool' = s.pool
  /\ UNCHANGED <<scenario, peerVars, chainVars, announcing, wire, clock>>

\* An orphan of p is processed, or else the next message of p.
ProcessMessages(p) == ProcessOrphanTx(p) \/ Inv(p) \/ Tx(p) \/ NotFound(p)

\* The getdata of SendMessages.
SendMessages(p) ==
  /\ p \in m_peer_info
  /\ LET sent == GetRequestsToSend(man, mempool, p)
     IN  /\ man' = sent.man
         /\ wire' = [wire EXCEPT ![p] = @ \cup sent.getdata]
  /\ UNCHANGED <<scenario, peerVars, mempool, chainVars, announcing, clock>>

-----------------------------------------------------------------------------
(* The chain and the clock.                                                  *)

\* What stays of a pool over these blocks: the transactions with all their
\* inputs, and no transaction of a block.
Survivors(pool, blocks) ==
  UNION {kept \in SUBSET (pool \ Confirmed(blocks)) :
           \A x \in kept : \A out \in Inputs[x] : Available(out, kept, blocks)}

\* ConnectTip under cs_main: the mempool follows at once and the reject
\* filters are reset (ActiveTipChange); BlockConnected comes later.
ConnectBlock ==
  /\ Len(chain) < Len(scenario.blocks)
  /\ LET block == scenario.blocks[Len(chain) + 1]
     IN  /\ chain' = Append(chain, block)
         /\ callbacks' = Append(callbacks, [event |-> "connected", block |-> block])
         /\ mempool' = Survivors(mempool, Append(chain, block))
  /\ man' = ActiveTipChange(man)
  /\ UNCHANGED <<scenario, peerVars, announcing, wire, clock>>

\* A reorganization: the last block makes way for another one, and what it
\* had confirmed returns to the mempool whatever its fee
\* (ReorgCompleted).
Reorganize ==
  /\ chain # <<>> /\ Len(chain) = Len(scenario.blocks)
  /\ scenario.instead # {} /\ Last(chain) # scenario.instead
  /\ LET blocks == Append(Front(chain), scenario.instead)
         returned == {x \in Last(chain) : Verdict[x] \in {"good", "lowfee"}}
     IN  /\ chain' = blocks
         /\ callbacks' = callbacks \o <<[event |-> "disconnected", block |-> Last(chain)],
                                        [event |-> "connected", block |-> scenario.instead]>>
         /\ mempool' = Survivors(mempool \cup returned, blocks)
  /\ man' = ActiveTipChange(man)
  /\ UNCHANGED <<scenario, peerVars, announcing, wire, clock>>

\* The next callback of the validation signals.
ProcessQueue ==
  /\ callbacks # <<>>
  /\ man' = IF Head(callbacks).event = "connected"
            THEN BlockConnected(man, Head(callbacks).block) ELSE BlockDisconnected(man)
  /\ callbacks' = Tail(callbacks)
  /\ UNCHANGED <<scenario, peerVars, mempool, chain, announcing, wire, clock>>

\* Time goes by, or the clock is set back.  Nothing tells apart times further
\* in the past than the clock can be set back.
Tick ==
  /\ man' = [man EXCEPT !.requests = TimePasses(@, 1, -scenario.clock)]
  /\ UNCHANGED <<scenario, peerVars, mempool, chainVars, announcing, wire, clock>>
ClockBack ==
  /\ clock > 0
  /\ clock' = clock - 1
  /\ man' = [man EXCEPT !.requests = TimePasses(@, -1, -scenario.clock)]
  /\ UNCHANGED <<scenario, peerVars, mempool, chainVars, announcing, wire>>

Next ==
  \/ \E p \in Peers : ConnectedPeer(p) \/ Disconnect(p) \/ ProcessMessages(p) \/ SendMessages(p)
  \/ ConnectBlock \/ Reorganize \/ ProcessQueue
  \/ Tick \/ ClockBack

\* When <<A>>_vars is enabled, for the actions A that are fair.
SomethingToSend(p) == p \in m_peer_info /\ GetRequestsToSend(man, mempool, p).man # man
SomethingToRead(p) == p \in m_peer_info /\ announcing[p] \cup wire[p] # {}
SomethingToReconsider(p) == p \in m_peer_info /\ HaveTxToReconsider(man.orphanage, p)
TimeMatters == TimePasses(man.requests, 1, -scenario.clock) # man.requests

\* Weak fairness.  The message handler visits every peer again and again and a
\* reliable peer announces and answers; the scheduler thread runs the
\* callbacks; time passes.
Fairness ==
  /\ \A p \in Peers :
       []<>~SomethingToSend(p) \/ []<><<SendMessages(p)>>_vars
  /\ \A p \in Reliable :
       []<>~(SomethingToRead(p) \/ SomethingToReconsider(p)) \/ []<><<ProcessMessages(p)>>_vars
  /\ \A p \in Peers \ Reliable :
       []<>~SomethingToReconsider(p) \/ []<><<ProcessOrphanTx(p)>>_vars
  /\ []<>(callbacks = <<>>) \/ []<><<ProcessQueue>>_vars
  /\ []<>~TimeMatters \/ []<><<Tick>>_vars

Spec == Init /\ [][Next]_vars /\ Fairness

-----------------------------------------------------------------------------
(* Properties.                                                               *)

\* The request tracker is as SanityCheck says, holds announcements of
\* connected peers only (CheckIsEmpty), and what GetRequestable would return
\* at any moment is what the rules of txrequest.h select.
RequestsFollowTheRules ==
  LET t == man.requests
  IN  /\ TrackerSane(t)
      /\ DOMAIN t.index \subseteq m_peer_info \X Hashes
      /\ LET now == SetTimePoint(t)
         IN  /\ {k \in DOMAIN now.index : StateOf(now, k) = "CANDIDATE_BEST"} = SelectedByTheRules(t)
             /\ \A k \in DOMAIN now.index : /\ IsWaiting(now, k) => now.index[k].time > 0
                                            /\ IsSelectable(now, k) => now.index[k].time <= 0

\* The orphanage is as its SanityCheck says after every operation: caches
\* exact, limits kept; and it holds orphans of connected peers only.
OrphanageConsistent ==
  /\ OrphanageSane(man.orphanage)
  /\ DOMAIN man.orphanage.info \subseteq m_peer_info
  /\ m_num_wtxid_peers = Cardinality(m_peer_info \cap WtxidRelay)

\* Whatever way a transaction arrives, its announcements are forgotten: once
\* the callbacks have caught up with the chain, no hash that AlreadyHaveTx
\* knows can be requested (the belt-and-suspenders branch of
\* GetRequestsToSend is never needed).
ForgottenOnceHad ==
  callbacks = <<>> =>
    \A k \in DOMAIN man.requests.index : ~AlreadyHaveTx(man, mempool, k[2], FALSE)

\* A transaction that a reliable peer announces and that can be accepted, by
\* itself or with its child, reaches the mempool or the chain, whatever the
\* unreliable peers do with their part of the requests.
Delivered ==
  <>(scenario.expected \subseteq mempool \cup Confirmed(chain))
=============================================================================
