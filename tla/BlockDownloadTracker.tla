------------------------ MODULE BlockDownloadTracker ------------------------
(***************************************************************************)
(* The block download tracker: per-peer queues of requested blocks and the *)
(* global in-flight index, kept together by node/block_download_tracker.cpp *)
(* and node/block_inflight_index.cpp.  The class is not synchronised; its   *)
(* callers hold m_block_download_mutex, so each of its operations is one    *)
(* atomic action here.                                                      *)
(***************************************************************************)
EXTENDS Integers, FiniteSets, SequencesExt

CONSTANTS
  Peers,    \* node ids
  Blocks,   \* block hashes
  NoPeer,   \* the empty optional<NodeId>
  MaxTime   \* bound on the clock readings the callers pass as "now"

ASSUME PeersAssumption == IsFiniteSet(Peers) /\ NoPeer \notin Peers
ASSUME BlocksAssumption == IsFiniteSet(Blocks)
ASSUME MaxTimeAssumption == MaxTime \in Nat \ {0}

VARIABLES
  m_peer_download,          \* std::map<NodeId, PeerBlockDownloadState>
  m_by_block,               \* BlockInFlightIndex: hash -> vector of peers
  m_size,                   \* BlockInFlightIndex: number of (hash, peer) entries
  m_peers_downloading_from, \* number of peers with a nonempty queue
  partialBlock              \* (peer, hash) entries holding compact-block state

trackerVars == <<m_peer_download, m_by_block, m_size,
                 m_peers_downloading_from, partialBlock>>

\* Clock readings.  0 is the code's "unset" value and is never passed as now;
\* GetTime() is the system clock, so consecutive readings may go backwards.
Times == 1..MaxTime

PeerBlockDownloadState ==
  [stalling_since: 0..MaxTime, blocks_in_flight: Seq(Blocks), downloading_since: 0..MaxTime]

FreshPeerState ==
  [stalling_since |-> 0, blocks_in_flight |-> <<>>, downloading_since |-> 0]

-----------------------------------------------------------------------------
(* The in-flight index.                                                     *)

\* Peers(hash): empty when the block is not in flight.
PeersOf(h) == IF h \in DOMAIN m_by_block THEN Range(m_by_block[h]) ELSE {}

\* Contains(hash, peer)
InFlight(h, p) == p \in PeersOf(h)

Count(h) == IF h \in DOMAIN m_by_block THEN Len(m_by_block[h]) ELSE 0

AllEntriesMatch(h) == m_size # 0 /\ Count(h) = m_size

\* Add(hash, peer), for a peer that is not listed yet.
AddEntry(h, p) ==
  [g \in DOMAIN m_by_block \cup {h} |->
     IF g # h THEN m_by_block[g]
     ELSE IF h \in DOMAIN m_by_block THEN Append(m_by_block[h], p) ELSE <<p>>]

\* Erase(hash, peer) for every hash in H: a hash left without peers loses its key.
EraseEntries(H, p) ==
  LET erased == {h \in H : InFlight(h, p)}
  IN  [g \in {h \in DOMAIN m_by_block : h \in erased => Len(m_by_block[h]) > 1} |->
         IF g \in erased THEN RemoveFirst(m_by_block[g], p) ELSE m_by_block[g]]

-----------------------------------------------------------------------------
(* The per-peer queues.                                                     *)

\* StateFor(peer): try_emplace.
StateFor(p) ==
  [q \in DOMAIN m_peer_download \cup {p} |->
     IF q \in DOMAIN m_peer_download THEN m_peer_download[q] ELSE FreshPeerState]

QueueOf(p) == IF p \in DOMAIN m_peer_download THEN m_peer_download[p].blocks_in_flight ELSE <<>>

PeerInFlightCount(p) == Len(QueueOf(p))

\* FindQueuedBlock(state, hash) finds an entry.
Queued(p, h) == h \in Range(QueueOf(p))

StallingSince(p) == IF p \in DOMAIN m_peer_download THEN m_peer_download[p].stalling_since ELSE 0

\* A peer's state after one of its requests is removed.
Dequeued(s, h, now) ==
  [stalling_since    |-> 0,
   blocks_in_flight  |-> RemoveFirst(s.blocks_in_flight, h),
   downloading_since |-> IF Head(s.blocks_in_flight) = h /\ s.downloading_since < now
                         THEN now ELSE s.downloading_since]

-----------------------------------------------------------------------------
(* Operations.                                                              *)

Init ==
  /\ m_peer_download = <<>>
  /\ m_by_block = <<>>
  /\ m_size = 0
  /\ m_peers_downloading_from = 0
  /\ partialBlock = {}

\* Faulty form: every request counts its peer, not only the first of a queue.
RequestBlock_AlwaysCounts(p, h, use_compact_block, now) ==
  /\ ~InFlight(h, p)
  /\ m_peer_download' = [StateFor(p) EXCEPT ![p].blocks_in_flight = Append(@, h)]
  /\ m_peers_downloading_from' = m_peers_downloading_from + 1
  /\ m_by_block' = AddEntry(h, p)
  /\ m_size' = m_size + 1
  /\ UNCHANGED partialBlock

\* The call to RemoveBlockRequest(hash, peer, now) on the second path finds no
\* entry of this peer (the first path returned otherwise) and does nothing.
RequestBlock(p, h, use_compact_block, now) ==
  \/ /\ InFlight(h, p)
     /\ m_peer_download' = StateFor(p)
     /\ UNCHANGED <<m_by_block, m_size, m_peers_downloading_from, partialBlock>>
  \/ /\ ~InFlight(h, p)
     /\ LET first == QueueOf(p) = <<>>
        IN  /\ m_peer_download' =
                 [StateFor(p) EXCEPT ![p].blocks_in_flight = Append(@, h),
                                     ![p].downloading_since = IF first THEN now ELSE @]
            /\ m_peers_downloading_from' = m_peers_downloading_from + (IF first THEN 1 ELSE 0)
     /\ m_by_block' = AddEntry(h, p)
     /\ m_size' = m_size + 1
     /\ partialBlock' = IF use_compact_block THEN partialBlock \cup {<<p, h>>} ELSE partialBlock

\* from_peer is a peer, or NoPeer to remove the block from every peer.  The
\* loop over the indexed peers touches each peer's state once, so it is one update.
RemoveBlockRequest(h, from_peer, now) ==
  LET matching == {q \in PeersOf(h) : from_peer \in {NoPeer, q}}
      dequeued == {q \in matching : Queued(q, h)}
  IN  /\ m_peer_download' =
           [q \in DOMAIN m_peer_download |->
              IF q \in dequeued THEN Dequeued(m_peer_download[q], h, now) ELSE m_peer_download[q]]
      /\ m_peers_downloading_from' =
           m_peers_downloading_from - Cardinality({q \in dequeued : PeerInFlightCount(q) = 1})
      /\ m_by_block' = IF from_peer = NoPeer THEN Restrict(m_by_block, DOMAIN m_by_block \ {h})
                                             ELSE EraseEntries({h}, from_peer)
      /\ m_size' = m_size - Cardinality(matching)
      /\ partialBlock' = partialBlock \ {<<q, h>> : q \in dequeued}

\* Forgetting a peer without state returns early.
ForgetPeer(p) ==
  LET H == Range(QueueOf(p))
  IN  /\ m_peer_download' = Restrict(m_peer_download, DOMAIN m_peer_download \ {p})
      /\ m_peers_downloading_from' = m_peers_downloading_from - (IF H = {} THEN 0 ELSE 1)
      /\ m_by_block' = EraseEntries(H, p)
      /\ m_size' = m_size - Cardinality({h \in H : InFlight(h, p)})
      /\ partialBlock' = {e \in partialBlock : e[1] # p}

MarkStallingIfUnset(p, now) ==
  /\ m_peer_download' = [StateFor(p) EXCEPT ![p].stalling_since = IF @ = 0 THEN now ELSE @]
  /\ UNCHANGED <<m_by_block, m_size, m_peers_downloading_from, partialBlock>>

\* A caller fills the partialBlock of an entry it found with QueuedBlockFor or
\* RequestBlock (the compact block handler does, for a block it had requested in full).
AttachPartialBlock(p, h) ==
  /\ Queued(p, h)
  /\ partialBlock' = partialBlock \cup {<<p, h>>}
  /\ UNCHANGED <<m_peer_download, m_by_block, m_size, m_peers_downloading_from>>

Next ==
  \/ \E p \in Peers, h \in Blocks, c \in BOOLEAN, now \in Times : RequestBlock(p, h, c, now)
  \/ \E h \in Blocks, f \in Peers \cup {NoPeer}, now \in Times : RemoveBlockRequest(h, f, now)
  \/ \E p \in Peers : ForgetPeer(p)
  \/ \E p \in Peers, now \in Times : MarkStallingIfUnset(p, now)
  \/ \E p \in Peers, h \in Blocks : AttachPartialBlock(p, h)

Spec == Init /\ [][Next]_trackerVars

-----------------------------------------------------------------------------
(* Properties.                                                              *)

\* The variables have the types the class declares; no list entry is out of range.
TypeOK ==
  /\ DOMAIN m_peer_download \subseteq Peers
  /\ m_peer_download \in [DOMAIN m_peer_download -> PeerBlockDownloadState]
  /\ DOMAIN m_by_block \subseteq Blocks
  /\ m_by_block \in [DOMAIN m_by_block -> Seq(Peers)]
  /\ m_size \in Nat
  /\ m_peers_downloading_from \in Nat
  /\ partialBlock \subseteq Peers \X Blocks

\* The index and the queues are two views of one relation: a block lists a peer
\* exactly when that peer's queue holds the block.  Without it the "state missing"
\* and "not queued" branches of RemoveBlockRequest would be live code.
IndexMatchesQueues == \A p \in Peers, h \in Blocks : InFlight(h, p) <=> Queued(p, h)

\* No peer is listed twice for a block, no block is queued twice at a peer, and no
\* index key is left without a peer: Contains, Count and Hashes agree with each other.
NoDuplicates ==
  /\ \A h \in DOMAIN m_by_block : m_by_block[h] # <<>> /\ IsInjective(m_by_block[h])
  /\ \A p \in DOMAIN m_peer_download : IsInjective(m_peer_download[p].blocks_in_flight)

\* m_peers_downloading_from, which divides the download timeout among the peers,
\* counts the peers with a nonempty queue through every request, removal and disconnect.
DownloadingPeers == {p \in Peers : QueueOf(p) # <<>>}
CounterMatchesQueues == m_peers_downloading_from = Cardinality(DownloadingPeers)

\* m_size counts the entries of the index, so that AllEntriesMatch really says that
\* no other block is in flight, and empty() at shutdown says that none is.
InFlightEntries == {e \in Blocks \X Peers : InFlight(e[1], e[2])}
SizeMatchesIndex == m_size = Cardinality(InFlightEntries)

\* Compact-block state never outlives its request: when a request is removed or its
\* peer is forgotten, the partial block goes with it.
PartialBlocksInFlight == \A e \in partialBlock : InFlight(e[2], e[1])

\* The tracker's index, queues, counters and partial blocks agree after any calls of
\* RequestBlock, RemoveBlockRequest and ForgetPeer, in any order and from any thread.
TrackerConsistent ==
  /\ TypeOK
  /\ IndexMatchesQueues /\ NoDuplicates /\ CounterMatchesQueues
  /\ SizeMatchesIndex /\ PartialBlocksInFlight

\* While a peer stays busy its downloading_since never moves back, whatever the clock
\* does: the download timeout of a queue is only ever extended by progress on it.
DownloadingSinceMonotonic ==
  [][\A p \in DOMAIN m_peer_download \cap DOMAIN m_peer_download' :
       (m_peer_download[p].blocks_in_flight # <<>> /\ m_peer_download'[p].blocks_in_flight # <<>>)
         => m_peer_download'[p].downloading_since >= m_peer_download[p].downloading_since]_trackerVars
=============================================================================
