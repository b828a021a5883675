----------------------------- MODULE TxOrphanage -----------------------------
(***************************************************************************)
(* TxOrphanageImpl (node/txorphanage.cpp): transactions whose parents are   *)
(* missing, with the peers that announced them.  An orphanage o is a record *)
(*   anns            m_orphans: announcements [tx, peer, reconsider] in the *)
(*                   order of m_entry_sequence                              *)
(*   outpoints       m_outpoint_to_orphan_wtxids                            *)
(*   reconsiderable  m_reconsiderable_wtxids                                *)
(*   info            m_peer_orphanage_info: peer -> [usage, count, latency] *)
(*   unique, usage, inputs   m_unique_orphans, m_unique_orphan_usage,       *)
(*                   m_unique_rounded_input_scores                          *)
(*   maxLatency, reserved    m_max_global_latency_score,                    *)
(*                   m_reserved_usage_per_peer                              *)
(* and an operation is an operator from orphanages to orphanages.  A        *)
(* transaction stands for its wtxid; peers are their NodeIds.               *)
(***************************************************************************)
EXTENDS Integers, Sequences, FiniteSets, SequencesExt

CONSTANTS
  Inputs,        \* transaction -> the outpoints <<transaction, n>> it spends
  Weight,        \* transaction -> GetTransactionWeight
  LatencyScore   \* transaction -> 1 + (vin.size() / 10)

EmptyOrphanage(maxLatency, reserved) ==
  [anns |-> <<>>, outpoints |-> <<>>, reconsiderable |-> {}, info |-> <<>>,
   unique |-> 0, usage |-> 0, inputs |-> 0, maxLatency |-> maxLatency, reserved |-> reserved]

Announcers(o, x) == {a.peer : a \in {b \in ToSet(o.anns) : b.tx = x}}
HaveTx(o, x) == Announcers(o, x) # {}
HaveTxFromPeer(o, x, p) == p \in Announcers(o, x)
ChildrenOf(o, x) == UNION {o.outpoints[out] : out \in {t \in DOMAIN o.outpoints : t[1] = x}}

\* PeerDoSInfo::Add and Subtract.
AddInfo(info, x, sign) == [usage |-> info.usage + sign * Weight[x], count |-> info.count + sign,
                           latency |-> info.latency + sign * LatencyScore[x]]
NoInfo == [usage |-> 0, count |-> 0, latency |-> 0]

-----------------------------------------------------------------------------
(* One announcement is erased, with what is cached about it.                 *)
EraseAnnouncement(o, i) ==
  LET a == o.anns[i]
      info == AddInfo(o.info[a.peer], a.tx, -1)
      last == Announcers(o, a.tx) = {a.peer}        \* IsUnique
      left(out) == o.outpoints[out] \ {a.tx}
  IN  [o EXCEPT
        !.anns = RemoveAt(@, i),
        !.info = IF info.count = 0 THEN Restrict(@, DOMAIN @ \ {a.peer})
                                   ELSE [@ EXCEPT ![a.peer] = info],
        !.unique = IF last THEN @ - 1 ELSE @,
        !.usage = IF last THEN @ - Weight[a.tx] ELSE @,
        !.inputs = IF last THEN @ - (LatencyScore[a.tx] - 1) ELSE @,
        !.outpoints = IF last THEN [out \in {t \in DOMAIN @ : left(t) # {}} |-> left(out)] ELSE @,
        !.reconsiderable = IF a.reconsider THEN @ \ {a.tx} ELSE @]

\* The announcements of these transactions (EraseTxInternal), or of a peer.
EraseEach(o, these) ==
  LET Drop(a, u) == EraseAnnouncement(u, SelectInSeq(u.anns, LAMBDA b : b = a))
  IN  FoldSet(Drop, o, these)

-----------------------------------------------------------------------------
(* The limits.  A score is a fraction <<numerator, denominator>>; of equal   *)
(* ones that with the smaller denominator is higher (ByRatioNegSize).         *)
Higher(s, t) == \/ s[1] * t[2] > t[1] * s[2]
                \/ s[1] * t[2] = t[1] * s[2] /\ s[2] < t[2]

NumPeers(o) == IF o.info = <<>> THEN 1 ELSE Cardinality(DOMAIN o.info)
MaxPeerLatencyScore(o) == o.maxLatency \div NumPeers(o)
NeedsTrim(o) == \/ o.inputs + Len(o.anns) > o.maxLatency
                \/ o.usage > o.reserved * NumPeers(o)

GetDosScore(info, maxLatency, maxUsage) ==
  LET latency == <<info.latency, maxLatency>>
      memory  == <<info.usage, maxUsage>>
  IN  IF Higher(memory, latency) THEN memory ELSE latency

\* Until the limits hold again, the worst of the peers that were above their
\* share loses its oldest announcement, those to be reconsidered last.  The
\* shares are those of the beginning.
LimitOrphans(o) ==
  LET score(u, p) == GetDosScore(u.info[p], MaxPeerLatencyScore(o), o.reserved)
      heap == {p \in DOMAIN o.info : score(o, p)[1] > score(o, p)[2]}
      Worst(u) == CHOOSE p \in heap \cap DOMAIN u.info :
                    \A r \in (heap \cap DOMAIN u.info) \ {p} :
                      Higher(score(u, p), score(u, r)) \/ (score(u, p) = score(u, r) /\ p > r)
      Oldest(u, p) ==
        LET calm == SelectInSeq(u.anns, LAMBDA a : a.peer = p /\ ~a.reconsider)
        IN  IF calm # 0 THEN calm ELSE SelectInSeq(u.anns, LAMBDA a : a.peer = p)
      trimmed[n \in 0..Len(o.anns)] ==
        IF n = 0 THEN o
        ELSE LET u == trimmed[n - 1]
             IN  IF NeedsTrim(u) THEN EraseAnnouncement(u, Oldest(u, Worst(u))) ELSE u
  IN  IF NeedsTrim(o) THEN trimmed[Len(o.anns)] ELSE o

-----------------------------------------------------------------------------
(* The operations.                                                           *)
EraseTx(o, x) == LimitOrphans(EraseEach(o, {a \in ToSet(o.anns) : a.tx = x}))

EraseForPeer(o, p) ==
  IF p \in DOMAIN o.info THEN LimitOrphans(EraseEach(o, {a \in ToSet(o.anns) : a.peer = p})) ELSE o

\* Every orphan that spends what a transaction of the block spends goes.
EraseForBlock(o, block) ==
  LET spent == UNION {Inputs[x] : x \in block}
      conflicting == UNION {o.outpoints[out] : out \in spent \cap DOMAIN o.outpoints}
  IN  IF o.anns = <<>> THEN o
      ELSE LimitOrphans(EraseEach(o, {a \in ToSet(o.anns) : a.tx \in conflicting}))

\* AddTx of a transaction no heavier than MAX_STANDARD_TX_WEIGHT: mempool
\* validation refuses the others before it looks for their inputs.
AddOrphan(o, x, p) ==
  LET new == ~HaveTx(o, x)
      linked == [out \in DOMAIN o.outpoints \cup Inputs[x] |->
                   (IF out \in DOMAIN o.outpoints THEN o.outpoints[out] ELSE {})
                     \cup (IF out \in Inputs[x] THEN {x} ELSE {})]
  IN  IF HaveTxFromPeer(o, x, p) THEN o
      ELSE LimitOrphans([o EXCEPT
             !.anns = Append(@, [tx |-> x, peer |-> p, reconsider |-> FALSE]),
             !.info = (p :> AddInfo(IF p \in DOMAIN @ THEN @[p] ELSE NoInfo, x, 1)) @@ @,
             !.unique = IF new THEN @ + 1 ELSE @,
             !.usage = IF new THEN @ + Weight[x] ELSE @,
             !.inputs = IF new THEN @ + LatencyScore[x] - 1 ELSE @,
             !.outpoints = IF new THEN linked ELSE @])

AddAnnouncer(o, x, p) == IF HaveTx(o, x) THEN AddOrphan(o, x, p) ELSE o

\* Faulty form: a child that is already assigned is assigned again.
AddChildrenToWorkSet_Again(o, x, rng) ==
  LET assigned(c) == IF rng[c] \in Announcers(o, c) THEN rng[c]
                     ELSE CHOOSE p \in Announcers(o, c) : TRUE
  IN  [o EXCEPT
        !.anns = [i \in DOMAIN @ |-> [@[i] EXCEPT !.reconsider =
                    @ \/ (o.anns[i].tx \in ChildrenOf(o, x) /\ o.anns[i].peer = assigned(o.anns[i].tx))]],
        !.reconsiderable = @ \cup ChildrenOf(o, x)]

\* One announcer of each child is assigned to reconsider it: rng[c], or
\* another one when that peer has not announced c.
AddChildrenToWorkSet(o, x, rng) ==
  LET children == ChildrenOf(o, x) \ o.reconsiderable
      assigned(c) == IF rng[c] \in Announcers(o, c) THEN rng[c]
                     ELSE CHOOSE p \in Announcers(o, c) : TRUE
  IN  [o EXCEPT
        !.anns = [i \in DOMAIN @ |-> [@[i] EXCEPT !.reconsider =
                    @ \/ (o.anns[i].tx \in children /\ o.anns[i].peer = assigned(o.anns[i].tx))]],
        !.reconsiderable = @ \cup children]

\* The place of p's next orphan to reconsider, or 0.
ToReconsider(o, p) == SelectInSeq(o.anns, LAMBDA a : a.peer = p /\ a.reconsider)
HaveTxToReconsider(o, p) == ToReconsider(o, p) # 0
GetTxToReconsider(o, p) ==
  [o EXCEPT !.anns[ToReconsider(o, p)].reconsider = FALSE,
            !.reconsiderable = @ \ {o.anns[ToReconsider(o, p)].tx}]

\* The orphans of p that spend from x: those to be reconsidered first, then
\* the others, each from the newest.
GetChildrenFromSamePeer(o, x, p) ==
  LET mine(reconsider) == SelectSeq(o.anns, LAMBDA a : /\ a.peer = p /\ a.reconsider = reconsider
                                                       /\ \E out \in Inputs[a.tx] : out[1] = x)
      newestFirst == Reverse(mine(FALSE) \o mine(TRUE))
  IN  [i \in DOMAIN newestFirst |-> newestFirst[i].tx]

-----------------------------------------------------------------------------
(* SanityCheck: all that is cached is what the announcements say, at most    *)
(* one announcement of an orphan is to be reconsidered, and the limits hold. *)
OrphanageSane(o) ==
  LET anns == ToSet(o.anns)
      txs == {a.tx : a \in anns}
      total(Value(_), p) == MapThenSumSet(LAMBDA a : Value(a.tx), {a \in anns : a.peer = p})
  IN  /\ Cardinality({<<a.tx, a.peer>> : a \in anns}) = Len(o.anns)
      /\ o.info = [p \in {a.peer : a \in anns} |->
                     [usage |-> total(LAMBDA x : Weight[x], p),
                      count |-> total(LAMBDA x : 1, p),
                      latency |-> total(LAMBDA x : LatencyScore[x], p)]]
      /\ \A a, b \in anns : a.reconsider /\ b.reconsider /\ a.tx = b.tx => a = b
      /\ o.reconsiderable = {a.tx : a \in {b \in anns : b.reconsider}}
      /\ o.outpoints = [out \in UNION {Inputs[x] : x \in txs} |-> {x \in txs : out \in Inputs[x]}]
      /\ o.unique = Cardinality(txs)
      /\ o.usage = MapThenSumSet(LAMBDA x : Weight[x], txs)
      /\ o.inputs = MapThenSumSet(LAMBDA x : LatencyScore[x] - 1, txs)
      /\ ~NeedsTrim(o)
=============================================================================
