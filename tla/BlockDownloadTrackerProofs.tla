--------------------- MODULE BlockDownloadTrackerProofs ---------------------
(***************************************************************************)
(* Proofs about the block download tracker, for any finite sets of peers    *)
(* and blocks and any sequence of calls.                                    *)
(***************************************************************************)
EXTENDS BlockDownloadTracker, SequenceTheorems, FiniteSetTheorems, TLAPS

\* What an index value lists for a block, and the shape every index value has.
PeersIn(m, g) == IF g \in DOMAIN m THEN Range(m[g]) ELSE {}

IndexShape(m) ==
  /\ DOMAIN m \subseteq Blocks
  /\ m \in [DOMAIN m -> Seq(Peers)]
  /\ \A g \in DOMAIN m : m[g] # <<>> /\ IsInjective(m[g])

\* What a value of the peer map queues at a peer, and the shape every such value has.
QueueIn(m, q) == IF q \in DOMAIN m THEN m[q].blocks_in_flight ELSE <<>>

QueuesShape(m) ==
  /\ DOMAIN m \subseteq Peers
  /\ m \in [DOMAIN m -> PeerBlockDownloadState]
  /\ \A q \in DOMAIN m : IsInjective(m[q].blocks_in_flight)

\* The inductive invariant: the run's invariants, that no list has an element twice, and that the
\* size of the index is exact.
Inv ==
  /\ TypeOK
  /\ IndexMatchesQueues
  /\ NoDuplicates
  /\ CounterMatchesQueues
  /\ SizeMatchesIndex
  /\ PartialBlocksInFlight

-----------------------------------------------------------------------------
(* Lists without duplicates.                                                *)

\* A list is empty exactly when its length is zero (empty() against size()).
LEMMA EmptyIffLenZero ==
  ASSUME NEW S, NEW s \in Seq(S)
  PROVE  Len(s) \in Nat /\ (s = <<>> <=> Len(s) = 0)
<1>1. Len(s) \in Nat
  BY LenProperties
<1>2. s # <<>> => Len(s) \in Nat \ {0}
  BY EmptySeq
<1>3. Len(<<>>) = 0
  BY EmptySeq
<1> QED BY <1>1, <1>2, <1>3

\* Appending a new element keeps a list free of duplicates and adds just that element
\* (RequestBlock's insert at the end of a queue, Add's push_back).
LEMMA AppendNew ==
  ASSUME NEW S, NEW s \in Seq(S), NEW e \in S, e \notin Range(s), IsInjective(s)
  PROVE  /\ Append(s, e) \in Seq(S)
         /\ Len(Append(s, e)) = Len(s) + 1
         /\ IsInjective(Append(s, e))
         /\ Range(Append(s, e)) = Range(s) \cup {e}
<1> DEFINE t == Append(s, e)
<1>1. /\ t \in Seq(S) /\ Len(t) = Len(s) + 1
      /\ \A i \in 1..Len(s) : t[i] = s[i]
      /\ t[Len(s)+1] = e
  BY AppendProperties
<1>2. /\ Len(s) \in Nat /\ DOMAIN s = 1..Len(s) /\ DOMAIN t = 1..(Len(s)+1)
  BY <1>1, LenProperties
<1> HIDE DEF t
<1>3. IsInjective(t)
  BY <1>1, <1>2 DEF IsInjective, Range
<1>4. Range(t) = Range(s) \cup {e}
  <2>1. ASSUME NEW i \in DOMAIN t PROVE t[i] \in Range(s) \cup {e}
    BY <1>1, <1>2 DEF Range
  <2>2. ASSUME NEW i \in DOMAIN s PROVE s[i] \in Range(t)
    BY <1>1, <1>2 DEF Range
  <2>3. e \in Range(t)
    BY <1>1, <1>2 DEF Range
  <2> QED BY <2>1, <2>2, <2>3 DEF Range
<1> QED BY <1>1, <1>3, <1>4 DEF t

\* Erasing the first occurrence of an element of a list without duplicates removes
\* just that element (the queue's and the index's erase).
LEMMA RemoveFirstOnce ==
  ASSUME NEW S, NEW s \in Seq(S), NEW e \in Range(s), IsInjective(s)
  PROVE  /\ RemoveFirst(s, e) \in Seq(S)
         /\ IsInjective(RemoveFirst(s, e))
         /\ Range(RemoveFirst(s, e)) = Range(s) \ {e}
         /\ Len(RemoveFirst(s, e)) = Len(s) - 1
<1>0. Len(s) \in Nat /\ DOMAIN s = 1..Len(s) /\ \A i \in 1..Len(s) : s[i] \in S
  BY LenProperties, ElementOfSeq
<1> DEFINE n == Len(s)
           I == {i \in 1..n : s[i] = e}
<1>1. PICK k \in 1..n : s[k] = e
  BY <1>0 DEF Range
<1>2. I = {k}
  BY <1>0, <1>1 DEF IsInjective
<1>3. SelectInSeq(s, LAMBDA v : v = e) = k
  <2>1. Min(I) = k
    BY <1>2 DEF Min
  <2> QED BY <1>2, <2>1 DEF SelectInSeq
<1> HIDE DEF I
<1> DEFINE a == SubSeq(s, 1, k-1)
           b == SubSeq(s, k+1, n)
           r == a \o b
<1>4. RemoveFirst(s, e) = r
  BY <1>1, <1>3, ZenonT(40) DEF RemoveFirst, RemoveAt
<1>5. a \in Seq(S) /\ Len(a) = k-1 /\ \A i \in 1..(k-1) : a[i] = s[i]
  <2>1. \A i \in 1..(k-1) : s[i] \in S
    BY <1>0
  <2>2. /\ a \in Seq(S) /\ Len(a) = IF 1 <= k-1 THEN (k-1)-1+1 ELSE 0
        /\ \A i \in 1..((k-1)-1+1) : a[i] = s[1+i-1]
    BY <2>1, <1>0, SubSeqProperties
  <2> HIDE DEF a
  <2> QED BY <2>2, <1>0
<1>6. b \in Seq(S) /\ Len(b) = n-k /\ \A i \in 1..(n-k) : b[i] = s[k+i]
  <2>1. \A i \in (k+1)..n : s[i] \in S
    BY <1>0
  <2>2. /\ b \in Seq(S) /\ Len(b) = IF k+1 <= n THEN n-(k+1)+1 ELSE 0
        /\ \A i \in 1..(n-(k+1)+1) : b[i] = s[(k+1)+i-1]
    BY <2>1, <1>0, SubSeqProperties
  <2> HIDE DEF b, n
  <2>3. k \in Nat /\ n \in Nat /\ k <= n
    BY <1>0 DEF n
  <2>4. ASSUME NEW i \in 1..(n-k) PROVE b[i] = s[k+i]
    <3>1. i \in 1..(n-(k+1)+1) /\ (k+1)+i-1 = k+i
      BY <2>3
    <3> QED BY <3>1, <2>2
  <2> QED BY <2>2, <2>3, <2>4
<1>7. /\ r \in Seq(S) /\ Len(r) = Len(a) + Len(b)
      /\ \A i \in 1..(Len(a)+Len(b)) : r[i] = IF i <= Len(a) THEN a[i] ELSE b[i-Len(a)]
  BY <1>5, <1>6, ConcatProperties, ZenonT(40)
<1> HIDE DEF a, b, r, n
<1>8. k \in Nat /\ n \in Nat /\ k <= n /\ k >= 1
  BY <1>0 DEF n
<1>9. Len(r) = n-1 /\ DOMAIN r = 1..(n-1)
  BY <1>5, <1>6, <1>7, <1>8, LenProperties
<1>10. ASSUME NEW i \in 1..(n-1), i < k PROVE r[i] = s[i]
  BY <1>5, <1>6, <1>7, <1>8, <1>10
<1>11. ASSUME NEW i \in 1..(n-1), ~(i < k) PROVE r[i] = s[i+1]
  <2> DEFINE j == i - (k-1)
  <2>1. j \in 1..(n-k) /\ i \in 1..(Len(a)+Len(b)) /\ ~(i <= Len(a)) /\ i - Len(a) = j /\ k+j = i+1
    BY <1>5, <1>6, <1>8, <1>11
  <2>2. r[i] = b[i - Len(a)]
    BY <2>1, <1>7
  <2>3. b[j] = s[k+j]
    BY <2>1, <1>6
  <2> HIDE DEF j
  <2> QED BY <2>1, <2>2, <2>3
<1>12. \A i, j \in 1..n : s[i] = s[j] => i = j
  BY <1>0 DEF IsInjective, n
<1>13. Range(s) = {s[i] : i \in 1..n}
  BY <1>0 DEF Range, n
<1>14. IsInjective(r)
  <2> SUFFICES ASSUME NEW i \in 1..(n-1), NEW j \in 1..(n-1), r[i] = r[j] PROVE i = j
    BY <1>9 DEF IsInjective
  <2>1. i \in 1..n /\ i+1 \in 1..n /\ j \in 1..n /\ j+1 \in 1..n
    BY <1>8
  <2>2. CASE i < k /\ j < k
    BY <2>1, <2>2, <1>10, <1>12
  <2>3. CASE i < k /\ ~(j < k)
    <3>1. i = j+1
      BY <2>1, <2>3, <1>10, <1>11, <1>12
    <3> QED BY <3>1, <2>3, <1>8
  <2>4. CASE ~(i < k) /\ j < k
    <3>1. i+1 = j
      BY <2>1, <2>4, <1>10, <1>11, <1>12
    <3> QED BY <3>1, <2>4, <1>8
  <2>5. CASE ~(i < k) /\ ~(j < k)
    <3>1. i+1 = j+1
      BY <2>1, <2>5, <1>11, <1>12
    <3> QED BY <3>1, <1>8
  <2> QED BY <2>2, <2>3, <2>4, <2>5
<1>15. Range(r) = Range(s) \ {e}
  <2>1. ASSUME NEW i \in 1..(n-1) PROVE r[i] \in Range(s) \ {e}
    <3>1. i \in 1..n /\ i+1 \in 1..n /\ i+1 # i
      BY <1>8
    <3>2. CASE i < k
      <4>1. i # k /\ r[i] = s[i]
        BY <3>2, <1>8, <1>10
      <4> QED BY <4>1, <3>1, <1>1, <1>12, <1>13, ZenonT(20) DEF n
    <3>3. CASE ~(i < k)
      <4>1. i+1 # k /\ r[i] = s[i+1]
        BY <3>3, <1>8, <1>11
      <4> QED BY <4>1, <3>1, <1>1, <1>12, <1>13 DEF n
    <3> QED BY <3>2, <3>3
  <2>2. ASSUME NEW j \in 1..n, s[j] # e PROVE s[j] \in Range(r)
    <3>0. j # k
      BY <2>2, <1>1
    <3>1. CASE j < k
      <4>1. j \in 1..(n-1) /\ r[j] = s[j]
        BY <3>1, <1>8, <1>10
      <4> QED BY <4>1, <1>9 DEF Range
    <3>2. CASE j > k
      <4>1. j-1 \in 1..(n-1) /\ ~(j-1 < k) /\ (j-1)+1 = j
        BY <3>2, <1>8
      <4>2. r[j-1] = s[j]
        BY <4>1, <1>11
      <4> QED BY <4>1, <4>2, <1>9 DEF Range
    <3> QED BY <3>0, <1>8, <3>1, <3>2
  <2>3. Range(r) = {r[i] : i \in 1..(n-1)}
    BY <1>9 DEF Range
  <2> QED BY <2>1, <2>2, <2>3, <1>13
<1> QED BY <1>4, <1>7, <1>9, <1>14, <1>15 DEF n

-----------------------------------------------------------------------------
(* Single operations on the two maps.                                       *)

\* The invariant gives both maps their shape.
LEMMA ShapesOfInv == ASSUME Inv PROVE IndexShape(m_by_block) /\ QueuesShape(m_peer_download)
BY DEF Inv, TypeOK, NoDuplicates, IndexShape, QueuesShape

\* Add lists one more peer for one block.
LEMMA AddEntryShape ==
  ASSUME IndexShape(m_by_block), NEW h \in Blocks, NEW p \in Peers, ~InFlight(h, p)
  PROVE  /\ IndexShape(AddEntry(h, p))
         /\ \A g : PeersIn(AddEntry(h, p), g) = IF g = h THEN PeersOf(g) \cup {p} ELSE PeersOf(g)
<1> DEFINE m == AddEntry(h, p)
<1>1. DOMAIN m = DOMAIN m_by_block \cup {h}
  BY DEF AddEntry
<1>2. \A g \in DOMAIN m_by_block : g # h => m[g] = m_by_block[g]
  BY DEF AddEntry
<1>3. /\ m[h] \in Seq(Peers) /\ m[h] # <<>> /\ IsInjective(m[h])
      /\ Range(m[h]) = PeersOf(h) \cup {p}
  <2>1. CASE h \in DOMAIN m_by_block
    <3>1. m[h] = Append(m_by_block[h], p)
      BY <2>1 DEF AddEntry
    <3>2. m_by_block[h] \in Seq(Peers) /\ IsInjective(m_by_block[h]) /\ p \notin Range(m_by_block[h])
      BY <2>1 DEF IndexShape, InFlight, PeersOf
    <3>3. Len(m_by_block[h]) \in Nat
      BY <3>2, LenProperties
    <3>4. m[h] # <<>>
      BY <3>1, <3>2, AppendProperties
    <3> QED BY <2>1, <3>1, <3>2, <3>4, AppendNew DEF PeersOf
  <2>2. CASE h \notin DOMAIN m_by_block
    <3>1. m[h] = <<p>>
      BY <2>2 DEF AddEntry
    <3>2. IsInjective(<<p>>) /\ Range(<<p>>) = {p} /\ <<p>> \in Seq(Peers) /\ <<p>> # <<>>
      BY DEF IsInjective, Range
    <3> QED BY <2>2, <3>1, <3>2 DEF PeersOf
  <2> QED BY <2>1, <2>2
<1> HIDE DEF m
<1>4. IndexShape(m)
  <2>1. DOMAIN m \subseteq Blocks
    BY <1>1 DEF IndexShape
  <2>2. ASSUME NEW g \in DOMAIN m PROVE m[g] \in Seq(Peers) /\ m[g] # <<>> /\ IsInjective(m[g])
    BY <1>1, <1>2, <1>3 DEF IndexShape
  <2>3. m = [g \in DOMAIN m |-> m[g]]
    BY DEF m, AddEntry
  <2> QED BY <2>1, <2>2, <2>3 DEF IndexShape
<1>5. \A g : PeersIn(m, g) = IF g = h THEN PeersOf(g) \cup {p} ELSE PeersOf(g)
  BY <1>1, <1>2, <1>3, Zenon DEF PeersIn, PeersOf
<1> QED BY <1>4, <1>5 DEF m

\* Erase takes a peer off the lists of the given blocks and leaves no empty list behind.
LEMMA EraseEntriesShape ==
  ASSUME IndexShape(m_by_block), NEW H, NEW p
  PROVE  /\ IndexShape(EraseEntries(H, p))
         /\ \A g : PeersIn(EraseEntries(H, p), g) = IF g \in H THEN PeersOf(g) \ {p} ELSE PeersOf(g)
<1> DEFINE m == EraseEntries(H, p)
           E == {h \in H : InFlight(h, p)}
<1>1. /\ DOMAIN m = {h \in DOMAIN m_by_block : h \in E => Len(m_by_block[h]) > 1}
      /\ \A g \in DOMAIN m : m[g] = IF g \in E THEN RemoveFirst(m_by_block[g], p) ELSE m_by_block[g]
      /\ m = [g \in DOMAIN m |-> m[g]]
  BY DEF EraseEntries
<1>2. ASSUME NEW g \in DOMAIN m_by_block, g \in E
      PROVE  /\ RemoveFirst(m_by_block[g], p) \in Seq(Peers)
             /\ IsInjective(RemoveFirst(m_by_block[g], p))
             /\ Range(RemoveFirst(m_by_block[g], p)) = PeersOf(g) \ {p}
             /\ Len(RemoveFirst(m_by_block[g], p)) = Len(m_by_block[g]) - 1
             /\ Len(m_by_block[g]) \in Nat
  <2>1. m_by_block[g] \in Seq(Peers) /\ IsInjective(m_by_block[g]) /\ p \in Range(m_by_block[g])
    BY <1>2 DEF IndexShape, InFlight, PeersOf
  <2> QED BY <2>1, RemoveFirstOnce, LenProperties DEF PeersOf
<1> HIDE DEF m
<1>3. ASSUME NEW g \in DOMAIN m PROVE m[g] \in Seq(Peers) /\ m[g] # <<>> /\ IsInjective(m[g])
  <2>1. CASE g \in E
    <3>1. Len(m[g]) > 0
      BY <1>1, <1>2, <2>1
    <3> QED BY <1>1, <1>2, <2>1, <3>1, EmptySeq, SMTT(30)
  <2>2. CASE g \notin E
    BY <1>1, <2>2 DEF IndexShape
  <2> QED BY <2>1, <2>2
<1>4. ASSUME NEW g PROVE PeersIn(m, g) = IF g \in H THEN PeersOf(g) \ {p} ELSE PeersOf(g)
  <2>1. CASE g \notin E
    BY <1>1, <2>1, ZenonT(40) DEF PeersIn, PeersOf, InFlight
  <2>2. CASE g \in E /\ g \in DOMAIN m
    BY <1>1, <1>2, <2>2 DEF PeersIn
  <2>3. CASE g \in E /\ g \notin DOMAIN m
    <3>1. g \in DOMAIN m_by_block
      BY <2>3 DEF InFlight, PeersOf
    <3>2. ~(Len(m_by_block[g]) > 1) /\ m_by_block[g] # <<>> /\ m_by_block[g] \in Seq(Peers)
      BY <1>1, <2>3, <3>1 DEF IndexShape
    <3>3. RemoveFirst(m_by_block[g], p) = <<>>
      <4> DEFINE l == m_by_block[g]
                 r == RemoveFirst(m_by_block[g], p)
      <4>1. r \in Seq(Peers) /\ Len(r) = Len(l) - 1
        BY <3>1, <1>2, <2>3
      <4>2. Len(l) \in Nat /\ Len(l) # 0 /\ ~(Len(l) > 1)
        BY <3>2, EmptyIffLenZero
      <4> HIDE DEF l, r
      <4>3. Len(r) = 0
        BY <4>1, <4>2
      <4>4. r = <<>>
        BY <4>1, <4>3, EmptyIffLenZero
      <4> QED BY <4>4 DEF r
    <3>4. PeersOf(g) \ {p} = {}
      BY <3>1, <3>3, <1>2, <2>3, SMTT(30) DEF Range
    <3> QED BY <2>3, <3>4 DEF PeersIn
  <2> QED BY <2>1, <2>2, <2>3
<1> QED BY <1>1, <1>3, <1>4 DEF IndexShape, m

\* StateFor adds at most a peer without requests.
LEMMA StateForShape ==
  ASSUME QueuesShape(m_peer_download), NEW p \in Peers
  PROVE  /\ QueuesShape(StateFor(p))
         /\ DOMAIN StateFor(p) = DOMAIN m_peer_download \cup {p}
         /\ \A q : QueueIn(StateFor(p), q) = QueueOf(q)
<1>1. FreshPeerState \in PeerBlockDownloadState /\ IsInjective(FreshPeerState.blocks_in_flight)
  <2>1. FreshPeerState \in PeerBlockDownloadState
    BY MaxTimeAssumption, EmptySeq DEF FreshPeerState, PeerBlockDownloadState
  <2>2. IsInjective(FreshPeerState.blocks_in_flight)
    BY DEF IsInjective, FreshPeerState
  <2> QED BY <2>1, <2>2
<1>2. FreshPeerState.blocks_in_flight = <<>>
  BY DEF FreshPeerState
<1> QED BY <1>1, <1>2 DEF StateFor, QueuesShape, QueueIn, QueueOf

\* Removing a request takes one block off a queue.
LEMMA DequeuedShape ==
  ASSUME NEW s \in PeerBlockDownloadState, IsInjective(s.blocks_in_flight),
         NEW h \in Range(s.blocks_in_flight), NEW now \in Times
  PROVE  /\ Dequeued(s, h, now) \in PeerBlockDownloadState
         /\ IsInjective(Dequeued(s, h, now).blocks_in_flight)
         /\ Range(Dequeued(s, h, now).blocks_in_flight) = Range(s.blocks_in_flight) \ {h}
         /\ Dequeued(s, h, now).blocks_in_flight = <<>> <=> Len(s.blocks_in_flight) = 1
<1> DEFINE q == s.blocks_in_flight
           r == RemoveFirst(q, h)
           t == IF Head(q) = h /\ s.downloading_since < now THEN now ELSE s.downloading_since
<1>1. q \in Seq(Blocks) /\ s.downloading_since \in 0..MaxTime
  BY DEF PeerBlockDownloadState
<1>2. /\ r \in Seq(Blocks) /\ IsInjective(r) /\ Range(r) = Range(q) \ {h} /\ Len(r) = Len(q) - 1
  BY <1>1, RemoveFirstOnce
<1>3. r = <<>> <=> Len(q) = 1
  <2>1. Len(r) \in Nat /\ Len(q) \in Nat /\ (r = <<>> <=> Len(r) = 0)
    BY <1>1, <1>2, EmptyIffLenZero, ZenonT(40)
  <2> HIDE DEF r, q
  <2> QED BY <2>1, <1>2
<1>4. t \in 0..MaxTime
  BY <1>1 DEF Times
<1>5. Dequeued(s, h, now) = [stalling_since |-> 0, blocks_in_flight |-> r, downloading_since |-> t]
  BY DEF Dequeued
<1> HIDE DEF r, t
<1>6. 0 \in 0..MaxTime
  BY MaxTimeAssumption
<1> QED BY <1>2, <1>3, <1>4, <1>5, <1>6, SMTT(30) DEF PeerBlockDownloadState

-----------------------------------------------------------------------------
(* The invariant is inductive.                                              *)

\* The sets the counters count are finite.
LEMMA CountedSetsFinite ==
  /\ IsFiniteSet(DownloadingPeers) /\ Cardinality(DownloadingPeers) \in Nat
  /\ IsFiniteSet(InFlightEntries) /\ Cardinality(InFlightEntries) \in Nat
<1>1. IsFiniteSet(Blocks \X Peers)
  BY PeersAssumption, BlocksAssumption, FS_Product
<1>2. InFlightEntries \in SUBSET (Blocks \X Peers) /\ DownloadingPeers \in SUBSET Peers
  BY DEF InFlightEntries, DownloadingPeers
<1> QED BY <1>1, <1>2, PeersAssumption, FS_Subset, FS_CardinalityType, ZenonT(20)

\* A peer is in flight only for blocks of Blocks, and only peers are.
LEMMA InFlightRange ==
  ASSUME IndexShape(m_by_block), NEW g, NEW q, InFlight(g, q)
  PROVE  g \in Blocks /\ q \in Peers
<1>1. g \in DOMAIN m_by_block /\ q \in Range(m_by_block[g])
  BY DEF InFlight, PeersOf
<1>2. g \in Blocks /\ m_by_block[g] \in Seq(Peers)
  BY <1>1 DEF IndexShape
<1> QED BY <1>1, <1>2, RangeOfSeq

\* RequestBlock preserves the invariant, whether or not the peer already has the block.
LEMMA RequestBlockInv ==
  ASSUME Inv, NEW p \in Peers, NEW h \in Blocks, NEW c \in BOOLEAN, NEW now \in Times,
         RequestBlock(p, h, c, now)
  PROVE  Inv'
<1>0. IndexShape(m_by_block) /\ QueuesShape(m_peer_download)
  BY ShapesOfInv
<1>1. /\ QueuesShape(StateFor(p))
      /\ DOMAIN StateFor(p) = DOMAIN m_peer_download \cup {p}
      /\ \A q : QueueIn(StateFor(p), q) = QueueOf(q)
  BY <1>0, StateForShape
<1>2. CASE InFlight(h, p)
  <2>1. /\ m_peer_download' = StateFor(p)
        /\ UNCHANGED <<m_by_block, m_size, m_peers_downloading_from, partialBlock>>
    BY <1>2 DEF RequestBlock
  <2>2. \A q : QueueOf(q)' = QueueOf(q)
    BY <1>1, <2>1 DEF QueueIn, QueueOf
  <2>3. (\A g, q : InFlight(g, q)' <=> InFlight(g, q)) /\ (\A g, q : Queued(q, g)' <=> Queued(q, g))
    BY <2>1, <2>2 DEF InFlight, PeersOf, Queued
  <2>4. DownloadingPeers' = DownloadingPeers /\ InFlightEntries' = InFlightEntries
    BY <2>2, <2>3 DEF DownloadingPeers, InFlightEntries
  <2>5. TypeOK' /\ NoDuplicates'
    BY <1>1, <2>1 DEF Inv, TypeOK, NoDuplicates, QueuesShape
  <2> QED BY <2>1, <2>3, <2>4, <2>5, SMTT(30) DEF Inv, IndexMatchesQueues, CounterMatchesQueues,
            SizeMatchesIndex, PartialBlocksInFlight
<1>3. CASE ~InFlight(h, p)
  <2> DEFINE first == QueueOf(p) = <<>>
             sf == StateFor(p)
  <2>1. /\ m_peer_download' = [sf EXCEPT ![p].blocks_in_flight = Append(@, h),
                                         ![p].downloading_since = IF first THEN now ELSE @]
        /\ m_peers_downloading_from' = m_peers_downloading_from + (IF first THEN 1 ELSE 0)
        /\ m_by_block' = AddEntry(h, p)
        /\ m_size' = m_size + 1
        /\ partialBlock' \subseteq partialBlock \cup {<<p, h>>}
    BY <1>3, ZenonT(20) DEF RequestBlock
  <2>2. /\ IndexShape(m_by_block)'
        /\ \A g, q : InFlight(g, q)' <=> InFlight(g, q) \/ (g = h /\ q = p)
    <3>1. IndexShape(m_by_block')
      BY <1>0, <1>3, <2>1, AddEntryShape, ZenonT(20)
    <3>2. \A g : PeersOf(g)' = IF g = h THEN PeersOf(g) \cup {p} ELSE PeersOf(g)
      BY <1>0, <1>3, <2>1, AddEntryShape, ZenonT(40) DEF PeersIn, PeersOf
    <3> QED BY <3>1, <3>2 DEF InFlight, IndexShape
  <2>3. /\ sf[p] \in PeerBlockDownloadState /\ QueueOf(p) = sf[p].blocks_in_flight
        /\ QueueOf(p) \in Seq(Blocks) /\ IsInjective(QueueOf(p)) /\ h \notin Range(QueueOf(p))
    <3>1. sf[p] \in PeerBlockDownloadState /\ QueueOf(p) = sf[p].blocks_in_flight /\ IsInjective(QueueOf(p))
      BY <1>1 DEF QueuesShape, QueueIn
    <3>2. h \notin Range(QueueOf(p))
      BY <1>3 DEF Inv, IndexMatchesQueues, Queued
    <3> QED BY <3>1, <3>2 DEF PeerBlockDownloadState
  <2>4. /\ Append(QueueOf(p), h) \in Seq(Blocks) /\ IsInjective(Append(QueueOf(p), h))
        /\ Append(QueueOf(p), h) # <<>> /\ Range(Append(QueueOf(p), h)) = Range(QueueOf(p)) \cup {h}
    BY <2>3, AppendNew, AppendProperties, SMTT(30)
  <2>5. /\ DOMAIN m_peer_download' = DOMAIN sf
        /\ \A q \in DOMAIN sf : q # p => m_peer_download'[q] = sf[q]
        /\ m_peer_download'[p] = [sf[p] EXCEPT !.blocks_in_flight = Append(QueueOf(p), h),
                                               !.downloading_since = IF first THEN now ELSE @]
        /\ m_peer_download' = [q \in DOMAIN sf |-> m_peer_download'[q]]
    BY <1>1, <2>1, <2>3, Zenon
  <2>6. /\ m_peer_download'[p] \in PeerBlockDownloadState
        /\ m_peer_download'[p].blocks_in_flight = Append(QueueOf(p), h)
    <3>1. now \in 0..MaxTime
      BY DEF Times
    <3> QED BY <2>3, <2>4, <2>5, <3>1, Zenon DEF PeerBlockDownloadState
  <2>7. QueuesShape(m_peer_download)'
    BY <1>1, <2>4, <2>5, <2>6, Zenon DEF QueuesShape
  <2>8. \A q : QueueOf(q)' = IF q = p THEN Append(QueueOf(p), h) ELSE QueueOf(q)
    BY <1>1, <2>5, <2>6, Zenon DEF QueueOf, QueueIn
  <2>9. \A g, q : Queued(q, g)' <=> Queued(q, g) \/ (g = h /\ q = p)
    BY <2>4, <2>8, ZenonT(40) DEF Queued
  <2>10. IndexMatchesQueues'
    BY <2>2, <2>9 DEF Inv, IndexMatchesQueues
  <2>11. CounterMatchesQueues' /\ m_peers_downloading_from' \in Nat
    <3>1. DownloadingPeers' = DownloadingPeers \cup {p} /\ (p \in DownloadingPeers <=> ~first)
      BY <2>4, <2>8 DEF DownloadingPeers
    <3>2. Cardinality(DownloadingPeers \cup {p}) =
            IF p \in DownloadingPeers THEN Cardinality(DownloadingPeers) ELSE Cardinality(DownloadingPeers) + 1
      BY CountedSetsFinite, FS_AddElement, ZenonT(40)
    <3> HIDE DEF first, sf
    <3>3. m_peers_downloading_from = Cardinality(DownloadingPeers)
      BY DEF Inv, CounterMatchesQueues
    <3>4. m_peers_downloading_from' = Cardinality(DownloadingPeers')
      <4>1. CASE first
        BY <4>1, <2>1, <3>1, <3>2, <3>3, ZenonT(20)
      <4>2. CASE ~first
        BY <4>2, <2>1, <3>1, <3>2, <3>3, CountedSetsFinite, SMTT(30)
      <4> QED BY <4>1, <4>2
    <3>5. m_peers_downloading_from' \in Nat
      BY <2>1, <3>3, CountedSetsFinite, SMTT(30)
    <3> QED BY <3>4, <3>5 DEF CounterMatchesQueues
  <2>12. SizeMatchesIndex' /\ m_size' \in Nat
    <3>1. InFlightEntries' = InFlightEntries \cup {<<h, p>>} /\ <<h, p>> \notin InFlightEntries
      BY <1>3, <2>2 DEF InFlightEntries
    <3>2. Cardinality(InFlightEntries') = Cardinality(InFlightEntries) + 1
      BY <3>1, CountedSetsFinite, FS_AddElement, ZenonT(40)
    <3> QED BY <2>1, <3>2, CountedSetsFinite DEF Inv, SizeMatchesIndex
  <2>13. PartialBlocksInFlight' /\ partialBlock' \subseteq Peers \X Blocks
    BY <2>1, <2>2 DEF Inv, PartialBlocksInFlight, TypeOK
  <2> QED BY <2>2, <2>7, <2>10, <2>11, <2>12, <2>13, ZenonT(20) DEF Inv, TypeOK, NoDuplicates, IndexShape, QueuesShape
<1> QED BY <1>2, <1>3

\* RemoveBlockRequest preserves the invariant, for one peer or for all.
LEMMA RemoveBlockRequestInv ==
  ASSUME Inv, NEW h \in Blocks, NEW f \in Peers \cup {NoPeer}, NEW now \in Times,
         RemoveBlockRequest(h, f, now)
  PROVE  Inv'
<1> DEFINE M == {q \in PeersOf(h) : f \in {NoPeer, q}}
           D == {q \in M : Queued(q, h)}
           one == {q \in D : PeerInFlightCount(q) = 1}
<1>0. IndexShape(m_by_block) /\ QueuesShape(m_peer_download)
  BY ShapesOfInv
<1>1. /\ m_peer_download' =
           [q \in DOMAIN m_peer_download |->
              IF q \in D THEN Dequeued(m_peer_download[q], h, now) ELSE m_peer_download[q]]
      /\ m_peers_downloading_from' = m_peers_downloading_from - Cardinality(one)
      /\ m_by_block' = IF f = NoPeer THEN Restrict(m_by_block, DOMAIN m_by_block \ {h})
                                     ELSE EraseEntries({h}, f)
      /\ m_size' = m_size - Cardinality(M)
      /\ partialBlock' = partialBlock \ {<<q, h>> : q \in D}
  BY DEF RemoveBlockRequest
<1>2. M \subseteq Peers /\ M = D /\ \A q \in M : InFlight(h, q)
  <2>1. ASSUME NEW q \in M PROVE InFlight(h, q) /\ q \in Peers
    BY <1>0, InFlightRange DEF InFlight
  <2> QED BY <2>1 DEF Inv, IndexMatchesQueues
<1>3. \A q \in M : q \in DOMAIN m_peer_download /\ h \in Range(m_peer_download[q].blocks_in_flight)
  <2>1. \A q \in M : h \in Range(QueueOf(q))
    BY <1>2 DEF Queued
  <2>2. Range(<<>>) = {}
    BY DEF Range
  <2> HIDE DEF M
  <2> QED BY <2>1, <2>2 DEF QueueOf
<1>4. /\ IndexShape(m_by_block)'
      /\ \A g, q : InFlight(g, q)' <=> InFlight(g, q) /\ ~(g = h /\ q \in M)
  <2>1. CASE f = NoPeer
    <3>1. m_by_block' = [g \in DOMAIN m_by_block \ {h} |-> m_by_block[g]]
      BY <1>1, <2>1 DEF Restrict
    <3>2. M = PeersOf(h)
      BY <2>1
    <3> HIDE DEF M
    <3> QED BY <1>0, <3>1, <3>2 DEF IndexShape, InFlight, PeersOf
  <2>2. CASE f # NoPeer
    <3>1. m_by_block' = EraseEntries({h}, f)
      BY <1>1, <2>2
    <3>2. IndexShape(m_by_block')
      BY <1>0, <3>1, EraseEntriesShape, SMTT(30)
    <3>3. \A g : PeersOf(g)' = IF g = h THEN PeersOf(g) \ {f} ELSE PeersOf(g)
      <4>1. \A g : PeersIn(EraseEntries({h}, f), g) = IF g \in {h} THEN PeersOf(g) \ {f} ELSE PeersOf(g)
        BY <1>0, EraseEntriesShape, ZenonT(20)
      <4>2. \A g : PeersOf(g)' = PeersIn(EraseEntries({h}, f), g)
        BY <3>1 DEF PeersIn, PeersOf
      <4> QED BY <4>1, <4>2, ZenonT(40)
    <3>4. M = PeersOf(h) \cap {f}
      BY <2>2
    <3> HIDE DEF M
    <3> QED BY <3>2, <3>3, <3>4, ZenonT(20) DEF InFlight, IndexShape
  <2> QED BY <2>1, <2>2
<1> HIDE DEF M, D
<1>5. ASSUME NEW q \in M
      PROVE  /\ m_peer_download'[q] \in PeerBlockDownloadState
             /\ IsInjective(m_peer_download'[q].blocks_in_flight)
             /\ Range(m_peer_download'[q].blocks_in_flight) = Range(m_peer_download[q].blocks_in_flight) \ {h}
             /\ m_peer_download'[q].blocks_in_flight = <<>> <=> Len(m_peer_download[q].blocks_in_flight) = 1
  <2>1. m_peer_download'[q] = Dequeued(m_peer_download[q], h, now)
    BY <1>1, <1>2, <1>3
  <2>2. m_peer_download[q] \in PeerBlockDownloadState /\ IsInjective(m_peer_download[q].blocks_in_flight)
    BY <1>0, <1>3 DEF QueuesShape
  <2>3. /\ Dequeued(m_peer_download[q], h, now) \in PeerBlockDownloadState
        /\ IsInjective(Dequeued(m_peer_download[q], h, now).blocks_in_flight)
        /\ Range(Dequeued(m_peer_download[q], h, now).blocks_in_flight)
             = Range(m_peer_download[q].blocks_in_flight) \ {h}
        /\ Dequeued(m_peer_download[q], h, now).blocks_in_flight = <<>>
             <=> Len(m_peer_download[q].blocks_in_flight) = 1
    BY <1>3, <2>2, DequeuedShape, ZenonT(40)
  <2> QED BY <2>1, <2>3, Zenon
<1>6. /\ DOMAIN m_peer_download' = DOMAIN m_peer_download
      /\ \A q \in DOMAIN m_peer_download : q \notin M => m_peer_download'[q] = m_peer_download[q]
      /\ m_peer_download' = [q \in DOMAIN m_peer_download |-> m_peer_download'[q]]
  BY <1>1, <1>2
<1>7. QueuesShape(m_peer_download)'
  BY <1>0, <1>5, <1>6 DEF QueuesShape
<1>8. \A g, q : Queued(q, g)' <=> Queued(q, g) /\ ~(g = h /\ q \in M)
  <2> SUFFICES ASSUME NEW q PROVE Range(QueueOf(q)') = IF q \in M THEN Range(QueueOf(q)) \ {h} ELSE Range(QueueOf(q))
    BY DEF Queued
  <2>1. CASE q \in M
    BY <2>1, <1>3, <1>5, <1>6 DEF QueueOf
  <2>2. CASE q \notin M
    BY <2>2, <1>6 DEF QueueOf
  <2> QED BY <2>1, <2>2
<1>9. IndexMatchesQueues'
  BY <1>4, <1>8 DEF Inv, IndexMatchesQueues
<1>10. SizeMatchesIndex' /\ m_size' \in Nat
  <2>1. InFlightEntries' = InFlightEntries \ ({h} \X M) /\ InFlightEntries \cap ({h} \X M) = {h} \X M
    BY <1>2, <1>4 DEF InFlightEntries
  <2>2. IsFiniteSet(M) /\ Cardinality(M) \in Nat
    BY <1>2, PeersAssumption, FS_Subset, FS_CardinalityType
  <2>3. Cardinality({h} \X M) = Cardinality(M)
    <3>1. Cardinality({h} \X M) = Cardinality({h}) * Cardinality(M)
      BY <2>2, FS_Singleton, FS_Product, Zenon
    <3>2. Cardinality({h}) = 1
      BY FS_Singleton
    <3> QED BY <2>2, <3>1, <3>2
  <2>4. /\ Cardinality(InFlightEntries \ ({h} \X M)) =
             Cardinality(InFlightEntries) - Cardinality(InFlightEntries \cap ({h} \X M))
        /\ IsFiniteSet(InFlightEntries \ ({h} \X M))
    BY CountedSetsFinite, FS_Difference
  <2>5. Cardinality(InFlightEntries \ ({h} \X M)) \in Nat
    BY <2>4, FS_CardinalityType
  <2>6. m_size' = Cardinality(InFlightEntries')
    BY <1>1, <2>1, <2>3, <2>4, ZenonT(20) DEF Inv, SizeMatchesIndex
  <2> QED BY <2>1, <2>5, <2>6 DEF SizeMatchesIndex
<1>11. CounterMatchesQueues' /\ m_peers_downloading_from' \in Nat
  <2>1. one = {q \in M : Len(m_peer_download[q].blocks_in_flight) = 1}
    BY <1>2, <1>3 DEF PeerInFlightCount, QueueOf
  <2> HIDE DEF one
  <2>2. \A q \in M : QueueOf(q) # <<>> /\ (QueueOf(q)' = <<>> <=> q \in one)
    <3>1. Range(<<>>) = {}
      BY DEF Range
    <3> QED BY <2>1, <1>3, <1>5, <1>6, <3>1, ZenonT(20) DEF QueueOf
  <2>3. \A q : q \notin M => QueueOf(q)' = QueueOf(q)
    BY <1>6 DEF QueueOf
  <2>4. DownloadingPeers' = DownloadingPeers \ one /\ DownloadingPeers \cap one = one
    BY <1>2, <2>1, <2>2, <2>3, SMTT(30) DEF DownloadingPeers
  <2>5. /\ Cardinality(DownloadingPeers \ one) = Cardinality(DownloadingPeers) - Cardinality(one)
        /\ Cardinality(DownloadingPeers \ one) \in Nat
    BY <2>4, CountedSetsFinite, FS_Difference, FS_CardinalityType, ZenonT(40)
  <2> QED BY <1>1, <2>4, <2>5 DEF Inv, CounterMatchesQueues
<1>12. PartialBlocksInFlight' /\ partialBlock' \subseteq Peers \X Blocks
  <2>1. ASSUME NEW e \in partialBlock' PROVE e \in partialBlock /\ ~(e[2] = h /\ e[1] \in M)
    <3>1. e \in partialBlock /\ e = <<e[1], e[2]>>
      BY <1>1 DEF Inv, TypeOK
    <3> QED BY <1>1, <1>2, <3>1
  <2> QED BY <2>1, <1>4 DEF Inv, PartialBlocksInFlight, TypeOK
<1> QED BY <1>4, <1>7, <1>9, <1>10, <1>11, <1>12, ZenonT(20) DEF Inv, TypeOK, NoDuplicates, IndexShape, QueuesShape

\* ForgetPeer preserves the invariant: every entry of the peer leaves both maps.
LEMMA ForgetPeerInv ==
  ASSUME Inv, NEW p \in Peers, ForgetPeer(p)
  PROVE  Inv'
<1> DEFINE H == Range(QueueOf(p))
<1>0. IndexShape(m_by_block) /\ QueuesShape(m_peer_download)
  BY ShapesOfInv
<1>1. /\ m_peer_download' = [q \in DOMAIN m_peer_download \ {p} |-> m_peer_download[q]]
      /\ m_peers_downloading_from' = m_peers_downloading_from - (IF H = {} THEN 0 ELSE 1)
      /\ m_by_block' = EraseEntries(H, p)
      /\ m_size' = m_size - Cardinality({h \in H : InFlight(h, p)})
      /\ partialBlock' = {e \in partialBlock : e[1] # p}
  BY DEF ForgetPeer, Restrict
<1>2. QueueOf(p) \in Seq(Blocks) /\ H \subseteq Blocks /\ (H = {} <=> QueueOf(p) = <<>>)
  <2>1. QueueOf(p) \in Seq(Blocks)
    BY <1>0, EmptySeq DEF QueueOf, QueuesShape, PeerBlockDownloadState
  <2>2. H = {} <=> QueueOf(p) = <<>>
    <3>1. Range(<<>>) = {}
      BY DEF Range
    <3>2. ASSUME QueueOf(p) # <<>> PROVE H # {}
      <4>1. Len(QueueOf(p)) \in Nat /\ Len(QueueOf(p)) # 0 /\ DOMAIN QueueOf(p) = 1..Len(QueueOf(p))
        BY <2>1, <3>2, EmptyIffLenZero, LenProperties
      <4>2. 1 \in DOMAIN QueueOf(p)
        BY <4>1
      <4> QED BY <4>2 DEF Range
    <3> QED BY <3>1, <3>2
  <2> QED BY <2>1, <2>2, RangeOfSeq
<1>3. \A h : h \in H <=> InFlight(h, p)
  <2>1. \A h \in Blocks : h \in H <=> InFlight(h, p)
    BY DEF Inv, IndexMatchesQueues, Queued
  <2> QED BY <2>1, <1>0, <1>2, InFlightRange
<1> HIDE DEF H
<1>4. /\ IndexShape(m_by_block)'
      /\ \A g, q : InFlight(g, q)' <=> InFlight(g, q) /\ q # p
  <2>1. IndexShape(m_by_block')
    BY <1>0, <1>1, EraseEntriesShape, SMTT(30)
  <2>2. \A g : PeersIn(EraseEntries(H, p), g) = IF g \in H THEN PeersOf(g) \ {p} ELSE PeersOf(g)
    BY <1>0, EraseEntriesShape, SMTT(30)
  <2>3. \A g : PeersOf(g)' = PeersIn(EraseEntries(H, p), g)
    BY <1>1 DEF PeersIn, PeersOf
  <2>4. \A g : PeersOf(g)' = PeersOf(g) \ {p}
    BY <1>3, <2>2, <2>3 DEF InFlight
  <2> QED BY <2>1, <2>4 DEF InFlight, IndexShape
<1>5. QueuesShape(m_peer_download)'
  BY <1>0, <1>1 DEF QueuesShape
<1>6. \A q : QueueOf(q)' = IF q = p THEN <<>> ELSE QueueOf(q)
  BY <1>1 DEF QueueOf
<1>7. \A g, q : Queued(q, g)' <=> Queued(q, g) /\ q # p
  <2>1. Range(<<>>) = {}
    BY DEF Range
  <2> QED BY <1>6, <2>1 DEF Queued
<1>8. IndexMatchesQueues'
  BY <1>4, <1>7 DEF Inv, IndexMatchesQueues
<1>9. SizeMatchesIndex' /\ m_size' \in Nat
  <2>1. {h \in H : InFlight(h, p)} = H
    BY <1>3
  <2>2. InFlightEntries' = InFlightEntries \ (H \X {p}) /\ InFlightEntries \cap (H \X {p}) = H \X {p}
    BY <1>2, <1>3, <1>4 DEF InFlightEntries
  <2>3. Cardinality(H \X {p}) = Cardinality(H)
    <3>1. IsFiniteSet(H) /\ Cardinality(H) \in Nat
      BY <1>2, BlocksAssumption, FS_Subset, FS_CardinalityType, SMTT(30)
    <3>2. Cardinality({p}) = 1 /\ IsFiniteSet({p})
      BY FS_Singleton
    <3>3. Cardinality(H \X {p}) = Cardinality(H) * Cardinality({p})
      BY <3>1, <3>2, FS_Product, ZenonT(20)
    <3> QED BY <3>1, <3>2, <3>3
  <2>4. /\ Cardinality(InFlightEntries \ (H \X {p})) =
             Cardinality(InFlightEntries) - Cardinality(InFlightEntries \cap (H \X {p}))
        /\ IsFiniteSet(InFlightEntries \ (H \X {p}))
    BY CountedSetsFinite, FS_Difference, Zenon
  <2>5. Cardinality(InFlightEntries \ (H \X {p})) \in Nat
    BY <2>4, FS_CardinalityType
  <2>6. m_size' = Cardinality(InFlightEntries')
    BY <1>1, <2>1, <2>2, <2>3, <2>4, Zenon DEF Inv, SizeMatchesIndex
  <2> QED BY <2>2, <2>5, <2>6 DEF SizeMatchesIndex
<1>10. CounterMatchesQueues' /\ m_peers_downloading_from' \in Nat
  <2>1. DownloadingPeers' = DownloadingPeers \ {p} /\ (p \in DownloadingPeers <=> H # {})
    BY <1>2, <1>6 DEF DownloadingPeers
  <2>2. /\ Cardinality(DownloadingPeers \ {p}) =
             IF p \in DownloadingPeers THEN Cardinality(DownloadingPeers) - 1 ELSE Cardinality(DownloadingPeers)
        /\ IsFiniteSet(DownloadingPeers \ {p})
    BY CountedSetsFinite, FS_RemoveElement
  <2>3. Cardinality(DownloadingPeers \ {p}) \in Nat
    BY <2>2, FS_CardinalityType
  <2>4. m_peers_downloading_from = Cardinality(DownloadingPeers)
    BY DEF Inv, CounterMatchesQueues
  <2>5. m_peers_downloading_from' = Cardinality(DownloadingPeers')
    <3>1. CASE H = {}
      BY <3>1, <1>1, <2>1, <2>2, <2>4, CountedSetsFinite, SMTT(30)
    <3>2. CASE H # {}
      BY <3>2, <1>1, <2>1, <2>2, <2>4, SMTT(30)
    <3> QED BY <3>1, <3>2, SMTT(30)
  <2> QED BY <2>1, <2>3, <2>5 DEF CounterMatchesQueues
<1>11. PartialBlocksInFlight' /\ partialBlock' \subseteq Peers \X Blocks
  BY <1>1, <1>4 DEF Inv, PartialBlocksInFlight, TypeOK
<1> QED BY <1>4, <1>5, <1>8, <1>9, <1>10, <1>11 DEF Inv, TypeOK, NoDuplicates, IndexShape, QueuesShape

\* MarkStallingIfUnset touches no queue, so it preserves the invariant.
LEMMA MarkStallingIfUnsetInv ==
  ASSUME Inv, NEW p \in Peers, NEW now \in Times, MarkStallingIfUnset(p, now)
  PROVE  Inv'
<1> DEFINE sf == StateFor(p)
<1>0. QueuesShape(m_peer_download)
  BY ShapesOfInv
<1>1. QueuesShape(sf) /\ p \in DOMAIN sf /\ \A q : QueueIn(sf, q) = QueueOf(q)
  BY <1>0, StateForShape, Zenon
<1>2. /\ m_peer_download' = [sf EXCEPT ![p].stalling_since = IF @ = 0 THEN now ELSE @]
      /\ UNCHANGED <<m_by_block, m_size, m_peers_downloading_from, partialBlock>>
  BY DEF MarkStallingIfUnset
<1> HIDE DEF sf
<1>3. /\ DOMAIN m_peer_download' = DOMAIN sf
      /\ \A q \in DOMAIN sf : /\ m_peer_download'[q] \in PeerBlockDownloadState
                              /\ m_peer_download'[q].blocks_in_flight = sf[q].blocks_in_flight
      /\ m_peer_download' = [q \in DOMAIN sf |-> m_peer_download'[q]]
  <2>1. now \in 0..MaxTime
    BY DEF Times
  <2> QED BY <1>1, <1>2, <2>1, Zenon DEF QueuesShape, PeerBlockDownloadState
<1>4. QueuesShape(m_peer_download)'
  BY <1>1, <1>3 DEF QueuesShape
<1>5. \A q : QueueOf(q)' = QueueOf(q)
  BY <1>1, <1>3 DEF QueueIn, QueueOf
<1>6. (\A g, q : InFlight(g, q)' <=> InFlight(g, q)) /\ (\A g, q : Queued(q, g)' <=> Queued(q, g))
  BY <1>2, <1>5 DEF InFlight, PeersOf, Queued
<1>7. DownloadingPeers' = DownloadingPeers /\ InFlightEntries' = InFlightEntries
  BY <1>5, <1>6 DEF DownloadingPeers, InFlightEntries
<1>8. TypeOK' /\ NoDuplicates'
  BY <1>2, <1>4 DEF Inv, TypeOK, NoDuplicates, QueuesShape
<1> QED BY <1>2, <1>6, <1>7, <1>8, SMTT(30) DEF Inv, IndexMatchesQueues, CounterMatchesQueues,
          SizeMatchesIndex, PartialBlocksInFlight

\* Filling the compact-block state of a queued block preserves the invariant.
LEMMA AttachPartialBlockInv ==
  ASSUME Inv, NEW p \in Peers, NEW h \in Blocks, AttachPartialBlock(p, h)
  PROVE  Inv'
<1>1. /\ Queued(p, h)
      /\ partialBlock' = partialBlock \cup {<<p, h>>}
      /\ UNCHANGED <<m_peer_download, m_by_block, m_size, m_peers_downloading_from>>
  BY DEF AttachPartialBlock
<1>2. /\ \A g, q : (InFlight(g, q)' <=> InFlight(g, q)) /\ (Queued(q, g)' <=> Queued(q, g))
      /\ DownloadingPeers' = DownloadingPeers /\ InFlightEntries' = InFlightEntries
  BY <1>1 DEF InFlight, PeersOf, Queued, QueueOf, DownloadingPeers, InFlightEntries
<1>3. InFlight(h, p)
  BY <1>1 DEF Inv, IndexMatchesQueues
<1>4. PartialBlocksInFlight' /\ partialBlock' \subseteq Peers \X Blocks
  BY <1>1, <1>2, <1>3, SMTT(30) DEF Inv, PartialBlocksInFlight, TypeOK
<1> QED BY <1>1, <1>2, <1>4 DEF Inv, TypeOK, NoDuplicates, IndexMatchesQueues,
          CounterMatchesQueues, SizeMatchesIndex

\* An empty tracker satisfies the invariant.
LEMMA InitInv == ASSUME Init PROVE Inv
<1>1. /\ m_peer_download = <<>> /\ m_by_block = <<>> /\ m_size = 0
      /\ m_peers_downloading_from = 0 /\ partialBlock = {}
  BY DEF Init
<1>2. DOMAIN m_peer_download = {} /\ DOMAIN m_by_block = {}
  BY <1>1
<1>3. TypeOK /\ NoDuplicates
  BY <1>1, <1>2 DEF TypeOK, NoDuplicates
<1>4. \A g, q : ~InFlight(g, q) /\ ~Queued(q, g)
  BY <1>2 DEF InFlight, PeersOf, Queued, QueueOf, Range
<1>5. DownloadingPeers = {} /\ InFlightEntries = {}
  BY <1>2, <1>4 DEF DownloadingPeers, InFlightEntries, QueueOf
<1> QED BY <1>1, <1>3, <1>4, <1>5, FS_EmptySet, SMTT(30) DEF Inv, IndexMatchesQueues, CounterMatchesQueues,
          SizeMatchesIndex, PartialBlocksInFlight

\* Every step of any caller preserves the invariant.
LEMMA StepInv == ASSUME Inv, [Next]_trackerVars PROVE Inv'
<1>1. CASE Next
  BY <1>1, RequestBlockInv, RemoveBlockRequestInv, ForgetPeerInv, MarkStallingIfUnsetInv,
     AttachPartialBlockInv, SMTT(30) DEF Next
<1>2. CASE UNCHANGED trackerVars
  BY <1>2 DEF trackerVars, Inv, TypeOK, IndexMatchesQueues, NoDuplicates, CounterMatchesQueues,
     SizeMatchesIndex, PartialBlocksInFlight, InFlight, PeersOf, Queued, QueueOf,
     DownloadingPeers, InFlightEntries
<1> QED BY <1>1, <1>2

\* Whatever the callers of RequestBlock, RemoveBlockRequest, ForgetPeer and
\* MarkStallingIfUnset do, the index, the queues, the two counters and the compact-block
\* state stay consistent with one another.
THEOREM TrackerInductive == Spec => []Inv
<1>1. Init => Inv
  BY InitInv
<1>2. Inv /\ [Next]_trackerVars => Inv'
  BY StepInv
<1> QED BY <1>1, <1>2, PTL DEF Spec

\* RequestBlock, RemoveBlockRequest, ForgetPeer and the callers' writes keep the index, the
\* queues, the counters and the partial blocks consistent, for any peers and blocks.
THEOREM TrackerAlwaysConsistent == Spec => []TrackerConsistent
<1>1. Inv => TrackerConsistent
  BY DEF Inv, TrackerConsistent
<1> QED BY <1>1, TrackerInductive, PTL

\* The class's variables keep their types under any calls.
THEOREM TrackerTyped == Spec => []TypeOK
<1>1. Inv => TypeOK
  BY DEF Inv
<1> QED BY <1>1, TrackerInductive, PTL

\* The in-flight index and the per-peer queues always describe the same relation, so the
\* "state missing" and "not queued" branches of RemoveBlockRequest are never taken.
THEOREM TrackerIndexMatchesQueues == Spec => []IndexMatchesQueues
<1>1. Inv => IndexMatchesQueues
  BY DEF Inv
<1> QED BY <1>1, TrackerInductive, PTL

\* The counter that scales the download timeout is the number of busy peers.
THEOREM TrackerCounter == Spec => []CounterMatchesQueues
<1>1. Inv => CounterMatchesQueues
  BY DEF Inv
<1> QED BY <1>1, TrackerInductive, PTL

\* The size that AllEntriesMatch and empty() rely on is the number of index entries.
THEOREM TrackerSize == Spec => []SizeMatchesIndex
<1>1. Inv => SizeMatchesIndex
  BY DEF Inv
<1> QED BY <1>1, TrackerInductive, PTL

\* The compact-block state of a request that RemoveBlockRequest or ForgetPeer took away is gone.
THEOREM TrackerPartialBlocks == Spec => []PartialBlocksInFlight
<1>1. Inv => PartialBlocksInFlight
  BY DEF Inv
<1> QED BY <1>1, TrackerInductive, PTL

\* A busy peer's downloading_since never moves back, whatever clock readings the
\* callers pass: RequestBlock sets it only for an empty queue, RemoveBlockRequest takes
\* the maximum.
THEOREM TrackerDownloadingSince == Spec => DownloadingSinceMonotonic
<1> DEFINE A == \A p \in DOMAIN m_peer_download \cap DOMAIN m_peer_download' :
                  (m_peer_download[p].blocks_in_flight # <<>> /\ m_peer_download'[p].blocks_in_flight # <<>>)
                    => m_peer_download'[p].downloading_since >= m_peer_download[p].downloading_since
<1>1. ASSUME Inv, [Next]_trackerVars PROVE [A]_trackerVars
  <2> SUFFICES ASSUME Next, NEW p \in DOMAIN m_peer_download \cap DOMAIN m_peer_download',
                      m_peer_download[p].blocks_in_flight # <<>>
               PROVE  m_peer_download'[p].downloading_since >= m_peer_download[p].downloading_since
    BY <1>1
  <2>1. m_peer_download[p].downloading_since \in Nat
    BY <1>1, MaxTimeAssumption DEF Inv, TypeOK, PeerBlockDownloadState
  <2> SUFFICES \/ m_peer_download'[p].downloading_since = m_peer_download[p].downloading_since
               \/ /\ m_peer_download'[p].downloading_since \in Nat
                  /\ m_peer_download[p].downloading_since < m_peer_download'[p].downloading_since
    BY <2>1
  <2>2. \A q : p \in DOMAIN StateFor(q) /\ StateFor(q)[p] = m_peer_download[p]
    BY DEF StateFor
  <2>3. ASSUME NEW q \in Peers, NEW h \in Blocks, NEW c \in BOOLEAN, NEW now \in Times,
               RequestBlock(q, h, c, now)
        PROVE  m_peer_download'[p].downloading_since = m_peer_download[p].downloading_since
    <3>1. CASE m_peer_download' = StateFor(q)
      BY <2>2, <3>1
    <3>2. CASE m_peer_download' = [StateFor(q) EXCEPT
                                     ![q].blocks_in_flight = Append(@, h),
                                     ![q].downloading_since = IF QueueOf(q) = <<>> THEN now ELSE @]
      <4>1. CASE p = q
        <5>1. QueueOf(q) # <<>>
          BY <4>1 DEF QueueOf
        <5>2. m_peer_download' = [StateFor(q) EXCEPT
                                     ![q] = [StateFor(q)[q] EXCEPT
                                       !.blocks_in_flight = Append(StateFor(q)[q].blocks_in_flight, h),
                                       !.downloading_since = StateFor(q)[q].downloading_since]]
          BY <3>2, <5>1, <2>2, <4>1, Zenon
        <5>3. StateFor(q)[q] = m_peer_download[p] /\ q \in DOMAIN StateFor(q)
          BY <2>2, <4>1
        <5>4. m_peer_download[p] \in PeerBlockDownloadState
          BY <1>1 DEF Inv, TypeOK
        <5>5. m_peer_download'[q] = [m_peer_download[p] EXCEPT
                                       !.blocks_in_flight = Append(m_peer_download[p].blocks_in_flight, h),
                                       !.downloading_since = m_peer_download[p].downloading_since]
          BY <5>2, <5>3
        <5> QED BY <5>4, <5>5, <4>1, Zenon DEF PeerBlockDownloadState
      <4>2. CASE p # q
        BY <2>2, <3>2, <4>2, SMTT(30)
      <4> QED BY <4>1, <4>2
    <3> QED BY <2>3, <3>1, <3>2, ZenonT(20) DEF RequestBlock
  <2>4. ASSUME NEW h \in Blocks, NEW f \in Peers \cup {NoPeer}, NEW now \in Times,
               RemoveBlockRequest(h, f, now)
        PROVE  \/ m_peer_download'[p].downloading_since = m_peer_download[p].downloading_since
               \/ /\ m_peer_download'[p].downloading_since \in Nat
                  /\ m_peer_download[p].downloading_since < m_peer_download'[p].downloading_since
    <3>1. m_peer_download'[p] \in {m_peer_download[p], Dequeued(m_peer_download[p], h, now)}
      BY <2>4 DEF RemoveBlockRequest
    <3>2. Dequeued(m_peer_download[p], h, now).downloading_since =
            IF Head(m_peer_download[p].blocks_in_flight) = h /\ m_peer_download[p].downloading_since < now
            THEN now ELSE m_peer_download[p].downloading_since
      BY DEF Dequeued
    <3>3. now \in Nat
      BY DEF Times
    <3> QED BY <3>1, <3>2, <3>3, ZenonT(20)
  <2>5. ASSUME NEW q \in Peers, ForgetPeer(q)
        PROVE  m_peer_download'[p].downloading_since = m_peer_download[p].downloading_since
    BY <2>5 DEF ForgetPeer, Restrict
  <2>6. ASSUME NEW q \in Peers, NEW now \in Times, MarkStallingIfUnset(q, now)
        PROVE  m_peer_download'[p].downloading_since = m_peer_download[p].downloading_since
    BY <2>2, <2>6 DEF MarkStallingIfUnset
  <2>7. ASSUME NEW q \in Peers, NEW h \in Blocks, AttachPartialBlock(q, h)
        PROVE  m_peer_download'[p].downloading_since = m_peer_download[p].downloading_since
    BY <2>7 DEF AttachPartialBlock
  <2> QED BY <2>3, <2>4, <2>5, <2>6, <2>7, Zenon DEF Next
<1> QED BY <1>1, TrackerInductive, PTL DEF Spec, DownloadingSinceMonotonic

=============================================================================
