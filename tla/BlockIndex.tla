----------------------------- MODULE BlockIndex -----------------------------
(***************************************************************************)
(* The block index: the tree of known headers with the flags of each entry, *)
(* setBlockIndexCandidates, m_blocks_unlinked and m_best_header             *)
(* (chainstate.cpp, kernel/blockstorage.cpp, validation/block_validation.cpp*)
(* and the rules of validation/core_block_index_invariants.cpp).            *)
(*                                                                         *)
(* Blocks are 0 (genesis) to NumBlocks.  The tree of blocks that may arrive,*)
(* their proofs of work and which of them break a rule are constants.       *)
(* m_best_invalid, which only feeds a warning, is left out.                 *)
(***************************************************************************)
EXTENDS Integers, FiniteSets, Sequences, FiniteSetsExt, SequencesExt

CONSTANTS
  NumBlocks,     \* blocks beside genesis
  Parent,        \* pprev of each block
  Proof,         \* GetBlockProof of each block
  BodyBad,       \* blocks that fail ContextualCheckBlock
  ConnectBad,    \* blocks that fail when they are connected
  MinBlocksToKeep,
  MaxUnlinked    \* bound: how often a pair is counted in m_blocks_unlinked; more count the same

Genesis == 0
Blocks == 1..NumBlocks
Tree == 0..NumBlocks
NoBlock == -1   \* nullptr

ASSUME TreeAssumption ==
  /\ NumBlocks \in Nat /\ MinBlocksToKeep \in Nat /\ MaxUnlinked \in Nat \ {0}
  /\ Parent \in [Blocks -> Tree] /\ \A b \in Blocks : Parent[b] < b
  /\ Proof \in [Tree -> Nat \ {0}]
  /\ BodyBad \subseteq Blocks /\ ConnectBad \subseteq Blocks

\* What a stopped node can have on disk: complete chains, an active one that was connected.
Loadable(loaded, t) ==
  /\ Genesis \in loaded /\ loaded \subseteq Tree \ BodyBad
  /\ \A b \in loaded \ {Genesis} : Parent[b] \in loaded
  /\ t \in loaded

VARIABLES
  known,         \* entries of m_block_index
  data,          \* BLOCK_HAVE_DATA
  processed,     \* nTx # 0, equivalently BLOCK_VALID_TRANSACTIONS
  linked,        \* HaveNumChainTxs()
  failed,        \* BLOCK_FAILED_VALID
  nSequenceId,
  nBlockSequenceId,
  setBlockIndexCandidates,
  m_blocks_unlinked,    \* how often each block is there as a second component; its parent is the key
  rekeyed,       \* nSequenceId of a block in setBlockIndexCandidates was changed
  m_best_header,
  tip            \* m_chain.Tip()

indexVars == <<known, data, processed, linked, failed, nSequenceId, nBlockSequenceId,
               setBlockIndexCandidates, m_blocks_unlinked, rekeyed, m_best_header, tip>>

SEQ_ID_BEST_CHAIN_FROM_DISK == 0
SEQ_ID_INIT_FROM_DISK == 1

-----------------------------------------------------------------------------
(* The tree *)

\* A block and its ancestors.
Anc ==
  LET anc[b \in Tree] == IF b = Genesis THEN {Genesis} ELSE {b} \cup anc[Parent[b]]
  IN  [b \in Tree |-> anc[b]]

Desc(b) == {d \in Tree : b \in Anc[d]}

nHeight(b) == Cardinality(Anc[b]) - 1

nChainWork ==
  LET work[b \in Tree] == Proof[b] + IF b = Genesis THEN 0 ELSE work[Parent[b]]
  IN  [b \in Tree |-> work[b]]

\* CChain::FindFork: the last block the chain of t has in common with b.
FindFork(t, b) == CHOOSE f \in Anc[t] \cap Anc[b] : \A g \in Anc[t] \cap Anc[b] : g \in Anc[f]

\* CBlockIndexWorkComparator with sequence numbers s: a sorts before b.
Worse(s, a, b) ==
  \/ nChainWork[a] < nChainWork[b]
  \/ nChainWork[a] = nChainWork[b] /\ s[a] > s[b]
  \/ nChainWork[a] = nChainWork[b] /\ s[a] = s[b] /\ a > b   \* addresses break the tie

Best(s, S) == CHOOSE b \in S : \A c \in S : ~Worse(s, b, c)

-----------------------------------------------------------------------------
(* Candidates and failures *)

\* CanBeBlockIndexCandidate for the blocks outside the failed set f.
CanBeBlockIndexCandidate(b, f) == b \in linked \cap processed /\ b \notin f

\* The set RefreshBlockIndexCandidates leaves, with failed set f and tip t: it erases what no
\* longer qualifies and adds whatever does.
RefreshBlockIndexCandidates(f, t) ==
  {b \in known : CanBeBlockIndexCandidate(b, f) /\ ~Worse(nSequenceId, b, t)}

\* RecalculateBestHeader starts from the tip and walks the index, in hash order, for more work.
RecalculateBestHeader(f, t) ==
  LET most == {b \in known \ f : \A c \in known \ f : nChainWork[c] <= nChainWork[b]}
  IN IF \A b \in most : nChainWork[b] <= nChainWork[t] THEN {t} ELSE most

\* InvalidChainFound(b), after the caller has made f of the failed flags and h of the best header.
InvalidChainFound(b, f, h) ==
  /\ failed' = f \cup ((known \cap Desc(b)) \ {b})
  /\ setBlockIndexCandidates' = RefreshBlockIndexCandidates(failed', tip)
  /\ m_best_header' \in IF b \in Anc[h] THEN RecalculateBestHeader(failed', tip) ELSE {h}

\* InvalidBlockFound: what follows a block that breaks a rule and is not merely mutated.
InvalidBlockFound(b, h) == InvalidChainFound(b, failed \cup {b}, h)

\* ResetBlockFailureFlags and the RecalculateBestHeader its callers add.
ResetBlockFailureFlags(b) ==
  LET cleared == failed \cap (Anc[b] \cup Desc(b))
  IN /\ failed' = failed \ cleared
     /\ setBlockIndexCandidates' = setBlockIndexCandidates \cup
          {c \in cleared : CanBeBlockIndexCandidate(c, failed') /\ Worse(nSequenceId, tip, c)}
     /\ m_best_header' \in RecalculateBestHeader(failed', tip)

-----------------------------------------------------------------------------
(* The most work chain *)

\* The blocks of the chain of c that FindMostWorkChain inspects: those outside the active chain.
Path(c) == Anc[c] \ Anc[tip]

Unusable(c) == {b \in Path(c) : b \in failed \/ b \notin data}

\* The highest unusable block of the path of c; it and everything above it is dropped.
FirstBad(c) == CHOOSE b \in Unusable(c) : Unusable(c) \subseteq Anc[b]
Dropped(c) == Anc[c] \ (Anc[FirstBad(c)] \ {FirstBad(c)})

MostWork(cands) ==
  LET usable == {c \in cands : Unusable(c) = {}}
  IN IF usable = {} THEN NoBlock ELSE Best(nSequenceId, usable)

\* FindMostWorkChain takes the best candidate again and again until it finds a usable one.  On
\* the way it drops the better, unusable ones, each with the candidates below it.
Rejected(best) ==
  LET better == {c \in setBlockIndexCandidates :
                   Unusable(c) # {} /\ (best = NoBlock \/ Worse(nSequenceId, best, c))}
  IN {c \in better : \A d \in better \ {c} : c \notin Dropped(d)}

CandidatesLeft(best) == setBlockIndexCandidates \ UNION {Dropped(c) : c \in Rejected(best)}

\* Blocks dropped for want of data below them wait for that data again.
UnlinkedWith(best) ==
  [x \in Tree |->
     LET again == {c \in Rejected(best) : FirstBad(c) \notin failed /\ x \in Dropped(c) \ {FirstBad(c)}}
     IN Min({MaxUnlinked, m_blocks_unlinked[x] + Cardinality(again)})]

FindMostWorkChain(best) ==
  /\ best = MostWork(setBlockIndexCandidates)
  /\ setBlockIndexCandidates' = CandidatesLeft(best)
  /\ m_blocks_unlinked' = UnlinkedWith(best)

\* PruneBlockIndexCandidates of the candidates c for tip t, with sequence numbers s.
PruneBlockIndexCandidates(s, c, t) == {b \in c : ~Worse(s, b, t)}

-----------------------------------------------------------------------------
(* Headers and block data *)

\* AcceptBlockHeader refuses a block that failed, or whose parent is unknown or failed.
HeaderAcceptable(b) ==
  IF b \in known THEN b \notin failed ELSE Parent[b] \in known \ failed

\* The best header once AddToBlockIndex has been called for b.
BestHeaderWith(b) ==
  IF b \notin known /\ nChainWork[b] > nChainWork[m_best_header] THEN b ELSE m_best_header

\* GetBlockDataAdmissionResult for a requested (forced) or an unrequested block.  The minimum
\* chain work rule, which compares with a parameter of the network, is left out.
ShouldStoreBlockData(b, force) ==
  /\ b \notin data
  /\ \/ force
     \/ /\ b \notin processed
        /\ nChainWork[b] >= nChainWork[tip]
        /\ nHeight(b) <= nHeight(tip) + MinBlocksToKeep

Unlinked == {b \in Tree : m_blocks_unlinked[b] > 0}

\* What becomes linked once b has its data: b, and unlinked blocks that hang together below it.
Linking(b) == {x \in Desc(b) : Anc[x] \ Anc[b] \subseteq Unlinked}

\* The turns of the queue of ReceivedBlockTransactions: a pair that is there twice is taken twice.
Turns(b) == 1 + MapThenSumSet(LAMBDA x : m_blocks_unlinked[x], Linking(b) \ {b})

\* A turn gives a new nSequenceId to a block that is in the candidates, from before the call or
\* since an earlier turn.
Rekeys(b) == \E x \in Linking(b) :
               \/ x \in setBlockIndexCandidates
               \/ x # b /\ m_blocks_unlinked[x] > 1 /\ nChainWork[x] > nChainWork[tip]

\* The orders of their last turns: by height.
LinkOrders(S) == {q \in SetToSeqs(S) : \A i, j \in DOMAIN q : i < j => nHeight(q[i]) <= nHeight(q[j])}

\* Faulty form: only the block itself is linked.
ReceivedBlockTransactions_NoCascade(b) ==
  /\ data' = data \cup {b}
  /\ processed' = processed \cup {b}
  /\ UNCHANGED rekeyed
  /\ IF Parent[b] \in linked
     THEN /\ linked' = linked \cup {b}
          /\ nSequenceId' = [nSequenceId EXCEPT ![b] = nBlockSequenceId]
          /\ nBlockSequenceId' = nBlockSequenceId + 1
          /\ setBlockIndexCandidates' = setBlockIndexCandidates \cup
               {x \in {b} : ~Worse(nSequenceId', x, tip)}
          /\ UNCHANGED m_blocks_unlinked
     ELSE /\ m_blocks_unlinked' = [m_blocks_unlinked EXCEPT ![b] = 1]
          /\ UNCHANGED <<linked, nSequenceId, nBlockSequenceId, setBlockIndexCandidates>>

ReceivedBlockTransactions(b) ==
  /\ data' = data \cup {b}
  /\ processed' = processed \cup {b}
  /\ IF Parent[b] \in linked
     THEN \E q \in LinkOrders(Linking(b)) :
          /\ linked' = linked \cup Linking(b)
          /\ nSequenceId' = [x \in Tree |->
               IF x \in Linking(b)
               THEN nBlockSequenceId + Turns(b) - Len(q) - 1 + CHOOSE i \in DOMAIN q : q[i] = x
               ELSE nSequenceId[x]]
          /\ nBlockSequenceId' = nBlockSequenceId + Turns(b)
          /\ setBlockIndexCandidates' = setBlockIndexCandidates \cup
               {x \in Linking(b) : ~Worse(nSequenceId', x, tip)}
          /\ m_blocks_unlinked' = [x \in Tree |->
               IF x \in Linking(b) \ {b} THEN 0 ELSE m_blocks_unlinked[x]]
          /\ rekeyed' = (rekeyed \/ Rekeys(b))
     ELSE /\ m_blocks_unlinked' = [m_blocks_unlinked EXCEPT ![b] =
               IF Parent[b] \in failed THEN @ ELSE Min({MaxUnlinked, @ + 1})]
          /\ UNCHANGED <<linked, nSequenceId, nBlockSequenceId, setBlockIndexCandidates, rekeyed>>

\* AcceptBlockHeader for a header alone.
AcceptBlockHeader(b) ==
  /\ b \notin known /\ HeaderAcceptable(b)
  /\ known' = known \cup {b}
  /\ m_best_header' = BestHeaderWith(b)
  /\ UNCHANGED <<data, processed, linked, failed, nSequenceId, nBlockSequenceId,
                 setBlockIndexCandidates, m_blocks_unlinked, rekeyed, tip>>

\* AcceptBlock: the header, then nothing to store, a block that breaks a contextual rule, or new
\* data.
AcceptBlock(b, force) ==
  /\ HeaderAcceptable(b)
  /\ known' = known \cup {b}
  /\ \/ /\ ~ShouldStoreBlockData(b, force)
        /\ m_best_header' = BestHeaderWith(b)
        /\ UNCHANGED <<data, processed, linked, failed, nSequenceId, nBlockSequenceId,
                       setBlockIndexCandidates, m_blocks_unlinked, rekeyed>>
     \/ /\ ShouldStoreBlockData(b, force) /\ b \in BodyBad
        /\ InvalidBlockFound(b, BestHeaderWith(b))
        /\ UNCHANGED <<data, processed, linked, nSequenceId, nBlockSequenceId, m_blocks_unlinked,
                       rekeyed>>
     \/ /\ ShouldStoreBlockData(b, force) /\ b \notin BodyBad
        /\ m_best_header' = BestHeaderWith(b)
        /\ ReceivedBlockTransactions(b)
        /\ UNCHANGED failed
  /\ UNCHANGED tip

\* Faulty form: a block that has just been connected or is about to be may go.
MayPrune_Any(b) == TRUE

\* GetPruneRange: low enough below the tip.
MayPrune(b) == nHeight(b) <= nHeight(tip) - MinBlocksToKeep

\* A block file is pruned; its blocks lose their data and wait for nothing.
PruneOneBlockFile(b) ==
  /\ b \in data /\ MayPrune(b)
  /\ data' = data \ {b}
  /\ m_blocks_unlinked' = [m_blocks_unlinked EXCEPT ![b] = 0]
  /\ UNCHANGED <<known, processed, linked, failed, nSequenceId, nBlockSequenceId,
                 setBlockIndexCandidates, rekeyed, m_best_header, tip>>

\* A node that has loaded its block index, its chain tip t and the candidates.
IndexInit(loaded, t) ==
  /\ known = loaded /\ data = loaded /\ processed = loaded /\ linked = loaded
  /\ failed = {} /\ m_blocks_unlinked = [b \in Tree |-> 0] /\ rekeyed = FALSE
  /\ tip = t
  /\ nSequenceId = [b \in Tree |-> IF b \in Anc[t] THEN SEQ_ID_BEST_CHAIN_FROM_DISK
                                  ELSE SEQ_ID_INIT_FROM_DISK]
  /\ nBlockSequenceId = SEQ_ID_INIT_FROM_DISK + 1
  /\ setBlockIndexCandidates = {b \in loaded : ~Worse(nSequenceId, b, t)}
  /\ m_best_header \in {b \in loaded : \A c \in loaded : nChainWork[c] <= nChainWork[b]}

-----------------------------------------------------------------------------
(* What CheckCoreBlockIndexInvariants asserts *)

NeverProcessed(b) == Anc[b] \ processed
MissingData(b) == Anc[b] \ data
FailedAncestors(b) == Anc[b] \cap failed

BestHeaderRule ==
  /\ m_best_header \notin failed
  /\ \A b \in known \ failed : nChainWork[b] <= nChainWork[m_best_header]

FailedPropagationRule == \A b \in known : b \in failed <=> FailedAncestors(b) # {}

LinkedRule == \A b \in known : /\ b \in linked <=> NeverProcessed(b) = {}
                              /\ b \notin linked => nSequenceId[b] <= SEQ_ID_INIT_FROM_DISK

CandidateRule ==
  \A b \in known :
    IF ~Worse(nSequenceId, b, tip) /\ NeverProcessed(b) = {}
    THEN FailedAncestors(b) = {} /\ (MissingData(b) = {} \/ b = tip) => b \in setBlockIndexCandidates
    ELSE b \notin setBlockIndexCandidates

UnlinkedRule ==
  \A b \in known \ {Genesis} :
    /\ b \in data /\ NeverProcessed(b) # {} /\ FailedAncestors(b) = {} => b \in Unlinked
    /\ b \in Unlinked => b \in data /\ MissingData(b) # {}
    /\ b \in data \cap linked /\ MissingData(b) # {} /\ FailedAncestors(b) = {}
         /\ ~Worse(nSequenceId, b, tip)
       => b \in Unlinked \cup setBlockIndexCandidates

IndexTypeOK ==
  /\ known \subseteq Tree /\ data \subseteq processed /\ processed \subseteq known
  /\ linked \subseteq processed /\ failed \subseteq known \ {Genesis}
  /\ nSequenceId \in [Tree -> Int] /\ nBlockSequenceId \in Nat
  /\ setBlockIndexCandidates \subseteq known /\ Unlinked \subseteq known /\ m_blocks_unlinked \in [Tree -> 0..MaxUnlinked]
  /\ m_best_header \in known /\ tip \in known
=============================================================================
