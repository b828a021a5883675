---------------------------- MODULE CoinsDatabase ----------------------------
(***************************************************************************)
(* The coins of a chainstate between memory and disk.  Blocks are          *)
(* connected and disconnected in the cache CoinsTip (chainstate.cpp);      *)
(* FlushStateToDisk writes the block index and then the cache, in several  *)
(* batches (txdb.cpp); the process may stop between any two of them, and   *)
(* ReplayBlocks (validation/block_replay.cpp) must repair what it left.    *)
(* Everything runs under cs_main, so one action is one critical section,   *)
(* cut where the process may stop: between the writes of a flush.          *)
(***************************************************************************)
EXTENDS CoinsCache, FiniteSetsExt

CONSTANTS Blocks, Parent,  \* a tree of valid blocks, 0 is genesis
          Txs,             \* the transactions of each block, in order
          MaxCrashes,      \* bound, with and without pruning: stops without a shutdown flush
          MaxFailures,     \* bound, likewise: database writes that fail
          FailingModes,    \* the flushes in which a write may fail
          MinBlocksToKeep, \* MIN_BLOCKS_TO_KEEP
          PruneModes       \* the values of BlockManager::IsPruneMode considered

NoBlock == -1   \* uint256::ZERO as a block hash

ASSUME TreeAssumption ==
    /\ 0 \in Blocks /\ Blocks \subseteq Nat /\ IsFiniteSet(Blocks)
    /\ Parent \in [Blocks \ {0} -> Blocks]
    /\ \A b \in Blocks \ {0} : Parent[b] < b

height ==
    LET h[b \in Blocks] == IF b = 0 THEN 0 ELSE h[Parent[b]] + 1
    IN  [b \in Blocks |-> h[b]]

\* Reference: the unspent outputs after a block, each with its creation height.
CoinsAt ==
    LET Apply(b, c, tx) == [o \in Outpoints |-> IF o \in tx.out THEN height[b]
                                                ELSE IF o \in tx.in THEN Spent ELSE c[o]]
        after[b \in Blocks] ==
            IF b = 0 THEN [o \in Outpoints |-> Spent]
            ELSE FoldLeft(LAMBDA c, tx : Apply(b, c, tx), after[Parent[b]], Txs[b])
    IN  [b \in Blocks |-> after[b]]

\* The blocks after genesis on the way to b, in the order of their heights.
chain ==
    LET upTo[b \in Blocks] == IF b = 0 THEN <<>> ELSE Append(upTo[Parent[b]], b)
    IN  [b \in Blocks |-> upTo[b]]

VARIABLES
    index,     \* block index in memory: for each block "unknown", "data" (BLOCK_HAVE_DATA),
               \* "undo" (BLOCK_HAVE_UNDO too) or "pruned"
    diskIndex, \* the block tree database
    undo,      \* rev files: the coins each block spent
    db,        \* coins database: [coins, best |-> DB_BEST_BLOCK, heads |-> DB_HEAD_BLOCKS]
    cache,     \* CoinsTip(), or the cache of ReplayBlocks while that is being flushed
    tip,       \* its best block
    phase,     \* "run", "flush" / "sync" / "replay": BatchWrite of that call is under way,
               \* "halt": FatalError was raised, "down", "failed": the node refuses to load
    stopping,  \* Shutdown() has been called
    pending,   \* the outpoints the cursor of BatchWrite has still to visit
    pruneMode, \* IsPruneMode, fixed at start
    threw,     \* a logic_error was thrown or an assertion failed
    crashes, failures

indexVars == <<index, diskIndex, undo, pruneMode>>
vars == <<index, diskIndex, undo, pruneMode, db, cache, tip, phase, stopping, pending, threw, crashes, failures>>

Writing == phase \in {"flush", "sync", "replay"}
Running == phase = "run"
Dirty(c) == {o \in Outpoints : c[o].dirty}
HasData(b) == index[b] \in {"data", "undo"}

Init ==
    /\ index = [b \in Blocks |-> IF b = 0 THEN "data" ELSE "unknown"]
    /\ diskIndex = [b \in Blocks |-> "unknown"]
    /\ undo = [b \in Blocks |-> [o \in Outpoints |-> Spent]]
    /\ db = [coins |-> [o \in Outpoints |-> Spent], best |-> NoBlock, heads |-> <<>>]
    /\ cache = EmptyCache
    /\ tip = 0
    /\ phase = "run"
    /\ stopping = FALSE /\ threw = FALSE
    /\ pending = {}
    /\ pruneMode \in PruneModes
    /\ crashes = 0 /\ failures = 0

-----------------------------------------------------------------------------
(* The running node.                                                       *)

\* The block's data is written to its file and its index entry is marked.
AcceptBlock(b) ==
    /\ Running
    /\ b # 0 /\ ~HasData(b) /\ index[Parent[b]] # "unknown"
    /\ index' = [index EXCEPT ![b] = "data"]
    /\ UNCHANGED <<diskIndex, undo, pruneMode, db, cache, tip, phase, stopping, pending, threw, crashes, failures>>

\* CommitCoreBlockConnection: undo data, then CommitSpendState in a cache over the
\* block connection view, which looks through CoinsTip without filling it; both
\* are flushed down.
ConnectTip(b) ==
    LET base    == View(cache, db.coins)
        attempt == SpendBlock(base, Txs[b], height[b])
        view    == BatchWrite([o \in Outpoints |-> IF \E i \in DOMAIN Txs[b] : o \in Txs[b][i].in
                                                   THEN FetchCoin(Absent, base[o]) ELSE Absent],
                              attempt.cache)
    IN /\ Running
       /\ b # 0 /\ tip = Parent[b] /\ HasData(b)
       /\ undo' = IF index[b] = "undo" THEN undo ELSE [undo EXCEPT ![b] = attempt.undo]
       /\ index' = [index EXCEPT ![b] = "undo"]
       /\ cache' = BatchWrite(cache, view)
       /\ threw' = (threw \/ ~attempt.ok \/ Misapplied(cache, view))
       /\ tip' = b
       /\ UNCHANGED <<diskIndex, pruneMode, db, phase, stopping, pending, crashes, failures>>

\* DisconnectTip: DisconnectBlock in a cache over CoinsTip, whose misses fill CoinsTip.
DisconnectTip ==
    LET txs    == Txs[tip]
        filled == [o \in Outpoints |-> IF o \in Touched(txs) THEN FetchCoin(cache[o], db.coins[o]) ELSE cache[o]]
        view   == DisconnectBlock(EmptyCache, View(filled, db.coins), txs, height[tip], undo[tip])
    IN /\ Running
       /\ tip # 0 /\ index[tip] = "undo"
       /\ cache' = BatchWrite(filled, view.cache)
       /\ threw' = (threw \/ ~view.ok \/ Misapplied(filled, view.cache))
       /\ tip' = Parent[tip]
       /\ UNCHANGED <<indexVars, db, phase, stopping, pending, crashes, failures>>

\* Mempool validation, segment snapshots and RPC look a coin up in CoinsTip ...
AccessCoin(o) ==
    /\ Running
    /\ cache' = [cache EXCEPT ![o] = FetchCoin(@, db.coins[o])]
    /\ UNCHANGED <<indexVars, db, tip, phase, stopping, pending, threw, crashes, failures>>

\* ... and mempool validation drops the ones a rejected transaction brought in.
UncacheCoin(o) ==
    /\ Running
    /\ cache' = [cache EXCEPT ![o] = Uncache(@)]
    /\ UNCHANGED <<indexVars, db, tip, phase, stopping, pending, threw, crashes, failures>>

-----------------------------------------------------------------------------
(* FlushStateToDisk.                                                       *)

\* FindFilesToPrune, FlushChainstateBlockFile, WriteBlockIndexDB, UnlinkPrunedFiles;
\* then CoinsTip().Flush() or Sync() begins.
FlushStateToDisk_CoinsFirst(mode, pruned) ==
    /\ index' = [b \in Blocks |-> IF b \in pruned THEN "pruned" ELSE index[b]]
    /\ phase' = mode
    /\ pending' = Dirty(cache)
    /\ UNCHANGED <<diskIndex, undo, pruneMode, db, cache, tip, threw, crashes, failures>>

FlushStateToDisk(mode, pruned) ==
    /\ index' = [b \in Blocks |-> IF b \in pruned THEN "pruned" ELSE index[b]]
    /\ diskIndex' = index'
    /\ phase' = mode
    /\ pending' = Dirty(cache)
    /\ UNCHANGED <<undo, pruneMode, db, cache, tip, threw, crashes, failures>>

\* FindFilesToPrune: files up to some height, MIN_BLOCKS_TO_KEEP below the tip.
FilesToPrune ==
    IF pruneMode
    THEN {{b \in Blocks : HasData(b) /\ height[b] <= h} : h \in -1..(height[tip] - MinBlocksToKeep)}
    ELSE {{}}

\* IF_NEEDED, PERIODIC and FORCE_SYNC calls.
StartFlush(mode) ==
    /\ Running
    /\ \E pruned \in FilesToPrune : FlushStateToDisk(mode, pruned)
    /\ UNCHANGED stopping

\* Shutdown() forces a flush, also after FatalError made it run.
Shutdown ==
    /\ phase \in {"run", "halt"}
    /\ \E pruned \in FilesToPrune : FlushStateToDisk("flush", pruned)
    /\ stopping' = TRUE

\* CCoinsViewDB::BatchWrite: the coins of S go to the database.
Written(S) == [o \in Outpoints |-> IF o \in S THEN cache[o].coin ELSE db.coins[o]]

OldTip == IF db.best = NoBlock /\ db.heads # <<>> THEN db.heads[2] ELSE db.best

\* WriteBatch inside the loop: the first one marks the database as moving.
PartialBatch_KeepsBest(S) ==
    /\ Writing /\ S # {}
    /\ db' = [db EXCEPT !.coins = Written(S)]
    /\ pending' = pending \ S
    /\ UNCHANGED <<indexVars, cache, tip, phase, stopping, threw, crashes, failures>>

PartialBatch(S) ==
    /\ Writing /\ S # {}
    /\ db' = [coins |-> Written(S), best |-> NoBlock, heads |-> <<tip, OldTip>>]
    /\ pending' = pending \ S
    /\ threw' = (threw \/ (db.heads # <<>> /\ db.heads[1] # tip))
    /\ UNCHANGED <<indexVars, cache, tip, phase, stopping, crashes, failures>>

\* Sync: NextAndMaybeErase drops the entries written as spent and clears the flags of the others.
Cleaned(S) == [o \in Outpoints |-> IF o \in S /\ cache[o].coin = Spent THEN Absent
                                   ELSE IF o \in S THEN [cache[o] EXCEPT !.dirty = FALSE, !.fresh = FALSE]
                                   ELSE cache[o]]

\* The last WriteBatch makes the database consistent with tip; Flush empties the
\* cache, Sync cleans it, and ReplayBlocks is followed by a new, empty CoinsTip.
FinalBatch ==
    /\ Writing
    /\ db' = [coins |-> Written(pending), best |-> tip, heads |-> <<>>]
    /\ cache' = IF phase = "sync" THEN Cleaned(Dirty(cache)) ELSE EmptyCache
    /\ pending' = {}
    /\ phase' = IF stopping THEN "down" ELSE "run"
    /\ threw' = (threw \/ (db.heads # <<>> /\ db.heads[1] # tip))
    /\ UNCHANGED <<indexVars, tip, stopping, crashes, failures>>

\* WriteBatch throws for the batch holding S: FatalError.  Sync has cleaned what the
\* cursor has passed, S included; Flush has not touched the cache yet.
WriteFails(S) ==
    /\ phase \in FailingModes /\ failures < MaxFailures[pruneMode]
    /\ S # {} \/ pending = {}
    /\ failures' = failures + 1
    /\ cache' = IF phase = "sync" THEN Cleaned((Dirty(cache) \ pending) \cup S) ELSE cache
    /\ phase' = IF stopping THEN "down" ELSE "halt"
    /\ pending' = {}
    /\ UNCHANGED <<indexVars, db, tip, stopping, threw, crashes>>

-----------------------------------------------------------------------------
(* Stopping and loading.                                                   *)

Crash ==
    /\ crashes < MaxCrashes[pruneMode]
    /\ phase \notin {"down", "failed"}
    /\ crashes' = crashes + 1
    /\ phase' = "down"
    /\ pending' = {} /\ cache' = EmptyCache /\ tip' = NoBlock
    /\ UNCHANGED <<indexVars, db, stopping, threw, failures>>

\* The blocks ReplayBlocks disconnects, from the old head down, and connects.
Without(s, t) == SelectSeq(s, LAMBDA b : b \notin ToSet(t))
RollBack(new, old) == IF old = NoBlock THEN <<>> ELSE Reverse(Without(chain[old], chain[new]))
RollForward(new, old) == IF old = NoBlock THEN chain[new] ELSE Without(chain[new], chain[old])

\* ReplayBlocks over the coins as the interrupted flush left them.
ReplayBlocks_NoRollBack(coins, new, old) ==
    LET Forward(c, b) == ReplayBlock(c, coins, Txs[b], height[b])
    IN FoldLeft(Forward, EmptyCache, RollForward(new, old))

ReplayBlocks(coins, new, old) ==
    LET Back(c, b) == DisconnectBlock(c, coins, Txs[b], height[b], undo[b]).cache
        Forward(c, b) == ReplayBlock(c, coins, Txs[b], height[b])
    IN FoldLeft(Forward, FoldLeft(Back, EmptyCache, RollBack(new, old)), RollForward(new, old))

CanReplay(new, old) ==
    /\ diskIndex[new] # "unknown"
    /\ old = NoBlock \/ diskIndex[old] # "unknown"
    /\ \A b \in ToSet(RollBack(new, old)) : diskIndex[b] = "undo"
    /\ \A b \in ToSet(RollForward(new, old)) : diskIndex[b] \in {"data", "undo"}

\* CompleteChainstateInitialization: LoadBlockIndex (and LoadGenesisBlock when it is
\* empty), ReplayBlocks when the database is marked, LoadChainTip otherwise.
Load ==
    /\ phase = "down"
    /\ index' = [diskIndex EXCEPT ![0] = IF @ = "unknown" THEN "data" ELSE @]
    /\ stopping' = FALSE
    /\ IF db.heads # <<>>
       THEN LET new == db.heads[1]
                old == db.heads[2]
            IN /\ phase' = IF CanReplay(new, old) THEN "replay" ELSE "failed"
               /\ cache' = IF CanReplay(new, old) THEN ReplayBlocks(db.coins, new, old) ELSE EmptyCache
               /\ tip' = new
       ELSE /\ phase' = IF db.best # NoBlock /\ diskIndex[db.best] = "unknown" THEN "failed" ELSE "run"
            /\ cache' = EmptyCache
            /\ tip' = IF db.best = NoBlock THEN 0 ELSE db.best
    /\ pending' = Dirty(cache')
    /\ UNCHANGED <<diskIndex, undo, pruneMode, db, threw, crashes, failures>>

Next ==
    \/ \E b \in Blocks : AcceptBlock(b) \/ ConnectTip(b)
    \/ DisconnectTip
    \/ \E o \in Outpoints : AccessCoin(o) \/ UncacheCoin(o)
    \/ \E mode \in {"flush", "sync"} : StartFlush(mode)
    \/ Shutdown
    \/ \E S \in SUBSET pending : PartialBatch(S) \/ WriteFails(S)
    \/ FinalBatch
    \/ Crash
    \/ Load

Spec == Init /\ [][Next]_vars

-----------------------------------------------------------------------------
(* Properties.                                                             *)

\* coins.h on DIRTY and FRESH, for CoinsTip over the database: an entry without
\* DIRTY is what the database holds, and a FRESH one is unspent and unknown to it.
\* Losing either is a wrong coin set later, at a flush or a spend far away.
FlagsTruthful ==
    phase \in {"run", "halt"} =>
        \A o \in Outpoints :
            /\ ~cache[o].dirty /\ cache[o] # Absent => cache[o].coin = db.coins[o] /\ ~cache[o].fresh
            /\ Running /\ cache[o].fresh => cache[o].coin # Spent /\ db.coins[o] = Spent

\* A database not marked as moving holds exactly the coins of its best block,
\* whatever flushes, stops and replays came before.
DatabaseAtBest ==
    db.heads = <<>> /\ db.best # NoBlock => db.coins = CoinsAt[db.best]

\* No step throws logic_error, finds its inputs missing, disconnects uncleanly or
\* flushes towards another block than the database is moving to, and loading fails at
\* most on a pruned node: the blocks and undo data that LoadChainTip and ReplayBlocks
\* need were on disk before the coins that need them.
NeverFails == ~threw /\ (phase = "failed" => pruneMode)

\* chainstate.cpp:524 on writing to disk: "Do this frequently, so we don't need to
\* redownload or reindex after a crash."  A node that can replay needs neither.
AlwaysLoads == phase # "failed"

\* Refinement: caches, batches, crashes and replays together are a chain whose tip
\* becomes durable in one step, with the first batch that names it.
Live == phase \notin {"down", "replay", "failed"}
Durable == INSTANCE DurableChain WITH
    up    <- Live,
    tip   <- IF Live THEN tip ELSE NoBlock,
    coins <- IF Live THEN View(cache, db.coins) ELSE CoinsAt[0],
    saved <- IF db.heads # <<>> THEN db.heads[1] ELSE IF db.best # NoBlock THEN db.best ELSE 0
DurableSpec == Durable!DcSpec
=============================================================================
