----------------------------- MODULE CoinsCache -----------------------------
(***************************************************************************)
(* The unspent-output cache of src/src/coins.{h,cpp} and what blocks do to *)
(* it (validation/core_block_commit_adapters.cpp, block_replay.cpp,        *)
(* block_coin_effects.cpp).                                                *)
(*                                                                         *)
(* Caches stack: each is a view over a base view (another cache, or the    *)
(* database at the bottom).  Every cache operation acts on the entry of    *)
(* one outpoint, so the operations are operators on entries, and a block   *)
(* is their pointwise lift.  A coin is abstracted to the height of the     *)
(* block that created it: the same transaction confirmed at two heights,   *)
(* on two branches, makes two different coins of one outpoint.             *)
(***************************************************************************)
EXTENDS Integers, SequencesExt

CONSTANT Outpoints   \* the outputs the modelled blocks create and spend

\* Coin::Clear: a coin without an output.  Creation heights start at 1.
Spent == 0

\* CCoinsCacheEntry with its two flags.  An outpoint the map does not hold has
\* the entry that try_emplace would give it; no entry of the map may look like
\* that (coins.h: a spent entry is DIRTY), so the two need not be told apart.
Absent == [coin |-> Spent, dirty |-> FALSE, fresh |-> FALSE]

EmptyCache == [o \in Outpoints |-> Absent]

\* What GetCoin and PeekCoin answer: the entry, else the base view.
View(cache, base) ==
    [o \in Outpoints |-> IF cache[o] = Absent THEN base[o] ELSE cache[o].coin]

\* FetchCoin: a miss copies the base's coin into the cache, without flags.
FetchCoin(e, base) == IF e = Absent THEN [e EXCEPT !.coin = base] ELSE e

\* AddCoin does not look at the base: FRESH is what the caller promises by
\* possible_overwrite = false, unless an unflushed spend says otherwise.
AddCoin(e, coin, possible_overwrite) ==
    [coin |-> coin, dirty |-> TRUE,
     fresh |-> e.fresh \/ (~possible_overwrite /\ ~e.dirty)]

AddCoinThrows(e, possible_overwrite) == ~possible_overwrite /\ e.coin # Spent

\* SpendCoin: the base never learns of a coin that was FRESH here.
SpendCoin(e, base) ==
    LET found == FetchCoin(e, base) IN
    IF found = Absent \/ found.fresh THEN Absent
    ELSE [coin |-> Spent, dirty |-> TRUE, fresh |-> FALSE]

\* Uncache: only an entry without changes may be dropped.
Uncache(e) == IF e.dirty THEN e ELSE Absent

\* CCoinsViewCache::BatchWrite: the child's entry c arrives at our entry e.
BatchWriteEntry_MarksFresh(e, c) ==
    IF ~c.dirty THEN e
    ELSE IF e = Absent THEN IF c.fresh /\ c.coin = Spent THEN Absent ELSE c
    ELSE IF e.fresh /\ c.coin = Spent THEN Absent
    ELSE [coin |-> c.coin, dirty |-> TRUE, fresh |-> e.fresh \/ c.fresh]

BatchWriteEntry(e, c) ==
    IF ~c.dirty THEN e
    ELSE IF e = Absent THEN IF c.fresh /\ c.coin = Spent THEN Absent ELSE c
    ELSE IF e.fresh /\ c.coin = Spent THEN Absent
    ELSE [coin |-> c.coin, dirty |-> TRUE, fresh |-> e.fresh]

BatchWriteThrows(e, c) == c.dirty /\ c.fresh /\ e.coin # Spent

BatchWrite(parent, child) ==
    [o \in Outpoints |-> BatchWriteEntry(parent[o], child[o])]

Misapplied(parent, child) ==
    \E o \in Outpoints : BatchWriteThrows(parent[o], child[o])

-----------------------------------------------------------------------------
(* What a block does to a cache over a base.  A transaction is a record    *)
(* [in, out, coinbase]; the result carries the cache, the coins spent and  *)
(* whether every check on the way held.                                    *)

\* CommitSpendState: spend the inputs, which must be the coins the block was
\* checked with, then create the outputs; the spent coins are the undo data.
SpendBlock(base, txs, height) ==
    LET Apply(v, tx) ==
            LET spent == [o \in Outpoints |-> IF o \in tx.in THEN SpendCoin(v.cache[o], base[o])
                                              ELSE v.cache[o]]
            IN [cache |-> [o \in Outpoints |-> IF o \in tx.out THEN AddCoin(spent[o], height, tx.coinbase)
                                               ELSE spent[o]],
                undo  |-> [o \in Outpoints |-> IF o \in tx.in THEN View(v.cache, base)[o] ELSE v.undo[o]],
                ok    |-> /\ v.ok
                          /\ \A o \in tx.in : View(v.cache, base)[o] # Spent
                          /\ \A o \in tx.out : ~AddCoinThrows(spent[o], tx.coinbase)]
    IN FoldLeft(Apply, [cache |-> EmptyCache, undo |-> [o \in Outpoints |-> Spent], ok |-> TRUE], txs)

\* DisconnectBlock with ApplyTxInUndo: the transactions in reverse order, each
\* output spent again and each input restored; ok is DISCONNECT_OK.
DisconnectBlock(cache, base, txs, height, undo) ==
    LET Revert(v, tx) ==
            LET gone == [o \in Outpoints |-> IF o \in tx.out THEN SpendCoin(v.cache[o], base[o])
                                             ELSE v.cache[o]]
                had  == [o \in Outpoints |-> FetchCoin(gone[o], base[o])]
            IN [cache |-> [o \in Outpoints |-> IF o \in tx.in THEN AddCoin(had[o], undo[o], had[o].coin # Spent)
                                               ELSE gone[o]],
                ok    |-> /\ v.ok
                          /\ \A o \in tx.out : View(v.cache, base)[o] = height
                          /\ \A o \in tx.in : had[o].coin = Spent]
    IN FoldLeft(Revert, [cache |-> cache, ok |-> TRUE], Reverse(txs))

\* ReplayBlockCoinsForRecovery: whatever a partial write left behind is spent
\* or overwritten; AddCoins looks before it decides that it overwrites.
ReplayBlock(cache, base, txs, height) ==
    LET Replay(c, tx) ==
            [o \in Outpoints |->
                IF o \in tx.out THEN LET found == FetchCoin(c[o], base[o])
                                     IN AddCoin(found, height, found.coin # Spent)
                ELSE IF o \in tx.in THEN SpendCoin(c[o], base[o])
                ELSE c[o]]
    IN FoldLeft(Replay, cache, txs)

Touched(txs) == UNION {txs[i].in \cup txs[i].out : i \in DOMAIN txs}
=============================================================================
