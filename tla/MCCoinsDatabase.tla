--------------------------- MODULE MCCoinsDatabase ---------------------------
(* Instances of CoinsDatabase: two branches from block 1, the coin x it     *)
(* creates, and a payment x -> y -> z confirmed on both, at other heights   *)
(* and, on the second, with y created and spent inside one block.           *)
EXTENDS CoinsDatabase

CONSTANTS x, y, z, w

MCBlocks == 0..5
MCParent == <<0, 1, 2, 1, 4>>
CoinBase(o) == [in |-> {}, out |-> {o}, coinbase |-> TRUE]
Pay(from, to) == [in |-> {from}, out |-> {to}, coinbase |-> FALSE]
MCTxs == << <<CoinBase(x)>>, <<Pay(x, y)>>, <<Pay(y, z)>>,
            <<CoinBase(w)>>, <<Pay(x, y), Pay(y, z)>> >>

\* Two crashes, so that the flush that ends a replay is interrupted too, and one
\* failing write; fewer where pruning multiplies the states.
TwoCrashes == [prune \in BOOLEAN |-> IF prune THEN 1 ELSE 2]
OneFailure == [prune \in BOOLEAN |-> IF prune THEN 0 ELSE 1]
One == [prune \in BOOLEAN |-> 1]
None == [prune \in BOOLEAN |-> 0]
=============================================================================
