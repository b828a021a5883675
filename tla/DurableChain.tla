---------------------------- MODULE DurableChain ----------------------------
(***************************************************************************)
(* What the chainstate promises about its coins, without caches, batches   *)
(* or recovery: a running node shows exactly the unspent outputs of its    *)
(* tip; saving makes the tip durable at once; after any stop the node      *)
(* comes back at the tip saved last, with exactly that tip's coins.        *)
(***************************************************************************)
EXTENDS Integers

CONSTANTS Blocks,      \* block 0 is genesis
          Parent,      \* the block before each other block
          CoinsAt      \* the unspent outputs after each block, by outpoint

VARIABLES up,          \* the node is running
          tip, coins,  \* what a running node shows
          saved        \* the tip it would come back to

dcVars == <<up, tip, coins, saved>>

DcInit == up = TRUE /\ tip = 0 /\ saved = 0 /\ coins = CoinsAt[0]

Move == /\ up /\ up'
        /\ \E b \in Blocks : /\ (b # 0 /\ tip = Parent[b]) \/ (tip # 0 /\ b = Parent[tip])
                             /\ tip' = b
                             /\ coins' = CoinsAt[b]
        /\ UNCHANGED saved

Save == up /\ saved' = tip /\ UNCHANGED <<up, tip, coins>>

\* A shutdown saves the tip with its last step, a crash does not.
Stop == up /\ ~up' /\ saved' \in {saved, tip}

Start == /\ ~up /\ up'
         /\ tip' = saved
         /\ coins' = CoinsAt[saved]
         /\ UNCHANGED saved

DcSpec == DcInit /\ [][Move \/ Save \/ Stop \/ Start]_dcVars
=============================================================================
