------------------------- MODULE MCChainActivation -------------------------
(* Small trees and scenarios for ChainActivation. *)
EXTENDS ChainActivation, TLC

CONSTANTS t1, t2

\* 1 - 2 - 8 against 3 - 4 - 5 and 3 - 4 - 6 - 7, all from genesis.
ThreeBranches == <<0, 1, 0, 3, 4, 4, 6, 2>>

UnitProof == [b \in Tree |-> 1]

Fresh == [loaded |-> {0}, tip |-> 0]
Chain2 == [loaded |-> {0, 1, 2}, tip |-> 2]

Scenario(start, ops, blocks) ==
  start @@ [threads |-> {t1, t2}, ops |-> ops, blocks |-> blocks, sink |-> TRUE, faults |-> 0]

\* Headers and blocks, from peers and unasked for, to a new node.
Node == Scenario(Fresh, {"header", "block", "unrequested"}, 1..5)
\* The same in the kernel, with one failure.
Kernel == [Node EXCEPT !.sink = FALSE, !.faults = 1, !.blocks = {1, 3, 4, 5}]
\* Blocks arrive while others are invalidated and reconsidered.
Reconsider == Scenario(Chain2, {"block", "invalidate", "reconsider"}, {1, 2, 3, 4, 8})
\* Equal-work tips are reordered while blocks arrive.
Precious == Scenario(Chain2, {"block", "precious"}, 1..4)
\* Connections are validated ahead of their commit.
Commit == Scenario(Fresh, {"block", "tip_candidate", "commit_ready"}, {1, 3, 4})
CommitBad == [Commit EXCEPT !.loaded = {0, 1}, !.tip = 1, !.blocks = {3, 4, 5}]
\* The node stops in the middle of activations and invalidations.
Interrupted == Scenario(Chain2, {"block", "invalidate", "interrupt"}, 1..4)
\* Something fails in the middle of a reorganisation of the node.
Failing == [Scenario(Chain2, {"block", "interrupt"}, {3, 4, 5}) EXCEPT !.faults = 1]
\* Block files are pruned, and blocks of a fork downloaded again, in the kernel.
Pruned == [Scenario(Chain2, {"header", "block", "prune"}, {3, 4, 6})
             EXCEPT !.threads = {t1}, !.sink = FALSE]

AllScenarios ==
  {Node, Kernel, Reconsider, Precious, Commit, CommitBad, Interrupted, Failing, Pruned}

InvalidateScenarios == {Scenario(Chain2, {"block", "invalidate"}, 1..3)}
RekeyScenarios == {[Pruned EXCEPT !.blocks = {3, 4, 6, 7}]}
=============================================================================
