---------------------------- MODULE MCTxDownload ----------------------------
(***************************************************************************)
(* A preferred peer 1 and a reliable peer 2.  The transactions are a parent  *)
(* and its child; joint, which spends from parent and from other; cheap,     *)
(* whose fee is too low, with payer, a child that pays for both, and poor,   *)
(* one that does not; and odd, which no mempool takes, with its heir.        *)
(***************************************************************************)
EXTENDS TxDownload

CONSTANTS parent, child, other, joint, cheap, payer, poor, odd, heir

MCTxs == {parent, child, other, joint, cheap, payer, poor, odd, heir}
MCInputs == (parent :> {<<Coin, 1>>}) @@ (child :> {<<parent, 1>>})
              @@ (other :> {<<Coin, 4>>}) @@ (joint :> {<<parent, 2>>, <<other, 1>>})
              @@ (cheap :> {<<Coin, 2>>}) @@ (payer :> {<<cheap, 1>>}) @@ (poor :> {<<cheap, 2>>})
              @@ (odd :> {<<Coin, 3>>}) @@ (heir :> {<<odd, 1>>})
MCVerdict == [x \in MCTxs |->
  CASE x \in {cheap, poor} -> "lowfee" [] x = odd -> "inputs_nonstandard" [] OTHER -> "good"]
MCWeight == [x \in MCTxs |-> IF x = payer THEN 2 ELSE 1]
MCLatency == [x \in MCTxs |-> IF x = payer THEN 2 ELSE 1]

\* Peer 2 has the better salt for parents, peer 1 for children.
Salt == [k \in Peers \X Hashes |-> IF (k[1] = 2) = (k[2][1] \in {parent, cheap, odd}) THEN 1 ELSE 0]

Base == [salt |-> Salt, maxLatency |-> 10, reserved |-> 10, announcements |-> 10, inflight |-> 10,
         permitted |-> {}, wtxid |-> Peers,
         announces |-> [p \in Peers |-> {}], stores |-> [p \in Peers |-> MCTxs],
         blocks |-> <<>>, instead |-> {}, late |-> {}, leaving |-> {}, clock |-> 0, expected |-> {}]
Both(txs) == [p \in Peers |-> txs]
Each(txs1, txs2) == [p \in Peers |-> IF p = 1 THEN txs1 ELSE txs2]

Family == [Base EXCEPT !.announces = Both({parent, child}), !.expected = {parent, child}]
Mixed == [Family EXCEPT !.wtxid = {2}, !.announces = Each({child}, {parent, child})]
Joint == [Base EXCEPT !.announces = Both({joint})]
Package == [Base EXCEPT !.announces = Each({}, {cheap, payer}), !.expected = {cheap, payer}]
Packages == [Base EXCEPT !.announces = Each({cheap, poor}, {payer})]
Refused == [Base EXCEPT !.announces = Each({heir}, {odd, heir}), !.wtxid = {1}]
Mined == [Base EXCEPT !.announces = Each({child}, {parent, child}), !.blocks = <<{parent, child}>>,
                      !.instead = {odd}, !.stores = Each({}, MCTxs)]
Crowded == [Base EXCEPT !.announces = Each({child, payer}, {child}), !.stores = Both({child, payer}),
                        !.reserved = 2, !.maxLatency = 3]
Busy == [Base EXCEPT !.announces = Each({parent, odd, cheap}, {}), !.announcements = 2, !.inflight = 1]
Leaving == [Base EXCEPT !.announces = Each({parent, child}, {child}), !.late = {1}, !.leaving = {1}]
Clock == [Base EXCEPT !.announces = Both({parent}), !.clock = 2, !.expected = {parent}]

MCScenarios == {Family, Mixed, Joint, Package, Packages, Refused, Mined, Crowded, Busy, Leaving, Clock}
=============================================================================
