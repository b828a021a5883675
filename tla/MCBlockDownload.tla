--------------------------- MODULE MCBlockDownload ---------------------------
EXTENDS BlockDownload

CONSTANTS reliable, unreliable, g, b1, b2, b3, c1, c2

MCParent == (b1 :> g) @@ (b2 :> b1) @@ (b3 :> b2) @@ (c1 :> g) @@ (c2 :> c1)

EverybodyAt(b) == [x \in Peers |-> b]

\* Far behind: nothing but the genesis block, everybody has the whole chain, which
\* is too long for a direct fetch.
FarBehind ==
  [tip |-> g, recent |-> {g}, peerTip |-> EverybodyAt(b3),
   unasked |-> {}, submitted |-> {}, parallel |-> 2, connections |-> 1]

\* Two blocks behind: they are fetched directly, and the compact block of the best
\* tip is too far ahead to be rebuilt.
TwoBehind ==
  [FarBehind EXCEPT !.peerTip = EverybodyAt(b2), !.unasked = {<<"cmpct", b2>>}]

\* At the tip: a new block arrives in every way, from two peers at the same time.
AtTip ==
  [tip |-> b1, recent |-> {b1, b2}, peerTip |-> EverybodyAt(b2),
   unasked |-> Questions \X {b2}, submitted |-> {}, parallel |-> 2, connections |-> 1]

\* At the tip, with one slot per block: the second peer's compact block may still
\* be rebuilt at once, and the block is also submitted locally.
OneSlot ==
  [AtTip EXCEPT !.unasked = {<<"cmpct", b2>>}, !.submitted = {b2}, !.parallel = 1]

\* A longer chain that forks off below the tip, found while the tip is recent ...
Fork == [FarBehind EXCEPT !.tip = b1, !.recent = {b1}, !.peerTip = EverybodyAt(c2), !.connections = 2]

\* ... or while it is old.
OldFork == [Fork EXCEPT !.recent = {}]

MCScenarios == {FarBehind, TwoBehind, AtTip, OneSlot, Fork}
ForkScenarios == {OldFork}
=============================================================================
