--------------------------- MODULE MCBlockImport ---------------------------
(* Block files in every order, for BlockImport. *)
EXTENDS BlockImport

CONSTANTS g, a1, a2, a3, f2, f1

\* g - a1 - a2 - a3, f2 beside a2, and f1 beside a1.
SmallTree == (a1 :> g @@ a2 :> a1 @@ a3 :> a2 @@ f2 :> a1 @@ f1 :> g)

Rec(hash, body) == [hash |-> hash, body |-> body]
All(hashes) == {Rec(h, "good") : h \in hashes}
\* The records in every order, in two files, cut after the first or before the last.
Orders(recs) ==
  LET n == Cardinality(recs)
      orders == {s \in [1..n -> recs] : \A i, j \in 1..n : i # j => s[i] # s[j]}
  IN {<<SubSeq(s, 1, k), SubSeq(s, k + 1, n)>> : s \in orders, k \in {1, n - 1}}

Reindex(files) ==
  [files |-> files, load |-> <<>>, max |-> 5, prune |-> FALSE, headers |-> {}, blocks |-> {}]

\* All orders of a tree with a fork.
Shuffled == {Reindex(f) : f \in Orders(All({g, a1, a2, a3, f2}))}
\* A block is there twice, one copy damaged, and headers arrive meanwhile.
Damaged(body) == {[Reindex(f) EXCEPT !.headers = {a1}] : f \in Orders(All({g, a1, a2, a3}) \cup {Rec(a1, body)})}
\* The index of deferred blocks is too small.
Limited == {[Reindex(f) EXCEPT !.max = 1] : f \in Orders(All({g, a1, a2, a3}))}
\* -loadblock, also after a reindex and in prune mode, while a client brings blocks.
Loaded == {[files |-> fs, load |-> f, max |-> 5, prune |-> p, headers |-> {a1}, blocks |-> {a1, a2}] :
             fs \in {<<>>, <<<<Rec(g, "good"), Rec(a2, "good")>>>>}, f \in Orders(All({a1, a2, f1})), p \in BOOLEAN}

AllScenarios == Shuffled \cup Damaged("mutated") \cup Damaged("unreadable") \cup Limited \cup Loaded
CrashScenarios == {Reindex(<<<<Rec(g, "good"), Rec(a1, "good")>>>>)}
=============================================================================
