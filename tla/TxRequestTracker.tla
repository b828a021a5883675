-------------------------- MODULE TxRequestTracker --------------------------
(***************************************************************************)
(* TxRequestTracker::Impl (txrequest.cpp): which peer is asked for which    *)
(* transaction hash, and when.  A tracker t is a record                     *)
(*   index     m_index: <<peer, txhash>> -> [state, time, preferred]        *)
(*   peerinfo  m_peerinfo: the cached counters of the peers in the index    *)
(*   salt      the low bits m_computer gives every <<peer, txhash>>         *)
(* and an operation is an operator from trackers to trackers.  All times    *)
(* are relative to the clock: "now" is 0, and TimePasses moves the clock.   *)
(* The sequence numbers, which only order the hashes of one getdata, are    *)
(* left out.                                                                *)
(***************************************************************************)
EXTENDS Integers, Sequences, FiniteSets, SequencesExt

\* Low bits of a priority are below SaltRange; the preferred bit is above them.
SaltRange == 16

\* The order of enum State, by which the ByTxHash index sorts.
StateOrder == [CANDIDATE_DELAYED |-> 0, CANDIDATE_READY |-> 1, CANDIDATE_BEST |-> 2,
               REQUESTED |-> 3, COMPLETED |-> 4]

EmptyTracker(salt) == [index |-> <<>>, peerinfo |-> <<>>, salt |-> salt]

StateOf(t, k) == t.index[k].state
IsSelected(t, k) == StateOf(t, k) \in {"CANDIDATE_BEST", "REQUESTED"}
IsWaiting(t, k) == StateOf(t, k) \in {"REQUESTED", "CANDIDATE_DELAYED"}
IsSelectable(t, k) == StateOf(t, k) \in {"CANDIDATE_READY", "CANDIDATE_BEST"}

\* PriorityComputer::operator().
Priority(t, k) == t.salt[k] + (IF t.index[k].preferred THEN SaltRange ELSE 0)

\* The announcements of one hash, and where the ByTxHash index keeps each.
OfTxHash(t, h) == {k \in DOMAIN t.index : k[2] = h}
ByTxHash(t, k) == 2 * SaltRange * StateOrder[StateOf(t, k)]
                    + (IF StateOf(t, k) = "CANDIDATE_READY" THEN Priority(t, k) ELSE 0)

\* std::next and std::prev in that index, as far as they have k's hash: a set
\* of at most one announcement.
NextByTxHash(t, k) ==
  LET after == {j \in OfTxHash(t, k[2]) \ {k} : ByTxHash(t, j) >= ByTxHash(t, k)}
  IN  IF after = {} THEN {}
      ELSE {CHOOSE j \in after : \A i \in after : ByTxHash(t, j) <= ByTxHash(t, i)}
PrevByTxHash(t, k) ==
  LET before == {j \in OfTxHash(t, k[2]) \ {k} : ByTxHash(t, j) <= ByTxHash(t, k)}
  IN  IF before = {} THEN {}
      ELSE {CHOOSE j \in before : \A i \in before : ByTxHash(t, j) >= ByTxHash(t, i)}

-----------------------------------------------------------------------------
(* The wrappers that keep m_peerinfo up to date.                             *)
One(b) == IF b THEN 1 ELSE 0
Counted(info, a, sign) ==
  [info EXCEPT !.completed = @ + sign * One(a.state = "COMPLETED"),
               !.requested = @ + sign * One(a.state = "REQUESTED")]

Modify(t, k, a) ==
  [t EXCEPT !.peerinfo[k[1]] = Counted(Counted(@, t.index[k], -1), a, 1), !.index[k] = a]

Erase(t, k) ==
  LET info == [Counted(t.peerinfo[k[1]], t.index[k], -1) EXCEPT !.total = @ - 1]
  IN  [t EXCEPT !.peerinfo = IF info.total = 0
                             THEN Restrict(@, DOMAIN @ \ {k[1]})
                             ELSE [@ EXCEPT ![k[1]] = info],
                !.index = Restrict(@, DOMAIN @ \ {k})]

EraseAll(t, keys) == FoldSet(LAMBDA k, u : Erase(u, k), t, keys)

SetState(t, k, state) == Modify(t, k, [t.index[k] EXCEPT !.state = state])

-----------------------------------------------------------------------------
(* The state changes of one announcement.                                    *)
\* t has k as CANDIDATE_READY; what follows k decides whether k is selected.
PromoteReady(t, k, next) ==
  CASE \A n \in next : StateOf(t, n) = "COMPLETED" -> SetState(t, k, "CANDIDATE_BEST")
    [] \E n \in next : StateOf(t, n) = "CANDIDATE_BEST" /\ Priority(t, k) > Priority(t, n) ->
         SetState(SetState(t, CHOOSE n \in next : TRUE, "CANDIDATE_READY"), k, "CANDIDATE_BEST")
    [] OTHER -> t
PromoteReadyCandidate(t, k) == PromoteReady(t, k, NextByTxHash(t, k))
PromoteCandidateReady(t, k) == PromoteReadyCandidate(SetState(t, k, "CANDIDATE_READY"), k)

\* Faulty form: nobody takes the place of the announcement that was selected.
ChangeAndReselect_NoReselect(t, k, state) == SetState(t, k, state)
ChangeAndReselect(t, k, state) ==
  LET successor == {j \in PrevByTxHash(t, k) :
                      IsSelected(t, k) /\ StateOf(t, j) = "CANDIDATE_READY"}
  IN  SetState(IF successor = {} THEN t
               ELSE SetState(t, CHOOSE j \in successor : TRUE, "CANDIDATE_BEST"),
               k, state)

IsOnlyNonCompleted(t, k) ==
  /\ PrevByTxHash(t, k) = {}
  /\ \A n \in NextByTxHash(t, k) : StateOf(t, n) = "COMPLETED"

MakeCompleted(t, k) ==
  IF StateOf(t, k) = "COMPLETED" THEN t
  ELSE IF IsOnlyNonCompleted(t, k) THEN EraseAll(t, OfTxHash(t, k[2]))
  ELSE ChangeAndReselect(t, k, "COMPLETED")

\* SetTimePoint: waiting announcements in the past are taken from old to new,
\* then selectable ones in the future from the latest, as the ByTime index does.
Expire(t) ==
  LET earlier(j, k) == t.index[j].time < t.index[k].time
      Due(u, k) == IF StateOf(u, k) = "REQUESTED" THEN MakeCompleted(u, k)
                                                  ELSE PromoteCandidateReady(u, k)
  IN  FoldLeft(Due, t, SetToSortSeq({k \in DOMAIN t.index : IsWaiting(t, k) /\ t.index[k].time <= 0},
                                    earlier))
Delay(t) ==
  LET later(j, k) == t.index[j].time > t.index[k].time
      Early(u, k) == ChangeAndReselect(u, k, "CANDIDATE_DELAYED")
  IN  FoldLeft(Early, t, SetToSortSeq({k \in DOMAIN t.index : IsSelectable(t, k) /\ t.index[k].time > 0},
                                      later))
\* Faulty form: only the clock set back is taken care of.
SetTimePoint_NeverDue(t) == Delay(t)
SetTimePoint(t) == Delay(Expire(t))

-----------------------------------------------------------------------------
(* The public operations.                                                    *)
ReceivedInv(t, p, h, preferred, reqtime) ==
  IF <<p, h>> \in DOMAIN t.index THEN t
  ELSE [t EXCEPT
         !.index = (<<p, h>> :> [state |-> "CANDIDATE_DELAYED", time |-> reqtime,
                                 preferred |-> preferred]) @@ @,
         !.peerinfo = IF p \in DOMAIN @ THEN [@ EXCEPT ![p].total = @ + 1]
                      ELSE (p :> [total |-> 1, completed |-> 0, requested |-> 0]) @@ @]

\* The hashes GetRequestable returns for p once SetTimePoint has run.
Requestable(t, p) ==
  {k[2] : k \in {j \in DOMAIN t.index : j[1] = p /\ StateOf(t, j) = "CANDIDATE_BEST"}}

RequestedTx(t, p, h, expiry) ==
  LET k == <<p, h>>
      selected == {j \in OfTxHash(t, h) : IsSelected(t, j)}
      Deselect(j, u) == SetState(u, j, IF StateOf(u, j) = "REQUESTED" THEN "COMPLETED"
                                                                     ELSE "CANDIDATE_READY")
      cleared == IF StateOf(t, k) = "CANDIDATE_BEST" THEN t ELSE FoldSet(Deselect, t, selected)
  IN  IF k \notin DOMAIN t.index THEN t
      ELSE IF StateOf(t, k) \in {"REQUESTED", "COMPLETED"} THEN t
      ELSE Modify(cleared, k, [cleared.index[k] EXCEPT !.state = "REQUESTED", !.time = expiry])

ReceivedResponse(t, p, h) ==
  IF <<p, h>> \in DOMAIN t.index THEN MakeCompleted(t, <<p, h>>) ELSE t

ForgetTxHash(t, h) == EraseAll(t, OfTxHash(t, h))

\* The peer's announcements are completed, so that others are selected, and erased.
DisconnectedPeer(t, p) ==
  LET Drop(k, u) == LET completed == MakeCompleted(u, k)
                    IN  IF k \in DOMAIN completed.index THEN Erase(completed, k) ELSE completed
  IN  FoldSet(Drop, t, {k \in DOMAIN t.index : k[1] = p})

GetCandidatePeers(t, h) == {k[1] : k \in {j \in OfTxHash(t, h) : StateOf(t, j) # "COMPLETED"}}
Count(t, p) == IF p \in DOMAIN t.peerinfo THEN t.peerinfo[p].total ELSE 0
CountInFlight(t, p) == IF p \in DOMAIN t.peerinfo THEN t.peerinfo[p].requested ELSE 0

\* The clock moves by d, forwards or backwards; floor is how far in the past
\* times are told apart.
TimePasses(t, d, floor) ==
  [t EXCEPT !.index = [k \in DOMAIN @ |->
     [@[k] EXCEPT !.time = IF t.index[k].state = "COMPLETED" THEN 0
                           ELSE IF @ - d < floor THEN floor ELSE @ - d]]]

-----------------------------------------------------------------------------
(* What the tracker promises.                                                *)

\* SanityCheck: the counters are what the index says, no hash has only
\* COMPLETED announcements, at most one is selected, and a selected candidate
\* is the best of those that are ready.
TrackerSane(t) ==
  LET InState(keys, states) == {k \in keys : StateOf(t, k) \in states}
      PeerKeys(p) == {k \in DOMAIN t.index : k[1] = p}
  IN  /\ t.peerinfo = [p \in {k[1] : k \in DOMAIN t.index} |->
                         [total |-> Cardinality(PeerKeys(p)),
                          completed |-> Cardinality(InState(PeerKeys(p), {"COMPLETED"})),
                          requested |-> Cardinality(InState(PeerKeys(p), {"REQUESTED"}))]]
      /\ \A h \in {k[2] : k \in DOMAIN t.index} :
           LET keys == OfTxHash(t, h)
               selected == {k \in keys : IsSelected(t, k)}
               ready == InState(keys, {"CANDIDATE_READY"})
           IN  /\ keys # InState(keys, {"COMPLETED"})
               /\ Cardinality(selected) <= 1
               /\ ready # {} => selected # {}
               /\ \A k \in InState(selected, {"CANDIDATE_BEST"}), j \in ready :
                    Priority(t, k) >= Priority(t, j)

\* The rules of txrequest.h: nothing is requested while a request for the
\* hash is outstanding; otherwise the best of the candidates whose time has
\* come is, where any preferred peer is better than any other.
SelectedByTheRules(t) ==
  {k \in DOMAIN t.index :
     LET open == {j \in OfTxHash(t, k[2]) : StateOf(t, j) = "REQUESTED" /\ t.index[j].time > 0}
         viable == {j \in OfTxHash(t, k[2]) : /\ StateOf(t, j) \notin {"REQUESTED", "COMPLETED"}
                                              /\ t.index[j].time <= 0}
     IN  open = {} /\ k \in viable /\ \A j \in viable : Priority(t, k) >= Priority(t, j)}
=============================================================================
