---------------------------- MODULE SerialQueue ----------------------------
(***************************************************************************)
(* What SerialTaskRunner promises its clients (scheduler.h): callbacks run  *)
(* one at a time, each once, in the order in which they were inserted.      *)
(***************************************************************************)
EXTENDS Sequences

CONSTANTS Callbacks, None

VARIABLES
  pending,   \* inserted and not started
  current,   \* the callback being executed, or None
  finished   \* callbacks in the order in which they finished

vars == <<pending, current, finished>>

Init == pending = <<>> /\ current = None /\ finished = <<>>

Insert(c) == pending' = Append(pending, c) /\ UNCHANGED <<current, finished>>

Start ==
  /\ current = None /\ pending # <<>>
  /\ current' = Head(pending) /\ pending' = Tail(pending)
  /\ UNCHANGED finished

Finish ==
  /\ current # None
  /\ finished' = Append(finished, current) /\ current' = None
  /\ UNCHANGED pending

Next == (\E c \in Callbacks : Insert(c)) \/ Start \/ Finish

Spec == Init /\ [][Next]_vars
=============================================================================
