----------------------------- MODULE WriteQueue -----------------------------
(***************************************************************************)
(* What the Firestore client promises of the writes of one device: they    *)
(* are applied in the order they were made, each at least once; a write    *)
(* leaves the queue only once it is applied, or because the server refused *)
(* it; and a connection that starts anew applies the whole queue again.    *)
(***************************************************************************)
EXTENDS Integers, Sequences

CONSTANTS Slots, Posts, SlotOf, Refused

VARIABLES
  pending,   \* the posts that are queued, oldest first
  reached,   \* how many of them the present connection has applied
  board      \* the last post applied to each slot, 0 if none

vars == <<pending, reached, board>>

Init ==
  /\ pending = <<>>
  /\ reached = 0
  /\ board = [s \in Slots |-> 0]

Submit(p) ==
  /\ pending' = Append(pending, p)
  /\ UNCHANGED <<reached, board>>

Land ==
  /\ reached < Len(pending)
  /\ pending[reached + 1] \notin Refused
  /\ board' = [board EXCEPT ![SlotOf[pending[reached + 1]]] = pending[reached + 1]]
  /\ reached' = reached + 1
  /\ UNCHANGED pending

Acknowledge ==
  /\ reached > 0
  /\ pending' = Tail(pending)
  /\ reached' = reached - 1
  /\ UNCHANGED board

Reject ==
  /\ reached = 0
  /\ pending # <<>>
  /\ Head(pending) \in Refused
  /\ pending' = Tail(pending)
  /\ UNCHANGED <<reached, board>>

Reconnect ==
  /\ reached' = 0
  /\ UNCHANGED <<pending, board>>

Next ==
  \/ \E p \in Posts : Submit(p)
  \/ Land \/ Acknowledge \/ Reject \/ Reconnect

Spec == Init /\ [][Next]_vars
=============================================================================
