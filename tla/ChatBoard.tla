----------------------------- MODULE ChatBoard -----------------------------
(***************************************************************************)
(* What a chat room promises, without devices, documents or snapshots: a   *)
(* board with one slot per second of the day.  The posts of an author are  *)
(* in flight in the order they were submitted; they land in that order,    *)
(* each on its slot, where it replaces whatever was there.  A post that    *)
(* has landed settles, the oldest first.  The connection may start anew:   *)
(* what has not settled then lands once more.  The newest posts may be     *)
(* withdrawn as long as they have not landed.                              *)
(***************************************************************************)
EXTENDS Integers, Sequences

CONSTANTS Authors, Slots

VARIABLES
  posts,      \* history: every post, its author and its slot
  inFlight,   \* per author: the posts that have not settled
  reached,    \* per author: how many of them have landed
  board       \* the post on each slot, 0 if none

vars == <<posts, inFlight, reached, board>>

Init ==
  /\ posts = <<>>
  /\ inFlight = [a \in Authors |-> <<>>]
  /\ reached = [a \in Authors |-> 0]
  /\ board = [s \in Slots |-> 0]

Submit(a, s) ==
  /\ posts' = Append(posts, [by |-> a, slot |-> s])
  /\ inFlight' = [inFlight EXCEPT ![a] = Append(@, Len(posts) + 1)]
  /\ UNCHANGED <<reached, board>>

Land(a) ==
  /\ reached[a] < Len(inFlight[a])
  /\ LET p == inFlight[a][reached[a] + 1] IN
     board' = [board EXCEPT ![posts[p].slot] = p]
  /\ reached' = [reached EXCEPT ![a] = @ + 1]
  /\ UNCHANGED <<posts, inFlight>>

Settle(a) ==
  /\ reached[a] > 0
  /\ inFlight' = [inFlight EXCEPT ![a] = Tail(@)]
  /\ reached' = [reached EXCEPT ![a] = @ - 1]
  /\ UNCHANGED <<posts, board>>

Reconnect(a) ==
  /\ reached' = [reached EXCEPT ![a] = 0]
  /\ UNCHANGED <<posts, inFlight, board>>

Withdraw(a) ==
  /\ \E n \in reached[a]..Len(inFlight[a]) :
       inFlight' = [inFlight EXCEPT ![a] = SubSeq(@, 1, n)]
  /\ UNCHANGED <<posts, reached, board>>

Next ==
  \E a \in Authors :
    \/ Reconnect(a) \/ Withdraw(a) \/ Land(a) \/ Settle(a)
    \/ \E s \in Slots : Submit(a, s)

Spec == Init /\ [][Next]_vars
=============================================================================
