----------------------------- MODULE MCJoinGame -----------------------------
(***************************************************************************)
(* Two rooms with one seat left, so that the last seat is raced for.       *)
(***************************************************************************)
EXTENDS JoinGame

CONSTANTS r1, r2
MCRooms == {r1, r2}
=============================================================================
