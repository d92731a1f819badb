-------------------------- MODULE MCFirestoreWatch --------------------------
(***************************************************************************)
(* One document that the device and another write, a chat that is opened   *)
(* twice, and one failure, restart or end of the process at any point.     *)
(***************************************************************************)
EXTENDS FirestoreWatch

CONSTANT message

MCKeys == {message}
=============================================================================
