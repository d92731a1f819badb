------------------------- MODULE MCFirestoreWrites -------------------------
(***************************************************************************)
(* Small instances of FirestoreWrites.                                     *)
(***************************************************************************)
EXTENDS FirestoreWrites, TLC

CONSTANTS a, b

MCPaths == {a, b}
\* The first and the third write are messages of the same second.
MCPathOf == 1 :> a @@ 2 :> b @@ 3 :> a @@ 4 :> b
=============================================================================
