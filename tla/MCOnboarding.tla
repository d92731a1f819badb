---------------------------- MODULE MCOnboarding ----------------------------
(***************************************************************************)
(* A small instance of Onboarding: a user the backend has never seen and   *)
(* one it knows, who may pick the age, tier and id they have already or    *)
(* others.                                                                 *)
(***************************************************************************)
EXTENDS Onboarding

MCAges == {25, 30}
MCTiers == {2, 5}
MCGameIDs == {"faker", "deft"}
MCTexts == MCGameIDs \cup {"", "PreyIOS", "noname"}
MCProfiles ==
  {[age |-> 0, gender |-> 0, gameID |-> "noname", tier |-> 0, pk |-> 1],
   [age |-> 30, gender |-> 1, gameID |-> "faker", tier |-> 5, pk |-> 2]}
=============================================================================
