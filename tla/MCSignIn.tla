------------------------------ MODULE MCSignIn ------------------------------
(***************************************************************************)
(* Three accounts: one the backend has never seen, one it knows all about  *)
(* and one that signed up but has no game.  Each has its own profile, so   *)
(* that a mixture of two shows.                                            *)
(***************************************************************************)
EXTENDS SignIn

MCAges == {30}
MCTiers == {5}
MCGameIDs == {"faker"}
MCTexts == {"", "PreyIOS", "noname", "faker", "deft", "Kim"}

UserProfile(age, gender, gameID, tier, pk) ==
  [age |-> age, gender |-> gender, gameID |-> gameID, tier |-> tier,
   pk |-> pk]
MCProfiles ==
  {UserProfile(0, 0, "noname", 0, 1), UserProfile(40, 1, "deft", 4, 2),
   UserProfile(50, 0, "noname", 0, 3)}
ProfileOf(k) == CHOOSE p \in MCProfiles : p.pk = k

MCAccounts == {"new", "known", "gameless"}
MCData ==
  [a \in MCAccounts |->
     CASE a = "new" ->
            [profile |-> ProfileOf(1), login |-> FALSE, nickName |-> "noname",
             hasGame |-> FALSE, mannerCount |-> 0]
       [] a = "known" ->
            [profile |-> ProfileOf(2), login |-> TRUE, nickName |-> "Kim",
             hasGame |-> TRUE, mannerCount |-> 1]
       [] a = "gameless" ->
            [profile |-> ProfileOf(3), login |-> TRUE, nickName |-> "noname",
             hasGame |-> FALSE, mannerCount |-> 1]]
=============================================================================
