------------------------------- MODULE SignIn -------------------------------
(***************************************************************************)
(* Signing in with Google, together with the onboarding it opens.          *)
(*                                                                         *)
(* The tap of the login button starts a chain of four calls, each made by  *)
(* the completion of the one before: Google, the access request of the     *)
(* backend, the user's game and the user's manner score.  Every reply      *)
(* writes to MyInfoModel, and the last one replaces the window by a new    *)
(* onboarding.  Nothing tells that a chain is under way: the button works  *)
(* as soon as Google's sheet is gone, and a chain goes on when the window  *)
(* it was started in is gone too.  A request that fails, a game list that  *)
(* is empty and a manner count other than one end the chain in silence.    *)
(*                                                                         *)
(* The backend is outside the repository: Data says what it knows of each  *)
(* account, and does not change.                                           *)
(***************************************************************************)
EXTENDS Onboarding

CONSTANTS
  Accounts,    \* Google accounts
  Data,        \* what the backend knows of each
  MaxSignIns   \* bound: taps of the login button

Known ==
  [profile : Profiles,    \* the fields of GetLogin and of the user's GetGame
   login : BOOLEAN,       \* GetLogin.login
   nickName : Texts,      \* GetLogin.nickName, or "noname"
   hasGame : BOOLEAN,     \* the list of games is not empty
   mannerCount : Nat]     \* GetManner.count

ASSUME SignInAssumption ==
  /\ Accounts # {}
  /\ Data \in [Accounts -> Known]
  /\ MaxSignIns \in Nat

Ids == 1 .. MaxSignIns

VARIABLES
  signIns,   \* the chains: the call that is under way, and for whom
  overlap,   \* history: two chains were under way at once
  failed     \* history: some call failed

vars == <<onboardingVars, signIns, overlap, failed>>

Requests == {"signUp", "getGame", "getManner"}
UnderWay(i) == signIns[i].step \in {"google"} \cup Requests

(* Type invariant of the chains, over that of the screens.                 *)
SignInTypeOK ==
  /\ TypeOK
  /\ signIns \in [Ids -> [step : {"none", "google", "over"} \cup Requests,
                          account : Accounts]]
  /\ overlap \in BOOLEAN
  /\ failed \in BOOLEAN

(* The app has started: MyInfoModel holds the defaults of its fields.      *)
SignInInit ==
  /\ screen = Login
  /\ answers = NoAnswers
  /\ enabled = {}
  /\ clear = FALSE
  /\ loaded = FALSE
  /\ myInfo = [age |-> 0, gender |-> 0, gameID |-> NoText, tier |-> 0, pk |-> 0]
  /\ signIns = [i \in Ids |-> [step |-> "none",
                               account |-> CHOOSE a \in Accounts : TRUE]]
  /\ overlap = FALSE
  /\ failed = FALSE

Step(i, step) == signIns' = [signIns EXCEPT ![i].step = step]

(* The window becomes a new navigation controller with a new first step.   *)
OpenOnboarding ==
  /\ screen' = 1
  /\ NewScreens

StayOnScreen == UNCHANGED <<screen, answers, enabled, clear, loaded>>

-----------------------------------------------------------------------------
(* Google's sheet covers the login screen until it has answered.           *)
DidTapButtonAction(i) ==
  /\ screen = Login
  /\ signIns[i].step = "none"
  /\ \A j \in Ids : signIns[j].step # "google"
  /\ Step(i, "google")
  /\ overlap' = (overlap \/ \E j \in Ids : UnderWay(j))
  /\ UNCHANGED <<onboardingVars, failed>>

GoogleAnswers(i, a) ==
  /\ signIns[i].step = "google"
  /\ signIns' = [signIns EXCEPT ![i] = [step |-> "signUp", account |-> a]]
  /\ UNCHANGED <<onboardingVars, overlap, failed>>

(* Cancelled, an error, or no authentication.                              *)
GoogleRefuses(i) ==
  /\ signIns[i].step = "google"
  /\ Step(i, "over")
  /\ UNCHANGED <<onboardingVars, overlap, failed>>

(* Variant: the window changes with the first reply.                       *)
SignUpOpens(i) ==
  /\ signIns[i].step = "signUp"
  /\ LET data == Data[signIns[i].account]
     IN /\ myInfo' = [myInfo EXCEPT !.age = data.profile.age,
                                    !.gender = data.profile.gender,
                                    !.gameID = data.nickName,
                                    !.pk = data.profile.pk]
        /\ IF data.login THEN Step(i, "getGame") ELSE Step(i, "over")
        /\ OpenOnboarding
  /\ UNCHANGED <<overlap, failed>>

(* The access request fills in the model; a user the backend does not know *)
(* goes straight to onboarding.                                            *)
SignUpAnswers(i) ==
  /\ signIns[i].step = "signUp"
  /\ LET data == Data[signIns[i].account]
     IN /\ myInfo' = [myInfo EXCEPT !.age = data.profile.age,
                                    !.gender = data.profile.gender,
                                    !.gameID = data.nickName,
                                    !.pk = data.profile.pk]
        /\ IF data.login
             THEN Step(i, "getGame") /\ StayOnScreen
             ELSE Step(i, "over") /\ OpenOnboarding
  /\ UNCHANGED <<overlap, failed>>

(* Variant: the tier is not stored.                                        *)
GetGameForgetsTier(i) ==
  /\ signIns[i].step = "getGame"
  /\ LET data == Data[signIns[i].account]
     IN \/ /\ data.hasGame
           /\ myInfo' = [myInfo EXCEPT !.pk = data.profile.pk,
                                       !.gameID = data.profile.gameID]
           /\ Step(i, "getManner")
        \/ /\ ~data.hasGame
           /\ Step(i, "over")
           /\ UNCHANGED myInfo
  /\ StayOnScreen
  /\ UNCHANGED <<overlap, failed>>

(* The first game of the user; without one, or with an empty game id, the  *)
(* chain ends here.                                                        *)
GetGameAnswers(i) ==
  /\ signIns[i].step = "getGame"
  /\ LET data == Data[signIns[i].account]
     IN \/ /\ data.hasGame
           /\ myInfo' = [myInfo EXCEPT !.pk = data.profile.pk,
                                       !.gameID = data.profile.gameID,
                                       !.tier = data.profile.tier]
           /\ Step(i, IF data.profile.gameID # NoText THEN "getManner"
                                                      ELSE "over")
        \/ /\ ~data.hasGame
           /\ Step(i, "over")
           /\ UNCHANGED myInfo
  /\ StayOnScreen
  /\ UNCHANGED <<overlap, failed>>

(* Variant: one score is not enough.                                       *)
GetMannerCounts(i) ==
  /\ signIns[i].step = "getManner"
  /\ Step(i, "over")
  /\ IF Data[signIns[i].account].mannerCount > 1
       THEN OpenOnboarding
       ELSE StayOnScreen
  /\ UNCHANGED <<myInfo, overlap, failed>>
GetMannerAnswers(i) ==
  /\ signIns[i].step = "getManner"
  /\ Step(i, "over")
  /\ IF Data[signIns[i].account].mannerCount = 1
       THEN OpenOnboarding
       ELSE StayOnScreen
  /\ UNCHANGED <<myInfo, overlap, failed>>

(* A request fails, or its reply cannot be decoded.                        *)
RequestFails(i) ==
  /\ signIns[i].step \in Requests
  /\ Step(i, "over")
  /\ failed' = TRUE
  /\ UNCHANGED <<onboardingVars, overlap>>

-----------------------------------------------------------------------------
Answer(i) == SignUpAnswers(i) \/ GetGameAnswers(i) \/ GetMannerAnswers(i)

SignInNext ==
  \/ OnboardingNext /\ UNCHANGED <<signIns, overlap, failed>>
  \/ \E i \in Ids :
       \/ DidTapButtonAction(i)
       \/ \E a \in Accounts : GoogleAnswers(i, a)
       \/ GoogleRefuses(i)
       \/ Answer(i)
       \/ RequestFails(i)

(* Every request is answered or fails, by the timeout of URLSession.       *)
SignInSpec ==
  /\ SignInInit /\ [][SignInNext]_vars
  /\ \A i \in Ids : WF_vars(Answer(i) \/ RequestFails(i))

-----------------------------------------------------------------------------
(* A user who signed in once at a time has no call left behind the screens *)
(* of onboarding or the tabs: no reply can replace the window or the model *)
(* any more.                                                               *)
NothingLeftBehind ==
  ~overlap /\ screen # Login => \A i \in Ids : ~UnderWay(i)

(* When the manner score is asked for, the model holds one user: age and   *)
(* gender, game id and tier came with different replies.                   *)
OneUsersProfile ==
  ~overlap => \A i \in Ids : signIns[i].step = "getManner" =>
    myInfo = Data[signIns[i].account].profile

(* Gender and tier on show are the ones the model holds until the profile  *)
(* screen overwrites it, if no two sign-ins overlapped.                    *)
AnswersKept == ~overlap => ShownIsStored

(* Users the backend can complete: new ones, and those with a game, a game *)
(* id and a manner count of one.                                           *)
Complete(a) ==
  Data[a].login => /\ Data[a].hasGame
                   /\ Data[a].profile.gameID # NoText
                   /\ Data[a].mannerCount = 1

(* Such a user gets past the login screen unless a request fails.          *)
CompleteUserGetsIn ==
  \A i \in Ids : \A a \in Accounts :
    (signIns[i] = [step |-> "signUp", account |-> a] /\ Complete(a))
      ~> (screen # Login \/ failed)
=============================================================================
