---------------------------- MODULE SignInProofs ----------------------------
(***************************************************************************)
(* Theorems about SignIn and the onboarding it opens, for every set of     *)
(* accounts, whatever the backend knows of them, and every number of taps. *)
(*                                                                         *)
(* Two things carry the proofs: a chain of calls that is alone is under    *)
(* way only on the login screen, and on the login screen no answer is kept *)
(* from an earlier onboarding.                                             *)
(***************************************************************************)
EXTENDS SignIn, TLAPS

\* A user who signs in once at a time waits for one chain, and on the login
\* screen.
OneChain ==
  ~overlap => \A i \in Ids : UnderWay(i) =>
    /\ screen = Login
    /\ \A j \in Ids : UnderWay(j) => j = i

\* From the first reply on the model holds what the replies brought.
ModelFollowsChain ==
  ~overlap => \A i \in Ids :
    /\ signIns[i].step = "getGame" =>
         /\ myInfo.age = Data[signIns[i].account].profile.age
         /\ myInfo.gender = Data[signIns[i].account].profile.gender
         /\ myInfo.pk = Data[signIns[i].account].profile.pk
    /\ signIns[i].step = "getManner" =>
         myInfo = Data[signIns[i].account].profile

\* Behind the login screen lies a stack of screens that nobody has answered.
LoginIsFresh == screen = Login => answers.gender = {} /\ answers.tier = {}

IInv ==
  /\ SignInTypeOK
  /\ OneChain
  /\ ModelFollowsChain
  /\ LoginIsFresh
  /\ StepsAnswered
  /\ AnswersKept

-----------------------------------------------------------------------------
\* What the backend knows of an account has the types of the model.
LEMMA DataType ==
  ASSUME NEW a \in Accounts
  PROVE  /\ Data[a].profile \in [age : Nat, gender : Genders, gameID : Texts,
                                 tier : TierNumbers, pk : Nat]
         /\ Data[a].nickName \in Texts
         /\ Data[a].login \in BOOLEAN
<1>1. Data[a] \in Known
  BY SignInAssumption
<1> QED
  BY <1>1, OnboardingAssumption DEF Known

LEMMA NoAnswersType ==
  /\ NoAnswers.gender = {} /\ NoAnswers.age = {} /\ NoAnswers.game = {}
  /\ NoAnswers.text = NoText /\ NoAnswers.tier = {}
BY DEF NoAnswers

LEMMA EmptyIsAnswer == ASSUME NEW S PROVE {} \in AtMostOne(S)
BY DEF AtMostOne

\* Nothing is under way where every chain is still to be started.
LEMMA InitInv == SignInInit => IInv
<1> SUFFICES ASSUME SignInInit PROVE IInv
  OBVIOUS
<1>1. (CHOOSE a \in Accounts : TRUE) \in Accounts
  BY SignInAssumption
<1>2. /\ signIns \in [Ids -> [step : {"none", "google", "over"} \cup Requests,
                           account : Accounts]]
      /\ \A i \in Ids : signIns[i].step = "none"
  BY <1>1 DEF SignInInit
<1>3. myInfo \in [age : Nat, gender : Genders, gameID : Texts,
                 tier : TierNumbers, pk : Nat]
  BY OnboardingAssumption DEF SignInInit, Genders, TierNumbers
<1>4. TypeOK
  <2>1. /\ answers.gender = {} /\ answers.age = {} /\ answers.game = {}
        /\ answers.text = NoText /\ answers.tier = {}
        /\ DOMAIN answers = DOMAIN NoAnswers
    BY NoAnswersType DEF SignInInit
  <2>2. screen \in Login .. Tabs
    BY DEF SignInInit, Login, Tabs
  <2> QED
    BY <1>3, <2>1, <2>2, EmptyIsAnswer DEF SignInInit, TypeOK
<1>5. SignInTypeOK
  BY <1>2, <1>4 DEF SignInTypeOK, SignInInit
<1>6. OneChain /\ ModelFollowsChain
  BY <1>2 DEF OneChain, ModelFollowsChain, UnderWay, Requests
<1>7. LoginIsFresh /\ AnswersKept
  BY NoAnswersType DEF SignInInit, LoginIsFresh, AnswersKept, ShownIsStored
<1>8. StepsAnswered
  <2>1. \A s \in Steps : ~Answered(s) /\ ~(s < screen)
    <3>1. /\ answers.gender = {} /\ answers.game = {}
          /\ answers.text = NoText /\ answers.tier = {} /\ screen = 0
      BY NoAnswersType DEF SignInInit, Login
    <3> QED
      BY <3>1 DEF Answered, Steps
  <2> QED
    BY <2>1 DEF StepsAnswered, SignInInit
<1> QED
  BY <1>5, <1>6, <1>7, <1>8 DEF IInv

-----------------------------------------------------------------------------
\* The types of the screens survive every action of onboarding.
LEMMA TypeStep ==
  ASSUME TypeOK, OnboardingNext
  PROVE  TypeOK'
<1> USE DEF TypeOK, AtMostOne, NoAnswers, Login, Tabs, Steps, Hear, Profile,
            DebugProfile, TierNumbers, Genders
<1>1. CASE \E a \in Ages : DidSelectRow(a)
  BY <1>1, OnboardingAssumption DEF DidSelectRow, AgeRows
<1>2. CASE TapDoneAge
  BY <1>2 DEF TapDoneAge
<1>3. CASE \E g \in Genders : DidTapSelectGender(g)
  BY <1>3 DEF DidTapSelectGender
<1>4. CASE BackToLogin
  <2>1. /\ answers'.gender = {} /\ answers'.age = {} /\ answers'.game = {}
        /\ answers'.text = NoText /\ answers'.tier = {}
        /\ DOMAIN answers' = DOMAIN NoAnswers
    BY <1>4 DEF BackToLogin, NewScreens
  <2>2. /\ screen' = 0 /\ enabled' = {} /\ clear' = FALSE /\ loaded' = FALSE
        /\ myInfo' = myInfo
    BY <1>4 DEF BackToLogin, NewScreens
  <2>3. /\ answers'.gender \in AtMostOne(Genders)
        /\ answers'.game \in AtMostOne(Games)
        /\ answers'.tier \in AtMostOne(Tiers)
    BY <2>1, EmptyIsAnswer
  <2>4. answers'.age \subseteq Nat /\ answers'.text \in GameIDs \cup {NoText}
    BY <2>1
  <2>5. screen' \in Login .. Tabs /\ enabled' \subseteq Steps
    BY <2>2
  <2>6. clear' \in BOOLEAN /\ loaded' \in BOOLEAN
    BY <2>2
  <2>7. myInfo' \in [age : Nat, gender : Genders, gameID : Texts,
                    tier : TierNumbers, pk : Nat]
    BY <2>2
  <2> QED
    BY <2>1, <2>3, <2>4, <2>5, <2>6, <2>7
<1>5. CASE \E g \in Games : DidTapGame(g)
  BY <1>5 DEF DidTapGame
<1>6. CASE PopGame
  BY <1>6 DEF PopGame
<1>7. CASE \E t \in GameIDs \cup {NoText} : TextFieldStatus(t)
  BY <1>7 DEF TextFieldStatus, NotEmpty
<1>8. CASE DidTapClear
  BY <1>8 DEF DidTapClear
<1>9. CASE TapDoneGameID
  BY <1>9, OnboardingAssumption, ZenonT(60) DEF TapDoneGameID, NoText
<1>10. CASE PopGameID
  BY <1>10 DEF PopGameID
<1>11. CASE \E t \in Tiers : DidTapTier(t)
  BY <1>11, OnboardingAssumption DEF DidTapTier
<1>12. CASE PopTier
  BY <1>12 DEF PopTier
<1>13. CASE \E s \in Steps : DidTapNext(s)
  <2>1. DebugProfile \in [age : Nat, gender : Genders, gameID : Texts,
                          tier : TierNumbers, pk : Nat]
    BY OnboardingAssumption
  <2>2. /\ screen' \in Login .. Tabs /\ loaded' \in BOOLEAN
        /\ myInfo' \in [age : Nat, gender : Genders, gameID : Texts,
                        tier : TierNumbers, pk : Nat]
    BY <1>13, <2>1 DEF DidTapNext
  <2>3. UNCHANGED <<answers, enabled, clear>>
    BY <1>13 DEF DidTapNext
  <2> QED
    BY <2>2, <2>3
<1>14. CASE PopProfile
  BY <1>14 DEF PopProfile
<1>15. CASE SettingRootViewController
  BY <1>15 DEF SettingRootViewController
<1> QED
  BY <1>1, <1>2, <1>3, <1>4, <1>5, <1>6, <1>7, <1>8, <1>9, <1>10, <1>11,
     <1>12, <1>13, <1>14, <1>15 DEF OnboardingNext

\* Onboarding is only touched when no chain is alone; the button of a step
\* follows its answer.
LEMMA AnsweredStep ==
  ASSUME TypeOK, StepsAnswered, OnboardingNext
  PROVE  StepsAnswered'
<1> USE DEF StepsAnswered, Answered, Steps, Hear, CanLeaveFirst, NotEmpty, TypeOK
<1>1. CASE \E a \in Ages : DidSelectRow(a)
  BY <1>1 DEF DidSelectRow
<1>2. CASE TapDoneAge
  BY <1>2 DEF TapDoneAge, NoAnswers
<1>3. CASE \E g \in Genders : DidTapSelectGender(g)
  BY <1>3 DEF DidTapSelectGender, NoAnswers
<1>4. CASE BackToLogin
  <2>1. /\ answers'.gender = {} /\ answers'.game = {}
        /\ answers'.text = NoText /\ answers'.tier = {}
        /\ screen' = 0 /\ enabled' = {}
    BY <1>4, NoAnswersType DEF BackToLogin, NewScreens, Login
  <2> QED
    BY <2>1
<1>5. CASE \E g \in Games : DidTapGame(g)
  BY <1>5 DEF DidTapGame, NoAnswers
<1>6. CASE PopGame
  BY <1>6 DEF PopGame, NoAnswers
<1>7. CASE \E t \in GameIDs \cup {NoText} : TextFieldStatus(t)
  BY <1>7 DEF TextFieldStatus, NoAnswers
<1>8. CASE DidTapClear
  BY <1>8 DEF DidTapClear, NoAnswers
<1>9. CASE TapDoneGameID
  BY <1>9 DEF TapDoneGameID
<1>10. CASE PopGameID
  BY <1>10 DEF PopGameID, NoAnswers
<1>11. CASE \E t \in Tiers : DidTapTier(t)
  BY <1>11 DEF DidTapTier, NoAnswers
<1>12. CASE PopTier
  BY <1>12 DEF PopTier, NoAnswers
<1>13. CASE \E s \in Steps : DidTapNext(s)
  BY <1>13 DEF DidTapNext
<1>14. CASE PopProfile
  BY <1>14 DEF PopProfile, Profile
<1>15. CASE SettingRootViewController
  BY <1>15 DEF SettingRootViewController, Profile, Tabs
<1> QED
  BY <1>1, <1>2, <1>3, <1>4, <1>5, <1>6, <1>7, <1>8, <1>9, <1>10, <1>11,
     <1>12, <1>13, <1>14, <1>15 DEF OnboardingNext

\* Gender and tier go to the model with the tap that shows them, and nothing
\* is answered on the login screen.
LEMMA StoredStep ==
  ASSUME TypeOK, LoginIsFresh, OnboardingNext
  PROVE  LoginIsFresh' /\ (ShownIsStored => ShownIsStored')
<1> USE DEF LoginIsFresh, ShownIsStored, TypeOK, NoAnswers, Login, Steps,
            Profile, Tabs
<1>1. CASE \E a \in Ages : DidSelectRow(a)
  BY <1>1 DEF DidSelectRow
<1>2. CASE TapDoneAge
  BY <1>2 DEF TapDoneAge
<1>3. CASE \E g \in Genders : DidTapSelectGender(g)
  BY <1>3 DEF DidTapSelectGender
<1>4. CASE BackToLogin
  BY <1>4, NoAnswersType DEF BackToLogin, NewScreens
<1>5. CASE \E g \in Games : DidTapGame(g)
  BY <1>5 DEF DidTapGame
<1>6. CASE PopGame
  BY <1>6 DEF PopGame
<1>7. CASE \E t \in GameIDs \cup {NoText} : TextFieldStatus(t)
  BY <1>7 DEF TextFieldStatus
<1>8. CASE DidTapClear
  BY <1>8 DEF DidTapClear
<1>9. CASE TapDoneGameID
  BY <1>9 DEF TapDoneGameID
<1>10. CASE PopGameID
  BY <1>10 DEF PopGameID
<1>11. CASE \E t \in Tiers : DidTapTier(t)
  BY <1>11 DEF DidTapTier
<1>12. CASE PopTier
  BY <1>12 DEF PopTier
<1>13. CASE \E s \in Steps : DidTapNext(s)
  <2>1. PICK s \in Steps : DidTapNext(s)
    BY <1>13
  <2>2. /\ screen' = s + 1 /\ answers' = answers
        /\ loaded' \/ (~loaded /\ myInfo' = myInfo) \/ loaded
    BY <2>1 DEF DidTapNext
  <2>3. loaded => loaded'
    BY <2>1 DEF DidTapNext
  <2> QED
    BY <2>2, <2>3
<1>14. CASE PopProfile
  BY <1>14 DEF PopProfile
<1>15. CASE SettingRootViewController
  BY <1>15 DEF SettingRootViewController
<1> QED
  BY <1>1, <1>2, <1>3, <1>4, <1>5, <1>6, <1>7, <1>8, <1>9, <1>10, <1>11,
     <1>12, <1>13, <1>14, <1>15 DEF OnboardingNext

LEMMA NotOnLogin == OnboardingNext => screen # Login
<1> USE DEF Login, Steps, Profile
<1>1. (\E a \in Ages : DidSelectRow(a)) \/ TapDoneAge \/ BackToLogin
        \/ (\E g \in Genders : DidTapSelectGender(g)) => screen = 1
  BY DEF DidSelectRow, TapDoneAge, BackToLogin, DidTapSelectGender
<1>2. (\E g \in Games : DidTapGame(g)) \/ PopGame => screen = 2
  BY DEF DidTapGame, PopGame
<1>3. (\E t \in GameIDs \cup {NoText} : TextFieldStatus(t)) \/ DidTapClear
        \/ TapDoneGameID \/ PopGameID => screen = 3
  BY DEF TextFieldStatus, DidTapClear, TapDoneGameID, PopGameID
<1>4. (\E t \in Tiers : DidTapTier(t)) \/ PopTier => screen = 4
  BY DEF DidTapTier, PopTier
<1>5. PopProfile \/ SettingRootViewController => screen = 5
  BY DEF PopProfile, SettingRootViewController
<1>6. ASSUME NEW s \in Steps, DidTapNext(s) PROVE screen # 0
  BY <1>6 DEF DidTapNext
<1> QED
  BY <1>1, <1>2, <1>3, <1>4, <1>5, <1>6 DEF OnboardingNext

\* A step of onboarding: no chain is alone under way, for the screen is not
\* the login screen.
LEMMA OnboardingStep ==
  ASSUME IInv, OnboardingNext, UNCHANGED <<signIns, overlap, failed>>
  PROVE  IInv'
<1>1. TypeOK'
  BY TypeStep DEF IInv, SignInTypeOK
<1>2. StepsAnswered'
  BY AnsweredStep DEF IInv, SignInTypeOK
<1>3. screen # Login
  BY NotOnLogin
<1>4. OneChain' /\ ModelFollowsChain'
  <2>1. ~overlap => \A i \in Ids : ~UnderWay(i)
    BY <1>3 DEF IInv, OneChain
  <2> QED
    BY <2>1 DEF OneChain, ModelFollowsChain, UnderWay, Requests
<1>5. LoginIsFresh' /\ AnswersKept'
  <2>1. overlap' = overlap /\ TypeOK /\ LoginIsFresh
    BY DEF IInv, SignInTypeOK
  <2>2. LoginIsFresh' /\ (ShownIsStored => ShownIsStored')
    BY <2>1, StoredStep
  <2> QED
    BY <2>1, <2>2 DEF IInv, AnswersKept
<1> QED
  BY <1>1, <1>2, <1>4, <1>5 DEF IInv, SignInTypeOK

-----------------------------------------------------------------------------
\* What a chain does to the chains: it is alone or two were under way.
LEMMA ChainStep ==
  ASSUME IInv, NEW i \in Ids, NEW step \in {"google", "over"} \cup Requests,
         NEW a \in Accounts, UnderWay(i),
         signIns' = [signIns EXCEPT ![i] = [step |-> step, account |-> a]],
         overlap' = overlap, screen' = screen \/ step = "over"
  PROVE  /\ signIns' \in [Ids -> [step : {"none", "google", "over"} \cup Requests,
                                  account : Accounts]]
         /\ OneChain'
         /\ ~overlap => screen = Login /\ \A j \in Ids : UnderWay(j)' => j = i
<1>1. signIns \in [Ids -> [step : {"none", "google", "over"} \cup Requests,
                          account : Accounts]]
  BY DEF IInv, SignInTypeOK
<1>2. /\ signIns' \in [Ids -> [step : {"none", "google", "over"} \cup Requests,
                               account : Accounts]]
      /\ signIns'[i] = [step |-> step, account |-> a]
      /\ \A j \in Ids \ {i} : signIns'[j] = signIns[j]
  BY <1>1
<1>3. ~overlap => screen = Login /\ \A j \in Ids : UnderWay(j) => j = i
  BY DEF IInv, OneChain
<1>4. /\ UnderWay(i)' => step # "over"
      /\ \A j \in Ids \ {i} : UnderWay(j)' <=> UnderWay(j)
  BY <1>2 DEF UnderWay, Requests
<1> QED
  BY <1>2, <1>3, <1>4 DEF OneChain

\* The first step of a new stack of screens, or the screens as they were,
\* under a model that has changed: on the login screen nothing was answered.
LEMMA ScreensStep ==
  ASSUME IInv, overlap' = overlap, ~overlap => screen = Login,
         StayOnScreen \/ OpenOnboarding
  PROVE  /\ StepsAnswered' /\ LoginIsFresh' /\ AnswersKept'
         /\ screen' \in Login .. Tabs /\ DOMAIN answers' = DOMAIN NoAnswers
         /\ answers'.gender \in AtMostOne(Genders) /\ answers'.age \subseteq Nat
         /\ answers'.game \in AtMostOne(Games)
         /\ answers'.text \in GameIDs \cup {NoText}
         /\ answers'.tier \in AtMostOne(Tiers) /\ enabled' \subseteq Steps
         /\ clear' \in BOOLEAN /\ loaded' \in BOOLEAN
<1>1. CASE StayOnScreen
  <2>1. UNCHANGED <<screen, answers, enabled, clear, loaded>>
    BY <1>1 DEF StayOnScreen
  <2>2. StepsAnswered' /\ LoginIsFresh'
    BY <2>1 DEF IInv, StepsAnswered, Answered, LoginIsFresh
  <2>3. AnswersKept'
    BY <2>1 DEF IInv, AnswersKept, LoginIsFresh, ShownIsStored
  <2> QED
    BY <2>1, <2>2, <2>3 DEF IInv, SignInTypeOK, TypeOK
<1>2. CASE OpenOnboarding
  <2>1. /\ screen' = 1 /\ enabled' = {} /\ clear' = FALSE /\ loaded' = FALSE
        /\ DOMAIN answers' = DOMAIN NoAnswers
    BY <1>2 DEF OpenOnboarding, NewScreens
  <2>2. /\ answers'.gender = {} /\ answers'.age = {} /\ answers'.game = {}
        /\ answers'.text = NoText /\ answers'.tier = {}
    BY <1>2, NoAnswersType DEF OpenOnboarding, NewScreens
  <2>3. StepsAnswered' /\ LoginIsFresh' /\ AnswersKept'
    BY <2>1, <2>2
       DEF StepsAnswered, Answered, Steps, LoginIsFresh, Login, AnswersKept,
           ShownIsStored
  <2>4. /\ answers'.gender \in AtMostOne(Genders)
        /\ answers'.game \in AtMostOne(Games)
        /\ answers'.tier \in AtMostOne(Tiers)
    BY <2>2, EmptyIsAnswer
  <2>5. answers'.age \subseteq Nat /\ answers'.text \in GameIDs \cup {NoText}
    BY <2>2
  <2>6. screen' \in Login .. Tabs /\ enabled' \subseteq Steps
    BY <2>1 DEF Login, Tabs
  <2>7. clear' \in BOOLEAN /\ loaded' \in BOOLEAN
    BY <2>1
  <2> QED
    BY <2>1, <2>3, <2>4, <2>5, <2>6, <2>7
<1> QED
  BY <1>1, <1>2

\* A chain makes its next call or ends: what is left to show is that the
\* model holds what it brought.
LEMMA CallStep ==
  ASSUME IInv, NEW i \in Ids, UnderWay(i), overlap' = overlap,
         failed' \in BOOLEAN,
         NEW step \in {"google", "over"} \cup Requests, NEW a \in Accounts,
         signIns' = [signIns EXCEPT ![i] = [step |-> step, account |-> a]],
         StayOnScreen \/ (OpenOnboarding /\ step = "over"),
         myInfo' \in [age : Nat, gender : Genders, gameID : Texts,
                     tier : TierNumbers, pk : Nat],
         ~overlap => /\ step = "getGame" =>
                          /\ myInfo'.age = Data[a].profile.age
                          /\ myInfo'.gender = Data[a].profile.gender
                          /\ myInfo'.pk = Data[a].profile.pk
                     /\ step = "getManner" => myInfo' = Data[a].profile
  PROVE  IInv'
<1>1. screen' = screen \/ step = "over"
  BY DEF StayOnScreen
<1>2. /\ signIns' \in [Ids -> [step : {"none", "google", "over"} \cup Requests,
                               account : Accounts]]
      /\ OneChain'
      /\ ~overlap => screen = Login /\ \A j \in Ids : UnderWay(j)' => j = i
  BY <1>1, ChainStep
<1>3. /\ StepsAnswered' /\ LoginIsFresh' /\ AnswersKept'
      /\ TypeOK'
  BY <1>2, ScreensStep DEF TypeOK
<1>4. ModelFollowsChain'
  <2>1. signIns'[i].step = step /\ signIns'[i].account = a
    BY DEF IInv, SignInTypeOK
  <2> SUFFICES ASSUME ~overlap, NEW j \in Ids
               PROVE  /\ signIns'[j].step = "getGame" =>
                           /\ myInfo'.age = Data[signIns'[j].account].profile.age
                           /\ myInfo'.gender = Data[signIns'[j].account].profile.gender
                           /\ myInfo'.pk = Data[signIns'[j].account].profile.pk
                      /\ signIns'[j].step = "getManner" =>
                           myInfo' = Data[signIns'[j].account].profile
    BY DEF ModelFollowsChain
  <2>2. CASE j = i
    BY <2>1, <2>2
  <2>3. CASE j # i
    BY <1>2, <2>3 DEF UnderWay, Requests
  <2> QED
    BY <2>2, <2>3
<1>5. overlap' \in BOOLEAN
  BY DEF IInv, SignInTypeOK
<1> QED
  BY <1>2, <1>3, <1>4, <1>5 DEF IInv, SignInTypeOK

\* Only the call changes, not the account.
LEMMA SameAccount ==
  ASSUME SignInTypeOK, NEW i \in Ids, NEW step, Step(i, step)
  PROVE  /\ signIns[i].account \in Accounts
         /\ signIns' = [signIns EXCEPT
                         ![i] = [step |-> step, account |-> signIns[i].account]]
<1>1. signIns \in [Ids -> [step : {"none", "google", "over"} \cup Requests,
                          account : Accounts]]
  BY DEF SignInTypeOK
<1>2. signIns[i].account \in Accounts
  BY <1>1
<1>3. [signIns[i] EXCEPT !.step = step]
        = [step |-> step, account |-> signIns[i].account]
  BY <1>1
<1> QED
  BY <1>2, <1>3 DEF Step

\* The login button starts a chain; it was not alone if one was under way.
LEMMA TapStep ==
  ASSUME IInv, NEW i \in Ids, DidTapButtonAction(i)
  PROVE  IInv'
<1>1. /\ screen = Login /\ signIns[i].step = "none"
      /\ overlap' = (overlap \/ \E j \in Ids : UnderWay(j))
      /\ UNCHANGED <<screen, answers, enabled, clear, loaded, myInfo, failed>>
      /\ Step(i, "google")
  BY DEF DidTapButtonAction, onboardingVars
<1>2. /\ signIns' = [signIns EXCEPT
                      ![i] = [step |-> "google", account |-> signIns[i].account]]
      /\ signIns[i].account \in Accounts
  BY <1>1, SameAccount DEF IInv
<1>3. /\ signIns' \in [Ids -> [step : {"none", "google", "over"} \cup Requests,
                               account : Accounts]]
      /\ signIns'[i].step = "google"
      /\ \A j \in Ids \ {i} : signIns'[j] = signIns[j]
  BY <1>2 DEF IInv, SignInTypeOK
<1>4. OneChain'
  BY <1>1, <1>3 DEF OneChain, UnderWay, Requests
<1>5. ModelFollowsChain'
  BY <1>1, <1>3 DEF ModelFollowsChain, UnderWay, Requests
<1>6. SignInTypeOK'
  <2>1. TypeOK' /\ overlap' \in BOOLEAN /\ failed' \in BOOLEAN
    BY <1>1 DEF IInv, SignInTypeOK, TypeOK
  <2> QED
    BY <1>3, <2>1 DEF SignInTypeOK
<1>7. StepsAnswered' /\ LoginIsFresh'
  BY <1>1 DEF IInv, StepsAnswered, Answered, LoginIsFresh
<1>8. AnswersKept'
  BY <1>1 DEF IInv, LoginIsFresh, AnswersKept, ShownIsStored
<1> QED
  BY <1>4, <1>5, <1>6, <1>7, <1>8 DEF IInv

\* The completions of one chain, in the order of its calls.
LEMMA AnswerStep ==
  ASSUME IInv, NEW i \in Ids,
         \/ \E a \in Accounts : GoogleAnswers(i, a)
         \/ GoogleRefuses(i) \/ Answer(i) \/ RequestFails(i)
  PROVE  IInv'
<1> DEFINE b    == signIns[i].account
           Info == [age : Nat, gender : Genders, gameID : Texts,
                    tier : TierNumbers, pk : Nat]
<1>1. /\ SignInTypeOK /\ b \in Accounts /\ myInfo \in Info
      /\ failed \in BOOLEAN
  BY DEF IInv, SignInTypeOK, TypeOK
<1>2. Data[b].profile \in Info /\ Data[b].nickName \in Texts
  BY <1>1, DataType
<1>3. CASE \E a \in Accounts : GoogleAnswers(i, a)
  <2>1. PICK a \in Accounts : GoogleAnswers(i, a)
    BY <1>3
  <2>2. /\ signIns[i].step = "google" /\ overlap' = overlap /\ failed' = failed
        /\ signIns' = [signIns EXCEPT ![i] = [step |-> "signUp", account |-> a]]
        /\ StayOnScreen /\ myInfo' = myInfo
    BY <2>1 DEF GoogleAnswers, onboardingVars, StayOnScreen
  <2>3. UnderWay(i)
    BY <2>2 DEF UnderWay
  <2> QED
    BY <1>1, <2>2, <2>3, CallStep DEF Requests
<1>4. CASE GoogleRefuses(i)
  <2>1. /\ signIns[i].step = "google" /\ overlap' = overlap /\ failed' = failed
        /\ Step(i, "over") /\ StayOnScreen /\ myInfo' = myInfo
    BY <1>4 DEF GoogleRefuses, onboardingVars, StayOnScreen
  <2>2. UnderWay(i)
    BY <2>1 DEF UnderWay
  <2>3. signIns' = [signIns EXCEPT ![i] = [step |-> "over", account |-> b]]
    BY <1>1, <2>1, SameAccount
  <2> QED
    BY <1>1, <2>1, <2>2, <2>3, CallStep DEF Requests
<1>5. CASE RequestFails(i)
  <2>1. /\ signIns[i].step \in Requests /\ overlap' = overlap /\ failed' = TRUE
        /\ Step(i, "over") /\ StayOnScreen /\ myInfo' = myInfo
    BY <1>5 DEF RequestFails, onboardingVars, StayOnScreen
  <2>2. UnderWay(i)
    BY <2>1 DEF UnderWay
  <2>3. signIns' = [signIns EXCEPT ![i] = [step |-> "over", account |-> b]]
    BY <1>1, <2>1, SameAccount
  <2> QED
    BY <1>1, <2>1, <2>2, <2>3, CallStep, ZenonT(60) DEF Requests
<1>6. CASE SignUpAnswers(i)
  <2> DEFINE next == IF Data[b].login THEN "getGame" ELSE "over"
  <2>1. /\ signIns[i].step = "signUp" /\ overlap' = overlap /\ failed' = failed
        /\ Step(i, next)
        /\ StayOnScreen \/ (OpenOnboarding /\ next = "over")
        /\ myInfo' = [myInfo EXCEPT !.age = Data[b].profile.age,
                                    !.gender = Data[b].profile.gender,
                                    !.gameID = Data[b].nickName,
                                    !.pk = Data[b].profile.pk]
    BY <1>6 DEF SignUpAnswers
  <2>2. UnderWay(i)
    BY <2>1 DEF UnderWay, Requests
  <2>3. signIns' = [signIns EXCEPT ![i] = [step |-> next, account |-> b]]
    BY <1>1, <2>1, SameAccount, SMTT(60)
  <2>4. /\ myInfo' \in Info
        /\ myInfo'.age = Data[b].profile.age
        /\ myInfo'.gender = Data[b].profile.gender
        /\ myInfo'.pk = Data[b].profile.pk
    BY <1>1, <1>2, <2>1
  <2>5. next \in {"google", "over"} \cup Requests /\ next # "getManner"
    BY DEF Requests
  <2> HIDE DEF next
  <2> QED
    BY <1>1, <2>1, <2>2, <2>3, <2>4, <2>5, CallStep, ZenonT(60)
<1>7. CASE GetGameAnswers(i)
  <2>1. /\ signIns[i].step = "getGame" /\ overlap' = overlap /\ failed' = failed
        /\ StayOnScreen
    BY <1>7 DEF GetGameAnswers
  <2>2. UnderWay(i)
    BY <2>1 DEF UnderWay, Requests
  <2>3. CASE Data[b].hasGame
    <3> DEFINE next == IF Data[b].profile.gameID # NoText THEN "getManner" ELSE "over"
    <3>1. /\ Step(i, next)
          /\ myInfo' = [myInfo EXCEPT !.pk = Data[b].profile.pk,
                                      !.gameID = Data[b].profile.gameID,
                                      !.tier = Data[b].profile.tier]
      BY <1>7, <2>3 DEF GetGameAnswers
    <3>2. signIns' = [signIns EXCEPT ![i] = [step |-> next, account |-> b]]
      BY <1>1, <3>1, SameAccount, SMTT(60)
    <3>3. myInfo' \in Info
      BY <1>1, <1>2, <3>1
    <3>4. ASSUME ~overlap PROVE myInfo' = Data[b].profile
      <4>1. /\ myInfo.age = Data[b].profile.age
            /\ myInfo.gender = Data[b].profile.gender
        BY <2>1, <3>4 DEF IInv, ModelFollowsChain
      <4> QED
        BY <1>1, <1>2, <3>1, <4>1
    <3>5. next \in {"google", "over"} \cup Requests /\ next # "getGame"
      BY DEF Requests
    <3> HIDE DEF next
    <3> QED
      BY <1>1, <2>1, <2>2, <3>2, <3>3, <3>4, <3>5, CallStep
  <2>4. CASE ~Data[b].hasGame
    <3>1. Step(i, "over") /\ myInfo' = myInfo
      BY <1>7, <2>4 DEF GetGameAnswers
    <3>2. signIns' = [signIns EXCEPT ![i] = [step |-> "over", account |-> b]]
      BY <1>1, <3>1, SameAccount
    <3> QED
      BY <1>1, <2>1, <2>2, <3>1, <3>2, CallStep DEF Requests
  <2> QED
    BY <2>3, <2>4
<1>8. CASE GetMannerAnswers(i)
  <2>1. /\ signIns[i].step = "getManner" /\ overlap' = overlap
        /\ failed' = failed /\ myInfo' = myInfo /\ Step(i, "over")
        /\ StayOnScreen \/ OpenOnboarding
    BY <1>8 DEF GetMannerAnswers
  <2>2. UnderWay(i)
    BY <2>1 DEF UnderWay, Requests
  <2>3. signIns' = [signIns EXCEPT ![i] = [step |-> "over", account |-> b]]
    BY <1>1, <2>1, SameAccount
  <2> QED
    BY <1>1, <2>1, <2>2, <2>3, CallStep DEF Requests
<1> QED
  BY <1>3, <1>4, <1>5, <1>6, <1>7, <1>8 DEF Answer

LEMMA InvStep == IInv /\ [SignInNext]_vars => IInv'
<1> SUFFICES ASSUME IInv, [SignInNext]_vars PROVE IInv'
  OBVIOUS
<1>1. CASE OnboardingNext /\ UNCHANGED <<signIns, overlap, failed>>
  BY <1>1, OnboardingStep
<1>2. ASSUME NEW i \in Ids, DidTapButtonAction(i) PROVE IInv'
  BY <1>2, TapStep
<1>3. ASSUME NEW i \in Ids,
             \/ \E a \in Accounts : GoogleAnswers(i, a)
             \/ GoogleRefuses(i) \/ Answer(i) \/ RequestFails(i)
      PROVE  IInv'
  BY <1>3, AnswerStep
<1>4. CASE UNCHANGED vars
  BY <1>4 DEF vars, onboardingVars, IInv, SignInTypeOK, TypeOK, OneChain,
              ModelFollowsChain, UnderWay, LoginIsFresh, StepsAnswered, Answered,
              AnswersKept, ShownIsStored
<1> QED
  BY <1>1, <1>2, <1>3, <1>4 DEF SignInNext

LEMMA InvHolds == SignInSpec => []IInv
BY InitInv, InvStep, PTL DEF SignInSpec

-----------------------------------------------------------------------------
\* Users who sign in once at a time leave no call behind the screens of
\* onboarding or the tabs (GoogleAuthentication.signIn and its completions).
THEOREM NoCallBehind == SignInSpec => []NothingLeftBehind
<1>1. IInv => NothingLeftBehind
  BY DEF IInv, OneChain, NothingLeftBehind
<1> QED
  BY <1>1, InvHolds, PTL

\* When the manner score is asked for, what three replies wrote to the model
\* one after the other is the profile of one user.
THEOREM NoMixedProfile == SignInSpec => []OneUsersProfile
<1>1. IInv => OneUsersProfile
  BY DEF IInv, ModelFollowsChain, OneUsersProfile
<1> QED
  BY <1>1, InvHolds, PTL

\* If no two sign-ins overlapped, gender and tier on show are the ones stored,
\* until the profile screen overwrites the model.
THEOREM ShownAnswersStored == SignInSpec => []AnswersKept
<1>1. IInv => AnswersKept
  BY DEF IInv
<1> QED
  BY <1>1, InvHolds, PTL

\* The Next buttons follow the answers and every step below the screen on top
\* has its answer, however the user goes back and forth.
THEOREM EveryStepAnswered == SignInSpec => []StepsAnswered
<1>1. IInv => StepsAnswered
  BY DEF IInv
<1> QED
  BY <1>1, InvHolds, PTL
=============================================================================
