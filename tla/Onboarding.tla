----------------------------- MODULE Onboarding -----------------------------
(***************************************************************************)
(* The onboarding of a new user: four screens that ask for gender and age, *)
(* a game, the id used in it and the tier, and a profile screen that opens *)
(* the tab bar.  A screen is pushed by the Next button of the one before,  *)
(* which its view model enables when it hears of an answer; the answers    *)
(* themselves go to the MyInfoModel singleton, screen by screen and not    *)
(* all at the same moment.  Every screen is made once, by the screen       *)
(* before it, and pushed again after it was left: what its back button     *)
(* does not reset is still there.                                          *)
(*                                                                         *)
(* Left out: the profile photo and its sheet, the transitions, and the     *)
(* fields of MyInfoModel that no screen of onboarding asks for, except pk. *)
(***************************************************************************)
EXTENDS Naturals

CONSTANTS
  Texts,     \* what a game id in MyInfoModel may be
  Ages,      \* rows of the age picker
  Games,     \* the games to choose from
  Tiers,     \* the tiers to choose from
  GameIDs,   \* texts a user may type
  Profiles   \* what MyInfoModel may hold when onboarding opens

(* The user that the profile screen writes over whoever logged in.         *)
DebugProfile ==
  [age |-> 25, gender |-> 0, gameID |-> "PreyIOS", tier |-> 2, pk |-> 7]

Genders == {0, 1}
AgeRows == 20 .. 70     \* OnboardingModel.ages
TierNumbers == 0 .. 7   \* iron to challenger
NoText == ""

(* The window: the login screen, the steps, the profile screen, the tabs.  *)
Login == 0
Steps == 1 .. 4
Profile == 5
Tabs == 6

ASSUME OnboardingAssumption ==
  /\ Ages \subseteq AgeRows
  /\ Tiers \subseteq TierNumbers
  /\ GameIDs \cup {NoText, DebugProfile.gameID} \subseteq Texts
  /\ NoText \notin GameIDs
  /\ Profiles \subseteq [age : Nat, gender : Genders, gameID : Texts,
                           tier : TierNumbers, pk : Nat]

VARIABLES
  screen,    \* what is on top of the window
  answers,   \* selected buttons, the confirmed age, the text of the field
  enabled,   \* the steps whose Next button is enabled
  clear,     \* the clear button of the text field is visible
  loaded,    \* viewDidLoad of the profile screen has run
  myInfo     \* MyInfoModel.shared

onboardingVars == <<screen, answers, enabled, clear, loaded, myInfo>>

NoAnswers ==
  [gender |-> {}, age |-> {}, game |-> {}, text |-> NoText, tier |-> {}]

AtMostOne(S) == {{}} \cup {{x} : x \in S}

(* Type invariant of the screens and of the model they share.              *)
TypeOK ==
  /\ screen \in Login .. Tabs
  /\ DOMAIN answers = DOMAIN NoAnswers
  /\ answers.gender \in AtMostOne(Genders)
  /\ answers.age \subseteq Nat
  /\ answers.game \in AtMostOne(Games)
  /\ answers.text \in GameIDs \cup {NoText}
  /\ answers.tier \in AtMostOne(Tiers)
  /\ enabled \subseteq Steps
  /\ clear \in BOOLEAN
  /\ loaded \in BOOLEAN
  /\ myInfo \in [age : Nat, gender : Genders, gameID : Texts,
                 tier : TierNumbers, pk : Nat]

(* A new stack of screens: every Next button starts disabled, and the view *)
(* of the profile screen is not loaded.                                    *)
NewScreens ==
  /\ answers' = NoAnswers
  /\ enabled' = {}
  /\ clear' = FALSE
  /\ loaded' = FALSE

Init ==
  /\ screen = 1
  /\ answers = NoAnswers
  /\ enabled = {}
  /\ clear = FALSE
  /\ loaded = FALSE
  /\ myInfo \in Profiles

(* A subject of the view model hears whether the step is answered.         *)
Hear(s, ok) == enabled' = IF ok THEN enabled \cup {s} ELSE enabled \ {s}

(* The checks of the view model: a game, an id or a tier is not empty.     *)
NotEmpty(text) == text # NoText

-----------------------------------------------------------------------------
(* Step 1: gender and age.                                                 *)

(* Both subjects have spoken, the age is not 0 and the gender is known.    *)
CanLeaveFirst(gender, age) ==
  /\ gender # {}
  /\ age \notin {{}, {0}}

(* The picker writes to the model as it turns, before it is confirmed; its *)
(* Close button only puts it away.                                         *)
DidSelectRow(a) ==
  /\ screen = 1
  /\ myInfo' = [myInfo EXCEPT !.age = a]
  /\ UNCHANGED <<screen, answers, enabled, clear, loaded>>

TapDoneAge ==
  /\ screen = 1
  /\ answers' = [answers EXCEPT !.age = {myInfo.age}]
  /\ Hear(1, CanLeaveFirst(answers.gender, {myInfo.age}))
  /\ UNCHANGED <<screen, clear, loaded, myInfo>>

DidTapSelectGender(g) ==
  /\ screen = 1
  /\ answers' = [answers EXCEPT !.gender = {g}]
  /\ myInfo' = [myInfo EXCEPT !.gender = g]
  /\ Hear(1, CanLeaveFirst({g}, answers.age))
  /\ UNCHANGED <<screen, clear, loaded>>

(* Back from the first step: the window gets a new login screen.           *)
BackToLogin ==
  /\ screen = 1
  /\ screen' = Login
  /\ NewScreens
  /\ UNCHANGED myInfo

-----------------------------------------------------------------------------
(* Step 2: the game.  The choice is shown and goes nowhere else.           *)

DidTapGame(g) ==
  /\ screen = 2
  /\ answers' = [answers EXCEPT !.game = {g}]
  /\ Hear(2, TRUE)
  /\ UNCHANGED <<screen, clear, loaded, myInfo>>

PopGame ==
  /\ screen = 2
  /\ answers' = [answers EXCEPT !.game = {}]
  /\ Hear(2, FALSE)
  /\ screen' = 1
  /\ UNCHANGED <<clear, loaded, myInfo>>

-----------------------------------------------------------------------------
(* Step 3: the id.  Typing is heard of; a field emptied by code is not.    *)

(* Variant: only the first character is heard of.                          *)
TextFieldStatusOnce(t) ==
  /\ screen = 3
  /\ t # answers.text
  /\ answers' = [answers EXCEPT !.text = t]
  /\ clear' = NotEmpty(t)
  /\ Hear(3, NotEmpty(t) /\ ~clear)
  /\ UNCHANGED <<screen, loaded, myInfo>>
TextFieldStatus(t) ==
  /\ screen = 3
  /\ t # answers.text
  /\ answers' = [answers EXCEPT !.text = t]
  /\ clear' = NotEmpty(t)
  /\ Hear(3, NotEmpty(t))
  /\ UNCHANGED <<screen, loaded, myInfo>>

DidTapClear ==
  /\ screen = 3
  /\ clear
  /\ answers' = [answers EXCEPT !.text = NoText]
  /\ clear' = FALSE
  /\ UNCHANGED <<screen, enabled, loaded, myInfo>>

(* The button above the keyboard is the only one that stores the id.       *)
TapDoneGameID ==
  /\ screen = 3
  /\ myInfo' = [myInfo EXCEPT !.gameID = answers.text]
  /\ UNCHANGED <<screen, answers, enabled, clear, loaded>>

PopGameID ==
  /\ screen = 3
  /\ answers' = [answers EXCEPT !.text = NoText]
  /\ screen' = 2
  /\ UNCHANGED <<enabled, clear, loaded, myInfo>>

-----------------------------------------------------------------------------
(* Step 4: the tier.                                                       *)

DidTapTier(t) ==
  /\ screen = 4
  /\ answers' = [answers EXCEPT !.tier = {t}]
  /\ myInfo' = [myInfo EXCEPT !.tier = t]
  /\ Hear(4, TRUE)
  /\ UNCHANGED <<screen, clear, loaded>>

(* Variant: the view model does not hear.                                  *)
PopTierQuietly ==
  /\ screen = 4
  /\ answers' = [answers EXCEPT !.tier = {}]
  /\ screen' = 3
  /\ UNCHANGED <<enabled, clear, loaded, myInfo>>
PopTier ==
  /\ screen = 4
  /\ answers' = [answers EXCEPT !.tier = {}]
  /\ Hear(4, FALSE)
  /\ screen' = 3
  /\ UNCHANGED <<clear, loaded, myInfo>>

-----------------------------------------------------------------------------
(* From step to step.  The profile screen overwrites the model when its    *)
(* view is loaded, which is the first time it is pushed.                   *)

(* Variant: the model is overwritten one screen earlier.                   *)
DidTapNextEarly(s) ==
  /\ screen = s
  /\ s \in enabled
  /\ screen' = s + 1
  /\ loaded' = (loaded \/ s + 1 = Profile)
  /\ myInfo' = IF s + 1 = 4 /\ ~loaded THEN DebugProfile ELSE myInfo
  /\ UNCHANGED <<answers, enabled, clear>>
DidTapNext(s) ==
  /\ screen = s
  /\ s \in enabled
  /\ screen' = s + 1
  /\ loaded' = (loaded \/ s + 1 = Profile)
  /\ myInfo' = IF s + 1 = Profile /\ ~loaded THEN DebugProfile ELSE myInfo
  /\ UNCHANGED <<answers, enabled, clear>>

PopProfile ==
  /\ screen = Profile
  /\ screen' = 4
  /\ UNCHANGED <<answers, enabled, clear, loaded, myInfo>>

SettingRootViewController ==
  /\ screen = Profile
  /\ screen' = Tabs
  /\ UNCHANGED <<answers, enabled, clear, loaded, myInfo>>

-----------------------------------------------------------------------------
(* What the user does between the login screen and the tabs.               *)
OnboardingNext ==
  \/ \E a \in Ages : DidSelectRow(a)
  \/ TapDoneAge
  \/ \E g \in Genders : DidTapSelectGender(g)
  \/ BackToLogin
  \/ \E g \in Games : DidTapGame(g)
  \/ PopGame
  \/ \E t \in GameIDs \cup {NoText} : TextFieldStatus(t)
  \/ DidTapClear
  \/ TapDoneGameID
  \/ PopGameID
  \/ \E t \in Tiers : DidTapTier(t)
  \/ PopTier
  \/ \E s \in Steps : DidTapNext(s)
  \/ PopProfile
  \/ SettingRootViewController

(* Signing in, here in one step: module SignIn has the requests it takes.  *)
LogIn(p) ==
  /\ screen = Login
  /\ screen' = 1
  /\ NewScreens
  /\ myInfo' = p

Next == OnboardingNext \/ \E p \in Profiles : LogIn(p)

Spec == Init /\ [][Next]_onboardingVars

-----------------------------------------------------------------------------
Answered(s) ==
  \/ s = 1 /\ answers.gender # {} /\ answers.age \notin {{}, {0}}
  \/ s = 2 /\ answers.game # {}
  \/ s = 3 /\ answers.text # NoText
  \/ s = 4 /\ answers.tier # {}

(* The Next button of a step follows what the step shows, however often it *)
(* was left and pushed again, and below the screen on top every step has   *)
(* its answer, so that the tabs are only reached by users who gave gender, *)
(* age, game and tier.  Only at step 3 may the button stay enabled after   *)
(* the text was emptied by code (textFieldStatus:204-228,                  *)
(* setNextButtonStatus:77-96).                                             *)
StepsAnswered ==
  \A s \in Steps :
    /\ Answered(s) => s \in enabled
    /\ s \in enabled \/ s < screen => Answered(s) \/ s = 3

(* Until the profile screen overwrites the model, the gender and the tier  *)
(* on show are the ones the model holds, whatever was left and answered    *)
(* again before.                                                           *)
ShownIsStored ==
  ~loaded => /\ answers.gender \subseteq {myInfo.gender}
             /\ answers.tier \subseteq {myInfo.tier}

(* GameService reads the id back as the one written in onboarding: the     *)
(* tabs open with the id that step 3 shows.                                *)
GameIDFromOnboarding == screen = Tabs => myInfo.gameID = answers.text
=============================================================================
