---------------------------- MODULE MakeMatching ----------------------------
(***************************************************************************)
(* The form that makes a room: MakeMatchingViewController with its tier    *)
(* screen, MakeMatchingModel and RoomService.postRoom.                     *)
(*                                                                         *)
(* What the user enters goes to MakeMatchingModel, one object for the      *)
(* whole app; what the user sees belongs to the controllers, which are new *)
(* each time the form is opened.  The confirm button sends the model to    *)
(* the backend.  When the backend and then the home list have answered,    *)
(* the completion pops the navigation stack of the form that asked and     *)
(* initializes the model, whatever has happened in between.                *)
(*                                                                         *)
(* The start date is module StartDate's.                                   *)
(***************************************************************************)
EXTENDS Integers, Sequences, SequencesExt

CONSTANTS
  Titles,        \* titles a user may type
  Empty,         \* the empty title, or no game
  Games,         \* games that can be chosen
  TopTier,       \* the highest tier (challenger, 7 in the app)
  MaxRequests    \* bound: creations in flight

AllTier == -1    \* the raw value of "all tiers"
Tiers   == 0..TopTier
TierChoices == Tiers \cup {AllTier}

ASSUME MakeMatchingAssumption ==
  /\ Empty \notin Titles \cup Games
  /\ TopTier \in Nat
  /\ MaxRequests \in Nat

VARIABLES
  screen,        \* what is on top: home list, form or tier screen
  form,          \* the form on the navigation stack, 0 for none
  model,         \* MakeMatchingModel.shared
  display,       \* what the form's controllers show
  requests,      \* creations in flight
  tabBarHidden,
  clean          \* history: the form was opened over an initialized model,
                 \* which nothing else changed and the clear button left alone

vars == <<screen, form, model, display, requests, tabBarHidden, clean>>

Forms == 1..(MaxRequests + 1)

Model == [title : Titles \cup {Empty}, count : 1..4, game : Games \cup {Empty},
          voice : BOOLEAN,
          lowest : Tiers, highest : Tiers]
Display == [title : Titles \cup {Empty}, count : 1..4, game : Games \cup {Empty},
            voice : SUBSET BOOLEAN,
            lowest : TierChoices, highest : TierChoices]

Initialized == [title |-> Empty, count |-> 1, game |-> Empty, voice |-> FALSE,
                lowest |-> 0, highest |-> TopTier]

\* The labels and buttons of controllers that were just made.
Fresh == [title |-> Empty, count |-> 1, game |-> Empty, voice |-> {},
          lowest |-> AllTier, highest |-> AllTier]

\* The tiers that selectTierRange says may join, given its two arguments.
SaidToJoin(lowest, highest) ==
  CASE lowest = AllTier /\ highest = AllTier -> Tiers
    [] lowest = AllTier /\ highest # AllTier -> {t \in Tiers : t <= highest}
    [] lowest # AllTier /\ highest = AllTier -> {t \in Tiers : lowest <= t}
    [] OTHER -> IF lowest > highest THEN Tiers ELSE lowest..highest

\* The range that the form shows, and the one a room's join screen shows.
ShownOnForm == SaidToJoin(display.lowest, display.highest)
ShownToJoin(room) == SaidToJoin(room.lowest_tier, room.highest_tier)

\* The parameters of postRoom, the two tiers under each other's name.  The
\* game is sent as "league of legends" whatever was chosen; that it was chosen
\* is what is kept here.
Parameters ==
  [room_name |-> model.title, people_number |-> model.count,
   game_name |-> model.game,
   voice_chat |-> model.voice,
   highest_tier |-> model.lowest, lowest_tier |-> model.highest]

-----------------------------------------------------------------------------
Init ==
  /\ screen = "home"
  /\ form = 0
  /\ model = Initialized
  /\ display = Fresh
  /\ requests = <<>>
  /\ tabBarHidden = FALSE
  /\ clean = FALSE

\* The names left for a new form: those of no form that waits for an answer.
NewForms == {f \in Forms : \A i \in DOMAIN requests : requests[i].form # f}

\* The create button of the home list pushes a new form.
OpenForm ==
  /\ screen = "home"
  /\ screen' = "form"
  /\ form' = CHOOSE f \in NewForms : \A g \in NewForms : f <= g
  /\ display' = Fresh
  /\ tabBarHidden' = TRUE
  /\ clean' = (model = Initialized)
  /\ UNCHANGED <<model, requests>>

\* The form leaves the stack; the model keeps what was entered.
LeaveForm ==
  /\ screen' = "home"
  /\ form' = 0
  /\ display' = Fresh
  /\ clean' = FALSE

\* The x button.
PopViewController ==
  /\ screen = "form"
  /\ LeaveForm
  /\ tabBarHidden' = FALSE
  /\ UNCHANGED <<model, requests>>

(* Filling in the form *)

\* A step of the user on the form or on the tier screen that sets some fields
\* of the model and some of the display.
Enter(where, newModel, newDisplay) ==
  /\ screen = where
  /\ model' = newModel
  /\ display' = newDisplay
  /\ UNCHANGED <<screen, form, requests, tabBarHidden, clean>>

\* Typing in the title field.
EditedRoomTitle(title) ==
  Enter("form", [model EXCEPT !.title = title], [display EXCEPT !.title = title])

\* The clear button empties the field; removing the text by code is no
\* editingChanged event, so the model keeps the title.
ClearRoomTitle ==
  /\ screen = "form"
  /\ display.title # Empty
  /\ display' = [display EXCEPT !.title = Empty]
  /\ clean' = FALSE
  /\ UNCHANGED <<screen, form, model, requests, tabBarHidden>>

\* The two count buttons: the model's count moves within 1..4 and the label
\* shows the result.
CountUp ==
  LET count == IF model.count >= 4 THEN 4 ELSE model.count + 1
  IN  Enter("form", [model EXCEPT !.count = count], [display EXCEPT !.count = count])

\* Variant: the label is counted on its own.
CountDownLabel ==
  LET count == IF model.count <= 1 THEN 1 ELSE model.count - 1
  IN  Enter("form", [model EXCEPT !.count = count],
            [display EXCEPT !.count = IF @ = 1 THEN 1 ELSE count + 1])

CountDown ==
  LET count == IF model.count <= 1 THEN 1 ELSE model.count - 1
  IN  Enter("form", [model EXCEPT !.count = count], [display EXCEPT !.count = count])

\* A game button.
DidTapGame(game) ==
  Enter("form", [model EXCEPT !.game = game], [display EXCEPT !.game = game])

\* The two voice chat buttons: one of them is selected from the first tap on.
DidTapVoiceChat(possible) ==
  Enter("form", [model EXCEPT !.voice = possible],
        [display EXCEPT !.voice = {possible}])

\* The tier screen is pushed over the form, and popped by its back button.
DidTapChangeTierRange ==
  /\ screen = "form"
  /\ screen' = "tier"
  /\ UNCHANGED <<form, model, display, requests, tabBarHidden, clean>>

PopTierScreen ==
  /\ screen = "tier"
  /\ screen' = "form"
  /\ UNCHANGED <<form, model, display, requests, tabBarHidden, clean>>

\* The buttons of the smallest and of the largest tier: "all tiers" means the
\* end of the scale to the model, and -1 to the label.
DidTapSmallestTier(choice) ==
  Enter("tier",
        [model EXCEPT !.lowest = IF choice = AllTier THEN 0 ELSE choice],
        [display EXCEPT !.lowest = choice])

DidTapLargestTier(choice) ==
  Enter("tier",
        [model EXCEPT !.highest = IF choice = AllTier THEN TopTier ELSE choice],
        [display EXCEPT !.highest = choice])

-----------------------------------------------------------------------------
(* Making the room *)

\* Whether the confirm button posts; otherwise it only shows an alert.
MayPost == model.title # Empty /\ model.count # 1 /\ model.game # Empty

\* The confirm button.  Nothing disables it while a request is in flight.
DidTapMakeMatchingRoom ==
  /\ screen = "form"
  /\ MayPost
  /\ Len(requests) < MaxRequests
  /\ requests' = Append(requests, [form |-> form, step |-> "post"])
  /\ UNCHANGED <<screen, form, model, display, tabBarHidden, clean>>

\* The backend made the room and answered with its pk: the home list is asked.
RoomPosted(i) ==
  /\ requests[i].step = "post"
  /\ requests' = [requests EXCEPT ![i].step = "get"]
  /\ UNCHANGED <<screen, form, model, display, tabBarHidden, clean>>

\* Variant: the completion pops whatever stack is there.
FinishPoppingAny(i) ==
  /\ requests[i].step = "get"
  /\ requests' = RemoveAt(requests, i)
  /\ model' = Initialized
  /\ IF screen = "form" THEN LeaveForm
     ELSE /\ screen' = IF screen = "tier" THEN "form" ELSE screen
          /\ clean' = FALSE
          /\ UNCHANGED <<form, display>>
  /\ UNCHANGED tabBarHidden

\* The home list answered: the top of the asking form's stack is popped, which
\* is the tier screen if that is open and nothing if the form has gone; the
\* model is initialized either way.  The tab bar stays hidden.
Finish(i) ==
  /\ requests[i].step = "get"
  /\ requests' = RemoveAt(requests, i)
  /\ model' = Initialized
  /\ IF requests[i].form = form /\ screen = "form" THEN LeaveForm
     ELSE /\ screen' = IF requests[i].form = form THEN "form" ELSE screen
          /\ clean' = FALSE
          /\ UNCHANGED <<form, display>>
  /\ UNCHANGED tabBarHidden

\* One of the two requests fails, or the backend answers with something that
\* is no pk: the completion is never called, and nothing tells the user.
Fail(i) ==
  /\ requests' = RemoveAt(requests, i)
  /\ UNCHANGED <<screen, form, model, display, tabBarHidden, clean>>

-----------------------------------------------------------------------------
Fill ==
  \/ \E title \in Titles \cup {Empty} : EditedRoomTitle(title)
  \/ ClearRoomTitle
  \/ CountUp \/ CountDown
  \/ \E game \in Games : DidTapGame(game)
  \/ \E possible \in BOOLEAN : DidTapVoiceChat(possible)
  \/ DidTapChangeTierRange \/ PopTierScreen
  \/ \E choice \in TierChoices : DidTapSmallestTier(choice) \/ DidTapLargestTier(choice)

Next ==
  \/ OpenForm \/ PopViewController \/ Fill \/ DidTapMakeMatchingRoom
  \/ \E i \in DOMAIN requests : RoomPosted(i) \/ Finish(i) \/ Fail(i)

Spec == Init /\ [][Next]_vars
-----------------------------------------------------------------------------
(* Properties *)

\* The state is well formed; the count stays within 1..4 (countJoinPeople:41-67).
TypeOK ==
  /\ screen \in {"home", "form", "tier"}
  /\ form \in Forms \cup {0}
  /\ model \in Model
  /\ display \in Display
  /\ requests \in Seq([form : Forms, step : {"post", "get"}])
  /\ tabBarHidden \in BOOLEAN
  /\ clean \in BOOLEAN

\* The choices as the model holds them: no button of voice chat means none.
AsModel(d) ==
  [title |-> d.title, count |-> d.count, game |-> d.game, voice |-> TRUE \in d.voice,
   lowest |-> IF d.lowest = AllTier THEN 0 ELSE d.lowest,
   highest |-> IF d.highest = AllTier THEN TopTier ELSE d.highest]

\* As long as no late reply of a creation empties the model and the clear
\* button is not used, a form opened over an initialized model shows what the
\* model holds: what the user sees is what would be sent.
CleanFormShowsModel == clean => model = AsModel(display)

\* A form only ever leaves the stack by its x button or by the answer to a
\* request it sent itself, never by the late answer to an earlier form's; and
\* only the x button leaves anything in the model (didTapMake:189-199,
\* initialized:25-33).
FormClosedByItself ==
  [][ form # 0 /\ form' = 0 /\ ~PopViewController =>
        /\ \E i \in DOMAIN requests :
             requests[i].form = form /\ requests[i].step = "get"
        /\ model' = Initialized ]_vars

\* "Iron or above", "iron or below" (TierToString:56 and 94): a player who
\* opens the room should be told the range that the form said.
TierRangeKept ==
  [][ DidTapMakeMatchingRoom /\ clean =>
        ShownToJoin(Parameters) = ShownOnForm ]_vars
=============================================================================
