----------------------------- MODULE MyMatching -----------------------------
(***************************************************************************)
(* The "my matchings" tab: MyMatchingViewController, MyMatchingModel and   *)
(* the two list requests of RoomService it shares them with.               *)
(*                                                                         *)
(* The tab has two buttons, "joined" and "made".  A tap selects the button *)
(* at once and asks the backend for that list; every reply, of either      *)
(* kind, replaces the one matchingList that the table shows.  Requests run *)
(* concurrently, nothing cancels one, and one that fails is forgotten, so  *)
(* replies arrive in any order or not at all.                              *)
(*                                                                         *)
(* The backend is not part of the repository: a reply holds any of the     *)
(* rooms its kind may list, so it also stands for rooms that come and go.  *)
(***************************************************************************)
EXTENDS Naturals, Sequences, SequencesExt

CONSTANTS
  Rooms,         \* rooms of the backend
  Led,           \* those whose leaderPk is the user
  NoChat,        \* "no chat screen is on top of the list"
  MaxRequests    \* bound: requests in flight

Kinds == {"joined", "made"}

ASSUME MyMatchingAssumption ==
  /\ Led \subseteq Rooms
  /\ NoChat \notin [room : Rooms, isJoinjang : BOOLEAN]
  /\ MaxRequests \in Nat \ {0}

VARIABLES
  loaded,        \* viewDidLoad has run
  ready,         \* setupView has put the views into the hierarchy
  selected,      \* the button that isSelected
  requests,      \* in flight, in the order they were sent
  matchingList,  \* MyMatchingModel.matchingList
  shown,         \* the views that are not hidden: table and placeholders
  chat,          \* the chat screen on top of the list
  tabBarHidden,
  newest         \* history: what became of the newest request

vars == <<loaded, ready, selected, requests, matchingList, shown, chat,
          tabBarHidden, newest>>

\* The rooms the backend lists for a kind.
Listable(kind) == IF kind = "made" THEN Led ELSE Rooms \ Led

\* What a completion block leaves visible.
Visible(kind, list) == IF list = {} THEN {kind} ELSE {"table"}

-----------------------------------------------------------------------------
Init ==
  /\ loaded = FALSE
  /\ ready = FALSE
  /\ selected = "joined"
  /\ requests = <<>>
  /\ matchingList = {}
  /\ shown = {"table"}
  /\ chat = NoChat
  /\ tabBarHidden = FALSE
  /\ newest = "awaited"

\* The tab is opened for the first time: the joined list is asked for, and
\* nothing is laid out until the reply is there.
ViewDidLoad ==
  /\ ~loaded
  /\ loaded' = TRUE
  /\ selected' = "joined"
  /\ requests' = Append(requests, [kind |-> "joined", first |-> TRUE])
  /\ tabBarHidden' = FALSE
  /\ newest' = "awaited"
  /\ UNCHANGED <<ready, matchingList, shown, chat>>

\* The user can touch the tab's own views.
OnScreen == ready /\ chat = NoChat

\* Variant: the tap asks for the list and forgets the buttons.
DidTapButtonUnselecting(kind) ==
  /\ OnScreen
  /\ Len(requests) < MaxRequests
  /\ requests' = Append(requests, [kind |-> kind, first |-> FALSE])
  /\ newest' = "awaited"
  /\ UNCHANGED <<loaded, ready, selected, matchingList, shown, chat,
                 tabBarHidden>>

\* A tap on one of the buttons, selected or not.
DidTapButton(kind) ==
  /\ OnScreen
  /\ Len(requests) < MaxRequests
  /\ selected' = kind
  /\ requests' = Append(requests, [kind |-> kind, first |-> FALSE])
  /\ newest' = "awaited"
  /\ UNCHANGED <<loaded, ready, matchingList, shown, chat, tabBarHidden>>

\* The completion block of a request.  The first one is setupView, which
\* hides the table when there is nothing in it and changes nothing otherwise.
Complete(request, list) ==
  IF request.first
  THEN /\ ready' = TRUE
       /\ shown' = IF list = {} THEN Visible("joined", list) ELSE shown
  ELSE /\ shown' = Visible(request.kind, list)
       /\ UNCHANGED ready

\* The newest request is the last of the queue while it is in flight.  Its
\* answer stands until the reply to an older one replaces it.
IsNewest(i) == newest = "awaited" /\ i = Len(requests)
AfterReply(i) ==
  IF IsNewest(i) THEN "answered"
  ELSE IF newest = "awaited" THEN "awaited" ELSE "overruled"
AfterFailure(i) == IF IsNewest(i) THEN "overruled" ELSE newest

\* Variant: an empty answer does not replace the list.
ReceiveNonempty(i) ==
  LET request == requests[i] IN
  \E list \in SUBSET Listable(request.kind) :
    /\ requests' = RemoveAt(requests, i)
    /\ matchingList' = IF list = {} THEN matchingList ELSE list
    /\ Complete(request, list)
    /\ newest' = AfterReply(i)
    /\ UNCHANGED <<loaded, selected, chat, tabBarHidden>>

\* The reply to the i-th pending request, which may have overtaken others.
\* The list and the completion belong to the request, not to the selection.
Receive(i) ==
  LET request == requests[i] IN
  \E list \in SUBSET Listable(request.kind) :
    /\ requests' = RemoveAt(requests, i)
    /\ matchingList' = list
    /\ Complete(request, list)
    /\ newest' = AfterReply(i)
    /\ UNCHANGED <<loaded, selected, chat, tabBarHidden>>

\* A request fails, or its reply cannot be decoded: only a line is printed.
\* If it is the first one the tab stays blank for good, and the model stops.
Fail(i) ==
  /\ requests' = RemoveAt(requests, i)
  /\ newest' = AfterFailure(i)
  /\ UNCHANGED <<loaded, ready, selected, matchingList, shown, chat,
                 tabBarHidden>>

\* A row is tapped: the chat of its room is pushed, as the leader's when the
\* made button is selected at that moment.
DidSelectRow(room) ==
  /\ OnScreen
  /\ "table" \in shown
  /\ room \in matchingList
  /\ chat' = [room |-> room, isJoinjang |-> selected = "made"]
  /\ tabBarHidden' = TRUE
  /\ UNCHANGED <<loaded, ready, selected, requests, matchingList, shown,
                 newest>>

\* The chat is popped and the list comes back.
ViewWillAppear ==
  /\ chat # NoChat
  /\ chat' = NoChat
  /\ tabBarHidden' = FALSE
  /\ UNCHANGED <<loaded, ready, selected, requests, matchingList, shown,
                 newest>>

Touched ==
  \/ \E kind \in Kinds : DidTapButton(kind)
  \/ \E room \in Rooms : DidSelectRow(room)
  \/ ViewWillAppear

Answered == \E i \in DOMAIN requests : Receive(i) \/ Fail(i)

-----------------------------------------------------------------------------
(* Properties *)

\* What is on the tab is the list of this kind, or its placeholder.
Shows(kind) ==
  IF matchingList = {} THEN shown = {kind} ELSE matchingList \subseteq Listable(kind)

\* Once the newest request is answered, and until the reply to an older one
\* overrules it, the tab shows the list of the selected button, whatever else
\* was lost, overtaken or is in flight (buttonsStatus:122-146, getJoinRoom:111,
\* getMakeRoom:144).
AnsweredSelectionShown == newest = "answered" => Shows(selected)

\* A room opened from such a list is opened as the leader's exactly when the
\* user leads it (didSelectRow:290-296).
AnsweredLeaderIsJoinjang ==
  [][ chat = NoChat /\ chat' # NoChat /\ newest = "answered" =>
        (chat'.isJoinjang <=> chat'.room \in Led) ]_vars

=============================================================================
