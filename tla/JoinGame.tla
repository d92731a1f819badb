------------------------------ MODULE JoinGame ------------------------------
(***************************************************************************)
(* Joining a room of the home list.                                        *)
(*                                                                         *)
(* A tap on a row pushes a new SelectJoinGameViewController, which keeps a *)
(* copy of the room and one chat screen.  Its button posts the room of the *)
(* shared model, and the answer pushes that chat screen if the join screen *)
(* is still on the stack; the button stays enabled all the while.          *)
(*                                                                         *)
(* The backend is modelled by what it must keep: seats, a start, and who   *)
(* has joined.  It handles a request at one moment and the reply arrives   *)
(* at another, or never.  Alerts, which change nothing, are left out, and  *)
(* so is what happens in the chat (module ChatRoom).                       *)
(***************************************************************************)
EXTENDS Naturals, Sequences, SequencesExt

CONSTANTS
  Rooms,       \* rooms of the backend, all in the list
  NoRoom,      \* no room is selected
  Seats,       \* free seats of a room at first
  MaxJoins     \* bound: join requests in flight

ASSUME JoinGameAssumption ==
  /\ NoRoom \notin Rooms
  /\ Seats \in Nat
  /\ MaxJoins \in Nat

Screens == 1 .. (MaxJoins + 1)   \* identities of join screens, used again

VARIABLES
  free,           \* backend: free seats of each room
  started,        \* rooms whose start date has passed
  members,        \* backend: rooms the user has joined
  top,            \* what is on top: home, join or chat, or a crash
  joinScreen,     \* the join screen on the stack: its identity and its room
  joinEnabled,    \* its button is enabled
  selectedRoomPk, \* JoinChattingModel.selectedRoomPk
  joins,          \* postRoomUser requests in flight
  hurried,        \* history: a join screen had two requests in flight
  entered,        \* history: rooms whose chat was shown
  slipped         \* history: rooms joined by a reply that was lost or late

backVars == <<free, started, members>>
joinVars == <<backVars, top, joinScreen, joinEnabled, selectedRoomPk, joins,
          hurried, entered, slipped>>

NoScreen == [id |-> 0, room |-> NoRoom]

JoinInit ==
  /\ free = [r \in Rooms |-> Seats]
  /\ started = {}
  /\ members = {}
  /\ top = "home"
  /\ joinScreen = NoScreen
  /\ joinEnabled = FALSE
  /\ selectedRoomPk = NoRoom
  /\ joins = <<>>
  /\ hurried = FALSE
  /\ entered = {}
  /\ slipped = {}

-----------------------------------------------------------------------------
(* The rest of the world: other players take seats, games start.           *)

OtherJoins(r) ==
  /\ free[r] > 0
  /\ free' = [free EXCEPT ![r] = @ - 1]
  /\ UNCHANGED <<started, members, top, joinScreen, joinEnabled,
                 selectedRoomPk, joins, hurried, entered, slipped>>

Starts(r) ==
  /\ r \notin started
  /\ started' = started \cup {r}
  /\ UNCHANGED <<free, members, top, joinScreen, joinEnabled,
                 selectedRoomPk, joins, hurried, entered, slipped>>

-----------------------------------------------------------------------------
(* Join screens that no request is still waiting for.                      *)
NewScreens == {s \in Screens : \A i \in DOMAIN joins : joins[i].screen # s}

(* viewDidLoad of a new join screen selects its room.                      *)
ViewDidLoad(r) ==
  /\ joinScreen' = [id |-> CHOOSE s \in NewScreens : \A t \in NewScreens : s <= t,
                    room |-> r]
  /\ selectedRoomPk' = r

(* What calculateStartTime calls "matching over": no second is left.       *)
MatchingOver(r) == r \in started

(* The row of a room.  The button is enabled once and for all.             *)
DidSelectRow(r) ==
  /\ top = "home"
  /\ top' = "join"
  /\ ViewDidLoad(r)
  /\ joinEnabled' = ~MatchingOver(r)
  /\ UNCHANGED <<backVars, joins, hurried, entered, slipped>>

DidTapJoinButton ==
  /\ top = "join" /\ joinEnabled
  /\ Len(joins) < MaxJoins
  /\ joins' = Append(joins, [screen |-> joinScreen.id, room |-> selectedRoomPk,
                             result |-> "none"])
  /\ hurried' = (hurried \/ \E i \in DOMAIN joins :
                              joins[i].screen = joinScreen.id)
  /\ UNCHANGED <<backVars, top, joinScreen, joinEnabled,
                 selectedRoomPk, entered, slipped>>

(* The backend gives a seat, or refuses; what it says to a user who has a  *)
(* seat already is not known.                                              *)
BackendSeats(i) ==
  LET r == joins[i].room
  IN /\ joins[i].result = "none"
     /\ \/ /\ r \notin members /\ free[r] > 0 /\ r \notin started
           /\ members' = members \cup {r}
           /\ free' = [free EXCEPT ![r] = @ - 1]
           /\ joins' = [joins EXCEPT ![i].result = "seat"]
        \/ /\ r \notin members /\ (free[r] = 0 \/ r \in started)
           /\ joins' = [joins EXCEPT ![i].result = "refused"]
           /\ UNCHANGED <<members, free>>
        \/ /\ r \in members
           /\ \E result \in {"seat", "refused"} :
                joins' = [joins EXCEPT ![i].result = result]
           /\ UNCHANGED <<members, free>>
     /\ UNCHANGED <<started, top, joinScreen, joinEnabled,
                    selectedRoomPk, hurried, entered, slipped>>

(* Variants: of the result, the wait and the screen.                       *)
ReceiveJoinAnyway(i) ==
  /\ joins[i].result # "none"
  /\ joins' = RemoveAt(joins, i)
  /\ IF joins[i].screen = joinScreen.id /\ top = "join"
       THEN top' = "chat" /\ entered' = entered \cup {joinScreen.room}
       ELSE UNCHANGED <<top, entered>>
  /\ UNCHANGED <<backVars, joinScreen, joinEnabled, selectedRoomPk,
                 hurried, slipped>>
ReceiveJoinUnseen(i) ==
  /\ joins[i].result # "none"
  /\ joins' = RemoveAt(joins, i)
  /\ IF joins[i].result = "seat" /\ joins[i].screen = joinScreen.id
        /\ top = "join" /\ Len(joins) = 1
       THEN top' = "chat" /\ entered' = entered \cup {joinScreen.room}
       ELSE UNCHANGED <<top, entered>>
  /\ UNCHANGED <<backVars, joinScreen, joinEnabled, selectedRoomPk,
                 hurried, slipped>>
ReceiveJoinPushing(i) ==
  /\ joins[i].result # "none"
  /\ joins' = RemoveAt(joins, i)
  /\ IF joins[i].result = "seat"
       THEN /\ top' = IF top = "chat" THEN "crash" ELSE "chat"
            /\ entered' = entered \cup {joins[i].room}
       ELSE UNCHANGED <<top, entered>>
  /\ UNCHANGED <<backVars, joinScreen, joinEnabled, selectedRoomPk,
                 hurried, slipped>>

(* A seat pushes the chat screen of the join screen that asked.  If that   *)
(* screen was popped nothing happens; if its chat is on the stack already, *)
(* UIKit stops the app.  A refusal shows an alert.                         *)
ReceiveJoin(i) ==
  LET here == joins[i].screen = joinScreen.id
  IN /\ joins[i].result # "none"
     /\ joins' = RemoveAt(joins, i)
     /\ \/ /\ joins[i].result = "seat" /\ here
           /\ top' = IF top = "chat" THEN "crash" ELSE "chat"
           /\ entered' = entered \cup {joinScreen.room}
           /\ UNCHANGED slipped
        \/ /\ joins[i].result = "seat" /\ ~here
           /\ slipped' = slipped \cup {joins[i].room}
           /\ UNCHANGED <<top, entered>>
        \/ /\ joins[i].result = "refused"
           /\ UNCHANGED <<top, entered, slipped>>
     /\ UNCHANGED <<backVars, joinScreen, joinEnabled,
                    selectedRoomPk, hurried>>

(* The request or its reply is lost, the seat perhaps taken.               *)
JoinFails(i) ==
  /\ joins' = RemoveAt(joins, i)
  /\ slipped' = IF joins[i].result = "seat" THEN slipped \cup {joins[i].room}
                                            ELSE slipped
  /\ UNCHANGED <<backVars, top, joinScreen, joinEnabled,
                 selectedRoomPk, hurried, entered>>

PopChat ==
  /\ top = "chat"
  /\ top' = "join"
  /\ UNCHANGED <<backVars, joinScreen, joinEnabled, selectedRoomPk,
                 joins, hurried, entered, slipped>>

PopJoin ==
  /\ top = "join"
  /\ top' = "home"
  /\ joinScreen' = NoScreen
  /\ joinEnabled' = FALSE
  /\ UNCHANGED <<backVars, selectedRoomPk, joins, hurried, entered,
                 slipped>>

-----------------------------------------------------------------------------
Move ==
  \/ \E r \in Rooms : OtherJoins(r) \/ Starts(r) \/ DidSelectRow(r)
  \/ DidTapJoinButton
  \/ PopChat
  \/ PopJoin
  \/ \E i \in DOMAIN joins : BackendSeats(i) \/ ReceiveJoin(i) \/ JoinFails(i)

(* A crash is the end.                                                     *)
JoinNext == top # "crash" /\ Move

JoinSpec == JoinInit /\ [][JoinNext]_joinVars

-----------------------------------------------------------------------------
(* Type invariant of joining.                                              *)
JoinTypeOK ==
  /\ free \in [Rooms -> 0 .. Seats]
  /\ started \subseteq Rooms /\ members \subseteq Rooms
  /\ top \in {"home", "join", "chat", "crash"}
  /\ joinScreen \in [id : Screens \cup {0}, room : Rooms \cup {NoRoom}]
  /\ joinEnabled \in BOOLEAN
  /\ selectedRoomPk \in Rooms \cup {NoRoom}
  /\ joins \in Seq([screen : Screens, room : Rooms,
                    result : {"none", "seat", "refused"}])
  /\ hurried \in BOOLEAN
  /\ entered \subseteq Rooms /\ slipped \subseteq Rooms

(* A chat is only entered with a seat in its room: answers that come late, *)
(* twice or for a screen that was left open no other room's chat.          *)
ChatOnlyWithSeat == top = "chat" => joinScreen.room \in members

(* Every seat is known to the user: its chat was shown, unless an answer   *)
(* is still awaited, or was lost or came when the screen had been left.    *)
SeatsAreKnown ==
  \A r \in members : \/ r \in entered \cup slipped
                     \/ \E i \in DOMAIN joins : joins[i].room = r
                                             /\ joins[i].result = "seat"

(* The app is only stopped by the second push of a chat if the join button *)
(* was tapped again before the first tap was answered.                     *)
CrashNeedsSecondTap == top = "crash" => hurried
=============================================================================
