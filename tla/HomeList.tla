------------------------------ MODULE HomeList ------------------------------
(***************************************************************************)
(* The list of rooms of the home tab.                                      *)
(*                                                                         *)
(* HomeListModel.gameList is replaced by every reply to getRoom, which     *)
(* three callers ask for: the tab when it is loaded, the refresh control   *)
(* and the form that has made a room.  The tab lays out its views only     *)
(* when the first of these is answered, the spinner stops only when the    *)
(* second is, and none asks again after a failure.                         *)
(*                                                                         *)
(* The backend handles a request at one moment and the reply arrives at    *)
(* another, or never.  What it knows of the rooms is its free seats, which *)
(* players take and never give back.                                       *)
(***************************************************************************)
EXTENDS Naturals, Sequences, SequencesExt

CONSTANTS
  OpenRooms,   \* rooms the backend offers
  Seats,       \* free seats of a room at first
  MaxLists     \* bound: list requests in flight

ASSUME HomeListAssumption ==
  /\ Seats \in Nat
  /\ MaxLists \in Nat \ {0}

Callers == {"viewDidLoad", "refresh", "form"}
Offers == [OpenRooms -> 0 .. Seats]

VARIABLES
  free,        \* backend: free seats of each room
  lists,       \* getRoom requests in flight
  gameList,    \* HomeListModel.gameList: the seats it shows, or none
  laidOut,     \* the views of the tab are laid out
  refreshing,  \* the spinner of the refresh control turns
  overtaken,   \* history: two list requests since none was in flight
  lost         \* history: callers of getRoom that were left unanswered

homeVars == <<free, lists, gameList, laidOut, refreshing, overtaken, lost>>

NoList == [r \in {} |-> 0]
ListRequest(caller) == [caller |-> caller, answered |-> FALSE, rooms |-> NoList]

(* viewDidLoad has asked for the list.                                     *)
HomeInit ==
  /\ free = [r \in OpenRooms |-> Seats]
  /\ lists = <<ListRequest("viewDidLoad")>>
  /\ gameList = NoList
  /\ laidOut = FALSE
  /\ refreshing = FALSE
  /\ overtaken = FALSE
  /\ lost = {}

-----------------------------------------------------------------------------
(* Another player takes a seat.                                            *)
OtherJoins(r) ==
  /\ free[r] > 0
  /\ free' = [free EXCEPT ![r] = @ - 1]
  /\ UNCHANGED <<lists, gameList, laidOut, refreshing, overtaken, lost>>

GetRoom(caller) ==
  /\ Len(lists) < MaxLists
  /\ lists' = Append(lists, ListRequest(caller))
  /\ overtaken' = (overtaken \/ lists # <<>>)

(* Pulling the table down; a control that is refreshing does not fire.     *)
RefreshTableView ==
  /\ laidOut /\ ~refreshing
  /\ refreshing' = TRUE
  /\ GetRoom("refresh")
  /\ UNCHANGED <<free, gameList, laidOut, lost>>

(* The form has made a room and asks for the list (module MakeMatching).   *)
RoomMade ==
  /\ laidOut
  /\ GetRoom("form")
  /\ UNCHANGED <<free, gameList, laidOut, refreshing, lost>>

BackendLists(i) ==
  /\ ~lists[i].answered
  /\ lists' = [lists EXCEPT ![i].answered = TRUE, ![i].rooms = free]
  /\ UNCHANGED <<free, gameList, laidOut, refreshing, overtaken,
                 lost>>

TakeOut(i) ==
  /\ lists' = RemoveAt(lists, i)
  /\ overtaken' = (overtaken /\ Len(lists) > 1)

(* A reply replaces the list; then comes the completion of the caller.     *)
ReplyShows(i, rooms, turning) ==
  /\ lists[i].answered
  /\ gameList' = rooms
  /\ laidOut' = (laidOut \/ lists[i].caller = "viewDidLoad")
  /\ refreshing' = turning
  /\ TakeOut(i)
  /\ UNCHANGED <<free, lost>>

StillTurning(i) == refreshing /\ lists[i].caller # "refresh"

(* Variants: only new rooms are shown anew; no reply stops the spinner.    *)
ReceiveListMerging(i) ==
  ReplyShows(i, [r \in OpenRooms |-> IF r \in DOMAIN gameList THEN Seats
                                 ELSE lists[i].rooms[r]], StillTurning(i))
ReceiveListTurning(i) == ReplyShows(i, lists[i].rooms, refreshing)

ReceiveList(i) == ReplyShows(i, lists[i].rooms, StillTurning(i))

(* No completion: nothing is laid out, no spinner stops.                   *)
ListFails(i) ==
  /\ lost' = lost \cup {lists[i].caller}
  /\ TakeOut(i)
  /\ UNCHANGED <<free, gameList, laidOut, refreshing>>

-----------------------------------------------------------------------------
HomeTouched == RefreshTableView

HomeAnswered ==
  \/ \E r \in OpenRooms : OtherJoins(r)
  \/ RoomMade
  \/ \E i \in DOMAIN lists : BackendLists(i) \/ ReceiveList(i) \/ ListFails(i)

(* Every request is answered or times out.                                 *)
HomeFairness ==
  WF_homeVars(lists # <<>> /\ (BackendLists(1) \/ ReceiveList(1) \/ ListFails(1)))

-----------------------------------------------------------------------------
(* Seats are only ever taken.  While no two list requests overlap, the     *)
(* list never goes back to an earlier state of the backend.                *)
ListNeverOlder ==
  [][~overtaken => \A r \in DOMAIN gameList : gameList'[r] <= gameList[r]]_homeVars

(* A refresh comes to its end unless its reply is lost.                    *)
RefreshEnds == refreshing ~> (~refreshing \/ "refresh" \in lost)
=============================================================================
