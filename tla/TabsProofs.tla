----------------------------- MODULE TabsProofs -----------------------------
(***************************************************************************)
(* Theorems about the two tabs with lists, for every set of rooms and      *)
(* every number of requests in flight.  The tabs share the tab bar only,   *)
(* so each has an invariant of its own.                                    *)
(***************************************************************************)
EXTENDS Tabs, Integers, SequenceTheorems, TLAPS

\* What is left of a sequence are elements of it.
LEMMA RemoveAtProperties ==
  ASSUME NEW S, NEW s \in Seq(S), NEW i \in DOMAIN s
  PROVE  /\ RemoveAt(s, i) \in Seq(S)
         /\ Len(RemoveAt(s, i)) = Len(s) - 1
         /\ \A j \in 1..(Len(s) - 1) :
              RemoveAt(s, i)[j] = IF j < i THEN s[j] ELSE s[j + 1]
  BY SMTT(60) DEF RemoveAt

-----------------------------------------------------------------------------
(* "My matchings".                                                         *)

Request == [kind : Kinds, first : BOOLEAN]

\* While the newest request is awaited it is the last in flight, for the
\* selected button; the request that lays out the tab is for the joined list.
NewestIsSelected ==
  /\ newest = "awaited" /\ requests # <<>> =>
       requests[Len(requests)].kind = selected
  /\ \A i \in DOMAIN requests : requests[i].first => requests[i].kind = "joined"

MatchingInv ==
  /\ requests \in Seq(Request)
  /\ NewestIsSelected
  /\ AnsweredSelectionShown

LEMMA RequestsType ==
  ASSUME MatchingInv
  PROVE  /\ Len(requests) \in Nat /\ DOMAIN requests = 1..Len(requests)
         /\ \A i \in DOMAIN requests : requests[i] \in Request
<1>1. requests \in Seq(Request)
  BY DEF MatchingInv
<1> QED
  BY <1>1, LenProperties, ElementOfSeq

LEMMA MatchingInitInv == Init => MatchingInv
<1> SUFFICES ASSUME Init PROVE MatchingInv
  OBVIOUS
<1>1. requests = <<>> /\ requests \in Seq(Request) /\ DOMAIN requests = {}
  BY EmptySeq DEF Init
<1> QED
  BY <1>1 DEF Init, MatchingInv, NewestIsSelected, AnsweredSelectionShown

\* A request is sent for the button that is selected now.
LEMMA AskStep ==
  ASSUME MatchingInv, NEW kind \in Kinds, NEW first \in BOOLEAN,
         first => kind = "joined",
         selected' = kind, newest' = "awaited",
         requests' = Append(requests, [kind |-> kind, first |-> first])
  PROVE  MatchingInv'
<1>1. [kind |-> kind, first |-> first] \in Request
  BY DEF Request
<1>2. requests \in Seq(Request)
  BY DEF MatchingInv
<1>3. /\ Len(requests) \in Nat /\ DOMAIN requests = 1..Len(requests)
  BY RequestsType
<1>4. /\ requests' \in Seq(Request)
      /\ Len(requests') = Len(requests) + 1
      /\ requests'[Len(requests) + 1] = [kind |-> kind, first |-> first]
      /\ \A i \in 1..Len(requests) : requests'[i] = requests[i]
  BY <1>1, <1>2, AppendProperties
<1>5. DOMAIN requests' = 1..(Len(requests) + 1)
  BY <1>4, LenProperties
<1>6. NewestIsSelected'
  <2>1. requests'[Len(requests')].kind = selected'
    BY <1>4
  <2>2. ASSUME NEW i \in DOMAIN requests', requests'[i].first
        PROVE  requests'[i].kind = "joined"
    <3>1. CASE i = Len(requests) + 1
      BY <1>4, <2>2, <3>1
    <3>2. CASE i \in 1..Len(requests)
      BY <1>3, <1>4, <2>2, <3>2 DEF MatchingInv, NewestIsSelected
    <3> QED
      BY <1>3, <1>5, <3>1, <3>2
  <2> QED
    BY <2>1, <2>2 DEF NewestIsSelected
<1> QED
  BY <1>4, <1>6 DEF MatchingInv, AnsweredSelectionShown

\* A request is taken out, answered or not.
LEMMA TakenOutStep ==
  ASSUME MatchingInv, NEW i \in DOMAIN requests, selected' = selected,
         requests' = RemoveAt(requests, i),
         newest' = "awaited" => newest = "awaited" /\ ~IsNewest(i)
  PROVE  requests' \in Seq(Request) /\ NewestIsSelected'
<1>1. requests \in Seq(Request)
  BY DEF MatchingInv
<1>2. /\ Len(requests) \in Nat /\ DOMAIN requests = 1..Len(requests)
  BY RequestsType
<1>3. /\ requests' \in Seq(Request)
      /\ Len(requests') = Len(requests) - 1
      /\ \A j \in 1..(Len(requests) - 1) :
           requests'[j] = IF j < i THEN requests[j] ELSE requests[j + 1]
  BY <1>1, RemoveAtProperties
<1>4. DOMAIN requests' = 1..(Len(requests) - 1)
  BY <1>3, LenProperties
<1>5. ASSUME newest' = "awaited", requests' # <<>>
      PROVE  requests'[Len(requests')].kind = selected'
  <2>1. newest = "awaited" /\ i # Len(requests)
    BY <1>5 DEF IsNewest
  <2>2. i < Len(requests) /\ Len(requests') >= 1
    BY <1>2, <1>3, <2>1
  <2>3. requests'[Len(requests')] = requests[Len(requests)]
    BY <1>2, <1>3, <2>2
  <2>4. requests # <<>>
    BY <1>2, <2>2, EmptySeq
  <2> QED
    BY <2>1, <2>3, <2>4 DEF MatchingInv, NewestIsSelected
<1>6. ASSUME NEW j \in DOMAIN requests', requests'[j].first
      PROVE  requests'[j].kind = "joined"
  <2>1. PICK k \in DOMAIN requests : requests'[j] = requests[k]
    BY <1>2, <1>3, <1>4
  <2> QED
    BY <1>6, <2>1 DEF MatchingInv, NewestIsSelected
<1> QED
  BY <1>3, <1>5, <1>6 DEF NewestIsSelected

\* The reply to the newest request shows its list, which is the selected one.
LEMMA ReceiveStep ==
  ASSUME MatchingInv, NEW i \in DOMAIN requests, Receive(i)
  PROVE  MatchingInv'
<1>1. PICK list \in SUBSET Listable(requests[i].kind) :
        /\ requests' = RemoveAt(requests, i)
        /\ matchingList' = list
        /\ Complete(requests[i], list)
        /\ newest' = AfterReply(i)
        /\ selected' = selected
  BY DEF Receive
<1>2. requests' \in Seq(Request) /\ NewestIsSelected'
  BY <1>1, TakenOutStep DEF AfterReply
<1>3. ASSUME newest' = "answered" PROVE Shows(selected)'
  <2>1. IsNewest(i)
    BY <1>1, <1>3 DEF AfterReply
  <2>2. requests # <<>> /\ i = Len(requests) /\ newest = "awaited"
    BY <2>1, EmptySeq DEF IsNewest
  <2>3. requests[i].kind = selected /\ (requests[i].first => selected = "joined")
    BY <2>2 DEF MatchingInv, NewestIsSelected
  <2>4. list = {} => shown' = {selected}
    BY <1>1, <2>3 DEF Complete, Visible
  <2> QED
    BY <1>1, <2>3, <2>4 DEF Shows
<1> QED
  BY <1>2, <1>3 DEF MatchingInv, AnsweredSelectionShown

LEMMA FailStep ==
  ASSUME MatchingInv, NEW i \in DOMAIN requests, Fail(i)
  PROVE  MatchingInv'
<1>1. /\ requests' = RemoveAt(requests, i) /\ newest' = AfterFailure(i)
      /\ UNCHANGED <<selected, matchingList, shown>>
  BY DEF Fail
<1>2. requests' \in Seq(Request) /\ NewestIsSelected'
  BY <1>1, TakenOutStep DEF AfterFailure
<1>3. newest' = "answered" => newest = "answered"
  BY <1>1 DEF AfterFailure
<1> QED
  BY <1>1, <1>2, <1>3 DEF MatchingInv, AnsweredSelectionShown, Shows

LEMMA MatchingStep == MatchingInv /\ [TabsNext]_tabsVars => MatchingInv'
<1> SUFFICES ASSUME MatchingInv, [TabsNext]_tabsVars PROVE MatchingInv'
  OBVIOUS
<1>1. CASE UNCHANGED <<requests, newest, selected, matchingList, shown>>
  BY <1>1 DEF MatchingInv, NewestIsSelected, AnsweredSelectionShown, Shows
<1>2. CASE ViewDidLoad
  BY <1>2, AskStep DEF ViewDidLoad, Kinds
<1>3. ASSUME NEW kind \in Kinds, DidTapButton(kind) PROVE MatchingInv'
  BY <1>3, AskStep DEF DidTapButton
<1>4. ASSUME NEW i \in DOMAIN requests, Receive(i) \/ Fail(i) PROVE MatchingInv'
  BY <1>4, ReceiveStep, FailStep
<1> QED
  BY <1>1, <1>2, <1>3, <1>4
     DEF TabsNext, tabsVars, vars, SelectHome, SelectMyMatching, Touched,
         Answered, DidSelectRow, ViewWillAppear

LEMMA MatchingInvariance == TabsSpec => []MatchingInv
BY MatchingInitInv, MatchingStep, PTL DEF TabsSpec, TabsInit

\* Once the newest request is answered the tab shows the list of the selected
\* button, until an older reply overrules it (buttonsStatus, getJoinRoom,
\* getMakeRoom).
THEOREM SelectionIsShown == TabsSpec => []AnsweredSelectionShown
<1>1. MatchingInv => AnsweredSelectionShown
  BY DEF MatchingInv
<1> QED
  BY <1>1, MatchingInvariance, PTL

\* A chat opened from a list that answers the newest request is opened as the
\* leader's exactly when the user leads the room (didSelectRow).
THEOREM LeaderIsJoinjang == TabsSpec => AnsweredLeaderIsJoinjang
<1> DEFINE Opens == chat = NoChat /\ chat' # NoChat /\ newest = "answered" =>
                      (chat'.isJoinjang <=> chat'.room \in Led)
<1>1. MatchingInv /\ [TabsNext]_tabsVars => Opens
  <2> SUFFICES ASSUME MatchingInv, [TabsNext]_tabsVars,
                      chat = NoChat, chat' # NoChat, newest = "answered"
               PROVE  chat'.isJoinjang <=> chat'.room \in Led
    OBVIOUS
  <2>1. PICK room \in Rooms : DidSelectRow(room)
    <3>1. ~ UNCHANGED chat
      OBVIOUS
    <3> QED
      BY <3>1 DEF TabsNext, tabsVars, vars, SelectHome, SelectMyMatching,
                  ViewDidLoad, Touched, Answered, DidTapButton, Receive, Fail,
                  ViewWillAppear
  <2>2. /\ room \in matchingList
        /\ chat' = [room |-> room, isJoinjang |-> selected = "made"]
    BY <2>1 DEF DidSelectRow
  <2>3. room \in Listable(selected)
    BY <2>2 DEF MatchingInv, AnsweredSelectionShown, Shows
  <2>4. (selected = "made") <=> (room \in Led)
    BY <2>3 DEF Listable
  <2>5. chat'.room = room /\ chat'.isJoinjang = (selected = "made")
    BY <2>2
  <2> QED
    BY <2>4, <2>5
<1> QED
  BY <1>1, MatchingInvariance, PTL DEF TabsSpec, AnsweredLeaderIsJoinjang

-----------------------------------------------------------------------------
(* The home list.                                                          *)

List == [caller : Callers, answered : BOOLEAN, rooms : Offers \cup {NoList}]

\* Free seats only become fewer: an offer made earlier has at least as many.
NoFewer(rooms, seats) ==
  rooms \in Offers /\ \A r \in OpenRooms : seats[r] <= rooms[r]

\* What was listed and what is shown were true once; a request that is alone
\* was answered after the list on show.
HomeInv ==
  /\ free \in Offers
  /\ lists \in Seq(List)
  /\ gameList = NoList \/ NoFewer(gameList, free)
  /\ \A i \in DOMAIN lists : lists[i].answered => NoFewer(lists[i].rooms, free)
  /\ ~overtaken =>
       /\ Len(lists) <= 1
       /\ \A i \in DOMAIN lists : lists[i].answered =>
            \A r \in DOMAIN gameList : lists[i].rooms[r] <= gameList[r]

LEMMA ListsType ==
  ASSUME HomeInv
  PROVE  /\ Len(lists) \in Nat /\ DOMAIN lists = 1..Len(lists)
         /\ \A i \in DOMAIN lists : lists[i] \in List
<1>1. lists \in Seq(List)
  BY DEF HomeInv
<1> QED
  BY <1>1, LenProperties, ElementOfSeq

LEMMA NoListIsEmpty == DOMAIN NoList = {}
BY DEF NoList

LEMMA HomeInitInv == HomeInit => HomeInv
<1> SUFFICES ASSUME HomeInit PROVE HomeInv
  OBVIOUS
<1> DEFINE first == ListRequest("viewDidLoad")
<1>1. first \in List /\ first.answered = FALSE
  BY DEF ListRequest, List, Callers
<1> HIDE DEF first
<1>2. lists = <<first>>
  BY DEF HomeInit, first
<1>3. lists \in Seq(List) /\ Len(lists) = 1 /\ DOMAIN lists = {1} /\ lists[1] = first
  BY <1>1, <1>2
<1>4. free \in Offers
  BY HomeListAssumption DEF HomeInit, Offers
<1> QED
  BY <1>1, <1>3, <1>4 DEF HomeInit, HomeInv

\* Another player takes a seat.
LEMMA OtherStep ==
  ASSUME HomeInv, NEW s \in OpenRooms, OtherJoins(s)
  PROVE  HomeInv'
<1>1. /\ free' = [free EXCEPT ![s] = @ - 1] /\ free[s] > 0
      /\ UNCHANGED <<lists, gameList, overtaken>>
  BY DEF OtherJoins
<1>2. /\ free' \in Offers /\ free \in Offers
      /\ \A r \in OpenRooms : free'[r] <= free[r]
  BY <1>1, HomeListAssumption DEF HomeInv, Offers
<1>3. ASSUME NEW rooms, NoFewer(rooms, free) PROVE NoFewer(rooms, free')
  BY <1>2, <1>3, HomeListAssumption DEF NoFewer, Offers
<1> QED
  BY <1>1, <1>2, <1>3 DEF HomeInv

\* The list is asked for once more.
LEMMA GetRoomStep ==
  ASSUME HomeInv, NEW caller \in Callers, GetRoom(caller),
         UNCHANGED <<free, gameList>>
  PROVE  HomeInv'
<1> DEFINE new == ListRequest(caller)
<1>1. new \in List /\ new.answered = FALSE
  BY DEF ListRequest, List
<1>2. /\ lists' = Append(lists, new)
      /\ overtaken' = (overtaken \/ lists # <<>>)
  BY DEF GetRoom
<1> HIDE DEF new
<1>3. /\ lists \in Seq(List) /\ Len(lists) \in Nat /\ DOMAIN lists = 1..Len(lists)
  BY ListsType DEF HomeInv
<1>4. /\ lists' \in Seq(List) /\ Len(lists') = Len(lists) + 1
      /\ lists'[Len(lists) + 1] = new
      /\ \A i \in 1..Len(lists) : lists'[i] = lists[i]
  BY <1>1, <1>2, <1>3, AppendProperties
<1>5. DOMAIN lists' = 1..(Len(lists) + 1)
  BY <1>4, LenProperties
<1>6. \A i \in DOMAIN lists' : lists'[i].answered =>
        i \in DOMAIN lists /\ lists'[i] = lists[i]
  <2>1. ASSUME NEW i \in DOMAIN lists', i # Len(lists) + 1
        PROVE  i \in DOMAIN lists /\ lists'[i] = lists[i]
    BY <1>3, <1>4, <1>5, <2>1
  <2> QED
    BY <1>1, <1>4, <2>1
<1>7. \A i \in DOMAIN lists' : lists'[i].answered => NoFewer(lists'[i].rooms, free')
  BY <1>6 DEF HomeInv
<1>8. ASSUME ~overtaken' PROVE Len(lists') <= 1 /\ DOMAIN lists = {}
  <2>1. lists = <<>>
    BY <1>2, <1>8
  <2> QED
    BY <1>4, <2>1
<1>9. gameList' = NoList \/ NoFewer(gameList', free')
  BY DEF HomeInv
<1> QED
  BY <1>4, <1>6, <1>7, <1>8, <1>9 DEF HomeInv

\* The backend answers with the seats that are free now.
LEMMA BackendStep ==
  ASSUME HomeInv, NEW i \in DOMAIN lists, BackendLists(i)
  PROVE  HomeInv'
<1>1. /\ lists' = [lists EXCEPT ![i].answered = TRUE, ![i].rooms = free]
      /\ UNCHANGED <<free, gameList, overtaken>>
  BY DEF BackendLists
<1>2. /\ lists \in Seq(List) /\ Len(lists) \in Nat /\ DOMAIN lists = 1..Len(lists)
      /\ lists[i] \in List /\ free \in Offers
  BY ListsType DEF HomeInv
<1> DEFINE now == [lists[i] EXCEPT !.answered = TRUE, !.rooms = free]
<1>3. now \in List /\ now.rooms = free
  BY <1>2 DEF List
<1>4. lists' = [lists EXCEPT ![i] = now]
  BY <1>1, <1>2
<1> HIDE DEF now
<1>5. /\ lists' \in Seq(List) /\ Len(lists') = Len(lists)
      /\ lists'[i] = now
      /\ \A j \in DOMAIN lists \ {i} : lists'[j] = lists[j]
  BY <1>2, <1>3, <1>4, ExceptSeq
<1>6. DOMAIN lists' = DOMAIN lists
  BY <1>4
<1>7. NoFewer(free, free)
  BY <1>2 DEF NoFewer, Offers
<1>8. \A j \in DOMAIN lists' : lists'[j].answered => NoFewer(lists'[j].rooms, free')
  BY <1>1, <1>3, <1>5, <1>6, <1>7 DEF HomeInv
<1>9. gameList' = NoList \/ NoFewer(gameList', free')
  BY <1>1 DEF HomeInv
<1>10. ASSUME ~overtaken', NEW j \in DOMAIN lists', lists'[j].answered,
              NEW r \in DOMAIN gameList'
       PROVE  lists'[j].rooms[r] <= gameList'[r]
  <2>1. CASE j = i
    <3>1. gameList # NoList
      BY <1>1, NoListIsEmpty
    <3>2. NoFewer(gameList, free) /\ r \in OpenRooms
      BY <1>1, <3>1 DEF HomeInv, NoFewer, Offers
    <3> QED
      BY <1>1, <1>3, <1>5, <2>1, <3>2 DEF NoFewer
  <2>2. CASE j # i
    BY <1>1, <1>5, <1>6, <1>10, <2>2 DEF HomeInv
  <2> QED
    BY <2>1, <2>2
<1>11. ~overtaken' => Len(lists') <= 1
  BY <1>1, <1>5 DEF HomeInv
<1> QED
  BY <1>1, <1>5, <1>8, <1>9, <1>10, <1>11 DEF HomeInv

\* A request is taken out; the list on show stays or becomes what it brought.
LEMMA ReplyStep ==
  ASSUME HomeInv, NEW i \in DOMAIN lists, TakeOut(i), free' = free,
         gameList' = gameList \/ (lists[i].answered /\ gameList' = lists[i].rooms)
  PROVE  HomeInv'
<1>1. /\ lists' = RemoveAt(lists, i)
      /\ overtaken' = (overtaken /\ Len(lists) > 1)
  BY DEF TakeOut
<1>2. /\ lists \in Seq(List) /\ Len(lists) \in Nat /\ DOMAIN lists = 1..Len(lists)
  BY ListsType, SMTT(60) DEF HomeInv
<1>3. /\ lists' \in Seq(List)
      /\ Len(lists') = Len(lists) - 1
      /\ \A j \in 1..(Len(lists) - 1) :
           lists'[j] = IF j < i THEN lists[j] ELSE lists[j + 1]
  BY <1>1, <1>2, RemoveAtProperties, ZenonT(60)
<1>4. DOMAIN lists' = 1..(Len(lists) - 1)
  BY <1>3, LenProperties
<1>5. \A j \in DOMAIN lists' : lists'[j].answered => NoFewer(lists'[j].rooms, free')
  <2>1. ASSUME NEW j \in DOMAIN lists' PROVE \E k \in DOMAIN lists : lists'[j] = lists[k]
    BY <1>2, <1>3, <1>4, SMTT(60)
  <2> QED
    BY <2>1 DEF HomeInv
<1>6. gameList' = NoList \/ NoFewer(gameList', free')
  BY DEF HomeInv
<1>7. ASSUME ~overtaken' PROVE Len(lists') = 0 /\ DOMAIN lists' = {}
  <2>1. Len(lists) <= 1
    <3>1. ~overtaken \/ ~(Len(lists) > 1)
      BY <1>1, <1>7
    <3> QED
      BY <1>2, <3>1 DEF HomeInv
  <2>2. Len(lists) = 1
    BY <1>2, <2>1
  <2> QED
    BY <1>3, <1>4, <2>2
<1> QED
  BY <1>3, <1>5, <1>6, <1>7 DEF HomeInv

LEMMA HomeStep == HomeInv /\ [TabsNext]_tabsVars => HomeInv'
<1> SUFFICES ASSUME HomeInv, [TabsNext]_tabsVars PROVE HomeInv'
  OBVIOUS
<1>1. CASE UNCHANGED <<free, lists, gameList, overtaken>>
  BY <1>1 DEF HomeInv
<1>2. CASE RefreshTableView \/ RoomMade
  BY <1>2, GetRoomStep DEF RefreshTableView, RoomMade, Callers
<1>3. ASSUME NEW r \in OpenRooms, OtherJoins(r) PROVE HomeInv'
  BY <1>3, OtherStep
<1>4. ASSUME NEW i \in DOMAIN lists, BackendLists(i) PROVE HomeInv'
  BY <1>4, BackendStep
<1>5. ASSUME NEW i \in DOMAIN lists, ReceiveList(i) \/ ListFails(i) PROVE HomeInv'
  BY <1>5, ReplyStep DEF ReceiveList, ReplyShows, ListFails
<1> QED
  BY <1>1, <1>2, <1>3, <1>4, <1>5
     DEF TabsNext, tabsVars, homeVars, SelectHome, SelectMyMatching,
         HomeTouched, HomeAnswered

LEMMA HomeInvariance == TabsSpec => []HomeInv
BY HomeInitInv, HomeStep, PTL DEF TabsSpec, TabsInit

\* While no two list requests overlap, no reply takes the list back to an
\* earlier state of the backend (HomeListModel.gameList, getRoom).
THEOREM ListOnlyAdvances == TabsSpec => ListNeverOlder
<1> DEFINE Advances == ~overtaken => \A r \in DOMAIN gameList : gameList'[r] <= gameList[r]
<1>1. HomeInv /\ [TabsNext]_tabsVars => Advances
  <2> SUFFICES ASSUME HomeInv, [TabsNext]_tabsVars, ~overtaken,
                      NEW r \in DOMAIN gameList
               PROVE  gameList'[r] <= gameList[r]
    OBVIOUS
  <2>1. CASE gameList' = gameList
    <3>1. NoFewer(gameList, free)
      BY NoListIsEmpty DEF HomeInv
    <3>2. gameList[r] \in 0 .. Seats
      BY <3>1 DEF NoFewer, Offers
    <3> QED
      BY <2>1, <3>2, HomeListAssumption
  <2>2. CASE \E i \in DOMAIN lists : ReceiveList(i)
    BY <2>2 DEF ReceiveList, ReplyShows, HomeInv
  <2> QED
    BY <2>1, <2>2, ZenonT(60)
       DEF TabsNext, tabsVars, homeVars, SelectHome, SelectMyMatching,
           HomeTouched, HomeAnswered, RefreshTableView, RoomMade, OtherJoins,
           BackendLists, ListFails
<1> QED
  BY <1>1, HomeInvariance, PTL DEF TabsSpec, ListNeverOlder
=============================================================================
