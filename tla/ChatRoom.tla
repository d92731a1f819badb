------------------------------ MODULE ChatRoom ------------------------------
(***************************************************************************)
(* One chat room of JOINUS, seen from every device that has it on screen.  *)
(*                                                                         *)
(* A device is one installation of the app.  The messages of a room are    *)
(* the documents of the Firestore collection                               *)
(*     JoinusChatting/<roomPk>/chat,                                       *)
(* each stored under the second of the day at which it was sent, and each  *)
(* device watches the collection through a snapshot listener.              *)
(*                                                                         *)
(* Of the Firestore client, which is vendored, this module keeps what the  *)
(* app can see.  A setData is handed to the client's worker queue, which   *)
(* stores it on disk (outbox, saved); stored writes are sent in order and  *)
(* stay until they are acknowledged, and a connection that starts anew     *)
(* sends them all again (WriteQueue, which FirestoreWrites implements).    *)
(* A listener is called with the documents it was last given, or with the  *)
(* committed ones, overlaid with the writes that are stored.  The client   *)
(* only runs once a chat screen has used it (configured).                  *)
(*                                                                         *)
(* Each callback (a tap, a snapshot, a completion) runs to its end on the  *)
(* main thread, so it is one action.                                       *)
(***************************************************************************)
EXTENDS Integers, Sequences, FiniteSets

CONSTANTS
  Devices,       \* installations of the app
  Pks,           \* user primary keys the backend hands out
  PkOf,          \* MyInfoModel.myPk on each device
  Joinjangs,     \* devices that open the room as its leader (isJoinjang)
  Broken,        \* users whose image address yields no image
  Founders,      \* userList of the room when it was made
  DayLen,        \* seconds in a day: the keys of the chat collection
  ClockOffset,   \* time zone and error of each device's clock
  RoomPath,      \* path of the room's own document
  NoDoc,         \* "there is no such document"
  MaxClock,      \* bound: seconds that pass
  MaxSent,       \* bound: messages that are sent
  MaxJoins,      \* bound: join documents of a device that are queued
  MaxHanded,     \* bound: writes of a device that wait to be stored
  Flaky,         \* bound: devices whose connection may break
  MaxAhead       \* bound: applied writes of a device without an answer

Keys  == 0..(DayLen - 1)
Paths == Keys \cup {RoomPath}

\* A document is the message (its index in sent) and the user fields it has.
Docs  == [message : Nat, pks : SUBSET Pks]
Store == [Paths -> Docs \cup {NoDoc}]
Write == [path : Paths, doc : Docs]

ASSUME ConstantsAssumption ==
  /\ PkOf \in [Devices -> Pks]
  /\ Joinjangs \subseteq Devices
  /\ Broken \subseteq Pks
  /\ Founders \subseteq Pks
  /\ DayLen \in Nat \ {0}
  /\ ClockOffset \in [Devices -> Nat]
  /\ RoomPath \notin Keys
  /\ NoDoc \notin Docs
  /\ MaxClock \in Nat
  /\ MaxSent \in Nat
  /\ MaxJoins \in Nat
  /\ MaxHanded \in Nat
  /\ Flaky \subseteq Devices
  /\ MaxAhead \in Nat

VARIABLES
  now,         \* seconds since some midnight
  members,     \* the backend's user list of the room
  server,      \* the committed documents
  sent,        \* history: the messages sent, in the order of the taps
  outbox,      \* per device: writes not yet acknowledged, oldest first
  saved,       \* per device: how many of them are on its disk
  applied,     \* per device: how many of them this connection has applied
  lost,        \* history: messages a process took with it unsaved
  configured,  \* per device: a process runs that has used Firestore
  listed,      \* per device: userList of the room in the last list reply
  screen,      \* per device: the JoinChattingViewController
  fromHome,    \* per device: SelectJoinGame keeps that controller alive
  roomInfo,    \* per device: roomInfo.userList of the controller
  listener,    \* per device: its ListenerRegistration
  snapShots,   \* per device: what its table shows
  gameStarted  \* per device: the message field is hidden

server_vars == <<now, members, server>>
queue_vars  == <<outbox, saved, applied, lost>>
device_vars == <<queue_vars, configured, listed>>
screen_vars == <<screen, fromHome, roomInfo, listener, snapShots, gameStarted>>
vars == <<server_vars, sent, device_vars, screen_vars>>

-----------------------------------------------------------------------------
(* Documents and rows *)

NoChat == [k \in Keys |-> NoDoc]

\* The document the room itself gets when a chat screen loads.
JoinDoc == [message |-> 0, pks |-> {}]

\* Variant: setData(..., merge: true) keeps the fields of the old document.
SetDataMerging(store, w) ==
  [store EXCEPT ![w.path] =
     IF @ = NoDoc THEN w.doc ELSE [w.doc EXCEPT !.pks = @ \cup store[w.path].pks]]

\* setData without merge: the new document replaces the old one whole.
SetData(store, w) == [store EXCEPT ![w.path] = w.doc]

\* Variant: the hours run past midnight.
KeyTimeUnwrapped(d, t) == t + ClockOffset[d]

\* The second of the day on a device's clock, the document id of a message.
KeyTime(d, t) == (t + ClockOffset[d]) % DayLen

\* The document of message m: its only user field is the sender's own.
MessageDoc(d, m) == [message |-> m, pks |-> {PkOf[d]}]

\* The writes of a device that Firestore has on disk.
Stored(d) == SubSeq(outbox[d], 1, saved[d])

\* Firestore shows a device its own stored writes before they are committed:
\* the last stored write of a path hides the committed document.
LastWriteOf(q, p, i) ==
  /\ q[i].path = p
  /\ \A j \in DOMAIN q : q[j].path = p => j <= i
Overlaid(store, q, p) ==
  IF \E i \in DOMAIN q : LastWriteOf(q, p, i)
  THEN q[CHOOSE i \in DOMAIN q : LastWriteOf(q, p, i)].doc
  ELSE store[p]
Overlay(store, q) == [k \in Keys |-> Overlaid(store, q, k)]

\* The users of roomInfo.userList whose field the document has.
NamedSenders(d, doc) == roomInfo[d] \cap doc.pks

IsMine(d, doc) == PkOf[d] \in doc.pks

\* What the sheet of joiners lists: the controller's copy, taken when it loads.
JoinUsersInfo(d) == roomInfo[d]

\* Whether cellForRowAt comes back: imageURL stops the process when the
\* address is empty (no user of the list matched) or yields no image.
RowLoads(d, doc) ==
  \/ IsMine(d, doc)
  \/ NamedSenders(d, doc) # {} /\ NamedSenders(d, doc) \cap Broken = {}

-----------------------------------------------------------------------------
Init ==
  /\ now = 0
  /\ members = Founders
  /\ server = [p \in Paths |-> NoDoc]
  /\ sent = <<>>
  /\ outbox = [d \in Devices |-> <<>>]
  /\ saved = [d \in Devices |-> 0]
  /\ applied = [d \in Devices |-> 0]
  /\ lost = {}
  /\ configured = [d \in Devices |-> FALSE]
  /\ listed = [d \in Devices |-> {}]
  /\ screen = [d \in Devices |-> "none"]
  /\ fromHome = [d \in Devices |-> FALSE]
  /\ roomInfo = [d \in Devices |-> {}]
  /\ listener = [d \in Devices |-> "none"]
  /\ snapShots = [d \in Devices |-> NoChat]
  /\ gameStarted = [d \in Devices |-> FALSE]

\* A second passes.  Only messages tell the time: when all that the bound
\* allows are sent, the clock may as well stand still.
Tick ==
  /\ now < MaxClock
  /\ Len(sent) < MaxSent
  /\ now' = now + 1
  /\ UNCHANGED <<members, server, sent, device_vars, screen_vars>>

(* Lists of rooms *)

\* A list reply (home list or my matchings) replaces the listed rooms.
ReceiveList(d) ==
  /\ screen[d] = "none"
  /\ listed' = [listed EXCEPT ![d] = members]
  /\ UNCHANGED <<server_vars, sent, queue_vars, configured, screen_vars>>

(* Opening and leaving the chat screen *)

\* The bound on writes that wait for the worker queue.
MayHand(d) == Len(outbox[d]) - saved[d] < MaxHanded

\* The bounds on opening the chat, which writes a join document.
MayOpen(d) ==
  /\ MayHand(d)
  /\ Cardinality({i \in DOMAIN outbox[d] : outbox[d][i].path = RoomPath}) < MaxJoins

\* Variant: the room's own document is not written.
ViewDidLoadWithoutJoin(d) ==
  /\ screen' = [screen EXCEPT ![d] = "shown"]
  /\ roomInfo' = [roomInfo EXCEPT ![d] = listed[d]]
  /\ configured' = [configured EXCEPT ![d] = TRUE]
  /\ listener' = [listener EXCEPT ![d] = "live"]
  /\ UNCHANGED <<queue_vars, snapShots, gameStarted>>

\* viewDidLoad of a fresh controller: Firestore is configured if this is its
\* first use, the join document is written to the room's own path and the
\* snapshot listener is registered.
ViewDidLoad(d) ==
  /\ screen' = [screen EXCEPT ![d] = "shown"]
  /\ roomInfo' = [roomInfo EXCEPT ![d] = listed[d]]
  /\ outbox' = [outbox EXCEPT ![d] =
                  Append(@, [path |-> RoomPath, doc |-> JoinDoc])]
  /\ configured' = [configured EXCEPT ![d] = TRUE]
  /\ listener' = [listener EXCEPT ![d] = "live"]
  /\ UNCHANGED <<saved, applied, lost, snapShots, gameStarted>>

\* The controller is released; nothing of it is left.
DropController(d) ==
  /\ screen' = [screen EXCEPT ![d] = "none"]
  /\ fromHome' = [fromHome EXCEPT ![d] = FALSE]
  /\ roomInfo' = [roomInfo EXCEPT ![d] = {}]
  /\ snapShots' = [snapShots EXCEPT ![d] = NoChat]
  /\ gameStarted' = [gameStarted EXCEPT ![d] = FALSE]

\* The messages of device d that still wait to be stored.
Unsaved(d) ==
  {outbox[d][i].doc.message : i \in (saved[d] + 1)..Len(outbox[d])} \ {0}

\* Variant: Firestore keeps its queue in memory.
EndProcessForgetting(d) ==
  /\ configured' = [configured EXCEPT ![d] = FALSE]
  /\ outbox' = [outbox EXCEPT ![d] = <<>>]
  /\ saved' = [saved EXCEPT ![d] = 0]
  /\ applied' = [applied EXCEPT ![d] = 0]
  /\ lost' = lost \cup Unsaved(d)
  /\ listed' = [listed EXCEPT ![d] = {}]
  /\ listener' = [listener EXCEPT ![d] = "none"]
  /\ DropController(d)

\* The process ends, by a fatal error or by the system; of the queued writes
\* those that Firestore has on disk stay.  When the app is started again it
\* has no list and has not used Firestore, which is all that is left here.
EndProcess(d) ==
  /\ configured' = [configured EXCEPT ![d] = FALSE]
  /\ outbox' = [outbox EXCEPT ![d] = Stored(d)]
  /\ lost' = lost \cup Unsaved(d)
  /\ UNCHANGED <<saved, applied>>
  /\ listed' = [listed EXCEPT ![d] = {}]
  /\ listener' = [listener EXCEPT ![d] = "none"]
  /\ DropController(d)

\* A row of "my matchings" is tapped: a new controller is pushed.
OpenMatching(d) ==
  /\ screen[d] = "none"
  /\ PkOf[d] \in listed[d]
  /\ MayOpen(d)
  /\ ViewDidLoad(d)
  /\ UNCHANGED <<server_vars, sent, listed, fromHome>>

\* The join screen of a room shows every user's picture; one that does not
\* load ends the process.  With all of them there, JoinRoom follows.
OpenJoinScreen(d) ==
  /\ screen[d] = "none"
  /\ listed[d] \cap Broken # {}
  /\ EndProcess(d)
  /\ UNCHANGED <<server_vars, sent>>

\* Variant: the push does not wait for the backend (SelectJoinGame:121-125).
JoinRoomUnasked(d) ==
  /\ screen[d] = "none"
  /\ listed[d] # {} /\ listed[d] \cap Broken = {}
  /\ MayOpen(d)
  /\ ViewDidLoad(d)
  /\ fromHome' = [fromHome EXCEPT ![d] = TRUE]
  /\ UNCHANGED <<server_vars, sent, listed>>

\* The join button of a room of the home list, answered with 1: the user is
\* a member and the controller made with the join screen is pushed, holding
\* the user list read before the join.
JoinRoom(d) ==
  /\ screen[d] = "none"
  /\ listed[d] # {} /\ listed[d] \cap Broken = {}
  /\ MayOpen(d)
  /\ members' = members \cup {PkOf[d]}
  /\ ViewDidLoad(d)
  /\ fromHome' = [fromHome EXCEPT ![d] = TRUE]
  /\ UNCHANGED <<now, server, sent, listed>>

\* The join button again, after coming back from the chat: the same
\* controller is pushed, whose viewDidLoad has already run.
RejoinRoom(d) ==
  /\ screen[d] = "left"
  /\ screen' = [screen EXCEPT ![d] = "shown"]
  /\ members' = members \cup {PkOf[d]}
  /\ UNCHANGED <<now, server, sent, device_vars, fromHome, roomInfo,
                 listener, snapShots, gameStarted>>

\* The back button: the pop is animated, so the listener outlives the tap.
PopViewController(d) ==
  /\ screen[d] = "shown"
  /\ screen' = [screen EXCEPT ![d] = "leaving"]
  /\ UNCHANGED <<server_vars, sent, device_vars, fromHome, roomInfo,
                 listener, snapShots, gameStarted>>

\* The animation ended: the listener is removed, and the controller is gone
\* unless the join screen still holds it.
ViewDidDisappear(d) ==
  /\ screen[d] = "leaving"
  /\ \/ /\ fromHome[d]
        /\ screen' = [screen EXCEPT ![d] = "left"]
        /\ UNCHANGED <<fromHome, roomInfo, snapShots, gameStarted>>
     \/ ~fromHome[d] /\ DropController(d)
  /\ listener' = [listener EXCEPT ![d] = "none"]
  /\ UNCHANGED <<server_vars, sent, device_vars>>

\* The back button of the join screen under the chat.
LeaveJoinScreen(d) ==
  /\ screen[d] = "left"
  /\ DropController(d)
  /\ UNCHANGED <<server_vars, sent, device_vars, listener>>

-----------------------------------------------------------------------------
(* Chatting *)

\* Variant: the text field is not emptied and the tap counts twice.
SendMessageTwice(d) ==
  LET m     == Len(sent) + 1
      write == [path |-> KeyTime(d, now), doc |-> MessageDoc(d, m)]
  IN  /\ screen[d] = "shown"
      /\ ~gameStarted[d]
      /\ m <= MaxSent /\ MayHand(d)
      /\ sent' = Append(sent, [by |-> d, at |-> now])
      /\ outbox' = [outbox EXCEPT ![d] = @ \o <<write, write>>]
      /\ UNCHANGED <<server_vars, saved, applied, lost, configured, listed,
                     screen_vars>>

\* The send button over a text that is not blank.  A blank text is only
\* cleared, which changes nothing here.
SendMessage(d) ==
  LET m   == Len(sent) + 1
      key == KeyTime(d, now)
  IN  /\ screen[d] = "shown"
      /\ ~gameStarted[d]
      /\ m <= MaxSent /\ MayHand(d)
      /\ sent' = Append(sent, [by |-> d, at |-> now])
      /\ outbox' = [outbox EXCEPT ![d] =
                      Append(@, [path |-> key, doc |-> MessageDoc(d, m)])]
      /\ UNCHANGED <<server_vars, saved, applied, lost, configured, listed,
                     screen_vars>>

\* The leader starts the game: the message field and the button are hidden.
GameStart(d) ==
  /\ screen[d] = "shown"
  /\ d \in Joinjangs
  /\ ~fromHome[d]      \* isJoinjang is only set by "my matchings"
  /\ ~gameStarted[d]
  /\ gameStarted' = [gameStarted EXCEPT ![d] = TRUE]
  /\ UNCHANGED <<server_vars, sent, device_vars, screen, fromHome, roomInfo,
                 listener, snapShots>>

\* The sheet of joiners, over the chat: pictures again.  It changes nothing
\* when they load.
ShowMatchingJoiner(d) ==
  /\ screen[d] = "shown"
  /\ JoinUsersInfo(d) \cap Broken # {}
  /\ EndProcess(d)
  /\ UNCHANGED <<server_vars, sent>>

(* The Firestore client and the server *)

\* The worker queue stores the next write that was handed to it.
WriteMutations(d) ==
  /\ configured[d]
  /\ saved[d] < Len(outbox[d])
  /\ saved' = [saved EXCEPT ![d] = @ + 1]
  /\ UNCHANGED <<server_vars, sent, outbox, applied, lost, configured, listed,
                 screen_vars>>

\* The server applies the next stored write of a device: one that was sent
\* before, if the connection started anew, and also of a process that ended.
Commit(d) ==
  /\ applied[d] < saved[d] /\ applied[d] < MaxAhead
  /\ server' = SetData(server, outbox[d][applied[d] + 1])
  /\ applied' = [applied EXCEPT ![d] = @ + 1]
  /\ UNCHANGED <<now, members, sent, outbox, saved, lost, configured, listed,
                 screen_vars>>

\* The acknowledgement of the oldest write removes it from the disk.
Acknowledge(d) ==
  /\ configured[d]
  /\ applied[d] > 0
  /\ outbox' = [outbox EXCEPT ![d] = Tail(@)]
  /\ saved' = [saved EXCEPT ![d] = @ - 1]
  /\ applied' = [applied EXCEPT ![d] = @ - 1]
  /\ UNCHANGED <<server_vars, sent, lost, configured, listed, screen_vars>>

\* The connection breaks and starts anew.
Reconnect(d) ==
  /\ d \in Flaky
  /\ configured[d]
  /\ applied[d] > 0
  /\ applied' = [applied EXCEPT ![d] = 0]
  /\ UNCHANGED <<server_vars, sent, outbox, saved, lost, configured, listed,
                 screen_vars>>

\* Variant: rows are only replaced when their number grew.
GetMoreMessages(d, store) ==
  LET rows  == Overlay(store, Stored(d))
      count(r) == Cardinality({k \in Keys : r[k] # NoDoc})
  IN  /\ listener[d] = "live"
      /\ snapShots' = [snapShots EXCEPT ![d] =
                          IF count(rows) > count(@) THEN rows ELSE @]
      /\ UNCHANGED <<server_vars, sent, device_vars, screen, fromHome,
                     roomInfo, listener, gameStarted>>

\* The listener is called with the documents of store: they become the rows
\* and the table is laid out at once.  A row that cannot be made ends the
\* process.
GetMessage(d, store) ==
  LET rows == Overlay(store, Stored(d))
  IN  /\ listener[d] = "live"
      /\ \/ /\ \A k \in Keys : rows[k] # NoDoc => RowLoads(d, rows[k])
            /\ snapShots' = [snapShots EXCEPT ![d] = rows]
            /\ UNCHANGED <<device_vars, screen, fromHome, roomInfo, listener,
                           gameStarted>>
         \/ /\ \E k \in Keys : rows[k] # NoDoc /\ ~RowLoads(d, rows[k])
            /\ EndProcess(d)
      /\ UNCHANGED <<server_vars, sent>>

\* A snapshot made from what the device already has: its queued writes show.
LocalSnapshot(d) == GetMessage(d, snapShots[d])

\* A snapshot with the committed documents.
ServerSnapshot(d) == GetMessage(d, server)

\* Variant: the handler empties the table on an error.
ListenErrorClearing(d) ==
  /\ listener[d] = "live"
  /\ listener' = [listener EXCEPT ![d] = "failed"]
  /\ snapShots' = [snapShots EXCEPT ![d] = NoChat]
  /\ UNCHANGED <<server_vars, sent, device_vars, screen, fromHome, roomInfo,
                 gameStarted>>

\* The listener is called with an error: the handler returns, and Firestore
\* calls it no more.
ListenError(d) ==
  /\ listener[d] = "live"
  /\ listener' = [listener EXCEPT ![d] = "failed"]
  /\ UNCHANGED <<server_vars, sent, device_vars, screen, fromHome, roomInfo,
                 snapShots, gameStarted>>

(* The process *)

\* The system ends the process.
Terminate(d) ==
  /\ EndProcess(d)
  /\ UNCHANGED <<server_vars, sent>>

-----------------------------------------------------------------------------
User(d) ==
  \/ OpenMatching(d) \/ OpenJoinScreen(d) \/ JoinRoom(d) \/ RejoinRoom(d)
  \/ PopViewController(d) \/ LeaveJoinScreen(d)
  \/ SendMessage(d) \/ GameStart(d) \/ ShowMatchingJoiner(d)

System(d) ==
  \/ ReceiveList(d) \/ ViewDidDisappear(d)
  \/ WriteMutations(d) \/ Commit(d) \/ Acknowledge(d) \/ Reconnect(d)
  \/ LocalSnapshot(d) \/ ServerSnapshot(d) \/ ListenError(d)
  \/ Terminate(d)

Next == Tick \/ \E d \in Devices : User(d) \/ System(d)

\* The writes of a running client are applied.
Send(d) == configured[d] /\ Commit(d)

\* A client that is configured stores and sends its writes and calls its live
\* listeners; an answer gets through sooner or later, however often the
\* connection breaks.  Nothing is assumed of users, of the system or of the
\* backend.
Fairness ==
  \A d \in Devices :
    /\ WF_vars(WriteMutations(d)) /\ WF_vars(Send(d)) /\ SF_vars(Acknowledge(d))
    /\ WF_vars(ServerSnapshot(d))

Spec == Init /\ [][Next]_vars /\ Fairness
-----------------------------------------------------------------------------
(* Properties *)

\* The state is well formed: every queue, store and screen holds documents of
\* messages that were sent, under paths of the room.
TypeOK ==
  /\ now \in 0..MaxClock
  /\ members \subseteq Pks
  /\ server \in Store
  /\ sent \in Seq([by : Devices, at : 0..MaxClock])
  /\ outbox \in [Devices -> Seq(Write)]
  /\ saved \in [Devices -> Nat]
  /\ applied \in [Devices -> Nat]
  /\ \A d \in Devices : applied[d] <= saved[d] /\ saved[d] <= Len(outbox[d])
  /\ lost \subseteq Nat \ {0}
  /\ configured \in [Devices -> BOOLEAN]
  /\ listed \in [Devices -> SUBSET Pks]
  /\ screen \in [Devices -> {"none", "shown", "leaving", "left"}]
  /\ fromHome \in [Devices -> BOOLEAN]
  /\ roomInfo \in [Devices -> SUBSET Pks]
  /\ listener \in [Devices -> {"none", "live", "failed"}]
  /\ snapShots \in [Devices -> [Keys -> Docs \cup {NoDoc}]]
  /\ gameStarted \in [Devices -> BOOLEAN]

Messages == 1..Len(sent)
SecondOfDay(m) == (sent[m].at + ClockOffset[sent[m].by]) % DayLen

\* What a table shows is what was said: each row is a message that was sent at
\* the second the row stands for; it is drawn as the viewer's own exactly when
\* the viewer's user sent it, and otherwise under the name of its sender only
\* (cellForRowAt:518-568, setDBdata:154-163).
RowsAttributed ==
  \A d \in Devices, k \in Keys :
    LET doc == snapShots[d][k] IN
    doc # NoDoc =>
      /\ doc.message \in Messages
      /\ SecondOfDay(doc.message) = k
      /\ LET sender == PkOf[sent[doc.message].by] IN
         /\ IsMine(d, doc) <=> sender = PkOf[d]
         /\ ~IsMine(d, doc) => NamedSenders(d, doc) = {sender}

\* A message is only ever lost to another message of the same second of the
\* day, or with its process before it was on anyone's screen: a message that
\* its device has on disk, or that any table has shown, survives crashes,
\* restarts, broken connections and screens that are left (keyTime:38-40,
\* setDBdata:157-163).
LostOnlyToSameSecond ==
  \A m \in Messages :
    \/ \E i \in 1..saved[sent[m].by] : outbox[sent[m].by][i].doc.message = m
    \/ \E k \in Keys : server[k] # NoDoc /\ server[k].message = m
    \/ \E n \in Messages \ {m} : SecondOfDay(n) = SecondOfDay(m)
    \/ /\ m \in lost \cup Unsaved(sent[m].by)
       /\ \A d \in Devices, k \in Keys :
            snapShots[d][k] # NoDoc => snapShots[d][k].message # m

\* The chat collection never exists without the room's own document: the
\* join write of viewDidLoad precedes every message of the device in the
\* queue, across restarts (addDocumentFromChattingRoom:70-80).
RoomDocumentFirst ==
  (\E k \in Keys : server[k] # NoDoc) => server[RoomPath] # NoDoc

\* A listener is registered only for a screen that is on display or being
\* popped (viewDidDisappear:135-139): a screen under another or gone hears
\* nothing, and there is never a second listener.
ListenerOnlyOnScreen ==
  \A d \in Devices :
    listener[d] # "none" => screen[d] \in {"shown", "leaving"}

\* Whoever holds the complete user list can draw every message of the room,
\* save those of users whose picture cannot be loaded: only members speak,
\* because the backend's answer comes before the push (didTapJoinButton:127-133).
CompleteListDraws ==
  \A d \in Devices, k \in Keys :
    /\ screen[d] = "shown"
    /\ members \subseteq roomInfo[d]
    /\ server[k] # NoDoc
    => RowLoads(d, server[k]) \/ server[k].pks \cap Broken # {}

\* A row that is on a screen stays there as long as the screen does, and
\* nothing moves on a screen whose listener is gone (getMessage:89-104).
RowsStay ==
  [][\A d \in Devices :
       screen'[d] # "none" /\ screen[d] # "none" =>
         /\ \A k \in Keys : snapShots[d][k] # NoDoc => snapShots'[d][k] # NoDoc
         /\ listener[d] # "live" => snapShots'[d] = snapShots[d]]_vars

IsMessage(w) == w.path # RoomPath

\* How many of the first k writes carry a message.
Carried(writes, k) == Cardinality({i \in 1..k : IsMessage(writes[i])})

\* The messages among the queued writes of a device, in their order.
MessagesOf(writes) ==
  [n \in 1..Carried(writes, Len(writes)) |->
     writes[CHOOSE i \in DOMAIN writes :
              IsMessage(writes[i]) /\ Carried(writes, i) = n].doc.message]

\* Whether the client of d will send what d has queued.
Sending(d) == configured[d] \/ outbox[d] = <<>>

\* Once every device with queued writes keeps a process that has opened a
\* chat, a device whose listener stays live ends up with exactly the committed
\* messages on its screen, and no message of any device remains queued
\* (getMessage:85-104, setDBdata:157-163).
EventuallyShown ==
  \A d \in Devices :
    <>[](listener[d] = "live" /\ \A e \in Devices : Sending(e))
      => <>[](/\ snapShots[d] = [k \in Keys |-> server[k]]
              /\ \A e \in Devices : Carried(outbox[e], Len(outbox[e])) = 0)

-----------------------------------------------------------------------------
(* The board the room is meant to be *)

Board == INSTANCE ChatBoard WITH
  Authors  <- Devices,
  Slots    <- Keys,
  posts    <- [m \in Messages |-> [by |-> sent[m].by, slot |-> SecondOfDay(m)]],
  inFlight <- [d \in Devices |-> MessagesOf(outbox[d])],
  reached  <- [d \in Devices |-> Carried(outbox[d], applied[d])],
  board    <- [k \in Keys |-> IF server[k] = NoDoc THEN 0 ELSE server[k].message]

\* The room implements the board of ChatBoard: the messages of a device land
\* in the order they were sent, on the slot of their second, as often as the
\* connection starts anew but never after they were settled, and only the
\* landing of another message removes one.
BoardSpec == Board!Spec
=============================================================================
