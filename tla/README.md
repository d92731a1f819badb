# A verification project for JOINUS

JOINUS is an iOS app that finds players to play a game with. A user signs in
with Google, answers a short onboarding, and then has three working tabs: the
list of open rooms, the rooms they joined or made, and their own page. A room
is made with a form, joined from its row, and has a chat. The app is written in
Swift under `src/JOINUS/JOINUS`; it has no tests and no written design. It talks
to a REST backend (Alamofire), which is not in the repository, and to Firestore,
whose *client* is: its C++ sources are vendored under
`src/JOINUS/Pods/FirebaseFirestore`, and the chat is only as good as they are.

This directory holds TLA+ modules for the parts of the app that keep state
across callbacks and for the two paths of the Firestore client the chat uses,
TLC configurations that check them, and TLAPS proofs. `PROJECT.json` lists
every definition with the source lines it models, every run, every property
with a changed definition that breaks it, the hazards and the theorems.

File names are abbreviated below: `JointChatting:139` stands for line 139 of
`JointChattingViewController.swift`, `remote_store:437` for line 437 of
`remote_store.cc`, and so on.

Most of the repository's lines are under `Pods`: BoringSSL, gRPC, abseil,
LevelDB and nanopb are whole programs of their own, with nothing of this app in
them. They are not modelled; the Firestore client's write and listen paths are,
because the app's promises (a message is not lost, a table shows what was said)
rest on them.

## 1. The system

### How the code runs

*The app.* All of the app's own code runs on the main thread: taps (RxSwift on
the main scheduler), completions of Alamofire, callbacks of the Firestore
listener and of Google, blocks queued with `asyncAfter`. A callback runs to its
end before the next one starts, so **a callback is one action** in every module
of the app. What interleaves is callbacks: between a request and its completion
anything may happen, screens may be popped, the same request may be made again,
and replies may come back in any order.

All services share a shape that matters more than anything else here: on success
they decode the reply, write a *singleton model* and call the completion; on a
decoding error or a failed request they print and do **not** call the
completion. Nothing is retried, cancelled or numbered. So every screen that
waits for a completion may wait forever, and a late reply writes to models that
other screens use by then.

Screens are view controllers on navigation stacks. A popped controller is
released unless something still refers to it; a request's completion does.

*The Firestore client.* Everything of the client runs on one worker queue, so
**a worker operation is one action** in `FirestoreWrites` and `FirestoreWatch`.
gRPC completes its operations on a thread of its own and enqueues each
completion on the worker queue, where it waits behind those before it: a
completion is two actions, and what is done between the two is what makes the
code hard. `setData` only enqueues an operation; a process may end before it
runs.

### Components, their state and what makes them correct

| component | state | operations | hard part | correct when |
|---|---|---|---|---|
| Chat room (`JointChatting`, `JoinChattingMethods`) | Firestore documents and queued writes; per device the controller, its user list, listener and rows | open, send, snapshots, listener errors, leave, re-enter, start game | many devices, offline writes, restarts, second-of-day keys, rows that crash | rows show what was said by whom; nothing that was seen is lost without a rival; live screens converge |
| Firestore writes (`remote_store`, `stream`, `write_stream`, `grpc_stream`, `local_store`, `leveldb_mutation_queue`) | mutation queue on disk, pipeline, stream, gRPC operations, call | set, token, handshake, answer, failure, idle, restart | answers without numbers, cancelled completions, requests sent twice | nothing is reported done that is not, nothing stored is forgotten, no assertion fails |
| Firestore listening (`watch_change_aggregator`, `local_store`, `view`, `query_listener`, `online_state_tracker`) | target, resume token, cache, view, online state | listen, stop, changes, snapshots, failures, timers | answers of an old listen, own writes ahead of the server, tokens on disk | the view is the server's collection, a token never claims more than the cache holds |
| My matching (`MyMatching`) | one list, selected button, requests | joined, made, select a row | replies of two kinds overtake each other | the answered selection is what is shown, a chat is opened as the leader only by the leader |
| Make matching (`MakeMatching`, `SelectTier…`, `MakeMatchingModel`) | a shared model, the form's own display, creations under way | enter, leave, confirm | late answers, repeated taps, defaults | what is on the form is what is sent; only its own answer closes a form |
| Start date (`CalculateAboutTime`, date picker) | picked date, stored date, clock | pick, set, create, draw | bounds at seconds and days | "over" exactly from the start on; labels only move on |
| Onboarding (`OnboardingStep1`–`4`, `OnboardingViewModel`, profile screen) | answers on show, enabled Next buttons, `MyInfoModel` | answer, next, back | screens kept and pushed again, model and screen written at different moments | no step is skipped, a Next button says whether its step is answered |
| Sign-in (`Login`, `LoginService`, `GameService`, `MannerService`) | chains of four requests, `MyInfoModel`, the window | tap, answers, failures | overlapping chains, silent ends | a profile is one user's; known users get in |
| Home list (`HomeList`, `getRoom`) | list, spinner, requests | load, refresh, reload after creation | overtaking and lost replies, replies behind another tab | list does not go back, spinner ends |
| Join screen (`SelectJoinGame`, `postRoomUser`) | room copy, shared `selectedRoomPk`, seats | open, join, leave | late or double answers | a chat only with a seat; seats are known |
| My tab (`MyInfo`, `MyProfileEdit`, `MyFriend`, `MyBlackList`) | label, game id, lists, tab bar | edit, visit, leave | late replies, a page without a back button | label is the id, the user can always leave |
| Photo sheet (`JoinusAlert`, `CircleCrop`) | sheet, prompt, picker, crop, delayed dismissal | choose, crop, cancel | dismissal races the picker | no invisible sheet |

They interact through the singletons (`MyInfoModel`, `MakeMatchingModel`,
`HomeListModel`, `MyMatchingModel`, `JoinChattingModel`), through the window
(`ChangeWindow`, `SetTabbarController`), through pushes of one controller by
another, through `setData` and the snapshot listener (chat and Firestore
client), and through the backend: a room made by the form appears in the home
list, a seat taken on the join screen makes its user a member of the chat.

The services of the app have no module of their own: the request and the reply
are two actions of the screen that uses them, because what matters is what
happens between the two.

### Modules

| module | models | composed of |
|---|---|---|
| `ChatRoom` | the chat of one room on all devices, over the Firestore client as the app sees it | refines `ChatBoard` |
| `ChatBoard` | what a chat room promises: one slot per second of the day, posts land in their author's order, as often as the connection starts anew but never after they were settled | – |
| `FirestoreWrites` | the write path of the Firestore client of one device | refines `WriteQueue` |
| `WriteQueue` | what the client promises of writes: in order, at least once, gone only when applied or refused | – |
| `FirestoreWatch` | the listen path: watch stream, aggregator, cache, view, listener | relies on `WriteQueue` for own writes |
| `HomeList`, `MyMatching` | the list tabs, each without a specification of its own | – |
| `Tabs` | the two tabs side by side under the tab bar | extends both |
| `MakeMatching` | form, tier screen, model, creation | – |
| `StartDate` | picker, stored date, labels of a row | – |
| `Onboarding` | the four steps and the profile screen | – |
| `SignIn` | the sign-in chains | extends `Onboarding` |
| `JoinGame` | join screen and seats | – |
| `PhotoSheet` | sheet, picker, crop; no specification of its own | – |
| `MyInfo` | profile screen and My tab | extends `PhotoSheet` |
| `ChatRoomProofs`, `MyInfoProofs`, `SignInProofs`, `TabsProofs`, `FirestoreWritesProofs`, `FirestoreWatchProofs` | theorems about the module of that name | the module, TLAPS |
| `FirestoreViewProofs` | theorems about what `FirestoreWatch` shows | `FirestoreWatchProofs` |
| `RoomProofs` | theorems about a room before its chat: `StartDate`, `MakeMatching`, `JoinGame` | the three modules, TLAPS |
| `MC*` | the constants of the runs | each extends its module |

The chain from the chat down is `ChatBoard` ⇐ `ChatRoom`, which keeps of the
client only what `WriteQueue` promises, ⇐ `FirestoreWrites`, which is shown to
keep that promise. `WriteQueue` is the seam: `Submit`, `Land`, `Acknowledge`
and `Reconnect` of it are `WriteMutations`, `Send`, `Acknowledge` and
`Reconnect` of `ChatRoom`.

## 2. How the modules correspond to the code

Actions carry the names of the functions they model. A definition that begins
with a comment *Variant* is not the code: it is a slip that the code could have
contained, kept to show that a property would notice. No specification uses one.
`TypeOK` in the modules other than `ChatRoom` documents the state and is the
first part of the inductive invariants.

**ChatRoom.** A device is an installation. `outbox` is the queue of its writes:
those up to `saved` are on disk, the others only handed to the worker queue
(`setData` returns at once), and a process that ends takes the latter with it
(`lost`). Those up to `applied` have been applied by the present connection; a
connection that starts anew applies the whole queue again (`Reconnect`), and
`Acknowledge` takes the first away. The client runs only once a chat screen has
used it (`configured`): writes a past process left behind wait for the next chat.
A path is a second of the day (the key that `sendMessage` makes with `H:mm:ss`)
or the room's own document. `setData` replaces the document (`SetData`). A
snapshot (`LocalSnapshot`, `ServerSnapshot`) is the last known or the committed
collection overlaid with the stored writes. `screen` follows the controller:
`leaving` while the pop is animated (the listener still works), and `left` when
the join screen keeps the popped controller alive and can push it again, which
is when `viewDidLoad` does not run and no listener comes back. Every action that
draws a row makes the process crash when the row's picture cannot be loaded,
because `ImageDownLoad:14` is a `fatalError`: the sender is missing from the
controller's user list (its address is then the empty string), or is in
`Broken`. The join screen and the sheet of joiners draw pictures too.
`ClockOffset` is each device's clock: keys of different devices need not agree.
Everything on show is redrawn at each snapshot (as if all rows were visible).

**FirestoreWrites.** A write is a number; `handed` are the operations of
`setData` that wait, `queue` the batches on disk with their ids, `client` the
pipeline and the write stream (state, handshake, idle timer, tokens asked for)
with the gRPC operations of its call (one read and one write with gRPC, a
buffer, completions that wait on the worker queue), `wire` what is between
client and server. `FinishGrpcCall` cancels the completions that only wait, as
`grpc_stream:219-253` does. A response carries the number it answers although
the client cannot see it: that is how `DoneIsCommitted` can be false.
`AbandonWire` is the environment: a server may still serve any prefix of what a
dropped call sent, until it shakes hands with the next call (`late`).

**FirestoreWatch.** The server's log of commits gives every version; the
client's cache keeps versions, the view contents. `agg` is the aggregator's
state of the one target, with the number of outstanding answers and the changes
not raised yet; `disk` the cache, the target's keys and token. `NextView` is
`ComputeDocumentChanges` with `ApplyChanges`, `Changes` the conditions under
which a document change is taken. `RaiseWatchSnapshot` and `HoldBackSnapshot`
are the two outcomes of a global snapshot. One listener at a time, as in the
chat screen; `StopListening` and `Listen` may follow each other before the
server has answered the first. `shown` is history: what the table was given
last, also by past listeners and processes.

**MyMatching, HomeList, Tabs.** `requests` and `lists` hold the requests in
flight; any may be answered or fail at any moment. A reply of `MyMatching` holds
any rooms of its kind, so it also stands for rooms that come and go. `newest`
is history: what became of the latest request. In `Tabs` taps reach only the
selected tab while replies reach both; a tab is loaded when it is first
selected, and an open chat hides the tab bar.

**MakeMatching.** `model` is `MakeMatchingModel`, `display` what the controllers
show; a new form starts with `Fresh` display and writes parts of the model when
it loads. A creation is two requests, *post* then *get*. Its completion pops the
stack of the form it came from, if that form is still on it, and initializes the
model in any case. Voice chat has no default on the form: two buttons, none
selected. Controllers get numbers (`Forms`), reused once nothing refers to them.

**StartDate.** Dates are seconds. `StartInterval` and `CreatedInterval` are the
two chains of `if` of `CalculateAboutTime`, including the values no branch takes
(`Nothing`). The picker keeps the time of day it was made with and offers the
past. The backend is taken to return dates in the format the app reads and to
refuse an empty one.

**Onboarding, SignIn.** `answers` is what the four screens show, `enabled` which
Next buttons work, `myInfo` the shared model. Only what the code resets on back
is reset. `SignIn` starts chains at the login screen; each action is one reply.
The chains go on when their window is gone. `Data` is what the backend knows and
does not change. Google shows one sheet at a time.

**JoinGame.** A request is handled by the backend at one moment and its reply
arrives at another; seats are only taken (there is no leave request).
`hurried`, `entered`, `slipped` are history. One stack: list, join screen, chat;
the late answer of a screen that was left does nothing, an answer to a screen
that already pushed its chat pushes it again, which stops the app.

**MyInfo, PhotoSheet.** The edit page is one object and keeps its state, list
pages are new at every visit. `level` says what is on top of the host screen.
`dismissal` is the block queued by Cancel, which takes away whatever is
presented when it runs.

## 3. What is checked

*Deadlock* tells whether it is checked; it is off where the bounds (requests,
visits, sign-ins, breaks) or the end of the modelled part (the tabs are open,
the app has crashed, everything is written) really stop the model.

| run | instance | states | deadlock | shows |
|---|---|---|---|---|
| `chat_room` | 2 devices and users, bob's clock one second ahead, a day of 1 second, 2 messages, 1 write that waits to be stored, stable connections | 2 900 000 | yes | `TypeOK`, `RowsAttributed`, `CompleteListDraws`, `RowsStay` |
| `chat_as_built` | both devices are one user (what the profile screen makes of every user, `Profile:145`), a second founder whose picture does not load, a day of 2 seconds, one connection that breaks, 1 applied write without an answer | 520 000 | yes | `LostOnlyToSameSecond`, `RoomDocumentFirst`, refinement of `ChatBoard` (`BoardSpec`), `EventuallyShown` |
| `firestore_writes` | 4 writes to 2 paths, one refused, pipeline of 3, 2 breaks, 1 end of the process | 65 000 | off | `DoneIsCommitted`, `StoredIsResolved`, `HardAssertsHold`, refinement of `WriteQueue` (`QueueSpec`), `Drains` |
| `firestore_watch` | 1 document, 1 own write, 1 commit of another device, 2 listens, 1 failure, restart or end of the process | 230 000 | off | `SyncedViewIsServers`, `TokenCoversDisk`, `AnswersDue`, `NeverOlder`, `RaisedOffline`, `CaughtUp` |
| `tabs` | a room that was joined and one that is led, 2 open rooms of 1 seat, 2 requests of each tab in flight | 220 000 | off | `AnsweredSelectionShown`, `AnsweredLeaderIsJoinjang`, `ListNeverOlder`, `RefreshEnds` |
| `make_matching` | 1 title, 1 game, 2 tiers, 2 creations | 780 000 | yes | `CleanFormShowsModel`, `FormClosedByItself` |
| `make_matching_tiers` | 3 tiers | – | yes | violates `TierRangeKept` (finding) |
| `onboarding_game_id` | 1 age, tier and id, 2 games | – | off | violates `GameIDFromOnboarding` (finding) |
| `sign_in` | 3 accounts (new, known, without a game), 2 sign-ins | 280 000 | off | `NothingLeftBehind`, `OneUsersProfile`, `AnswersKept`, `StepsAnswered`, `CompleteUserGetsIn` |
| `join_game` | 2 rooms of 1 seat, 2 requests | 280 000 | off | `ChatOnlyWithSeat`, `SeatsAreKnown`, `CrashNeedsSecondTap` |
| `my_info` | 2 names, 1 photo, 1 friend, 1 blocked, 2 requests | 120 000 | off | `TabBarLeadsOut`, `PlaceholderIsTrue`, `HiddenSheetNeedsRace`, `PhotoChangesInView` |
| `start_date` | 12 moments over three days, on both sides of every bound | 350 000 | yes | `OverFromStart`, `LabelsMoveOn`, `TodaysRoomIsOver` |

### Why the bounds are enough

* Races need two of a thing: two devices, two requests of a kind in flight, two
  chains, two forms, two listens.
* `ChatRoom` bounds clock (`MaxClock`), messages (`MaxSent`), queued room
  documents (`MaxJoins`), writes that wait to be stored (`MaxHanded`), applied
  writes that wait for an answer (`MaxAhead`), and which connections break
  (`Flaky`). In a day of one second every message has a rival for its key; in
  one of two seconds it may have none, and the clock wraps. The clock stops once
  every message is sent, as nothing after that depends on it. Two messages are
  one rivalry. The theorems hold for any number of all of these.
* Four writes overfill a pipeline of three; the refused one stands between two
  that are accepted, on the path of one of them. Two breaks are one break during
  the recovery from another, and an end of the process may fall in either.
* One document is enough for the listen path, because the target tracks
  documents one by one: what one of them goes through does not depend on the
  others. One break counts for failures of the stream, restarts and ends of the
  process together; the second listen gives the answers of the first a chance
  to be taken for its own.
* The moments of `start_date` are one below and one at each bound of the two
  label functions that a difference of moments can reach; the labels depend on
  nothing else.
* The violation of `make_matching_tiers` needs three tiers, to tell "n or above"
  from "all".

### Properties that state conditions

Several properties have an escape clause (`early`, `raced`, `overlap`,
`hurried`, `slipped`, `clean`, `overtaken`, `newest = "overruled"`). They are
there because the code really does go wrong in that case; the property says that
it goes wrong *only* in that case, so it both documents the weakness and guards
its border:

* `AnsweredSelectionShown`: an older reply that comes last leaves the wrong
  list under the selected button (`MyMatching:154`), and a chat opened from it
  may be opened as the leader's (`:290`).
* `CleanFormShowsModel`: a late answer to an earlier creation empties the model
  of the open form (`MakeMatching:196`); the clear button empties the field and
  not the model (`:240`).
* `NothingLeftBehind`, `OneUsersProfile`, `AnswersKept`: a second sign-in during
  the first one (`Login:110`).
* `CrashNeedsSecondTap`, `SeatsAreKnown`: the join button stays enabled
  (`SelectJoinGame:120`); an answer that is late or lost leaves a seat unseen.
* `PlaceholderIsTrue`: an older request for the same list (`MyFriend:67`).
* `HiddenSheetNeedsRace`: Cancel between the album button and the picker
  (`JoinusAlert:163`).
* `TodaysRoomIsOver` states a weakness outright: a date set to the day the form
  was opened on is already over when the room is made (`MakeMatching:351`).
* `PhotoChangesInView` includes that a photo chosen on the edit page is dropped
  (`MyProfileEdit:99`).
* `LostOnlyToSameSecond`: two messages of one second of the day, whoever sent
  them and on whichever day, overwrite each other (`JoinChattingMethods:38`);
  and a message goes with its process if it was never stored, but then no table
  ever showed it.
* `CompleteListDraws`: a chat opened with a user list that misses a later member
  crashes at that member's first message (`JointChatting:572`).
* `RaisedOffline` starts from a timer that runs, see the observations below.

### Findings

* **`make_matching_tiers`** – `RoomService:57` sends the lowest tier as
  `highest_tier` and the highest as `lowest_tier`. The comments of
  `TierToString:56` and `:94` ("iron or above", "iron or below") say what its
  arguments mean; with swapped values a joiner is told that all tiers may join.
* **`onboarding_game_id`** – `GameService:48` calls `myGameID` the id "written
  in onboarding"; Next on step 3 does not store it (`OnboardingStep3:254` is
  reached by Done only) and the profile screen replaces it (`Profile:138`).

Other disagreements are between two pieces of code with nothing that says which
is meant, and are listed as hazards instead: the bounds of `setRoomMannerImage`
against those of `MyMannerView`, the form that shows today while the model holds
no date, the date formats of `Extension` and `CalculateAboutTime`.

Observations about the Firestore client, met while modelling:

* A permanent error is taken for an answer to the *first* batch of the pipeline
  (`HandleWriteError`, `remote_store:513`). But a failed operation cancels every
  completion that still waits on the worker queue, answers included
  (`grpc_stream:219-253`): if the server applied the first batch, refused the
  second, and the answer to the first has not been run, the first, *applied*
  batch is the one rejected. Its write stays on the server although the device
  is told it failed, and the second is sent once more and refused once more.
  `QueueSpec` maps such a rejection to an acknowledgement, `StoredIsResolved`
  holds in spite of it, and `outcome` records it. The app never looks at the
  result of `setData`.
* `StopListening` while the watch stream is still starting clears the timer of
  ten seconds that would raise the listener from the cache, and a later `Listen`
  while the stream keeps starting sets no new one
  (`RemoteStore::StopListening`, `OnlineStateTracker::HandleWatchStreamStart`),
  although `online_state_tracker:44-46` and `query_listener:138-139` count on
  it. An empty chat opened again that way is not raised until the stream opens
  or fails. `RaisedOffline` is therefore stated from the moment the timer runs.
* A watch stream that opens when nothing is listened to any more gets no idle
  timer, and stays open; `current_` of an aggregator's target survives a second
  listen. Neither shows in what a listener is given (`SyncedViewIsServers`,
  `AnswersDue`).

### Fairness

* `ChatRoom`: weak fairness of `WriteMutations`, `Send` and `ServerSnapshot` and
  strong fairness of `Acknowledge`, per device: the worker queue runs, and a
  client that keeps sending is answered some time, however often its connection
  starts anew. This is what `Drains` shows of the client. Nothing is assumed of
  users, of processes restarting or of errors not happening: `EventuallyShown` is
  conditional on a listener that stays live and on processes that have used
  Firestore and keep running.
* `FirestoreWrites`: weak fairness of the worker queue, of gRPC's completions
  and of the server. Errors are bounded (`MaxBreaks`), so `Drains` says that the
  queue drains once the errors end.
* `FirestoreWatch`: weak fairness of the worker queue and its timer. That the
  server answers is *not* part of the specification: `RaisedOffline` holds
  without it, and `CaughtUp` names it as its condition.
* `SignIn`: each chain's current call is answered or fails (`Answer` or
  `RequestFails`): requests time out. That it succeeds is not assumed.
* `HomeList` in `Tabs`: the same, for the oldest request.

The other specifications have no liveness and no fairness.

### What the server is assumed to do

* It serves the requests of one call in order and answers each before it ends
  the call at one it refuses.
* Requests of a call that the client gave up may still be served, in order,
  until it shakes hands with the next call; that is what a stream token is for.
* It never ends a call without an error while writes are pending or a target is
  listened to.
* Its watch stream sends a global snapshot only when everything up to that
  version was sent. It may lag behind commits of others, but not behind a write
  it has acknowledged to this device.

## 4. What is proved

Every theorem is about the specification the runs check, for every value of the
constants that satisfies the named assumption of the module (types of the
constants, and what little the code needs: a day has a second, an account
exists). The bounds are constants too, so the theorems hold for all of them.

| theorem | module | property |
|---|---|---|
| `TypeCorrect` | `ChatRoomProofs` | `TypeOK` |
| `Attribution` | `ChatRoomProofs` | `RowsAttributed` |
| `NothingElseLost` | `ChatRoomProofs` | `LostOnlyToSameSecond` |
| `JoinBeforeChat` | `ChatRoomProofs` | `RoomDocumentFirst` |
| `ListenersBounded` | `ChatRoomProofs` | `ListenerOnlyOnScreen` (no run lists it: it is a lemma of the others) |
| `CompleteListsSuffice` | `ChatRoomProofs` | `CompleteListDraws` |
| `ImplementsChatBoard` | `ChatRoomProofs` | `BoardSpec` (a refinement) |
| `RowsNeverVanish` | `ChatRoomProofs` | `RowsStay` (an action property) |
| `OverExactly` | `RoomProofs` | `OverFromStart` |
| `NoRoomForToday` | `RoomProofs` | `TodaysRoomIsOver` |
| `LabelsNeverBack` | `RoomProofs` | `LabelsMoveOn` (an action property) |
| `SeenIsSent` | `RoomProofs` | `CleanFormShowsModel` |
| `OnlyItsAnswerCloses` | `RoomProofs` | `FormClosedByItself` (an action property) |
| `SeatBeforeChat` | `RoomProofs` | `ChatOnlyWithSeat` |
| `EverySeatIsKnown` | `RoomProofs` | `SeatsAreKnown` |
| `CrashTakesTwoTaps` | `RoomProofs` | `CrashNeedsSecondTap` |
| `NeverShutIn` | `MyInfoProofs` | `TabBarLeadsOut` |
| `EmptyMeansEmpty` | `MyInfoProofs` | `PlaceholderIsTrue` |
| `SheetIsSeen` | `MyInfoProofs` | `HiddenSheetNeedsRace` |
| `PhotoInView` | `MyInfoProofs` | `PhotoChangesInView` (an action property) |
| `NoCallBehind` | `SignInProofs` | `NothingLeftBehind` |
| `NoMixedProfile` | `SignInProofs` | `OneUsersProfile` |
| `ShownAnswersStored` | `SignInProofs` | `AnswersKept` |
| `EveryStepAnswered` | `SignInProofs` | `StepsAnswered` |
| `SelectionIsShown` | `TabsProofs` | `AnsweredSelectionShown` |
| `LeaderIsJoinjang` | `TabsProofs` | `AnsweredLeaderIsJoinjang` (an action property) |
| `ListOnlyAdvances` | `TabsProofs` | `ListNeverOlder` (an action property) |
| `DoneMeansCommitted` | `FirestoreWritesProofs` | `DoneIsCommitted` |
| `NothingForgotten` | `FirestoreWritesProofs` | `StoredIsResolved` |
| `AssertionsHold` | `FirestoreWritesProofs` | `HardAssertsHold` |
| `ImplementsWriteQueue` | `FirestoreWritesProofs` | `QueueSpec` (a refinement) |
| `AnswersAreCounted` | `FirestoreWatchProofs` | `AnswersDue` |
| `TokenIsCovered` | `FirestoreWatchProofs` | `TokenCoversDisk` |
| `SyncedViewIsTrue` | `FirestoreViewProofs` | `SyncedViewIsServers` |
| `NeverGivesWay` | `FirestoreViewProofs` | `NeverOlder` (an action property) |

None of the properties is inductive as it stands. In each module `IInv` is the
strengthening (`DatesInv`, `MatchInv` and `JoinInv` in `RoomProofs`,
`MatchingInv` and `HomeInv`, one per tab, in `TabsProofs`, `WatchInv` in
`FirestoreWatchProofs`, with `ViewInv` and `ShownInv` of `FirestoreViewProofs` on
top of it); the lemmas on `Init` and `Next` (`InvInit` or `InitInv`, `InvStep`)
show it inductive, and the last theorems read the properties off it; where a
property needs more (`ShownHeld`, `StoredInv`), that has an induction of its own
on top. The step lemmas before the induction step
take one group of actions each.

### The chat room

What a table shows was in the collection or in the device's own stored queue
when the snapshot came; what is in the collection was in some queue; and what is
in a queue was put there by `SendMessage`. So the invariant has to speak of all
three places:

* `QueuesHoldSent`, `ServerHoldsSent`, `ScreensHoldSent`: a document under key
  `k`, in any of the three, is a message of the history, said at second `k`,
  with its sender – a member – as its only user (`Said`). A row on a screen in
  addition can be drawn there, or the app would have crashed.
* `QueuesOrdered`: a queue holds its messages in the order of the history, each
  once; `LandedStays`: the paths of the writes this connection has applied are
  never empty, whatever is sent again after a break.
* `LostGone`, `UnsavedUnseen`: what went with its process is in no queue and on
  no screen; what is not yet stored is on no screen and not on the server.
* `ScreensLive`: a controller belongs to a running process and to a member, a
  listener to a controller on display, and user lists name members only.
* `JoinsFirst`: before the room document is committed, every device with a chat
  controller has it in its queue, ahead of all of its messages.
* `Accounted`: every message of the history is queued, on the server, lost
  unsaved, or has a rival; `NothingElseLost` follows with `UnsavedUnseen`.

`AppendStep` and `LoadStep` add to a queue, `StoreStep` moves `saved`,
`CommitStep` the collection, `AcknowledgeStep` takes the head away,
`ReconnectStep` starts the sending anew, `SnapshotStep` draws, `EndStep` ends a
process, and `ScreenStep` covers the actions that touch neither queues nor
documents.

For the refinement, the posts in flight are the messages of the queue, found by
counting: `Carried(q, k)` of the first `k` writes carry one. The count goes up
by one at a message and rests at a join document (`CarriedSteps`), so every
number up to the last is taken exactly once (`CarriedOnce`), which makes
`MessagesOf` the one sequence with each message at its count
(`MessagesOfProperties`). From this come `MessagesOfAppend`, `MessagesOfPrefix`
and `MessagesOfTail`, and with them the steps: `SendMessage` is `Submit`,
`Commit` of a message is `Land`, `Acknowledge` of one is `Settle`, the end of a
process is `Withdraw`, `Reconnect` is `Reconnect`; the rest, join documents
included, is not seen on the board.

`RowsNeverVanish` needs one thing more, `ShownHeld`: what a table shows is
committed or on the device's own disk, so the next snapshot, wherever it is made
from, has a row there too.

### Start dates

The labels are arithmetic: a second is its day and its time of day
(`DayAndTime`), so `StartTimeOver` goes through the three ways the days of start
and clock compare and ends at `OverUpToZero`, the words for a number of seconds.
What the steps have to preserve is where the arguments come from.
`TodaysRoomIsOver` follows from the labels only because a room of the day on
which its form was opened starts at the very second the form was opened, and
that second is past: no form is of the future and its picker keeps its time of
day (`FormDates`), a date set on the form has that time of day too
(`StoredDates`), and hence the room (`RoomDates`).

`LabelsNeverBack` says that both rows of words are in order: less time left says
no more (`StartWordsFall`; across days, `StartTimeFalls`), more time since says
no less where it says something (`CreatedWordsRise`).

### The form

`CleanFormShowsModel` is kept by every step once the types and `FormOnStack` (a
form is open exactly when the home list is not on top) are carried with it. What
the user enters goes into the model and onto the display at once (`EnterStep`);
`FillStep` goes through the entries, and only the clear button writes one
without the other, which ends the form's being clean. That the two agree is
shown field by field (`FieldsAgree`), because "all tiers" is a choice of the
display that the model does not have. A form that opens starts `Fresh`, and what
it then shows is what an initialized `MakeMatchingModel` holds
(`FreshShowsInitialized`); that it always finds a number no request in flight
carries (`NewFormIsNamed`) follows from the bound on the requests.
`OnlyItsAnswerCloses` uses `FormOnStack` to exclude that a form gives way to
another: without the x button it only leaves with `Finish`, whose guard and
assignments are the conclusion.

### Join screen

An answer is let in by the identity of the join screen that asked, and by
nothing else; what has to be preserved is that no new screen takes the identity
of one that still awaits an answer. `ScreenHasRoom` and `AskedForRoom` tie the
shared model, the screen on the stack and its requests to one room;
`SeatIsTaken` says that a positive answer on its way has its seat;
`ChatHasSeat` that a chat, also one whose second push stops the app, belongs to
a seat of the user; `OneTapOneAnswer` that without a second tap no screen has
two requests in flight, and none once its chat is on top. The last is what
`CrashNeedsSecondTap` needs. Requests are a sequence out of which any one may be
taken: `RemoveAtProperties` says what is left.

### My tab

`PlaceholderIsTrue` compares a page with replies to requests of *earlier* pages
of its kind. `AskedByPage` says that the page on top has at most one request
out, for its own list, and that it is the only one for that list if no older one
was out when the page opened. Visit numbers are the least free ones
(`LeastNumber`), so that an old request is never mistaken for one of the new
page. `TabBarOfPage` says which pages leave the tab bar alone and which put it
away; `PanelGone` that once the panel is gone a picker can only come from a
block that was queued when Cancel was tapped.

### Sign-in

While no two sign-ins overlapped, at most one chain is under way, and only on
the login screen (`OneChain`); the model holds what its replies have brought so
far, step by step (`ModelFollowsChain`). Behind the login screen lies a stack
that nobody has answered yet (`LoginIsFresh`), so that `StepsAnswered` and
`AnswersKept`, which are about the screens of the onboarding, are not disturbed
by the chain that opens it.

### The two tabs

`NewestIsSelected`: while the newest request is awaited it is the last in
flight, for the selected button; the request that lays out the tab is for the
joined list. For the home list (`HomeInv`), the list on show and every reply on
its way hold no fewer free seats than the backend has now (`NoFewer`); while
requests did not overlap at most one is in flight, and its reply holds no more
than the list on show.

### Firestore writes

What has to be carried through every step is where each request and each answer
is: in the client's buffer, with gRPC, with the server, or come back. `Flow`
says it with one count. While a call has shaken hands (`Sending`), the writes
the server has applied from the queue are as many as the answers on their way
to the client, and the writes behind them in the queue, up to the last one in
the pipeline, are exactly those with the server, with gRPC and in the buffer, in
this order; before (`Shaking`), the only request out is the handshake, and the
pipeline is not sent. `DoneIsCommitted` follows because an answer that the
client reads finds `applied > 0` (`ReadMeansApplied`), and the head of the
pipeline is the head of the queue (`FrontOK`).

* `InOrder`: the batches of the queue are numbered upwards and not empty.
* `CallOK`, `ClientOK`: what of a gRPC call and of the client's fields can be
  together, with the stream open (`Opened`) or not (`Shut`): which operations
  are with gRPC, and which completions wait, of each kind at most one.
* `WireOK`: there is traffic only while the stream is open.
* `LateOK`: requests of a call that was given up are the writes next in the
  queue, so that serving them late lands nothing out of order.

`CallStep` covers the actions that only complete an operation of gRPC, `ShutStep`
those that close the stream, `OpenStep` those that leave it open, `FillStep` the
refilling of the pipeline (`FillOK`), which with a call that has shaken hands
also sends. `StoredInv` has its own induction on top: a write is in one place
only, waiting for the worker queue, stored, gone with its process, or resolved
(`Placed`).

For the refinement (`QueueStep`) `WriteMutations` is `Submit`,
`OnWriteStreamMutationResult` is `Acknowledge`, `HandleWriteError` is
`Acknowledge` or `Reject`, `ServeWrite` and `ServeLate` are `Land`,
`ServeHandshake` is `Reconnect`, and every other action stutters.

### The watch stream

`TokenCoversDisk` is about the disk, but the disk is filled from a stream whose
parts are on their way while the listener stops, starts again and the stream
breaks. So the invariant follows what the server owes from the token of a
request through the wire and the aggregator to the cache. A response is *fresh*
(`Fresh`) when no answer to a request comes after it: what is before an answer
the aggregator throws away.

* `StreamOK`: `AnswersDue`, and what client and wire can be together while the
  stream is off, starting or open.
* `AsksLast`: the last request is the listener's, from the token it has; without
  a listener the last was to stop.
* `StreamCovers`: for each version that is promised – by a fresh snapshot on its
  way, by the version the server has served up to, by the token told last –
  every document committed up to it will be held by then: it is held now (cache
  and target's keys), or the aggregator has gathered it (`Gathered`), or a fresh
  document message with it comes before the promise (`Coming`).
* `InOrder`: the versions of snapshots go up along the stream, and none is below
  what the aggregator already has.
* `RoundsOK`, `TokenTold`, `GatherOK`, `Bounds`: a round is closed by its
  snapshot; a token told is of a snapshot or comes with one; nothing is gathered
  without a listener; no version is ahead of the log.
* `TokensOK`: the disk covers (`DiskCovers`) the token on disk and the token the
  listener keeps.
* `MadeOK`: versions in the cache, in the aggregator and on the wire are commits
  of the very document they stand for.

The lemmas on operators come first: `VersionAtProperties` and
`VersionAtLonger` (the log only grows), `MoreAnswers`, `TailAnswers` (counting),
`ListOfChanged` (the list the server sends has each changed document),
`NextViewShows`. `Quiet` and `Restarted` say what the online state and the
closing of a stream leave alone. Then one step lemma per thing that can happen
to a stream: a response is read (`AnswerStep`, `ToldStep`, `ResetStep`,
`DocumentStep`, `RaiseStep`), the client asks (`AskStep`, `OpenStep`), begins
anew (`RestartStep`), the server answers (`ServeStep`, `RoundStep`) or commits
(`CommitStep`), an acknowledged write goes into the cache (`CacheStep`); and one
lemma per action that shows it to be such a step.

### The view of a chat

The listener sees the view, and the view is only told of documents that changed:
nothing in the code compares it with the disk again. `ViewInv` says that it need
not, on top of `WatchInv`:

* `OwnOK`: the commits of the device are its stored writes, from the first on,
  each once and in their order; what is acknowledged is committed.
* `CacheOK`: a document in the cache is the server's and not newer than the last
  version raised, or an acknowledged write of the device.
* `UpdatesOK`: the snapshot that will store a document message comes behind it
  on the wire, and is not older (`Closed`): what is gathered is not raised late.
* `ViewOK`: each document of the view has the content that the disk and the
  stored writes make of it (`DocOf`, which is `LocalDoc` for any log). Only the
  *state* may lag behind (`Fits`): an acknowledged write whose snapshot has not
  come is still shown as the device's own, as
  `View::ShouldWaitForSyncedDocument` has it. `FitsStep` is the core: whatever
  `ComputeDocumentChanges` takes or leaves out, the document still fits.
* `CurrentOK`: a view is current only with a listener and while the disk covers
  the last version raised; on an open stream no answer comes before a version
  that is on its way: the server goes on with the listen that made the view
  current, or a new stream has just asked again (`Uninterrupted`).
* `AckedSeen`: an acknowledged write that the view does show as such comes with
  the next snapshot, so that no limbo document can be left in a current view.

`SyncedFromView` reads `SyncedViewIsServers` off the two invariants: the
documents are the disk's (`ViewOK`), the disk's are the server's at that version
(`CurrentOK`, `CacheOK`) or newer by an own write that was acknowledged ahead of
it.

`NeverOlder` is about the order in which contents were made, and that order
moves: a write that is not committed counts as the last, until its commit gives
it a place. `OrderLater` shows that a commit keeps the order of any two
contents, because the device's writes are committed in their order (`OwnOK`).
Within one log, what the device has of a document is only ever replaced by
something made later: with a greater version in the cache (`CacheGrowsHere`), a
write of its own (`WriteGrowsHere`), an acknowledgement (`AckGrowsHere`: the
write's own version, or a newer one, is in the cache when it stops hiding it).
`ShownInv` ties it to the screen: what is on show was not made later than what
the device has, so a listener that is told anything is told something at least
as late (`ShownStep`), be it a chat that is opened anew.

### Only model-checked

Liveness (`EventuallyShown`, `Drains`, `RaisedOffline`, `CaughtUp`,
`RefreshEnds`, `CompleteUserGetsIn`) is outside what the prover does. Every
safety property and every action property of a passing run is proved.

## 5. What is not modelled, and assumptions

* **Backend**: external, modelled by what the app can observe. It answers
  truthfully, may answer late or never, and never removes a member.
* **Firestore client, writes**: several users, transactions, `get`, the bytes of
  the protocol, the difference between the kinds of transient errors (all are
  one `BreakCall`, a backoff always elapses).
* **Firestore client, listening**: existence filters and errors of a target
  (what the app sees of the latter is `ListenError` in `ChatRoom`), deleted
  documents and limits (the chat deletes nothing and asks for everything), the
  garbage collection of the cache, two rooms open at once. Resolution of limbo
  documents is left out because `SyncedViewIsServers` shows that a chat never
  has any. In `ChatRoom` a re-opened chat starts empty or from the server; that
  the client may raise its cache first is in `FirestoreWatch` (`FirstView`).
* **UIKit**: an animated or covered panel takes no taps; tapping the selected
  tab pops to the root; a popped controller without references is released; a
  date picker keeps its time of day. The swipe-back gesture is not modelled: the
  app hides the navigation bars, and each page is left by its own button.
* **Strings**: dates, names and texts are values; formats are left out. So is
  the order of rows by `H:mm:ss`, and the three separate readings of the clock
  that make up a key.
* **Alerts** that change nothing; layout, keyboard, colours, fonts.
* **Manner**: the image by score and the vote sheet, which sends nothing.
* **Pictures** of the friend and blocked lists are assumed to load; a picture
  that does not load is modelled in `ChatRoom`.
* **The third tab beside the others**: it shares only the tab bar with them,
  which `MyInfo` follows by itself; the stack over the home list is `JoinGame`.
* **Dead code**: `postGame`, `putGame`, `deleteGame`, `postManner`,
  `postConnetion`, `putOnboarding`, `getRoomUser`, `getSelectedRoom`,
  `TimeUnits`, `InternetAvailable`, `ChangeViewController`, the empty view
  models. That nothing calls `postGame` is in `SignIn`: a user who came through
  onboarding has no game, and cannot sign in again (`GameService:43`).
* **The other pods** (BoringSSL, gRPC, abseil, LevelDB, nanopb, RxSwift, SnapKit,
  Kingfisher, GoogleSignIn): other programs. Of gRPC and LevelDB the Firestore
  modules state what the client relies on.

## 6. Plan

What is left, in the order in which it is worth doing:

1. *Existence filters*: the one case in which a listener asks the server again
   from nothing.
2. *Name and profile over sign-ins*: `MyInfo`'s edits are never sent
   (`MyProfileEdit:282`), so that the next sign-in undoes them.
3. *Tier and manner words* as functions, checked over all scores and ranges.
