--------------------------- MODULE FirestoreWatch ---------------------------
(***************************************************************************)
(* The listen path of the Firestore client of one device: how the messages *)
(* of a chat collection come from the server to the snapshot listener of   *)
(* the chat screen.                                                        *)
(*                                                                         *)
(*   server -> watch stream -> WatchChangeAggregator -> LocalStore (disk)  *)
(*          -> View -> QueryListener -> the table                          *)
(*                                                                         *)
(* Everything of the client runs on one worker queue, so a worker          *)
(* operation is one action.  The chat screen has one listener at a time,   *)
(* on a whole collection whose documents are never deleted.                *)
(*                                                                         *)
(* A version is the number of a commit of the server, and the content of a *)
(* document the write that made it.  The device's own writes are stored,   *)
(* committed and acknowledged in order (WriteQueue, which FirestoreWrites  *)
(* implements).                                                            *)
(*                                                                         *)
(* The server and the network are external: the server answers the         *)
(* requests of a stream in order, sends what was committed since the       *)
(* token it is given, and closes each round with the version the round is  *)
(* complete at; it may refuse a token and start over (reset).  A stream    *)
(* that breaks takes with it what was on its way.                          *)
(***************************************************************************)
EXTENDS Integers, Sequences, FiniteSets, SequencesExt

CONSTANTS
  Keys,         \* documents of the collection
  MaxOwn,       \* bound: writes of this device, numbered 1..MaxOwn
  MaxOthers,    \* bound: commits of other devices
  MaxListens,   \* bound: listeners that are registered
  MaxBreaks     \* bound: failures and restarts of the stream, ends of the process

ASSUME ConstantsAssumption ==
  /\ MaxOwn \in Nat
  /\ MaxOthers \in Nat
  /\ MaxListens \in Nat
  /\ MaxBreaks \in Nat

VARIABLES
  commits,     \* server: its log; own is the device's write or 0
  writes,      \* disk: the keys of the writes the device stored
  acked,       \* disk: how many of them are acknowledged
  disk,        \* disk: remote documents, target data, last remote version
  client,      \* SyncEngine, RemoteStore and EventManager of the device
  wire,        \* the watch stream between client and server
  listens, breaks   \* counters of the bounds

counters == <<listens, breaks>>
vars == <<commits, writes, acked, disk, client, wire, counters>>

-----------------------------------------------------------------------------
(* Documents *)

\* The last version of a document up to version v, 0 if there is none.
VersionAt(log, v, k) ==
  LET made == {i \in 1..v : log[i].key = k}
  IN  IF made = {} THEN 0 ELSE CHOOSE i \in made : \A j \in made : j <= i

\* The write that made a version: one of the device, or another's.
Content(log, v) == IF log[v].own # 0 THEN log[v].own ELSE MaxOwn + v

NoDoc == [content |-> 0, state |-> "none"]

\* LocalDocumentsView: the device's last write to k that is not acknowledged
\* hides the document of the cache.
LocalDoc(cache, stored, done, k) ==
  LET own == {i \in (done + 1)..Len(stored) : stored[i] = k}
  IN  IF own # {}
      THEN [content |-> CHOOSE i \in own : \A j \in own : j <= i,
            state   |-> "local"]
      ELSE IF cache[k].version = 0 THEN NoDoc
      ELSE [content |-> Content(commits, cache[k].version),
            state   |-> IF cache[k].byAck THEN "committed" ELSE "synced"]

-----------------------------------------------------------------------------
(* View *)

NoView == [docs |-> [k \in Keys |-> NoDoc], mutated |-> {}, synced |-> {},
           current |-> FALSE, syncState |-> "none"]

\* Documents that are on show although neither the server's result nor a
\* write of the device accounts for them.
Limbo(v) ==
  {k \in Keys \ v.synced : v.docs[k].state \in {"committed", "synced"}}

\* ShouldWaitForSyncedDocument: a change by an acknowledgement waits for the
\* watch stream.
ShouldWaitForSyncedDocument(new, old) ==
  old.state = "local" /\ new.state = "committed"

\* Whether ComputeDocumentChanges takes the new document of k.
Changes(v, k, new) ==
  LET old     == v.docs[k]
      pending == \/ new.state = "local"
                 \/ k \in v.mutated /\ new.state = "committed"
  IN  CASE old = NoDoc \/ new = NoDoc  -> old # new
        [] old.content # new.content   -> ~ShouldWaitForSyncedDocument(new, old)
        [] OTHER                       -> (k \in v.mutated) # pending

\* A target change: the documents that enter and leave the server's result.
NoChange == [added |-> {}, removed |-> {}, current |-> FALSE, any |-> FALSE]

ApplyTargetChange(v, change) ==
  IF ~change.any THEN v
  ELSE [v EXCEPT !.synced  = (@ \cup change.added) \ change.removed,
                 !.current = change.current]

\* ComputeDocumentChanges and ApplyChanges: the view with the documents new.
NextView(v, new, change) ==
  LET taken   == {k \in DOMAIN new : Changes(v, k, new[k])}
      local   == {k \in taken : new[k].state = "local"}
      changed == [v EXCEPT
                    !.docs    = [k \in Keys |-> IF k \in taken THEN new[k] ELSE @[k]],
                    !.mutated = (@ \ taken) \cup local]
      next    == ApplyTargetChange(changed, change)
  IN  [next EXCEPT !.syncState =
         IF next.current /\ Limbo(next) = {} THEN "synced" ELSE "local"]

-----------------------------------------------------------------------------
(* QueryListener and EventManager *)

Contents(v) == [k \in Keys |-> v.docs[k].content]

\* ShouldRaiseInitialEvent: with no documents and a server that may still
\* answer, the listener waits.
ShouldRaiseInitialEvent(c) ==
  \/ c.view.syncState = "synced"
  \/ \E k \in Keys : c.view.docs[k] # NoDoc
  \/ c.online = "Offline"

Raise(c) == [c EXCEPT !.raised = TRUE, !.shown = Contents(c.view)]

\* OnViewSnapshot: later events need a change that is not of metadata only.
OnViewSnapshot(c, old) ==
  IF \/ ~c.raised /\ ShouldRaiseInitialEvent(c)
     \/ c.raised /\ Contents(c.view) # Contents(old)
  THEN Raise(c) ELSE c

\* EmitNewSnapshotsAndNotifyLocalStore: the changed documents and the target
\* change reach the view, and its snapshot the listener.
EmitNewSnapshots(c, new, change) ==
  IF ~c.listening THEN c
  ELSE OnViewSnapshot([c EXCEPT !.view = NextView(@, new, change)], c.view)

NoDocs == [k \in {} |-> NoDoc]

-----------------------------------------------------------------------------
(* OnlineStateTracker *)

\* SetAndBroadcast: a view that goes offline is no longer current.
SetAndBroadcast(c, state) ==
  IF state = c.online THEN c
  ELSE LET told == [c EXCEPT !.online = state]
       IN  IF ~c.listening THEN told
           ELSE IF state = "Offline" /\ c.view.current
           THEN EmitNewSnapshots([told EXCEPT !.view.current = FALSE], NoDocs, NoChange)
           ELSE OnViewSnapshot(told, c.view)

UpdateState(c, state) ==
  SetAndBroadcast([c EXCEPT !.timer = FALSE, !.failed = FALSE], state)

\* The first attempt sets the timer; failed is watch_stream_failures_ > 0.
HandleWatchStreamStart(c) ==
  IF c.failed THEN c
  ELSE [SetAndBroadcast(c, "Unknown") EXCEPT !.timer = TRUE]

\* Variant: the failure is counted and nobody is told.
HandleWatchStreamFailureSilent(c) ==
  IF c.online = "Online" THEN SetAndBroadcast(c, "Unknown")
  ELSE [c EXCEPT !.failed = TRUE, !.timer = FALSE]

HandleWatchStreamFailure(c) ==
  IF c.online = "Online" THEN SetAndBroadcast(c, "Unknown")
  ELSE SetAndBroadcast([c EXCEPT !.failed = TRUE, !.timer = FALSE], "Offline")

-----------------------------------------------------------------------------
(* WatchChangeAggregator *)

\* A target that was just added is part of the next event.
NoTargetState == [outstanding |-> 0, changes |-> [k \in Keys |-> "none"],
                  current |-> FALSE, token |-> 0, pending |-> TRUE]

NewAggregator == [target |-> NoTargetState, updates |-> [k \in Keys |-> 0]]

\* IsActiveTarget: listened to, and no answer is outstanding.
IsActive(c) == c.agg.target.outstanding = 0 /\ c.listening

RecordPendingTargetRequest(c) ==
  [c EXCEPT !.agg.target.outstanding = @ + 1]

ClearPendingChanges(t) ==
  [t EXCEPT !.pending = FALSE, !.changes = NoTargetState.changes]

UpdateResumeToken(t, token) ==
  IF token = 0 THEN t ELSE [t EXCEPT !.pending = TRUE, !.token = token]

\* A document that enters or changes.
AddDocumentToTarget(c, k, version) ==
  IF ~IsActive(c) THEN c
  ELSE [c EXCEPT
          !.agg.target.pending    = TRUE,
          !.agg.target.changes[k] =
              IF k \in c.view.synced THEN "Modified" ELSE "Added",
          !.agg.updates[k]        = version]

\* ResetTarget: every document of the result is taken out.
ResetTarget(c) ==
  [c EXCEPT !.agg.target.changes =
              [k \in Keys |-> IF k \in c.view.synced THEN "Removed" ELSE "none"],
            !.agg.target.current = FALSE,
            !.agg.target.token   = 0,
            !.agg.target.pending = TRUE]

RecordTargetResponse(c) == [c EXCEPT !.agg.target.outstanding = @ - 1]

\* The answer to a listen: what was gathered before it is forgotten.
TargetAdded(c) ==
  LET answered == RecordTargetResponse(c)
  IN  IF answered.agg.target.outstanding # 0 THEN answered
      ELSE [answered EXCEPT !.agg.target = ClearPendingChanges(@)]

\* Variant: the state goes even when the next listen was sent.
TargetRemovedUncounted(c) == [c EXCEPT !.agg.target = NoTargetState]

\* The answer to an unlisten: the target's state goes.
TargetRemoved(c) ==
  LET answered == RecordTargetResponse(c)
  IN  IF answered.agg.target.outstanding # 0 THEN answered
      ELSE [answered EXCEPT !.agg.target = NoTargetState]

TargetCurrent(c, token) ==
  IF ~IsActive(c) THEN c
  ELSE [c EXCEPT !.agg.target =
          UpdateResumeToken([@ EXCEPT !.current = TRUE, !.pending = TRUE], token)]

TargetNoChange(c, token) ==
  IF ~IsActive(c) THEN c
  ELSE [c EXCEPT !.agg.target = UpdateResumeToken(@, token)]

\* ToTargetChange, empty when there is nothing pending for an active target.
TargetChange(c) ==
  LET t == c.agg.target
  IN  IF ~IsActive(c) \/ ~t.pending THEN NoChange
      ELSE [added   |-> {k \in Keys : t.changes[k] = "Added"},
            removed |-> {k \in Keys : t.changes[k] = "Removed"},
            current |-> t.current,
            any     |-> TRUE]

\* What CreateRemoteEvent leaves behind.
EventTaken(c) ==
  [c EXCEPT !.agg.target  = IF IsActive(c) THEN ClearPendingChanges(@) ELSE @,
            !.agg.updates = NewAggregator.updates]

-----------------------------------------------------------------------------
(* RemoteStore *)

NoWire == [requests |-> <<>>, responses |-> <<>>,
           serving |-> FALSE, current |-> FALSE, upTo |-> 0]

NewClient == [listening |-> FALSE, token |-> 0, view |-> NoView, raised |-> FALSE,
              shown |-> [k \in Keys |-> 0], online |-> "Unknown", failed |-> FALSE,
              timer |-> FALSE, stream |-> "off", idle |-> FALSE,
              agg |-> NewAggregator]

NewDisk == [cache |-> [k \in Keys |-> [version |-> 0, byAck |-> FALSE]],
            keys |-> {}, token |-> 0, lastRemote |-> 0]

StartWatchStream(c) ==
  HandleWatchStreamStart([c EXCEPT !.agg = NewAggregator, !.stream = "starting"])

Send(request) == wire' = [wire EXCEPT !.requests = Append(@, request)]

WatchRequest(c) == [listen |-> TRUE, token |-> c.token]
UnwatchRequest  == [listen |-> FALSE, token |-> 0]

\* Stream::Close up to the callback.
Close(c) == [c EXCEPT !.stream = "off", !.idle = FALSE]

\* OnWatchStreamClose after an error: a stream that is needed starts again.
OnWatchStreamClose(c) ==
  IF c.listening THEN StartWatchStream(HandleWatchStreamFailure(Close(c)))
  ELSE UpdateState(Close(c), "Unknown")

-----------------------------------------------------------------------------
Init ==
  /\ commits = <<>>
  /\ writes = <<>>
  /\ acked = 0
  /\ disk = NewDisk
  /\ client = NewClient
  /\ wire = NoWire
  /\ listens = 0
  /\ breaks = 0

(* The chat screen *)

\* Variant: the documents are not read.
FirstViewWithoutDocs ==
  NextView([NoView EXCEPT !.synced = disk.keys], [k \in {} |-> NoDoc], NoChange)

\* SyncEngine::InitializeViewAndComputeSnapshot: the view starts with the
\* documents on disk and the keys of the target.
FirstView == NextView([NoView EXCEPT !.synced = disk.keys],
                      [k \in Keys |-> LocalDoc(disk.cache, writes, acked, k)],
                      NoChange)

\* EventManager::AddQueryListener: the listener may be called with what is on
\* disk, and the target is listened to from the token on disk.
Listen ==
  /\ ~client.listening
  /\ listens < MaxListens
  /\ listens' = listens + 1
  /\ LET heard == OnViewSnapshot([client EXCEPT !.listening = TRUE,
                                                !.token     = disk.token,
                                                !.view      = FirstView,
                                                !.raised    = FALSE], NoView)
     IN  \/ /\ client.stream = "off"
            /\ client' = StartWatchStream(heard)
            /\ UNCHANGED wire
         \/ /\ client.stream = "starting"
            /\ client' = heard
            /\ UNCHANGED wire
         \/ /\ client.stream = "open"
            /\ client' = [RecordPendingTargetRequest(heard) EXCEPT !.idle = FALSE]
            /\ Send(WatchRequest(heard))
  /\ UNCHANGED <<commits, writes, acked, disk, breaks>>

\* EventManager::RemoveQueryListener: a stream that is open is told and left
\* idle.
StopTarget ==
  LET gone == [client EXCEPT !.listening = FALSE, !.token = 0, !.view = NoView,
                             !.raised = FALSE]
  IN  \/ /\ client.stream = "open"
         /\ client' = [RecordPendingTargetRequest(gone) EXCEPT !.idle = TRUE]
         /\ Send(UnwatchRequest)
      \/ /\ client.stream # "open"
         /\ client' = UpdateState(gone, "Unknown")
         /\ UNCHANGED wire

\* Variant: the token is stored that the stream has told last.
StopListeningAhead ==
  /\ client.listening
  /\ disk' = [disk EXCEPT !.token = client.agg.target.token]
  /\ StopTarget
  /\ UNCHANGED <<commits, writes, acked, counters>>

\* LocalStore::ReleaseTarget stores the token of the target.
StopListening ==
  /\ client.listening
  /\ disk' = [disk EXCEPT !.token = client.token]
  /\ StopTarget
  /\ UNCHANGED <<commits, writes, acked, counters>>

\* SyncEngine::WriteMutations: the device stores a write of its own.
WriteMutations(k) ==
  /\ Len(writes) < MaxOwn
  /\ writes' = Append(writes, k)
  /\ client' = EmitNewSnapshots(client,
                 [j \in {k} |-> LocalDoc(disk.cache, writes', acked, j)], NoChange)
  /\ UNCHANGED <<commits, acked, disk, wire, counters>>

\* SyncEngine::HandleSuccessfulWrite: the acknowledged write goes into the
\* cache unless a newer document is there.
HandleSuccessfulWrite ==
  \E v \in DOMAIN commits :
    LET k     == commits[v].key
        cache == IF disk.cache[k].version >= v THEN disk.cache
                 ELSE [disk.cache EXCEPT ![k] = [version |-> v, byAck |-> TRUE]]
    IN  /\ commits[v].own = acked + 1
        /\ acked' = acked + 1
        /\ disk' = [disk EXCEPT !.cache = cache]
        /\ client' = EmitNewSnapshots(client,
                       [j \in {k} |-> LocalDoc(cache, writes, acked', j)], NoChange)
        /\ UNCHANGED <<commits, writes, wire, counters>>

(* The watch stream *)

\* Variant: the targets are not listened to again.
OnWatchStreamOpenSilent ==
  /\ client.stream = "starting"
  /\ client' = [client EXCEPT !.stream = "open"]
  /\ wire' = NoWire
  /\ UNCHANGED <<commits, writes, acked, disk, counters>>

\* OnWatchStreamOpen: the target is listened to again, from its last token.
\* The stream is open once gRPC has taken the call, connected or not.
OnWatchStreamOpen ==
  /\ client.stream = "starting"
  /\ LET open == [client EXCEPT !.stream = "open"] IN
     \/ /\ client.listening
        /\ client' = RecordPendingTargetRequest(open)
        /\ wire' = [NoWire EXCEPT !.requests = <<WatchRequest(client)>>]
     \/ /\ ~client.listening
        /\ client' = open
        /\ wire' = NoWire
  /\ UNCHANGED <<commits, writes, acked, disk, counters>>

\* The stream cannot be opened, or breaks.
BreakStream ==
  /\ client.stream # "off"
  /\ breaks < MaxBreaks
  /\ breaks' = breaks + 1
  /\ client' = OnWatchStreamClose(client)
  /\ wire' = NoWire
  /\ UNCHANGED <<commits, writes, acked, disk, listens>>

\* The idle timer: a graceful stop.
IdleTimeout ==
  /\ client.idle
  /\ client' = UpdateState(Close(client), "Unknown")
  /\ wire' = NoWire
  /\ UNCHANGED <<commits, writes, acked, disk, counters>>

\* RestartNetwork, when the connectivity changed.
RestartNetwork ==
  /\ client.stream # "off"
  /\ breaks < MaxBreaks
  /\ breaks' = breaks + 1
  /\ LET stopped == UpdateState(Close(client), "Unknown")
     IN  client' = IF client.listening THEN StartWatchStream(stopped) ELSE stopped
  /\ wire' = NoWire
  /\ UNCHANGED <<commits, writes, acked, disk, listens>>

\* Ten seconds without a word of the server.
OnlineStateTimeout ==
  /\ client.timer
  /\ client' = SetAndBroadcast([client EXCEPT !.timer = FALSE], "Offline")
  /\ UNCHANGED <<commits, writes, acked, disk, wire, counters>>

(* OnWatchStreamChange: any message of the server brings the client online. *)

OnWatchStreamChange(type) ==
  /\ client.stream = "open"
  /\ wire.responses # <<>>
  /\ Head(wire.responses).type = type
  /\ wire' = [wire EXCEPT !.responses = Tail(@)]
  /\ UNCHANGED <<commits, writes, acked, counters>>

Online  == UpdateState(client, "Online")
Version == Head(wire.responses).version

HandleTargetChange ==
  /\ \/ /\ OnWatchStreamChange("added")
        /\ client' = TargetAdded(Online)
     \/ /\ OnWatchStreamChange("removed")
        /\ client' = TargetRemoved(Online)
     \/ /\ OnWatchStreamChange("current")
        /\ client' = TargetCurrent(Online, Version)
     \/ /\ OnWatchStreamChange("reset")
        /\ client' = IF IsActive(Online) THEN ResetTarget(Online) ELSE Online
  /\ UNCHANGED disk

HandleDocumentChange ==
  /\ OnWatchStreamChange("document")
  /\ client' = AddDocumentToTarget(Online, Head(wire.responses).key, Version)
  /\ UNCHANGED disk

\* Variant: what the server sends is taken as it comes.
IsNewerAlways(cached, version) == cached.version >= 0 \/ version > 0

\* Whether LocalStore::ApplyRemoteEvent takes the update of document k.
IsNewer(cached, version) ==
  version > cached.version \/ (version = cached.version /\ cached.byAck)

\* A message with a version the stream is complete at: what was gathered is
\* stored and shown.  The token goes to disk with changed documents and
\* otherwise now and then (ShouldPersistTargetData).
RaiseWatchSnapshot ==
  LET c       == TargetNoChange(Online, Version)
      change  == TargetChange(c)
      newer   == {k \in Keys : /\ c.agg.updates[k] # 0
                               /\ IsNewer(disk.cache[k], c.agg.updates[k])}
      cache   == [k \in Keys |->
                    IF k \in newer THEN [version |-> c.agg.updates[k], byAck |-> FALSE]
                    ELSE disk.cache[k]]
      told    == change.any /\ c.agg.target.token # 0
      touched == \E k \in Keys : c.agg.target.changes[k] # "none"
  IN  /\ OnWatchStreamChange("snapshot")
      /\ Version >= disk.lastRemote
      /\ \E persisted \in BOOLEAN :
           /\ persisted => told
           /\ told /\ (client.token = 0 \/ touched) => persisted
           /\ disk' = [cache      |-> cache,
                       keys       |-> (disk.keys \cup change.added) \ change.removed,
                       token      |-> IF persisted THEN c.agg.target.token
                                      ELSE disk.token,
                       lastRemote |-> Version]
      /\ client' = EmitNewSnapshots(
                     [EventTaken(c) EXCEPT !.token =
                        IF told THEN c.agg.target.token ELSE @],
                     [k \in newer |-> LocalDoc(cache, writes, acked, k)], change)

\* A version older than the last one that was stored: nothing is raised.
HoldBackSnapshot ==
  /\ OnWatchStreamChange("snapshot")
  /\ Version < disk.lastRemote
  /\ client' = TargetNoChange(Online, Version)
  /\ UNCHANGED disk

(* The server *)

Respond(w, more) == [w EXCEPT !.responses = @ \o more]
Message(type, version) == [type |-> type, version |-> version]

Commit(k, own) ==
  /\ commits' = Append(commits, [key |-> k, own |-> own])
  /\ UNCHANGED <<writes, acked, disk, client, wire, counters>>

Own == {v \in DOMAIN commits : commits[v].own # 0}

\* Someone else writes.
CommitOther(k) ==
  /\ Len(commits) - Cardinality(Own) < MaxOthers
  /\ Commit(k, 0)

\* The device's oldest write that is not committed.
CommitOwn ==
  LET done == Cardinality(Own)
  IN  /\ done < Len(writes)
      /\ Commit(writes[done + 1], done + 1)

Request == Head(wire.requests)
Served  == [wire EXCEPT !.requests = Tail(@)]

\* A listen: from its token, or from nothing if the token is refused.
ServeListen ==
  /\ wire.requests # <<>>
  /\ Request.listen
  /\ \/ wire' = [Respond(Served, <<Message("added", 0)>>)
                   EXCEPT !.serving = TRUE, !.current = FALSE, !.upTo = Request.token]
     \/ /\ Request.token # 0
        /\ wire' = [Respond(Served, <<Message("added", 0), Message("reset", 0)>>)
                      EXCEPT !.serving = TRUE, !.current = FALSE, !.upTo = 0]
  /\ UNCHANGED <<commits, writes, acked, disk, client, counters>>

ServeUnlisten ==
  /\ wire.requests # <<>>
  /\ ~Request.listen
  /\ wire' = [Respond(Served, <<Message("removed", 0)>>) EXCEPT !.serving = FALSE]
  /\ UNCHANGED <<commits, writes, acked, disk, client, counters>>

\* A round: the documents that changed since the last one, "current" in the
\* first round, and the version the round is complete at.  The server may lag
\* behind the last commit, but not behind what it acknowledged to the device.
ServeChanges ==
  \E last \in wire.upTo..Len(commits) :
    LET changed == SetToSeq({k \in Keys : VersionAt(commits, last, k) > wire.upTo})
        round   == [i \in DOMAIN changed |->
                      [type |-> "document", key |-> changed[i],
                       version |-> VersionAt(commits, last, changed[i])]]
        close   == IF wire.current THEN <<>> ELSE <<Message("current", last)>>
    IN  /\ wire.serving
        /\ \A v \in Own : commits[v].own <= acked => v <= last
        /\ changed # <<>> \/ ~wire.current
        /\ wire' = [Respond(wire, round \o close \o <<Message("snapshot", last)>>)
                      EXCEPT !.current = TRUE, !.upTo = last]
        /\ UNCHANGED <<commits, writes, acked, disk, client, counters>>

(* The process *)

\* The process ends; only the disk stays.  What is on show at that moment is
\* kept as history.
EndProcess ==
  /\ breaks < MaxBreaks
  /\ breaks' = breaks + 1
  /\ client' = [NewClient EXCEPT !.shown = client.shown]
  /\ wire' = NoWire
  /\ UNCHANGED <<commits, writes, acked, disk, listens>>

-----------------------------------------------------------------------------
Worker ==
  \/ HandleSuccessfulWrite \/ OnWatchStreamOpen
  \/ HandleTargetChange \/ HandleDocumentChange
  \/ RaiseWatchSnapshot \/ HoldBackSnapshot

Server == ServeListen \/ ServeUnlisten \/ ServeChanges \/ CommitOwn

Next ==
  \/ Worker \/ Server \/ OnlineStateTimeout
  \/ Listen \/ StopListening \/ IdleTimeout
  \/ \E k \in Keys : WriteMutations(k) \/ CommitOther(k)
  \/ BreakStream \/ RestartNetwork \/ EndProcess

\* The worker queue runs what is on it and its timer fires; the network may
\* stay away for ever.  One weak fairness is enough, as none of it goes on
\* for ever.
Fairness == WF_vars(Worker \/ OnlineStateTimeout)

\* The server answers, and commits what the write stream brings.
ServerAnswers == WF_vars(Server)

Spec == Init /\ [][Next]_vars /\ Fairness
-----------------------------------------------------------------------------
(* Properties *)

\* The device's writes a snapshot of the server need not show yet: committed
\* after it, or not acknowledged.
Ahead(i) ==
  \/ i > acked
  \/ \E v \in DOMAIN commits : commits[v].own = i /\ v > disk.lastRemote

\* When the server has vouched for the view, no document is left in it that
\* neither the server nor the device accounts for, so that the client need
\* not ask about a single document; and the view is the collection as the
\* server had it at the last version raised: a document can only differ by a
\* later write of the device itself (View::UpdateLimboDocuments,
\* RaiseWatchSnapshot:290-352, LocalStore::ApplyRemoteEvent:255-368).
SyncedViewIsServers ==
  client.view.current =>
    /\ Limbo(client.view) = {}
    /\ \A k \in Keys :
         LET version == VersionAt(commits, disk.lastRemote, k)
             content == client.view.docs[k].content
         IN  \/ content = (IF version = 0 THEN 0 ELSE Content(commits, version))
             \/ \E i \in 1..Len(writes) : writes[i] = k /\ content = i /\ Ahead(i)

\* The token on disk never claims more than the disk holds: what the server
\* will not send again after a restart is in the cache, and in the list of
\* the target's documents (ShouldPersistTargetData:370-402,
\* LocalStore::ApplyRemoteEvent, ReleaseTarget:486-509).
TokenCoversDisk ==
  \A k \in Keys :
    LET version == VersionAt(commits, disk.token, k)
    IN  version # 0 => k \in disk.keys /\ disk.cache[k].version >= version

Answers(responses) ==
  {i \in DOMAIN responses : responses[i].type \in {"added", "removed"}}

\* The aggregator waits for exactly the answers the open stream still owes
\* it: an answer to the listener before this one is never taken for this
\* one's (RecordPendingTargetRequest, TargetState::is_pending).
AnswersDue ==
  client.stream = "open" =>
    client.agg.target.outstanding =
      Len(wire.requests) + Cardinality(Answers(wire.responses))

\* When a content was made, writes that are not committed last.
MadeAt(log, content) ==
  CASE content = 0      -> 0
    [] content > MaxOwn -> content - MaxOwn
    [] OTHER -> LET made == {v \in DOMAIN log : log[v].own = content}
                IN  IF made = {} THEN Len(log) + content
                    ELSE CHOOSE v \in made : TRUE

\* A message on show never gives way to an older one or disappears, whatever
\* breaks, and when the chat is opened again (LocalStore::ApplyRemoteEvent,
\* MutationQueue, View::ShouldWaitForSyncedDocument).
NeverOlder ==
  [][\A k \in Keys :
       MadeAt(commits', client'.shown[k]) >= MadeAt(commits', client.shown[k])]_vars

\* Once the timer runs a listener is called with what the disk has, even if
\* the server is never heard of (OnlineStateTracker,
\* QueryListener::ShouldRaiseInitialEvent).
RaisedOffline ==
  client.timer /\ client.listening
    ~> client.raised \/ ~client.listening \/ client.online = "Online"

\* A chat that stays open ends up showing what the server has.
CaughtUp ==
  ServerAnswers /\ <>[]client.listening =>
    <>[](\A k \in Keys :
           LET last == VersionAt(commits, Len(commits), k)
           IN  client.shown[k] = IF last = 0 THEN 0 ELSE Content(commits, last))
=============================================================================
