-------------------------- MODULE ChatRoomProofs --------------------------
(***************************************************************************)
(* Proofs about ChatRoom, for every number of devices, every assignment of *)
(* users to devices, every length of the day and every bound.              *)
(***************************************************************************)
EXTENDS ChatRoom, Integers, SequenceTheorems, FiniteSetTheorems,
        WellFoundedInduction, TLAPS

\* A set of numbers that is not empty has a least one.
LEMMA LeastNumber ==
  ASSUME NEW T, T \subseteq Nat, T # {}
  PROVE  \E x \in T : \A y \in T : x <= y
<1>1. PICK x \in T : \A y \in T : ~(<<y, x>> \in OpToRel(<, Nat))
  BY NatLessThanWellFounded, WFMin, ZenonT(60)
<1>2. \A y \in T : ~(y < x)
  BY <1>1 DEF OpToRel
<1> QED
  BY <1>2

-----------------------------------------------------------------------------
(* The operators *)

\* The keys the send button makes are keys of the collection.
LEMMA KeyTimeIsKey ==
  ASSUME NEW d \in Devices, NEW t \in Nat
  PROVE  KeyTime(d, t) \in Keys
<1>1. ClockOffset[d] \in Nat /\ DayLen \in Nat \ {0}
  BY ConstantsAssumption
<1>2. t + ClockOffset[d] \in Nat
  BY <1>1
<1> QED
  BY <1>1, <1>2 DEF KeyTime, Keys

\* What a snapshot shows under a key is either stored or queued.
LEMMA OverlaidIsStoredOrQueued ==
  ASSUME NEW q \in Seq(Write), NEW store, NEW k \in Keys
  PROVE  \/ Overlay(store, q)[k] = store[k]
         \/ \E i \in DOMAIN q : /\ q[i].path = k
                                /\ Overlay(store, q)[k] = q[i].doc
<1>1. CASE \E i \in DOMAIN q : LastWriteOf(q, k, i)
  <2> DEFINE i == CHOOSE j \in DOMAIN q : LastWriteOf(q, k, j)
  <2>1. i \in DOMAIN q /\ LastWriteOf(q, k, i)
    BY <1>1
  <2> QED
    BY <1>1, <2>1 DEF Overlay, Overlaid, LastWriteOf
<1>2. CASE ~ \E i \in DOMAIN q : LastWriteOf(q, k, i)
  BY <1>2 DEF Overlay, Overlaid
<1> QED
  BY <1>1, <1>2

\* A snapshot of documents shows documents.
LEMMA OverlayType ==
  ASSUME NEW q \in Seq(Write), NEW store,
         \A k \in Keys : store[k] \in Docs \cup {NoDoc}
  PROVE  Overlay(store, q) \in [Keys -> Docs \cup {NoDoc}]
<1> SUFFICES ASSUME NEW k \in Keys
             PROVE  Overlay(store, q)[k] \in Docs \cup {NoDoc}
  BY DEF Overlay
<1>1. \A i \in DOMAIN q : q[i] \in Write
  BY LenProperties, ElementOfSeq
<1>2. \A i \in DOMAIN q : q[i].doc \in Docs
  BY <1>1 DEF Write
<1> QED
  BY <1>2, OverlaidIsStoredOrQueued

\* The writes on the disk are the first ones of the queue.
LEMMA StoredIsPrefix ==
  ASSUME TypeOK, NEW d \in Devices
  PROVE  /\ Stored(d) \in Seq(Write)
         /\ Len(Stored(d)) = saved[d]
         /\ DOMAIN Stored(d) = 1..saved[d]
         /\ 1..saved[d] \subseteq DOMAIN outbox[d]
         /\ \A i \in 1..saved[d] : Stored(d)[i] = outbox[d][i]
<1>1. /\ outbox[d] \in Seq(Write) /\ saved[d] \in Nat
      /\ saved[d] <= Len(outbox[d])
  BY DEF TypeOK
<1>2. Len(outbox[d]) \in Nat /\ DOMAIN outbox[d] = 1..Len(outbox[d])
  BY <1>1, LenProperties
<1>3. \A i \in 1..saved[d] : outbox[d][i] \in Write
  BY <1>1, <1>2, ElementOfSeq
<1>4. /\ Stored(d) \in Seq(Write)
      /\ Len(Stored(d)) = IF 1 <= saved[d] THEN saved[d] - 1 + 1 ELSE 0
      /\ \A i \in 1..(saved[d] - 1 + 1) : Stored(d)[i] = outbox[d][1 + i - 1]
  BY <1>1, <1>3, SubSeqProperties DEF Stored
<1>5. Len(Stored(d)) = saved[d]
  BY <1>1, <1>4
<1>6. DOMAIN Stored(d) = 1..saved[d]
  BY <1>4, <1>5, LenProperties
<1>7. \A i \in 1..saved[d] : Stored(d)[i] = outbox[d][i]
  BY <1>1, <1>4
<1> QED
  BY <1>1, <1>2, <1>4, <1>5, <1>6, <1>7

-----------------------------------------------------------------------------
(* Types *)

\* Every reachable state is well formed.
LEMMA TypeInit == Init => TypeOK
<1> SUFFICES ASSUME Init PROVE TypeOK
  OBVIOUS
<1> USE ConstantsAssumption DEF Init
<1>1. server \in Store
  BY DEF Store
<1>2. sent \in Seq([by : Devices, at : 0..MaxClock])
  OBVIOUS
<1>3. outbox \in [Devices -> Seq(Write)]
  OBVIOUS
<1>4. snapShots \in [Devices -> [Keys -> Docs \cup {NoDoc}]]
  BY DEF NoChat
<1> QED
  BY <1>1, <1>2, <1>3, <1>4 DEF TypeOK

\* Every step keeps the state well formed.
LEMMA TypeStep == TypeOK /\ [Next]_vars => TypeOK'
<1> SUFFICES ASSUME TypeOK, [Next]_vars
             PROVE  TypeOK'
  OBVIOUS
<1> USE ConstantsAssumption
<1> USE DEF server_vars, queue_vars, device_vars, screen_vars
<1>1. NoChat \in [Keys -> Docs \cup {NoDoc}]
  BY DEF NoChat
<1>2. JoinDoc \in Docs /\ [path |-> RoomPath, doc |-> JoinDoc] \in Write
  BY DEF JoinDoc, Docs, Write, Paths
<1>3. ASSUME NEW d \in Devices, ViewDidLoad(d)
      PROVE  /\ screen' \in [Devices -> {"none", "shown", "leaving", "left"}]
             /\ roomInfo' \in [Devices -> SUBSET Pks]
             /\ outbox' \in [Devices -> Seq(Write)]
             /\ \A e \in Devices : saved[e] <= Len(outbox'[e])
             /\ configured' \in [Devices -> BOOLEAN]
             /\ listener' \in [Devices -> {"none", "live", "failed"}]
             /\ UNCHANGED <<saved, applied, lost, snapShots, gameStarted>>
  <2> DEFINE q == Append(outbox[d], [path |-> RoomPath, doc |-> JoinDoc])
  <2>1. /\ q \in Seq(Write)
        /\ Len(q) = Len(outbox[d]) + 1 /\ Len(outbox[d]) \in Nat
    BY <1>2, AppendProperties, LenProperties DEF TypeOK
  <2>2. outbox' = [outbox EXCEPT ![d] = q]
    BY <1>3 DEF ViewDidLoad
  <2> HIDE DEF q
  <2>3. \A e \in Devices : saved[e] <= Len(outbox'[e])
    BY <2>1, <2>2 DEF TypeOK
  <2> QED
    BY <1>3, <2>1, <2>2, <2>3 DEF ViewDidLoad, TypeOK
<1>4. ASSUME NEW d \in Devices, DropController(d)
      PROVE  /\ screen' \in [Devices -> {"none", "shown", "leaving", "left"}]
             /\ fromHome' \in [Devices -> BOOLEAN]
             /\ roomInfo' \in [Devices -> SUBSET Pks]
             /\ snapShots' \in [Devices -> [Keys -> Docs \cup {NoDoc}]]
             /\ gameStarted' \in [Devices -> BOOLEAN]
  BY <1>1, <1>4 DEF DropController, TypeOK
<1>5. ASSUME NEW d \in Devices, EndProcess(d), UNCHANGED <<server_vars, sent>>
      PROVE  TypeOK'
  <2>1. Stored(d) \in Seq(Write) /\ Len(Stored(d)) = saved[d]
    BY StoredIsPrefix
  <2>2. Unsaved(d) \subseteq Nat \ {0}
    <3> SUFFICES ASSUME NEW i \in (saved[d] + 1)..Len(outbox[d])
                 PROVE  outbox[d][i].doc.message \in Nat
      BY DEF Unsaved
    <3>1. i \in 1..Len(outbox[d])
      BY LenProperties DEF TypeOK
    <3>2. outbox[d][i] \in Write
      BY <3>1, ElementOfSeq DEF TypeOK
    <3> QED
      BY <3>2 DEF Write, Docs
  <2>3. /\ outbox' = [outbox EXCEPT ![d] = Stored(d)]
        /\ UNCHANGED <<saved, applied>>
        /\ lost' = lost \cup Unsaved(d)
    BY <1>5 DEF EndProcess
  <2> HIDE DEF Stored, Unsaved
  <2>4. \A e \in Devices : saved'[e] <= Len(outbox'[e])
    BY <2>1, <2>3 DEF TypeOK
  <2>5. outbox' \in [Devices -> Seq(Write)] /\ lost' \subseteq Nat \ {0}
    BY <2>1, <2>2, <2>3 DEF TypeOK
  <2>6. /\ configured' = [configured EXCEPT ![d] = FALSE]
        /\ listed' = [listed EXCEPT ![d] = {}]
        /\ listener' = [listener EXCEPT ![d] = "none"]
        /\ DropController(d)
    BY <1>5 DEF EndProcess
  <2> QED
    BY <1>4, <1>5, <2>3, <2>4, <2>5, <2>6 DEF TypeOK
<1>6. ASSUME Tick PROVE TypeOK'
  BY <1>6 DEF Tick, TypeOK
<1>7. ASSUME NEW d \in Devices, OpenMatching(d) PROVE TypeOK'
  BY <1>3, <1>7 DEF OpenMatching, TypeOK
<1>8. ASSUME NEW d \in Devices, JoinRoom(d) PROVE TypeOK'
  BY <1>3, <1>8, ZenonT(60) DEF JoinRoom, TypeOK
<1>9. ASSUME NEW d \in Devices, RejoinRoom(d) PROVE TypeOK'
  BY <1>9 DEF RejoinRoom, TypeOK
<1>10. ASSUME NEW d \in Devices, PopViewController(d) PROVE TypeOK'
  BY <1>10 DEF PopViewController, TypeOK
<1>11. ASSUME NEW d \in Devices, LeaveJoinScreen(d) PROVE TypeOK'
  BY <1>4, <1>11 DEF LeaveJoinScreen, TypeOK
<1>12. ASSUME NEW d \in Devices, SendMessage(d) PROVE TypeOK'
  <2> DEFINE m == Len(sent) + 1
             write == [path |-> KeyTime(d, now), doc |-> MessageDoc(d, m)]
  <2>1. Len(sent) \in Nat
    BY LenProperties DEF TypeOK
  <2>2. KeyTime(d, now) \in Keys
    BY KeyTimeIsKey DEF TypeOK
  <2>3. write \in Write
    BY <2>1, <2>2 DEF Write, MessageDoc, Docs, Paths
  <2>4. Append(outbox[d], write) \in Seq(Write)
    BY <2>3, AppendProperties DEF TypeOK
  <2>5. Append(sent, [by |-> d, at |-> now]) \in Seq([by : Devices, at : 0..MaxClock])
    BY AppendProperties DEF TypeOK
  <2>6. /\ Len(outbox[d]) \in Nat
        /\ Len(Append(outbox[d], write)) = Len(outbox[d]) + 1
    BY <2>3, AppendProperties, LenProperties DEF TypeOK
  <2> HIDE DEF m, write
  <2>7. /\ outbox' = [outbox EXCEPT ![d] = Append(outbox[d], write)]
        /\ sent' = Append(sent, [by |-> d, at |-> now])
        /\ UNCHANGED <<server_vars, saved, applied, lost, configured, listed,
                       screen_vars>>
    BY <1>12 DEF SendMessage, write, m
  <2>8. \A e \in Devices : saved'[e] <= Len(outbox'[e])
    BY <2>6, <2>7 DEF TypeOK
  <2> QED
    BY <2>4, <2>5, <2>7, <2>8 DEF TypeOK
<1>13. ASSUME NEW d \in Devices, GameStart(d) PROVE TypeOK'
  BY <1>13 DEF GameStart, TypeOK
<1>14. ASSUME NEW d \in Devices, ReceiveList(d) PROVE TypeOK'
  BY <1>14 DEF ReceiveList, TypeOK
<1>15. ASSUME NEW d \in Devices, ViewDidDisappear(d) PROVE TypeOK'
  <2>1. CASE fromHome[d]
    BY <1>15, <1>4, <2>1 DEF ViewDidDisappear, TypeOK
  <2>2. CASE ~fromHome[d]
    BY <1>15, <1>4, <2>2 DEF ViewDidDisappear, TypeOK
  <2> QED
    BY <2>1, <2>2
<1>16. ASSUME NEW d \in Devices, Commit(d) PROVE TypeOK'
  <2> DEFINE w == outbox[d][applied[d] + 1]
  <2>1. applied[d] + 1 \in 1..Len(outbox[d])
    BY <1>16, LenProperties DEF Commit, TypeOK
  <2>2. w \in Write
    BY <2>1, ElementOfSeq DEF TypeOK
  <2> HIDE DEF w
  <2>3. SetData(server, w) \in Store
    BY <2>2 DEF SetData, Store, Write, TypeOK
  <2>4. server' = SetData(server, w)
    BY <1>16 DEF Commit, w
  <2>5. /\ applied' = [applied EXCEPT ![d] = applied[d] + 1]
        /\ applied[d] < saved[d]
        /\ UNCHANGED <<now, members, sent, outbox, saved, lost, configured,
                       listed, screen_vars>>
    BY <1>16 DEF Commit
  <2>6. /\ applied' \in [Devices -> Nat]
        /\ \A e \in Devices : applied'[e] <= saved[e]
    BY <2>5 DEF TypeOK
  <2> QED
    BY <2>3, <2>4, <2>5, <2>6 DEF TypeOK
<1>17. ASSUME NEW d \in Devices, NEW store, GetMessage(d, store),
              \A k \in Keys : store[k] \in Docs \cup {NoDoc}
       PROVE  TypeOK'
  <2>1. Overlay(store, Stored(d)) \in [Keys -> Docs \cup {NoDoc}]
    BY <1>17, OverlayType, StoredIsPrefix
  <2>2. CASE EndProcess(d)
    BY <1>5, <1>17, <2>2 DEF GetMessage
  <2>3. CASE ~EndProcess(d)
    <3>1. /\ snapShots' = [snapShots EXCEPT ![d] = Overlay(store, Stored(d))]
          /\ UNCHANGED <<device_vars, screen, fromHome, roomInfo, listener,
                         gameStarted>>
          /\ UNCHANGED <<server_vars, sent>>
      BY <1>17, <2>3 DEF GetMessage
    <3> QED
      BY <2>1, <3>1 DEF TypeOK
  <2> QED
    BY <2>2, <2>3
<1>18. ASSUME NEW d \in Devices, LocalSnapshot(d) PROVE TypeOK'
  <2>1. \A k \in Keys : snapShots[d][k] \in Docs \cup {NoDoc}
    BY DEF TypeOK
  <2> QED
    BY <1>17, <1>18, <2>1 DEF LocalSnapshot
<1>19. ASSUME NEW d \in Devices, ServerSnapshot(d) PROVE TypeOK'
  <2>1. \A k \in Keys : server[k] \in Docs \cup {NoDoc}
    BY DEF TypeOK, Store, Paths
  <2> QED
    BY <1>17, <1>19, <2>1 DEF ServerSnapshot
<1>20. ASSUME NEW d \in Devices, ListenError(d) PROVE TypeOK'
  BY <1>20 DEF ListenError, TypeOK
<1>21. ASSUME NEW d \in Devices, Terminate(d) PROVE TypeOK'
  BY <1>5, <1>21 DEF Terminate
<1>22. ASSUME NEW d \in Devices, WriteMutations(d) PROVE TypeOK'
  <2>1. Len(outbox[d]) \in Nat
    BY LenProperties DEF TypeOK
  <2> QED
    BY <1>22, <2>1 DEF WriteMutations, TypeOK
<1>23. ASSUME UNCHANGED vars PROVE TypeOK'
  BY <1>23 DEF vars, TypeOK
<1>24. ASSUME NEW d \in Devices, OpenJoinScreen(d) PROVE TypeOK'
  BY <1>5, <1>24 DEF OpenJoinScreen
<1>25. ASSUME NEW d \in Devices, ShowMatchingJoiner(d) PROVE TypeOK'
  BY <1>5, <1>25 DEF ShowMatchingJoiner
<1>26. ASSUME NEW d \in Devices, Acknowledge(d) PROVE TypeOK'
  <2>1. outbox[d] # <<>> /\ outbox[d] \in Seq(Write) /\ applied[d] > 0
    BY <1>26, EmptySeq DEF Acknowledge, TypeOK
  <2>2. /\ Tail(outbox[d]) \in Seq(Write) /\ Len(outbox[d]) \in Nat
        /\ Len(Tail(outbox[d])) = Len(outbox[d]) - 1
    BY <2>1, HeadTailProperties, LenProperties
  <2>3. /\ outbox' = [outbox EXCEPT ![d] = Tail(outbox[d])]
        /\ saved' = [saved EXCEPT ![d] = saved[d] - 1]
        /\ applied' = [applied EXCEPT ![d] = applied[d] - 1]
    BY <1>26 DEF Acknowledge
  <2>4. saved[d] - 1 \in Nat /\ applied[d] - 1 \in Nat
    BY <2>1 DEF TypeOK
  <2>5. \A e \in Devices : applied'[e] <= saved'[e] /\ saved'[e] <= Len(outbox'[e])
    BY <2>2, <2>3 DEF TypeOK
  <2> QED
    BY <1>26, <2>2, <2>3, <2>4, <2>5, SMTT(60) DEF Acknowledge, TypeOK
<1>27. ASSUME NEW d \in Devices, Reconnect(d) PROVE TypeOK'
  <2>1. applied' = [applied EXCEPT ![d] = 0]
    BY <1>27 DEF Reconnect
  <2>2. /\ applied' \in [Devices -> Nat]
        /\ \A e \in Devices : applied'[e] <= saved[e]
    BY <2>1 DEF TypeOK
  <2> QED
    BY <1>27, <2>2 DEF Reconnect, TypeOK
<1>28. ASSUME NEW d \in Devices, User(d) PROVE TypeOK'
  BY <1>7, <1>8, <1>9, <1>10, <1>11, <1>12, <1>13, <1>24, <1>25, <1>28 DEF User
<1>29. ASSUME NEW d \in Devices, System(d) PROVE TypeOK'
  BY <1>14, <1>15, <1>16, <1>18, <1>19, <1>20, <1>21, <1>22, <1>26, <1>27,
     <1>29 DEF System
<1> QED
  BY <1>6, <1>23, <1>28, <1>29 DEF Next

\* Every reachable state of the room is well formed.
THEOREM TypeCorrect == Spec => []TypeOK
<1> QED
  BY TypeInit, TypeStep, PTL DEF Spec

-----------------------------------------------------------------------------
(* The inductive invariant *)

\* SecondOfDay, of a history s.
SecondIn(s, m) == (s[m].at + ClockOffset[s[m].by]) % DayLen

\* doc is message doc.message of the history s, said by one of ms at second k.
SaidAt(s, ms, doc, k) ==
  /\ doc.message \in 1..Len(s)
  /\ SecondIn(s, doc.message) = k
  /\ doc.pks = {PkOf[s[doc.message].by]}
  /\ PkOf[s[doc.message].by] \in ms

Said(doc, k) == SaidAt(sent, members, doc, k)

\* The arithmetic of the second is no matter of the proofs.
LEMMA SecondIs == \A m : SecondOfDay(m) = SecondIn(sent, m)
BY DEF SecondOfDay, SecondIn

\* What is said stays said when members join.
LEMMA SaidAtGrows ==
  ASSUME NEW s, NEW ms, NEW more, ms \subseteq more, NEW doc, NEW k,
         SaidAt(s, ms, doc, k)
  PROVE  SaidAt(s, more, doc, k)
BY DEF SaidAt

\* A document that was said is a message of its second, from a member.
LEMMA SaidMessage ==
  ASSUME NEW doc, NEW k, Said(doc, k)
  PROVE  /\ doc.message \in Messages /\ SecondOfDay(doc.message) = k
         /\ doc.pks = {PkOf[sent[doc.message].by]}
         /\ PkOf[sent[doc.message].by] \in members
BY SecondIs DEF Said, SaidAt, Messages

\* The writes of a device that carry a message.
Carries(d) == {i \in DOMAIN outbox[d] : outbox[d][i].path \in Keys}

\* Nobody but its sender has ever had message m.
UnseenIn(store, tables, m) ==
  /\ \A k \in Keys : store[k] # NoDoc => store[k].message # m
  /\ \A d \in Devices, k \in Keys :
       tables[d][k] # NoDoc => tables[d][k].message # m

Unseen(m) == UnseenIn(server, snapShots, m)

\* A device queues join documents and its own messages, each for its second.
QueuesHoldSent ==
  \A d \in Devices : \A i \in DOMAIN outbox[d] :
    /\ outbox[d][i].path \in Keys =>
         /\ Said(outbox[d][i].doc, outbox[d][i].path)
         /\ sent[outbox[d][i].doc.message].by = d
    /\ outbox[d][i].path = RoomPath => outbox[d][i].doc = JoinDoc

\* It queues its messages in the order they were sent.
QueuesOrdered ==
  \A d \in Devices : \A i, j \in Carries(d) :
    i < j => outbox[d][i].doc.message < outbox[d][j].doc.message

\* What was applied has landed, and paths are never emptied.
LandedStays ==
  \A d \in Devices : \A i \in 1..applied[d] : server[outbox[d][i].path] # NoDoc

\* A message that was lost is not queued.
LostGone ==
  /\ lost \subseteq Messages
  /\ \A d \in Devices : \A i \in Carries(d) : outbox[d][i].doc.message \notin lost

\* What never reached a disk is on nobody's screen.
UnsavedUnseen ==
  /\ \A m \in lost : Unseen(m)
  /\ \A d \in Devices : \A i \in Carries(d) :
       i > saved[d] => Unseen(outbox[d][i].doc.message)

\* The collection holds messages, each at its second.
ServerHoldsSent ==
  \A k \in Keys : server[k] # NoDoc => Said(server[k], k)

\* A table shows messages, and the rows it shows could be made.
ScreensHoldSent ==
  \A d \in Devices, k \in Keys :
    snapShots[d][k] # NoDoc =>
      Said(snapShots[d][k], k) /\ RowLoads(d, snapShots[d][k])

\* A screen belongs to a member of the room, and a list never names a user who
\* is not a member.
ScreensLive ==
  \A d \in Devices :
    /\ screen[d] = "none" => snapShots[d] = NoChat
    /\ screen[d] # "none" => PkOf[d] \in members
    /\ listener[d] # "none" => screen[d] \in {"shown", "leaving"}
    /\ listed[d] \subseteq members

\* A join document is committed or queued wherever a message could be.
JoinsFirst ==
  \/ server[RoomPath] # NoDoc
  \/ /\ \A k \in Keys : server[k] = NoDoc
     /\ \A d \in Devices :
          /\ screen[d] # "none" => \E j \in DOMAIN outbox[d] : outbox[d][j].path = RoomPath
          /\ \A i \in DOMAIN outbox[d] :
               outbox[d][i].path \in Keys =>
                 \E j \in 1..(i - 1) : outbox[d][j].path = RoomPath

\* Every message is queued, committed, lost, or has a rival for its second.
Accounted ==
  \A m \in Messages :
    \/ \E i \in DOMAIN outbox[sent[m].by] : outbox[sent[m].by][i].doc.message = m
    \/ \E k \in Keys : server[k] # NoDoc /\ server[k].message = m
    \/ \E n \in Messages \ {m} : SecondOfDay(n) = SecondOfDay(m)
    \/ m \in lost

\* The inductive invariant.
IInv ==
  /\ TypeOK
  /\ QueuesHoldSent
  /\ QueuesOrdered
  /\ LandedStays
  /\ LostGone
  /\ UnsavedUnseen
  /\ ServerHoldsSent
  /\ ScreensHoldSent
  /\ ScreensLive
  /\ JoinsFirst
  /\ Accounted

\* The entries of the history.
Posts == [by : Devices, at : 0..MaxClock]

\* Who says something, and when, is a device and a moment of the clock.
LEMMA SentType ==
  ASSUME TypeOK, NEW m \in Messages
  PROVE  sent[m] \in Posts /\ sent[m].by \in Devices /\ sent[m].at \in 0..MaxClock
<1>1. sent \in Seq(Posts)
  BY DEF TypeOK, Posts
<1>2. sent[m] \in Posts
  BY <1>1, ElementOfSeq DEF Messages
<1> QED
  BY <1>2 DEF Posts

\* What was said is never unsaid.
LEMMA SaidGrows ==
  ASSUME NEW s \in Seq(Posts), NEW e \in Posts, NEW ms, NEW msNew,
         ms \subseteq msNew, NEW doc, NEW k, SaidAt(s, ms, doc, k)
  PROVE  SaidAt(Append(s, e), msNew, doc, k)
<1>1. Len(Append(s, e)) = Len(s) + 1 /\ Len(s) \in Nat
  BY AppendProperties, LenProperties
<1>2. doc.message \in 1..Len(s)
  BY DEF SaidAt
<1>3. Append(s, e)[doc.message] = s[doc.message]
  BY <1>2, AppendProperties
<1> QED
  BY <1>1, <1>2, <1>3 DEF SaidAt, SecondIn

\* A queued write has a place, a path and a document.
LEMMA QueueType ==
  ASSUME TypeOK, NEW d \in Devices, NEW i \in DOMAIN outbox[d]
  PROVE  /\ Len(outbox[d]) \in Nat /\ DOMAIN outbox[d] = 1..Len(outbox[d])
         /\ i \in Nat \ {0} /\ outbox[d][i] \in Write
         /\ outbox[d][i].path \in Paths /\ outbox[d][i].doc \in Docs
         /\ outbox[d][i].doc.message \in Nat
<1>1. /\ Len(outbox[d]) \in Nat /\ DOMAIN outbox[d] = 1..Len(outbox[d])
      /\ outbox[d] \in Seq(Write)
  BY LenProperties DEF TypeOK
<1>2. outbox[d][i] \in Write
  BY <1>1, ElementOfSeq
<1> QED
  BY <1>1, <1>2 DEF Write, Docs

\* A message is queued at most once, by its sender.
LEMMA QueuedOnce ==
  ASSUME IInv, NEW d \in Devices, NEW e \in Devices,
         NEW i \in Carries(d), NEW j \in Carries(e),
         outbox[d][i].doc.message = outbox[e][j].doc.message
  PROVE  d = e /\ i = j
<1>1. d = e
  BY DEF IInv, QueuesHoldSent, Carries
<1>2. /\ i \in Nat /\ j \in Nat
      /\ outbox[d][i].doc.message \in Nat /\ outbox[d][j].doc.message \in Nat
  BY <1>1, QueueType DEF IInv, Carries
<1>3. ~(i < j) /\ ~(j < i)
  BY <1>1, <1>2 DEF IInv, QueuesOrdered
<1> QED
  BY <1>1, <1>2, <1>3

\* A join document carries no message.
LEMMA JoinCarriesNothing ==
  ASSUME IInv, NEW d \in Devices, NEW i \in DOMAIN outbox[d],
         outbox[d][i].doc.message # 0
  PROVE  i \in Carries(d)
<1>1. outbox[d][i].path \in Keys \/ outbox[d][i].path = RoomPath
  BY QueueType DEF IInv, Paths
<1>2. outbox[d][i].path = RoomPath => outbox[d][i].doc = JoinDoc
  BY DEF IInv, QueuesHoldSent
<1> QED
  BY <1>1, <1>2 DEF JoinDoc, Carries

\* The invariant holds when no screen of the room is open yet.
LEMMA InvInit == Init => IInv
<1> SUFFICES ASSUME Init PROVE IInv
  OBVIOUS
<1>1. TypeOK
  BY TypeInit
<1>2. \A d \in Devices : outbox[d] = <<>> /\ DOMAIN outbox[d] = {} /\ applied[d] = 0
  BY DEF Init
<1>3. Messages = {}
  BY DEF Init, Messages
<1>4. QueuesHoldSent /\ QueuesOrdered /\ LandedStays /\ JoinsFirst
  BY <1>2 DEF Init, QueuesHoldSent, QueuesOrdered, LandedStays, JoinsFirst,
              Paths, Carries
<1>5. LostGone /\ UnsavedUnseen /\ Accounted
  BY <1>2, <1>3 DEF Init, LostGone, UnsavedUnseen, Accounted, Carries
<1>6. ServerHoldsSent /\ ScreensHoldSent /\ ScreensLive
  BY DEF Init, ServerHoldsSent, ScreensHoldSent, ScreensLive, NoChat, Paths
<1> QED
  BY <1>1, <1>4, <1>5, <1>6 DEF IInv

\* What only concerns screens, lists and processes leaves the queues, the
\* collection and the history alone, and members may only join.
LEMMA ScreenStep ==
  ASSUME IInv, TypeOK', UNCHANGED <<server, sent, outbox, saved, applied, lost>>,
         members \subseteq members',
         ScreensLive', ScreensHoldSent', UnsavedUnseen',
         \A d \in Devices : screen[d] = "none" => screen'[d] = "none"
  PROVE  IInv'
<1>1. QueuesHoldSent'
  BY SaidAtGrows DEF IInv, QueuesHoldSent, Said
<1>2. ServerHoldsSent'
  BY SaidAtGrows DEF IInv, ServerHoldsSent, Said
<1>3. JoinsFirst'
  BY DEF IInv, JoinsFirst
<1>4. Accounted'
  BY DEF IInv, Accounted, Messages, SecondOfDay
<1>5. QueuesOrdered' /\ LostGone'
  BY DEF IInv, QueuesOrdered, LostGone, Messages, Carries
<1>6. LandedStays'
  BY DEF IInv, LandedStays
<1> QED
  BY <1>1, <1>2, <1>3, <1>4, <1>5, <1>6 DEF IInv

\* No message appears where nothing is shown that was not shown before.
LEMMA RowsKept ==
  ASSUME IInv, UNCHANGED <<server, outbox, saved, lost>>,
         \A d \in Devices, k \in Keys : snapShots'[d][k] \in {NoDoc, snapShots[d][k]}
  PROVE  UnsavedUnseen'
<1>1. ASSUME NEW m, UnseenIn(server, snapShots, m)
      PROVE  UnseenIn(server', snapShots', m)
  BY <1>1 DEF UnseenIn
<1> QED
  BY <1>1 DEF IInv, UnsavedUnseen, Unseen, Carries

\* The process of a device ends: its queue is cut to what is on its disk.
LEMMA EndStep ==
  ASSUME IInv, TypeOK', NEW d \in Devices, EndProcess(d),
         UNCHANGED <<server_vars, sent>>
  PROVE  IInv'
<1> USE DEF server_vars
<1>1. /\ outbox'[d] = Stored(d)
      /\ \A e \in Devices \ {d} : outbox'[e] = outbox[e]
      /\ UNCHANGED <<saved, applied, members, server, sent>>
      /\ lost' = lost \cup Unsaved(d)
      /\ \A e \in Devices, k \in Keys : snapShots'[e][k] \in {NoDoc, snapShots[e][k]}
  BY DEF IInv, TypeOK, EndProcess, DropController, NoChat
<1>2. /\ DOMAIN Stored(d) = 1..saved[d]
      /\ \A i \in 1..saved[d] : i \in DOMAIN outbox[d] /\ Stored(d)[i] = outbox[d][i]
  BY StoredIsPrefix DEF IInv
<1>3. ASSUME NEW e \in Devices, NEW i \in DOMAIN outbox'[e]
      PROVE  /\ i \in DOMAIN outbox[e] /\ outbox'[e][i] = outbox[e][i]
             /\ e = d => i \in 1..saved[d]
  BY <1>1, <1>2
<1>4. \A e \in Devices : Carries(e)' \subseteq Carries(e)
  BY <1>3 DEF Carries
<1>5. ASSUME NEW m \in Unsaved(d)
      PROVE  /\ m \in Messages /\ Unseen(m)
             /\ \A e \in Devices : \A i \in Carries(e)' : outbox[e][i].doc.message # m
             /\ sent[m].by = d
  <2>1. PICK j \in (saved[d] + 1)..Len(outbox[d]) :
               outbox[d][j].doc.message = m /\ m # 0
    BY DEF Unsaved
  <2>2. j \in DOMAIN outbox[d] /\ saved[d] \in Nat /\ j > saved[d]
    BY <2>1, LenProperties DEF IInv, TypeOK
  <2>3. j \in Carries(d)
    BY <2>1, <2>2, JoinCarriesNothing
  <2>4. m \in Messages /\ sent[m].by = d
    <3>1. Said(outbox[d][j].doc, outbox[d][j].path) /\ sent[outbox[d][j].doc.message].by = d
      BY <2>3 DEF IInv, QueuesHoldSent, Carries
    <3> QED
      BY <2>1, <3>1, SaidMessage
  <2>5. Unseen(m)
    BY <2>1, <2>2, <2>3 DEF IInv, UnsavedUnseen
  <2>6. ASSUME NEW e \in Devices, NEW i \in Carries(e)', outbox[e][i].doc.message = m
        PROVE  FALSE
    <3>1. e = d /\ i = j
      <4>1. i \in Carries(e)
        BY <1>4
      <4>2. outbox[e][i].doc.message = outbox[d][j].doc.message
        BY <2>1, <2>6
      <4> QED
        BY <2>3, <4>1, <4>2, QueuedOnce, ZenonT(60)
    <3>2. i \in 1..saved[d]
      BY <1>3, <3>1 DEF Carries
    <3> QED
      BY <2>2, <3>1, <3>2
  <2> QED
    BY <2>4, <2>5, <2>6
<1> HIDE DEF Stored, Unsaved
<1>6. ScreensLive'
  BY DEF IInv, TypeOK, EndProcess, DropController, ScreensLive
<1>7. ScreensHoldSent'
  BY DEF IInv, TypeOK, EndProcess, DropController, ScreensHoldSent, NoChat,
         Said, RowLoads, IsMine, NamedSenders
<1>8. \A e \in Devices : screen[e] = "none" => screen'[e] = "none"
  BY DEF IInv, TypeOK, EndProcess, DropController
<1>9. QueuesHoldSent'
  BY <1>1, <1>3 DEF IInv, QueuesHoldSent, Said
<1>10. QueuesOrdered'
  BY <1>3, <1>4 DEF IInv, QueuesOrdered, Carries
<1>11. LandedStays'
  <2> SUFFICES ASSUME NEW e \in Devices, NEW i \in 1..applied[e]
               PROVE  server[outbox'[e][i].path] # NoDoc
    BY <1>1 DEF LandedStays
  <2>1. i \in 1..saved[e] /\ i \in DOMAIN outbox[e]
    BY LenProperties, SMTT(60) DEF IInv, TypeOK
  <2>2. outbox'[e][i] = outbox[e][i]
    BY <1>1, <1>2, <2>1
  <2> QED
    BY <2>2 DEF IInv, LandedStays
<1>12. LostGone'
  <2>1. lost' \subseteq Messages'
    BY <1>1, <1>5 DEF IInv, LostGone, Messages
  <2>2. ASSUME NEW e \in Devices, NEW i \in Carries(e)'
        PROVE  outbox'[e][i].doc.message \notin lost'
    <3>1. outbox'[e][i] = outbox[e][i] /\ i \in Carries(e)
      BY <1>3, <1>4, <2>2 DEF Carries
    <3> QED
      BY <1>1, <1>5, <2>2, <3>1 DEF IInv, LostGone
  <2> QED
    BY <2>1, <2>2 DEF LostGone
<1>13. UnsavedUnseen'
  <2>1. ASSUME NEW m, Unseen(m) PROVE UnseenIn(server', snapShots', m)
    BY <1>1, <2>1 DEF Unseen, UnseenIn
  <2>2. \A m \in lost' : UnseenIn(server', snapShots', m)
    BY <1>1, <1>5, <2>1 DEF IInv, UnsavedUnseen
  <2>3. ASSUME NEW e \in Devices, NEW i \in Carries(e)', i > saved'[e]
        PROVE  UnseenIn(server', snapShots', outbox'[e][i].doc.message)
    <3>1. outbox'[e][i] = outbox[e][i] /\ i \in Carries(e) /\ i > saved[e]
      BY <1>1, <1>3, <1>4, <2>3 DEF Carries
    <3>2. Unseen(outbox[e][i].doc.message)
      BY <3>1 DEF IInv, UnsavedUnseen
    <3> QED
      BY <2>1, <3>1, <3>2
  <2> QED
    BY <2>2, <2>3 DEF UnsavedUnseen, Unseen
<1>14. ServerHoldsSent'
  BY <1>1 DEF IInv, ServerHoldsSent, Said
<1>15. JoinsFirst'
  <2>1. CASE server[RoomPath] # NoDoc
    BY <1>1, <2>1 DEF JoinsFirst
  <2>2. CASE server[RoomPath] = NoDoc
    <3>1. ASSUME NEW e \in Devices, screen'[e] # "none"
          PROVE  \E j \in DOMAIN outbox'[e] : outbox'[e][j].path = RoomPath
      <4>1. e # d /\ screen[e] # "none"
        BY <1>8, <3>1 DEF EndProcess, DropController, IInv, TypeOK
      <4> QED
        BY <1>1, <2>2, <4>1 DEF IInv, JoinsFirst
    <3>2. ASSUME NEW e \in Devices, NEW i \in DOMAIN outbox'[e],
                 outbox'[e][i].path \in Keys
          PROVE  \E j \in 1..(i - 1) : outbox'[e][j].path = RoomPath
      <4>1. i \in DOMAIN outbox[e] /\ outbox[e][i].path \in Keys
        BY <1>3, <3>2
      <4>2. PICK j \in 1..(i - 1) : outbox[e][j].path = RoomPath
        BY <2>2, <4>1 DEF IInv, JoinsFirst
      <4>3. j \in 1..Len(outbox[e]) /\ Len(outbox[e]) \in Nat /\ i \in Nat
        BY <4>1, <4>2, QueueType DEF IInv
      <4>4. CASE e = d
        <5>1. j \in 1..saved[d] /\ outbox'[d][j] = outbox[d][j]
          BY <1>1, <1>2, <1>3, <3>2, <4>2, <4>3, <4>4, SMTT(60)
        <5> QED
          BY <4>2, <4>4, <5>1
      <4>5. CASE e # d
        BY <1>1, <4>2, <4>5
      <4> QED
        BY <4>4, <4>5
    <3> QED
      BY <1>1, <2>2, <3>1, <3>2 DEF IInv, JoinsFirst
  <2> QED
    BY <2>1, <2>2
<1>16. Accounted'
  <2> SUFFICES ASSUME NEW m \in Messages
               PROVE  \/ \E i \in DOMAIN outbox'[sent[m].by] :
                           outbox'[sent[m].by][i].doc.message = m
                      \/ \E k \in Keys : server[k] # NoDoc /\ server[k].message = m
                      \/ \E n \in Messages \ {m} : SecondOfDay(n) = SecondOfDay(m)
                      \/ m \in lost'
    BY <1>1 DEF Accounted, Messages, SecondOfDay
  <2>1. sent[m].by \in Devices
    BY SentType DEF IInv
  <2>2. ASSUME NEW i \in DOMAIN outbox[sent[m].by],
               outbox[sent[m].by][i].doc.message = m
        PROVE  \/ \E j \in DOMAIN outbox'[sent[m].by] :
                    outbox'[sent[m].by][j].doc.message = m
               \/ m \in lost'
    <3>1. CASE sent[m].by # d
      BY <1>1, <2>1, <2>2, <3>1
    <3>2. CASE sent[m].by = d /\ i \in 1..saved[d]
      BY <1>1, <1>2, <2>2, <3>2, ZenonT(60)
    <3>3. CASE sent[m].by = d /\ i \notin 1..saved[d]
      <4>1. i \in (saved[d] + 1)..Len(outbox[d])
        <5>1. i \in 1..Len(outbox[d]) /\ Len(outbox[d]) \in Nat
          BY <2>2, <3>3, QueueType DEF IInv
        <5>2. saved[d] \in Nat
          BY DEF IInv, TypeOK
        <5> QED
          BY <3>3, <5>1, <5>2
      <4>2. m # 0
        BY DEF Messages
      <4>3. m \in Unsaved(d)
        BY <2>2, <3>3, <4>1, <4>2 DEF Unsaved
      <4> QED
        BY <1>1, <4>3
    <3> QED
      BY <3>1, <3>2, <3>3
  <2> QED
    BY <1>1, <2>2 DEF IInv, Accounted
<1> QED
  BY <1>6, <1>7, <1>9, <1>10, <1>11, <1>12, <1>13, <1>14, <1>15, <1>16 DEF IInv

\* A write that is handed over comes last; nothing else moves in any queue.
LEMMA Appended ==
  ASSUME TypeOK, NEW d \in Devices, NEW w \in Write,
         outbox' = [outbox EXCEPT ![d] = Append(outbox[d], w)]
  PROVE  /\ Len(outbox[d]) \in Nat /\ Len(outbox[d]) + 1 \in DOMAIN outbox'[d]
         /\ outbox'[d][Len(outbox[d]) + 1] = w
         /\ \A e \in Devices : \A i \in DOMAIN outbox[e] :
              /\ i \in DOMAIN outbox'[e] /\ outbox'[e][i] = outbox[e][i]
              /\ ~(e = d /\ i = Len(outbox[d]) + 1)
         /\ \A e \in Devices : \A i \in DOMAIN outbox'[e] :
              ~(e = d /\ i = Len(outbox[d]) + 1) => i \in DOMAIN outbox[e]
<1> DEFINE n == Len(outbox[d])
<1>1. /\ outbox'[d] = Append(outbox[d], w) /\ outbox[d] \in Seq(Write)
      /\ \A e \in Devices \ {d} : outbox'[e] = outbox[e]
  BY DEF TypeOK
<1>2. n \in Nat /\ DOMAIN outbox[d] = 1..n
  BY <1>1, LenProperties
<1>3. /\ Append(outbox[d], w) \in Seq(Write)
      /\ Len(Append(outbox[d], w)) = n + 1
      /\ \A i \in 1..n : Append(outbox[d], w)[i] = outbox[d][i]
      /\ Append(outbox[d], w)[n + 1] = w
  BY <1>1, AppendProperties
<1>4. DOMAIN Append(outbox[d], w) = 1..(n + 1)
  BY <1>3, LenProperties
<1> HIDE DEF n
<1>5. ASSUME NEW e \in Devices, NEW i \in DOMAIN outbox[e]
      PROVE  /\ i \in DOMAIN outbox'[e] /\ outbox'[e][i] = outbox[e][i]
             /\ ~(e = d /\ i = n + 1)
  BY <1>1, <1>2, <1>3, <1>4, <1>5
<1>6. ASSUME NEW e \in Devices, NEW i \in DOMAIN outbox'[e], ~(e = d /\ i = n + 1)
      PROVE  i \in DOMAIN outbox[e]
  BY <1>1, <1>2, <1>4, <1>6
<1> QED
  BY <1>1, <1>2, <1>3, <1>4, <1>5, <1>6 DEF n

\* What does not depend on which write it was that was handed over.
LEMMA AppendStep ==
  ASSUME IInv, NEW d \in Devices, NEW w \in Write,
         outbox' = [outbox EXCEPT ![d] = Append(outbox[d], w)],
         UNCHANGED <<server, applied>>
  PROVE  /\ LandedStays'
         /\ \A e \in Devices : \A i \in Carries(e)' :
              \/ i \in Carries(e) /\ outbox'[e][i] = outbox[e][i]
              \/ e = d /\ i = Len(outbox[d]) + 1 /\ w.path \in Keys
<1>1. ASSUME NEW e \in Devices, NEW i \in 1..applied[e]
      PROVE  server[outbox'[e][i].path] # NoDoc
  <2>1. i \in DOMAIN outbox[e]
    BY LenProperties DEF IInv, TypeOK
  <2>2. outbox'[e][i] = outbox[e][i]
    BY <2>1, Appended DEF IInv
  <2> QED
    BY <2>2 DEF IInv, LandedStays
<1>2. ASSUME NEW e \in Devices, NEW i \in Carries(e)'
      PROVE  \/ i \in Carries(e) /\ outbox'[e][i] = outbox[e][i]
             \/ e = d /\ i = Len(outbox[d]) + 1 /\ w.path \in Keys
  <2>1. i \in DOMAIN outbox'[e] /\ outbox'[e][i].path \in Keys
    BY <1>2 DEF Carries
  <2>2. CASE e = d /\ i = Len(outbox[d]) + 1
    BY <2>1, <2>2, Appended, SMTT(60) DEF IInv
  <2>3. CASE ~(e = d /\ i = Len(outbox[d]) + 1)
    <3>1. i \in DOMAIN outbox[e] /\ outbox'[e][i] = outbox[e][i]
      BY <2>1, <2>3, Appended DEF IInv
    <3> QED
      BY <2>1, <3>1 DEF Carries
  <2> QED
    BY <2>2, <2>3
<1> QED
  BY <1>1, <1>2 DEF LandedStays

\* A fresh controller is pushed for a member of the room.
LEMMA LoadStep ==
  ASSUME IInv, TypeOK', NEW d \in Devices, ViewDidLoad(d), screen[d] = "none",
         UNCHANGED <<server, sent, listed>>,
         members \subseteq members', PkOf[d] \in members'
  PROVE  IInv'
<1> DEFINE join == [path |-> RoomPath, doc |-> JoinDoc]
           n    == Len(outbox[d])
<1> USE ConstantsAssumption
<1>1. join \in Write /\ join.path \notin Keys /\ join.path = RoomPath /\ join.doc = JoinDoc
  BY DEF Write, Paths, JoinDoc, Docs
<1>2. /\ outbox' = [outbox EXCEPT ![d] = Append(outbox[d], join)]
      /\ UNCHANGED <<saved, applied, lost, snapShots>>
  BY DEF ViewDidLoad
<1> HIDE DEF join
<1>3. /\ n \in Nat /\ n + 1 \in DOMAIN outbox'[d] /\ outbox'[d][n + 1] = join
      /\ \A e \in Devices : \A i \in DOMAIN outbox[e] :
           i \in DOMAIN outbox'[e] /\ outbox'[e][i] = outbox[e][i]
      /\ \A e \in Devices : \A i \in DOMAIN outbox'[e] :
           ~(e = d /\ i = n + 1) => i \in DOMAIN outbox[e]
  <2> HIDE DEF n
  <2>1. TypeOK /\ outbox' = [outbox EXCEPT ![d] = Append(outbox[d], join)]
    BY <1>2 DEF IInv
  <2>2. /\ Len(outbox[d]) \in Nat /\ Len(outbox[d]) + 1 \in DOMAIN outbox'[d]
        /\ outbox'[d][Len(outbox[d]) + 1] = join
        /\ \A e \in Devices : \A i \in DOMAIN outbox[e] :
             /\ i \in DOMAIN outbox'[e] /\ outbox'[e][i] = outbox[e][i]
             /\ ~(e = d /\ i = Len(outbox[d]) + 1)
        /\ \A e \in Devices : \A i \in DOMAIN outbox'[e] :
             ~(e = d /\ i = Len(outbox[d]) + 1) => i \in DOMAIN outbox[e]
    BY <1>1, <2>1, Appended
  <2> QED
    BY <2>2 DEF n
<1>4. /\ LandedStays'
      /\ \A e \in Devices : \A i \in Carries(e)' :
           i \in Carries(e) /\ outbox'[e][i] = outbox[e][i]
  BY <1>1, <1>2, AppendStep
<1> HIDE DEF n
<1>5. QueuesHoldSent'
  <2> SUFFICES ASSUME NEW e \in Devices, NEW i \in DOMAIN outbox'[e]
               PROVE  /\ outbox'[e][i].path \in Keys =>
                           /\ SaidAt(sent, members', outbox'[e][i].doc, outbox'[e][i].path)
                           /\ sent[outbox'[e][i].doc.message].by = e
                      /\ outbox'[e][i].path = RoomPath => outbox'[e][i].doc = JoinDoc
    BY DEF QueuesHoldSent, Said
  <2>1. CASE e = d /\ i = n + 1
    BY <1>1, <1>3, <2>1
  <2>2. CASE ~(e = d /\ i = n + 1)
    <3>1. i \in DOMAIN outbox[e] /\ outbox'[e][i] = outbox[e][i]
      BY <1>3, <2>2
    <3>2. /\ outbox[e][i].path \in Keys =>
                 /\ SaidAt(sent, members, outbox[e][i].doc, outbox[e][i].path)
                 /\ sent[outbox[e][i].doc.message].by = e
          /\ outbox[e][i].path = RoomPath => outbox[e][i].doc = JoinDoc
      BY <3>1 DEF IInv, QueuesHoldSent, Said
    <3> QED
      BY <3>1, <3>2, SaidAtGrows
  <2> QED
    BY <2>1, <2>2
<1>6. QueuesOrdered' /\ LostGone'
  <2>1. QueuesOrdered'
    BY <1>4 DEF IInv, QueuesOrdered
  <2>2. lost' \subseteq Messages'
    BY <1>2 DEF IInv, LostGone, Messages
  <2>3. ASSUME NEW e \in Devices, NEW i \in Carries(e)'
        PROVE  outbox'[e][i].doc.message \notin lost'
    <3>1. i \in Carries(e) /\ outbox'[e][i] = outbox[e][i]
      BY <1>4
    <3>2. outbox[e][i].doc.message \notin lost
      BY <3>1 DEF IInv, LostGone
    <3>3. lost' = lost
      BY <1>2
    <3> QED
      BY <3>1, <3>2, <3>3
  <2> QED
    BY <2>1, <2>2, <2>3 DEF LostGone
<1>7. UnsavedUnseen'
  BY <1>2, <1>4 DEF IInv, UnsavedUnseen, Unseen
<1>8. ServerHoldsSent'
  BY SaidAtGrows DEF IInv, ServerHoldsSent, Said
<1>9. ScreensHoldSent'
  <2> SUFFICES ASSUME NEW e \in Devices, NEW k \in Keys, snapShots'[e][k] # NoDoc
               PROVE  Said(snapShots[e][k], k)' /\ RowLoads(e, snapShots[e][k])'
    BY DEF ScreensHoldSent
  <2>1. e # d
    BY <1>2 DEF IInv, ScreensLive, NoChat
  <2>2. roomInfo'[e] = roomInfo[e]
    BY <2>1 DEF IInv, TypeOK, ViewDidLoad
  <2>3. Said(snapShots[e][k], k) /\ RowLoads(e, snapShots[e][k])
    BY <1>2 DEF IInv, ScreensHoldSent
  <2> QED
    BY <1>2, <2>2, <2>3, SaidAtGrows DEF Said, RowLoads, IsMine, NamedSenders
<1>10. ScreensLive'
  BY DEF IInv, TypeOK, ScreensLive, ViewDidLoad
<1>11. JoinsFirst'
  <2>1. CASE server[RoomPath] # NoDoc
    BY <2>1 DEF JoinsFirst
  <2>2. CASE server[RoomPath] = NoDoc
    <3>1. ASSUME NEW e \in Devices, screen'[e] # "none"
          PROVE  \E j \in DOMAIN outbox'[e] : outbox'[e][j].path = RoomPath
      <4>1. CASE e = d
        BY <1>1, <1>3, <4>1
      <4>2. CASE e # d
        <5>1. screen[e] # "none"
          BY <3>1, <4>2 DEF ViewDidLoad, IInv, TypeOK
        <5> QED
          BY <1>3, <2>2, <5>1 DEF IInv, JoinsFirst
      <4> QED
        BY <4>1, <4>2
    <3>2. ASSUME NEW e \in Devices, NEW i \in DOMAIN outbox'[e],
                 outbox'[e][i].path \in Keys
          PROVE  \E j \in 1..(i - 1) : outbox'[e][j].path = RoomPath
      <4>1. i \in DOMAIN outbox[e] /\ outbox'[e][i] = outbox[e][i]
        BY <1>4, <3>2 DEF Carries
      <4>2. PICK j \in 1..(i - 1) : outbox[e][j].path = RoomPath
        BY <2>2, <3>2, <4>1 DEF IInv, JoinsFirst
      <4>3. j \in DOMAIN outbox[e]
        BY <4>1, <4>2, QueueType DEF IInv
      <4> QED
        BY <1>3, <4>2, <4>3
    <3> QED
      BY <2>2, <3>1, <3>2 DEF IInv, JoinsFirst
  <2> QED
    BY <2>1, <2>2
<1>12. Accounted'
  <2> SUFFICES ASSUME NEW m \in Messages
               PROVE  \/ \E i \in DOMAIN outbox'[sent[m].by] :
                           outbox'[sent[m].by][i].doc.message = m
                      \/ \E k \in Keys : server[k] # NoDoc /\ server[k].message = m
                      \/ \E x \in Messages \ {m} : SecondOfDay(x) = SecondOfDay(m)
                      \/ m \in lost'
    BY DEF Accounted, Messages, SecondOfDay
  <2>1. sent[m].by \in Devices
    BY SentType DEF IInv
  <2> QED
    BY <1>2, <1>3, <2>1, SMTT(60) DEF IInv, Accounted
<1> QED
  BY <1>4, <1>5, <1>6, <1>7, <1>8, <1>9, <1>10, <1>11, <1>12 DEF IInv

\* A message is sent: it enters the history and the queue of its device.
LEMMA SendStep ==
  ASSUME IInv, TypeOK', NEW d \in Devices, SendMessage(d)
  PROVE  IInv'
<1> DEFINE m     == Len(sent) + 1
           post  == [by |-> d, at |-> now]
           write == [path |-> KeyTime(d, now), doc |-> MessageDoc(d, m)]
           n     == Len(outbox[d])
<1> USE ConstantsAssumption DEF server_vars, screen_vars
<1>1. /\ sent' = Append(sent, post)
      /\ outbox' = [outbox EXCEPT ![d] = Append(outbox[d], write)]
      /\ UNCHANGED <<server, members, saved, applied, lost, listed, screen_vars>>
      /\ screen[d] = "shown"
  BY DEF SendMessage
<1>2. sent \in Seq(Posts) /\ post \in Posts /\ Len(sent) \in Nat
  BY LenProperties DEF IInv, TypeOK, Posts
<1>3. write.path \in Keys /\ write \in Write
  BY <1>2, KeyTimeIsKey DEF IInv, TypeOK, Write, MessageDoc, Docs, Paths
<1>4. /\ Len(sent') = m /\ sent'[m] = post
      /\ \A x \in Messages : sent'[x] = sent[x]
      /\ Messages' = Messages \cup {m} /\ m \notin Messages
  BY <1>1, <1>2, AppendProperties DEF Messages
<1>5. PkOf[d] \in members
  BY <1>1 DEF IInv, ScreensLive
<1>6. SaidAt(sent', members', write.doc, write.path)
  <2>1. write.doc = [message |-> m, pks |-> {PkOf[d]}]
    BY DEF MessageDoc
  <2> HIDE DEF m
  <2>2. write.doc.message = m /\ write.doc.pks = {PkOf[d]}
    BY <2>1
  <2>3. m \in 1..Len(sent')
    BY <1>2, <1>4 DEF m
  <2>4. write.path = (now + ClockOffset[d]) % DayLen
    BY DEF KeyTime
  <2>5. sent'[m].by = d /\ sent'[m].at = now
    BY <1>4
  <2> HIDE DEF write
  <2> QED
    BY <1>1, <1>5, <2>2, <2>3, <2>4, <2>5 DEF SaidAt, SecondIn
<1>7. write.doc.message = m /\ sent'[m].by = d /\ write.path # RoomPath
  BY <1>3, <1>4 DEF MessageDoc
<1>8. \A x \in Messages : x < m
  BY <1>2 DEF Messages
<1> HIDE DEF post, write, m
<1>9. /\ n \in Nat /\ n + 1 \in DOMAIN outbox'[d] /\ outbox'[d][n + 1] = write
      /\ \A e \in Devices : \A i \in DOMAIN outbox[e] :
           /\ i \in DOMAIN outbox'[e] /\ outbox'[e][i] = outbox[e][i]
           /\ ~(e = d /\ i = n + 1)
      /\ \A e \in Devices : \A i \in DOMAIN outbox'[e] :
           ~(e = d /\ i = n + 1) => i \in DOMAIN outbox[e]
  <2> HIDE DEF n
  <2>1. TypeOK /\ outbox' = [outbox EXCEPT ![d] = Append(outbox[d], write)]
    BY <1>1 DEF IInv
  <2>2. /\ Len(outbox[d]) \in Nat /\ Len(outbox[d]) + 1 \in DOMAIN outbox'[d]
        /\ outbox'[d][Len(outbox[d]) + 1] = write
        /\ \A e \in Devices : \A i \in DOMAIN outbox[e] :
             /\ i \in DOMAIN outbox'[e] /\ outbox'[e][i] = outbox[e][i]
             /\ ~(e = d /\ i = Len(outbox[d]) + 1)
        /\ \A e \in Devices : \A i \in DOMAIN outbox'[e] :
             ~(e = d /\ i = Len(outbox[d]) + 1) => i \in DOMAIN outbox[e]
    BY <1>3, <2>1, Appended
  <2> QED
    BY <2>2 DEF n
<1>10. /\ LandedStays'
       /\ \A e \in Devices : \A i \in Carries(e)' :
            \/ i \in Carries(e) /\ outbox'[e][i] = outbox[e][i]
            \/ e = d /\ i = n + 1
  <2>1. outbox' = [outbox EXCEPT ![d] = Append(outbox[d], write)]
    BY <1>1
  <2>2. UNCHANGED <<server, applied>>
    BY <1>1
  <2> QED
    BY <1>3, <2>1, <2>2, AppendStep
<1> HIDE DEF n
<1>11. ASSUME NEW doc, NEW k, SaidAt(sent, members, doc, k)
       PROVE  /\ SaidAt(sent', members', doc, k)
              /\ sent'[doc.message] = sent[doc.message]
              /\ doc.message \in Messages
  <2>1. SaidAt(Append(sent, post), members, doc, k)
    BY <1>2, <1>11, SaidGrows
  <2>2. doc.message \in 1..Len(sent)
    BY <1>11 DEF SaidAt
  <2>3. Append(sent, post)[doc.message] = sent[doc.message]
    BY <1>2, <2>2, AppendProperties
  <2> QED
    BY <1>1, <2>1, <2>2, <2>3 DEF Messages
<1>12. ASSUME NEW e \in Devices, NEW i \in Carries(e)
       PROVE  /\ SaidAt(sent, members, outbox[e][i].doc, outbox[e][i].path)
              /\ sent[outbox[e][i].doc.message].by = e
              /\ outbox[e][i].doc.message \in Messages
              /\ outbox[e][i].doc.message < m
              /\ i \in 1..Len(outbox[e])
  <2>1. /\ SaidAt(sent, members, outbox[e][i].doc, outbox[e][i].path)
        /\ sent[outbox[e][i].doc.message].by = e
    BY <1>12 DEF IInv, QueuesHoldSent, Said, Carries
  <2>2. outbox[e][i].doc.message \in Messages
    BY <1>11, <2>1
  <2>3. i \in 1..Len(outbox[e])
    BY QueueType DEF IInv, Carries
  <2> QED
    BY <1>8, <2>1, <2>2, <2>3
<1>13. QueuesHoldSent'
  <2> SUFFICES ASSUME NEW e \in Devices, NEW i \in DOMAIN outbox'[e]
               PROVE  /\ outbox'[e][i].path \in Keys =>
                           /\ SaidAt(sent', members', outbox'[e][i].doc, outbox'[e][i].path)
                           /\ sent'[outbox'[e][i].doc.message].by = e
                      /\ outbox'[e][i].path = RoomPath => outbox'[e][i].doc = JoinDoc
    BY DEF QueuesHoldSent, Said
  <2>1. CASE e = d /\ i = n + 1
    BY <1>3, <1>6, <1>7, <1>9, <2>1
  <2>2. CASE ~(e = d /\ i = n + 1)
    <3>1. i \in DOMAIN outbox[e] /\ outbox'[e][i] = outbox[e][i]
      BY <1>9, <2>2
    <3>2. outbox[e][i].path = RoomPath => outbox[e][i].doc = JoinDoc
      BY <3>1 DEF IInv, QueuesHoldSent
    <3>3. outbox[e][i].path \in Keys => i \in Carries(e)
      BY <3>1 DEF Carries
    <3> QED
      BY <1>11, <1>12, <3>1, <3>2, <3>3
  <2> QED
    BY <2>1, <2>2
<1>14. QueuesOrdered'
  <2> SUFFICES ASSUME NEW e \in Devices, NEW i \in Carries(e)', NEW j \in Carries(e)',
                      i < j
               PROVE  outbox'[e][i].doc.message < outbox'[e][j].doc.message
    BY DEF QueuesOrdered
  <2>1. CASE e = d /\ j = n + 1
    <3>1. i \in Carries(e) /\ outbox'[e][i] = outbox[e][i]
      <4>1. n + 1 \in Int /\ i # n + 1
        BY <1>9, <2>1
      <4> QED
        BY <1>10, <4>1
    <3>2. outbox'[e][j].doc.message = m
      BY <1>7, <1>9, <2>1
    <3>3. outbox[e][i].doc.message < m
      BY <1>12, <3>1
    <3> QED
      BY <3>1, <3>2, <3>3
  <2>2. CASE ~(e = d /\ j = n + 1)
    <3>1. j \in Carries(e) /\ outbox'[e][j] = outbox[e][j]
      BY <1>10, <2>2
    <3>2. ~(e = d /\ i = n + 1)
      BY <1>9, <1>12, <3>1 DEF n
    <3>3. i \in Carries(e) /\ outbox'[e][i] = outbox[e][i]
      BY <1>10, <3>2
    <3> QED
      BY <3>1, <3>3 DEF IInv, QueuesOrdered
  <2> QED
    BY <2>1, <2>2
<1>15. lost' = lost /\ saved' = saved /\ snapShots' = snapShots /\ server' = server
  BY <1>1
<1>16. lost \subseteq Messages /\ m \notin lost
  BY <1>4 DEF IInv, LostGone
<1>17. LostGone'
  <2>1. ASSUME NEW e \in Devices, NEW i \in Carries(e)'
        PROVE  outbox'[e][i].doc.message \notin lost
    <3>1. CASE e = d /\ i = n + 1
      BY <1>7, <1>9, <1>16, <3>1
    <3>2. CASE ~(e = d /\ i = n + 1)
      <4>1. i \in Carries(e) /\ outbox'[e][i] = outbox[e][i]
        BY <1>10, <3>2
      <4>2. outbox[e][i].doc.message \notin lost
        BY <4>1 DEF IInv, LostGone
      <4> QED
        BY <4>1, <4>2
    <3> QED
      BY <3>1, <3>2
  <2> QED
    BY <1>4, <1>15, <1>16, <2>1 DEF LostGone
<1>18. UnseenIn(server, snapShots, m)
  <2>1. \A k \in Keys : server[k] # NoDoc => server[k].message \in Messages
    BY <1>11 DEF IInv, ServerHoldsSent, Said
  <2>2. \A e \in Devices, k \in Keys :
          snapShots[e][k] # NoDoc => snapShots[e][k].message \in Messages
    BY <1>11 DEF IInv, ScreensHoldSent, Said
  <2> QED
    BY <1>4, <2>1, <2>2 DEF UnseenIn
<1>19. UnsavedUnseen'
  <2>1. ASSUME NEW e \in Devices, NEW i \in Carries(e)', i > saved[e]
        PROVE  UnseenIn(server, snapShots, outbox'[e][i].doc.message)
    <3>1. CASE e = d /\ i = n + 1
      BY <1>7, <1>9, <1>18, <3>1
    <3>2. CASE ~(e = d /\ i = n + 1)
      <4>1. i \in Carries(e) /\ outbox'[e][i] = outbox[e][i]
        BY <1>10, <3>2
      <4>2. UnseenIn(server, snapShots, outbox[e][i].doc.message)
        BY <2>1, <4>1 DEF IInv, UnsavedUnseen, Unseen
      <4> QED
        BY <4>1, <4>2
    <3> QED
      BY <3>1, <3>2
  <2>2. \A x \in lost : UnseenIn(server, snapShots, x)
    BY DEF IInv, UnsavedUnseen, Unseen
  <2> QED
    BY <1>15, <2>1, <2>2 DEF UnsavedUnseen, Unseen
<1>20. ServerHoldsSent'
  BY <1>1, <1>11 DEF IInv, ServerHoldsSent, Said
<1>21. ScreensHoldSent'
  BY <1>1, <1>11 DEF IInv, ScreensHoldSent, Said, RowLoads, IsMine, NamedSenders
<1>22. ScreensLive'
  BY <1>1 DEF IInv, ScreensLive
<1>23. JoinsFirst'
  <2>1. CASE server[RoomPath] # NoDoc
    BY <1>15, <2>1 DEF JoinsFirst
  <2>2. CASE server[RoomPath] = NoDoc
    <3>1. ASSUME NEW e \in Devices, screen[e] # "none"
          PROVE  \E j \in DOMAIN outbox'[e] : outbox'[e][j].path = RoomPath
      <4>1. PICK j \in DOMAIN outbox[e] : outbox[e][j].path = RoomPath
        BY <2>2, <3>1 DEF IInv, JoinsFirst
      <4>2. j \in DOMAIN outbox'[e] /\ outbox'[e][j] = outbox[e][j]
        BY <1>9
      <4> QED
        BY <4>1, <4>2
    <3>2. ASSUME NEW e \in Devices, NEW i \in DOMAIN outbox'[e],
                 outbox'[e][i].path \in Keys
          PROVE  \E j \in 1..(i - 1) : outbox'[e][j].path = RoomPath
      <4>1. CASE e = d /\ i = n + 1
        <5>1. PICK j \in DOMAIN outbox[d] : outbox[d][j].path = RoomPath
          BY <1>1, <2>2 DEF IInv, JoinsFirst
        <5>2. j \in 1..n
          BY QueueType DEF IInv, n
        <5>3. j \in 1..(i - 1) /\ outbox'[e][j] = outbox[d][j]
          BY <1>9, <4>1, <5>2
        <5> QED
          BY <5>1, <5>3
      <4>2. CASE ~(e = d /\ i = n + 1)
        <5>1. i \in DOMAIN outbox[e] /\ outbox'[e][i] = outbox[e][i]
          BY <1>9, <4>2
        <5>2. PICK j \in 1..(i - 1) : outbox[e][j].path = RoomPath
          BY <2>2, <3>2, <5>1 DEF IInv, JoinsFirst
        <5>3. j \in DOMAIN outbox[e]
          BY <5>1, <5>2, QueueType DEF IInv
        <5> QED
          BY <1>9, <5>2, <5>3
      <4> QED
        BY <4>1, <4>2
    <3>3. screen' = screen /\ \A k \in Keys : server[k] = NoDoc
      BY <1>1, <2>2 DEF IInv, JoinsFirst
    <3> QED
      BY <1>15, <3>1, <3>2, <3>3 DEF JoinsFirst
  <2> QED
    BY <2>1, <2>2
<1>24. Accounted'
  <2> SUFFICES ASSUME NEW x \in Messages'
               PROVE  \/ \E i \in DOMAIN outbox'[sent'[x].by] :
                           outbox'[sent'[x].by][i].doc.message = x
                      \/ \E k \in Keys : server[k] # NoDoc /\ server[k].message = x
                      \/ \E y \in Messages' \ {x} : SecondOfDay(y)' = SecondOfDay(x)'
                      \/ x \in lost
    BY <1>15 DEF Accounted
  <2>1. CASE x = m
    BY <1>7, <1>9, <2>1
  <2>2. CASE x # m
    <3>1. x \in Messages /\ sent'[x] = sent[x]
      BY <1>4, <2>2
    <3>2. sent[x].by \in Devices
      BY <3>1, SentType DEF IInv
    <3>3. ASSUME NEW i \in DOMAIN outbox[sent[x].by],
                 outbox[sent[x].by][i].doc.message = x
          PROVE  \E j \in DOMAIN outbox'[sent'[x].by] :
                   outbox'[sent'[x].by][j].doc.message = x
      BY <1>9, <3>1, <3>2, <3>3
    <3>4. CASE \E y \in Messages \ {x} : SecondOfDay(y) = SecondOfDay(x)
      BY <1>4, <3>1, <3>4 DEF SecondOfDay
    <3> QED
      BY <3>1, <3>3, <3>4 DEF IInv, Accounted
  <2> QED
    BY <2>1, <2>2
<1> QED
  BY <1>10, <1>13, <1>14, <1>17, <1>19, <1>20, <1>21, <1>22, <1>23, <1>24 DEF IInv

\* A write that is on a disk is not one that could have been lost.
LEMMA SavedIsNotLost ==
  ASSUME IInv, NEW d \in Devices, NEW i \in Carries(d), i <= saved[d],
         NEW e \in Devices, NEW j \in Carries(e), j > saved[e]
  PROVE  outbox[e][j].doc.message # outbox[d][i].doc.message
<1> SUFFICES ASSUME outbox[e][j].doc.message = outbox[d][i].doc.message
             PROVE  FALSE
  OBVIOUS
<1>1. d = e /\ i = j
  BY QueuedOnce
<1>2. i \in Nat /\ saved[d] \in Nat
  BY QueueType DEF IInv, TypeOK, Carries
<1> QED
  BY <1>1, <1>2

\* The worker queue stores a write.
LEMMA StoreStep ==
  ASSUME IInv, TypeOK', NEW d \in Devices, WriteMutations(d)
  PROVE  IInv'
<1> USE DEF server_vars, screen_vars
<1>1. /\ saved' = [saved EXCEPT ![d] = saved[d] + 1]
      /\ UNCHANGED <<server_vars, sent, outbox, applied, lost, listed, screen_vars>>
  BY DEF WriteMutations
<1>2. \A e \in Devices : Carries(e)' = Carries(e)
  BY <1>1 DEF Carries
<1>3. QueuesHoldSent' /\ ServerHoldsSent' /\ JoinsFirst'
  <2>1. UNCHANGED <<sent, members, server, outbox, screen>>
    BY <1>1
  <2>2. QueuesHoldSent'
    BY <2>1 DEF IInv, QueuesHoldSent, Said
  <2>3. ServerHoldsSent' /\ JoinsFirst'
    BY <2>1 DEF IInv, ServerHoldsSent, JoinsFirst, Said
  <2> QED
    BY <2>2, <2>3
<1>4. QueuesOrdered' /\ LostGone' /\ LandedStays'
  BY <1>1, <1>2 DEF IInv, QueuesOrdered, LostGone, LandedStays, Messages
<1>5. ScreensHoldSent' /\ ScreensLive'
  BY <1>1 DEF IInv, ScreensHoldSent, ScreensLive, Said, RowLoads, IsMine, NamedSenders
<1>6. Accounted'
  BY <1>1 DEF IInv, Accounted, Messages, SecondOfDay
<1>7. UnsavedUnseen'
  <2>1. ASSUME NEW e \in Devices, NEW i \in Carries(e), i > saved'[e]
        PROVE  Unseen(outbox[e][i].doc.message)
    <3>1. i > saved[e]
      <4>1. i \in Nat /\ saved[e] \in Nat
        BY QueueType DEF IInv, TypeOK, Carries
      <4>2. saved'[e] >= saved[e]
        BY <1>1, <4>1 DEF IInv, TypeOK
      <4> QED
        BY <2>1, <4>1, <4>2 DEF TypeOK
    <3> QED
      BY <3>1 DEF IInv, UnsavedUnseen
  <2>2. \A x \in lost : Unseen(x)
    BY DEF IInv, UnsavedUnseen
  <2> QED
    BY <1>1, <1>2, <2>1, <2>2 DEF UnsavedUnseen, Unseen
<1> QED
  BY <1>3, <1>4, <1>5, <1>6, <1>7 DEF IInv

\* The server applies a stored write of a device.
LEMMA CommitStep ==
  ASSUME IInv, TypeOK', NEW d \in Devices, Commit(d)
  PROVE  IInv'
<1> DEFINE c == applied[d] + 1
           w == outbox[d][c]
<1> USE ConstantsAssumption DEF screen_vars
<1>1. /\ server' = SetData(server, w)
      /\ applied' = [applied EXCEPT ![d] = c]
      /\ UNCHANGED <<members, sent, outbox, saved, lost, listed, screen_vars>>
  BY DEF Commit
<1>2. c \in DOMAIN outbox[d] /\ c <= saved[d] /\ c \in Nat
  BY LenProperties DEF Commit, IInv, TypeOK
<1>3. w \in Write /\ w.path \in Paths /\ w.doc \in Docs /\ w.doc # NoDoc
  BY <1>2, QueueType DEF IInv, Write
<1> HIDE DEF c, w
<1>4. /\ server'[w.path] = w.doc
      /\ \A p \in Paths \ {w.path} : server'[p] = server[p]
      /\ \A p \in Paths : server[p] # NoDoc => server'[p] # NoDoc
  BY <1>1, <1>3 DEF SetData, IInv, TypeOK, Store
<1>5. /\ w.path \in Keys => /\ SaidAt(sent, members, w.doc, w.path)
                            /\ sent[w.doc.message].by = d
                            /\ c \in Carries(d)
      /\ w.path = RoomPath => w.doc = JoinDoc
  BY <1>2 DEF IInv, QueuesHoldSent, Said, Carries, w
<1>6. \A e \in Devices : Carries(e)' = Carries(e)
  BY <1>1 DEF Carries
<1>7. QueuesHoldSent'
  <2>1. UNCHANGED <<sent, members, outbox>>
    BY <1>1
  <2> QED
    BY <2>1 DEF IInv, QueuesHoldSent, Said
<1>8. QueuesOrdered' /\ LostGone'
  BY <1>1, <1>6 DEF IInv, QueuesOrdered, LostGone, Messages
<1>9. LandedStays'
  <2> SUFFICES ASSUME NEW e \in Devices, NEW i \in 1..applied'[e]
               PROVE  server'[outbox[e][i].path] # NoDoc
    BY <1>1 DEF LandedStays
  <2>1. CASE e = d /\ i = c
    BY <1>3, <1>4, <2>1 DEF w
  <2>2. CASE ~(e = d /\ i = c)
    <3>1. i \in 1..applied[e]
      BY <1>1, <2>2 DEF IInv, TypeOK, c
    <3>2. i \in DOMAIN outbox[e]
      BY <3>1, LenProperties, SMTT(60) DEF IInv, TypeOK
    <3>3. outbox[e][i].path \in Paths /\ server[outbox[e][i].path] # NoDoc
      BY <3>1, <3>2, QueueType DEF IInv, LandedStays
    <3> QED
      BY <1>4, <3>3
  <2> QED
    BY <2>1, <2>2
<1>10. ASSUME NEW m, UnseenIn(server, snapShots, m),
              w.path \in Keys => w.doc.message # m
       PROVE  UnseenIn(server', snapShots', m)
  <2>1. \A k \in Keys : server'[k] # NoDoc => server'[k].message # m
    BY <1>4, <1>10 DEF UnseenIn, Paths
  <2> QED
    BY <1>1, <1>10, <2>1 DEF UnseenIn
<1>11. UnsavedUnseen'
  <2>1. ASSUME NEW m \in lost
        PROVE  UnseenIn(server', snapShots', m)
    <3>1. UnseenIn(server, snapShots, m)
      BY <2>1 DEF IInv, UnsavedUnseen, Unseen
    <3>2. w.path \in Keys => w.doc.message # m
      BY <1>5, <2>1 DEF IInv, LostGone, w
    <3> QED
      BY <1>10, <3>1, <3>2
  <2>2. ASSUME NEW e \in Devices, NEW i \in Carries(e), i > saved[e]
        PROVE  UnseenIn(server', snapShots', outbox[e][i].doc.message)
    <3>1. UnseenIn(server, snapShots, outbox[e][i].doc.message)
      BY <2>2 DEF IInv, UnsavedUnseen, Unseen
    <3>2. w.path \in Keys => w.doc.message # outbox[e][i].doc.message
      BY <1>2, <1>5, <2>2, SavedIsNotLost DEF w
    <3> QED
      BY <1>10, <3>1, <3>2
  <2>3. lost' = lost /\ saved' = saved /\ outbox' = outbox
    BY <1>1
  <2> QED
    BY <1>6, <2>1, <2>2, <2>3 DEF UnsavedUnseen, Unseen
<1>12. ServerHoldsSent'
  <2> SUFFICES ASSUME NEW k \in Keys, server'[k] # NoDoc
               PROVE  SaidAt(sent, members, server'[k], k)
    BY <1>1 DEF ServerHoldsSent, Said
  <2>1. CASE k = w.path
    BY <1>4, <1>5, <2>1
  <2>2. CASE k # w.path
    BY <1>4, <2>2 DEF IInv, ServerHoldsSent, Said, Paths
  <2> QED
    BY <2>1, <2>2
<1>13. ScreensHoldSent'
  BY <1>1 DEF IInv, ScreensHoldSent, Said, RowLoads, IsMine, NamedSenders
<1>14. ScreensLive'
  BY <1>1 DEF IInv, ScreensLive
<1>15. JoinsFirst'
  <2>1. server'[RoomPath] # NoDoc
    <3>1. CASE server[RoomPath] # NoDoc
      BY <1>4, <3>1 DEF Paths
    <3>2. CASE w.path = RoomPath
      BY <1>3, <1>4, <3>2
    <3>3. CASE server[RoomPath] = NoDoc /\ w.path \in Keys
      <4>1. PICK j \in 1..(c - 1) : outbox[d][j].path = RoomPath
        BY <1>2, <3>3 DEF IInv, JoinsFirst, w
      <4>2. j \in 1..applied[d]
        BY <4>1 DEF c, IInv, TypeOK
      <4>3. server[outbox[d][j].path] # NoDoc
        BY <4>2 DEF IInv, LandedStays
      <4> QED
        BY <3>3, <4>1, <4>3
    <3> QED
      BY <1>3, <3>1, <3>2, <3>3 DEF Paths
  <2> QED
    BY <2>1 DEF JoinsFirst
<1>16. Accounted'
  <2> SUFFICES ASSUME NEW x \in Messages
               PROVE  \/ \E i \in DOMAIN outbox[sent[x].by] :
                           outbox[sent[x].by][i].doc.message = x
                      \/ \E k \in Keys : server'[k] # NoDoc /\ server'[k].message = x
                      \/ \E y \in Messages \ {x} : SecondOfDay(y) = SecondOfDay(x)
                      \/ x \in lost
    BY <1>1 DEF Accounted, Messages, SecondOfDay
  <2>1. ASSUME NEW k \in Keys, server[k] # NoDoc, server[k].message = x
        PROVE  \/ \E j \in Keys : server'[j] # NoDoc /\ server'[j].message = x
               \/ \E y \in Messages \ {x} : SecondOfDay(y) = SecondOfDay(x)
    <3>1. CASE k # w.path
      BY <1>4, <2>1, <3>1 DEF Paths
    <3>2. CASE k = w.path /\ w.doc.message = x
      BY <1>3, <1>4, <3>2
    <3>3. CASE k = w.path /\ w.doc.message # x
      <4>1. w.doc.message \in Messages /\ SecondOfDay(w.doc.message) = k
        BY <1>5, <3>3, SaidMessage DEF Said
      <4>2. SecondOfDay(x) = k
        BY <2>1, SaidMessage DEF IInv, ServerHoldsSent
      <4> QED
        BY <3>3, <4>1, <4>2
    <3> QED
      BY <3>1, <3>2, <3>3
  <2> QED
    BY <2>1 DEF IInv, Accounted
<1> QED
  BY <1>7, <1>8, <1>9, <1>11, <1>12, <1>13, <1>14, <1>15, <1>16 DEF IInv

\* The oldest write of a device is acknowledged and leaves its queue.
LEMMA AcknowledgeStep ==
  ASSUME IInv, TypeOK', NEW d \in Devices, Acknowledge(d)
  PROVE  IInv'
<1> DEFINE n == Len(outbox[d])
           at(e, i) == IF e = d THEN i + 1 ELSE i
<1> USE ConstantsAssumption DEF server_vars, screen_vars
<1>1. /\ outbox' = [outbox EXCEPT ![d] = Tail(outbox[d])]
      /\ saved' = [saved EXCEPT ![d] = saved[d] - 1]
      /\ applied' = [applied EXCEPT ![d] = applied[d] - 1]
      /\ UNCHANGED <<members, server, sent, lost, listed, screen_vars>>
      /\ applied[d] > 0
  BY DEF Acknowledge
<1>2. /\ outbox[d] \in Seq(Write) /\ n \in Nat \ {0} /\ outbox[d] # <<>>
      /\ DOMAIN outbox[d] = 1..n /\ 1 \in 1..applied[d]
      /\ \A e \in Devices : applied[e] \in Nat /\ saved[e] \in Nat
  BY <1>1, EmptySeq, LenProperties DEF IInv, TypeOK
<1>3. /\ DOMAIN outbox'[d] = 1..(n - 1)
      /\ \A i \in 1..(n - 1) : outbox'[d][i] = outbox[d][i + 1]
      /\ \A e \in Devices \ {d} : outbox'[e] = outbox[e]
  <2>1. outbox'[d] = Tail(outbox[d]) /\ \A e \in Devices \ {d} : outbox'[e] = outbox[e]
    BY <1>1 DEF IInv, TypeOK
  <2>2. /\ Len(Tail(outbox[d])) = n - 1
        /\ Tail(outbox[d]) \in Seq(Write)
        /\ \A i \in 1..(n - 1) : Tail(outbox[d])[i] = outbox[d][i + 1]
    BY <1>2, HeadTailProperties
  <2>3. DOMAIN Tail(outbox[d]) = 1..(n - 1)
    BY <2>2, LenProperties
  <2> QED
    BY <2>1, <2>2, <2>3
<1>4. ASSUME NEW e \in Devices, NEW i \in DOMAIN outbox'[e]
      PROVE  /\ i \in Nat \ {0} /\ at(e, i) \in DOMAIN outbox[e]
             /\ outbox'[e][i] = outbox[e][at(e, i)]
  <2>1. CASE e = d
    <3>1. i \in 1..(n - 1) /\ n \in Nat /\ at(e, i) = i + 1
      BY <1>2, <1>3, <2>1
    <3> HIDE DEF n, at
    <3>2. i + 1 \in 1..n /\ i \in Nat \ {0}
      BY <3>1
    <3>3. outbox'[d][i] = outbox[d][i + 1] /\ i + 1 \in DOMAIN outbox[d]
      BY <1>2, <1>3, <3>1, <3>2
    <3> QED
      BY <2>1, <3>1, <3>2, <3>3
  <2>2. CASE e # d
    BY <1>3, <1>4, <2>2, QueueType DEF IInv
  <2> QED
    BY <2>1, <2>2
<1>5. ASSUME NEW e \in Devices, NEW i \in Carries(e)'
      PROVE  at(e, i) \in Carries(e) /\ outbox'[e][i] = outbox[e][at(e, i)] /\ i \in Nat
  BY <1>4 DEF Carries
<1>6. /\ \A e \in Devices, i \in Nat : i > saved'[e] => at(e, i) > saved[e]
      /\ \A e \in Devices : \A i \in 1..applied'[e] : at(e, i) \in 1..applied[e]
  BY <1>1, <1>2, SMTT(60) DEF IInv, TypeOK
<1>7. \A e \in Devices, i \in Nat, j \in Nat : i < j => at(e, i) < at(e, j)
  OBVIOUS
<1> HIDE DEF at
<1>8. QueuesHoldSent'
  <2> SUFFICES ASSUME NEW e \in Devices, NEW i \in DOMAIN outbox'[e]
               PROVE  /\ outbox'[e][i].path \in Keys =>
                           /\ SaidAt(sent, members, outbox'[e][i].doc, outbox'[e][i].path)
                           /\ sent[outbox'[e][i].doc.message].by = e
                      /\ outbox'[e][i].path = RoomPath => outbox'[e][i].doc = JoinDoc
    BY <1>1 DEF QueuesHoldSent, Said
  <2>1. at(e, i) \in DOMAIN outbox[e] /\ outbox'[e][i] = outbox[e][at(e, i)]
    BY <1>4
  <2> QED
    BY <2>1 DEF IInv, QueuesHoldSent, Said
<1>9. QueuesOrdered'
  <2> SUFFICES ASSUME NEW e \in Devices, NEW i \in Carries(e)', NEW j \in Carries(e)',
                      i < j
               PROVE  outbox'[e][i].doc.message < outbox'[e][j].doc.message
    BY DEF QueuesOrdered
  <2>1. /\ at(e, i) \in Carries(e) /\ outbox'[e][i] = outbox[e][at(e, i)]
        /\ at(e, j) \in Carries(e) /\ outbox'[e][j] = outbox[e][at(e, j)]
        /\ at(e, i) < at(e, j)
    BY <1>5, <1>7
  <2> QED
    BY <2>1 DEF IInv, QueuesOrdered
<1>10. LandedStays'
  <2> SUFFICES ASSUME NEW e \in Devices, NEW i \in 1..applied'[e]
               PROVE  server[outbox'[e][i].path] # NoDoc
    BY <1>1 DEF LandedStays
  <2>1. i \in DOMAIN outbox'[e]
    BY LenProperties DEF TypeOK
  <2>2. at(e, i) \in 1..applied[e] /\ outbox'[e][i] = outbox[e][at(e, i)]
    BY <1>4, <1>6, <2>1
  <2> QED
    BY <2>2 DEF IInv, LandedStays
<1>11. LostGone'
  <2>1. ASSUME NEW e \in Devices, NEW i \in Carries(e)'
        PROVE  outbox'[e][i].doc.message \notin lost
    <3>1. at(e, i) \in Carries(e) /\ outbox'[e][i] = outbox[e][at(e, i)]
      BY <1>5
    <3> QED
      BY <3>1 DEF IInv, LostGone
  <2>2. lost \subseteq Messages /\ lost' = lost /\ Messages' = Messages
    BY <1>1 DEF IInv, LostGone, Messages
  <2> QED
    BY <2>1, <2>2 DEF LostGone
<1>12. UnsavedUnseen'
  <2>1. ASSUME NEW e \in Devices, NEW i \in Carries(e)', i > saved'[e]
        PROVE  UnseenIn(server, snapShots, outbox'[e][i].doc.message)
    <3>1. /\ at(e, i) \in Carries(e) /\ outbox'[e][i] = outbox[e][at(e, i)]
          /\ at(e, i) > saved[e]
      BY <1>5, <1>6, <2>1
    <3> QED
      BY <3>1 DEF IInv, UnsavedUnseen, Unseen
  <2>2. \A x \in lost : UnseenIn(server, snapShots, x)
    BY DEF IInv, UnsavedUnseen, Unseen
  <2>3. UNCHANGED <<lost, server, snapShots>>
    BY <1>1
  <2> QED
    BY <2>1, <2>2, <2>3 DEF UnsavedUnseen, Unseen
<1>13. ServerHoldsSent' /\ ScreensHoldSent' /\ ScreensLive'
  <2>1. UNCHANGED <<members, server, sent, listed, screen, roomInfo, listener, snapShots>>
    BY <1>1
  <2> QED
    BY <2>1 DEF IInv, ServerHoldsSent, ScreensHoldSent, ScreensLive, Said,
                RowLoads, IsMine, NamedSenders
<1>14. server[outbox[d][1].path] # NoDoc
  BY <1>2 DEF IInv, LandedStays
<1>15. JoinsFirst'
  <2>1. server[RoomPath] # NoDoc
    <3>1. outbox[d][1].path \in Paths /\ 1 \in DOMAIN outbox[d]
      BY <1>2, QueueType DEF IInv
    <3> QED
      BY <1>14, <3>1 DEF IInv, JoinsFirst, Paths
  <2> QED
    BY <1>1, <2>1 DEF JoinsFirst
<1>16. Accounted'
  <2> SUFFICES ASSUME NEW x \in Messages
               PROVE  \/ \E i \in DOMAIN outbox'[sent[x].by] :
                           outbox'[sent[x].by][i].doc.message = x
                      \/ \E k \in Keys : server[k] # NoDoc /\ server[k].message = x
                      \/ \E y \in Messages \ {x} : SecondOfDay(y) = SecondOfDay(x)
                      \/ x \in lost
    BY <1>1 DEF Accounted, Messages, SecondOfDay
  <2>1. sent[x].by \in Devices
    BY SentType DEF IInv
  <2>2. ASSUME NEW i \in DOMAIN outbox[sent[x].by],
               outbox[sent[x].by][i].doc.message = x
        PROVE  \/ \E j \in DOMAIN outbox'[sent[x].by] :
                    outbox'[sent[x].by][j].doc.message = x
               \/ \E k \in Keys : server[k] # NoDoc /\ server[k].message = x
               \/ \E y \in Messages \ {x} : SecondOfDay(y) = SecondOfDay(x)
    <3>1. CASE sent[x].by # d
      BY <1>3, <2>1, <2>2, <3>1
    <3>2. CASE sent[x].by = d /\ i # 1
      <4>1. i - 1 \in 1..(n - 1) /\ (i - 1) + 1 = i
        BY <1>2, <2>2, <3>2
      <4>2. i - 1 \in DOMAIN outbox'[d] /\ outbox'[d][i - 1] = outbox[d][i]
        BY <1>3, <4>1
      <4> QED
        BY <2>2, <3>2, <4>2
    <3>3. CASE sent[x].by = d /\ i = 1
      <4> DEFINE k == outbox[d][1].path
      <4>1. 1 \in Carries(d) /\ k \in Keys
        <5>1. x # 0
          BY DEF Messages
        <5>2. 1 \in Carries(d)
          BY <2>2, <3>3, <5>1, JoinCarriesNothing
        <5> QED
          BY <5>2 DEF Carries
      <4>2. SecondOfDay(x) = k
        <5>1. Said(outbox[d][1].doc, k)
          BY <4>1 DEF IInv, QueuesHoldSent, Carries
        <5> QED
          BY <2>2, <3>3, <5>1, SaidMessage
      <4>3. server[k].message \in Messages /\ SecondOfDay(server[k].message) = k
        <5>1. Said(server[k], k)
          BY <1>14, <4>1 DEF IInv, ServerHoldsSent
        <5> QED
          BY <5>1, SaidMessage
      <4> QED
        BY <1>14, <4>1, <4>2, <4>3
    <3> QED
      BY <3>1, <3>2, <3>3
  <2> QED
    BY <2>2 DEF IInv, Accounted
<1> QED
  BY <1>8, <1>9, <1>10, <1>11, <1>12, <1>13, <1>15, <1>16 DEF IInv

\* A connection that starts anew has applied nothing yet.
LEMMA ReconnectStep ==
  ASSUME IInv, TypeOK', NEW d \in Devices, Reconnect(d)
  PROVE  IInv'
<1> USE DEF server_vars, screen_vars
<1>1. /\ applied' = [applied EXCEPT ![d] = 0]
      /\ UNCHANGED <<members, server, sent, outbox, saved, lost, listed, screen,
                     roomInfo, listener, snapShots>>
  BY DEF Reconnect
<1>2. \A e \in Devices : Carries(e)' = Carries(e)
  BY <1>1 DEF Carries
<1>3. QueuesHoldSent' /\ ServerHoldsSent' /\ ScreensHoldSent'
  BY <1>1 DEF IInv, QueuesHoldSent, ServerHoldsSent, ScreensHoldSent, Said,
              RowLoads, IsMine, NamedSenders
<1>4. QueuesOrdered' /\ LostGone' /\ UnsavedUnseen'
  BY <1>1, <1>2 DEF IInv, QueuesOrdered, LostGone, UnsavedUnseen, Unseen, Messages
<1>5. ScreensLive' /\ JoinsFirst'
  BY <1>1 DEF IInv, ScreensLive, JoinsFirst
<1>6. Accounted'
  BY <1>1 DEF IInv, Accounted, Messages, SecondOfDay
<1>7. LandedStays'
  <2> SUFFICES ASSUME NEW e \in Devices, NEW i \in 1..applied'[e]
               PROVE  server[outbox[e][i].path] # NoDoc
    BY <1>1 DEF LandedStays
  <2>1. i \in 1..applied[e]
    BY <1>1 DEF IInv, TypeOK
  <2> QED
    BY <2>1 DEF IInv, LandedStays
<1> QED
  BY <1>3, <1>4, <1>5, <1>6, <1>7 DEF IInv

\* A listener is called with documents that hold messages, none of which could
\* have been lost.
LEMMA SnapshotStep ==
  ASSUME IInv, TypeOK', NEW d \in Devices, NEW store, GetMessage(d, store),
         \A k \in Keys : store[k] # NoDoc => Said(store[k], k),
         \A m : Unseen(m) => \A k \in Keys : store[k] # NoDoc => store[k].message # m
  PROVE  IInv'
<1> DEFINE rows == Overlay(store, Stored(d))
<1> USE DEF server_vars
<1>1. CASE EndProcess(d)
  BY <1>1, EndStep DEF GetMessage
<1>2. CASE ~EndProcess(d)
  <2>1. /\ snapShots' = [snapShots EXCEPT ![d] = rows]
        /\ \A k \in Keys : rows[k] # NoDoc => RowLoads(d, rows[k])
        /\ UNCHANGED <<device_vars, screen, fromHome, roomInfo, listener, gameStarted>>
        /\ UNCHANGED <<server_vars, sent>>
    BY <1>2 DEF GetMessage
  <2>2. UNCHANGED <<outbox, saved, applied, lost, listed>>
    BY <2>1 DEF device_vars, queue_vars
  <2>3. ASSUME NEW k \in Keys, rows[k] # NoDoc
        PROVE  \/ rows[k] = store[k]
               \/ \E i \in Carries(d) : /\ i <= saved[d] /\ outbox[d][i].path = k
                                        /\ rows[k] = outbox[d][i].doc
    <3>1. \/ rows[k] = store[k]
          \/ \E i \in DOMAIN Stored(d) : Stored(d)[i].path = k /\ rows[k] = Stored(d)[i].doc
      BY StoredIsPrefix, OverlaidIsStoredOrQueued DEF IInv
    <3> HIDE DEF rows
    <3>2. ASSUME NEW i \in DOMAIN Stored(d), Stored(d)[i].path = k, rows[k] = Stored(d)[i].doc
          PROVE  /\ i \in Carries(d) /\ i <= saved[d] /\ outbox[d][i].path = k
                 /\ rows[k] = outbox[d][i].doc
      BY <3>2, StoredIsPrefix DEF IInv, Carries
    <3> QED
      BY <3>1, <3>2
  <2> HIDE DEF rows
  <2>4. \A k \in Keys : rows[k] # NoDoc => Said(rows[k], k)
    BY <2>3 DEF IInv, QueuesHoldSent, Carries
  <2>5. ASSUME NEW m, Unseen(m),
               \A i \in Carries(d) : i <= saved[d] => outbox[d][i].doc.message # m
        PROVE  UnseenIn(server', snapShots', m)
    <3>1. \A k \in Keys : rows[k] # NoDoc => rows[k].message # m
      BY <2>3, <2>5
    <3>2. ASSUME NEW e \in Devices, NEW k \in Keys, snapShots'[e][k] # NoDoc
          PROVE  snapShots'[e][k].message # m
      <4>1. CASE e = d
        BY <2>1, <3>1, <3>2, <4>1 DEF IInv, TypeOK
      <4>2. CASE e # d
        BY <2>1, <2>5, <3>2, <4>2 DEF IInv, TypeOK, Unseen, UnseenIn
      <4> QED
        BY <4>1, <4>2
    <3>3. server' = server
      BY <2>1
    <3> QED
      BY <2>5, <3>2, <3>3 DEF Unseen, UnseenIn
  <2>6. UnsavedUnseen'
    <3>1. ASSUME NEW m \in lost PROVE UnseenIn(server', snapShots', m)
      BY <2>5, <3>1 DEF IInv, UnsavedUnseen, LostGone
    <3>2. ASSUME NEW e \in Devices, NEW i \in Carries(e), i > saved[e]
          PROVE  UnseenIn(server', snapShots', outbox[e][i].doc.message)
      <4>1. Unseen(outbox[e][i].doc.message)
        BY <3>2 DEF IInv, UnsavedUnseen
      <4>2. \A j \in Carries(d) :
              j <= saved[d] => outbox[d][j].doc.message # outbox[e][i].doc.message
        BY <3>2, SavedIsNotLost
      <4> QED
        BY <2>5, <4>1, <4>2
    <3>3. \A e \in Devices : Carries(e)' = Carries(e)
      BY <2>2 DEF Carries
    <3> QED
      BY <2>2, <3>1, <3>2, <3>3 DEF UnsavedUnseen, Unseen
  <2>7. ScreensHoldSent'
    <3> SUFFICES ASSUME NEW e \in Devices, NEW k \in Keys, snapShots'[e][k] # NoDoc
                 PROVE  Said(snapShots'[e][k], k) /\ RowLoads(e, snapShots'[e][k])
      BY <2>1 DEF ScreensHoldSent, Said, RowLoads, IsMine, NamedSenders
    <3>1. CASE e = d
      BY <2>1, <2>4, <3>1 DEF IInv, TypeOK
    <3>2. CASE e # d
      BY <2>1, <3>2 DEF IInv, TypeOK, ScreensHoldSent
    <3> QED
      BY <3>1, <3>2
  <2>8. ScreensLive'
    <3>1. listener[d] = "live"
      BY DEF GetMessage
    <3> QED
      BY <2>1, <2>2, <3>1 DEF IInv, TypeOK, ScreensLive
  <2> QED
    BY <2>1, <2>2, <2>6, <2>7, <2>8, ScreenStep
<1> QED
  BY <1>1, <1>2

\* Every step of a user, an app, the Firestore client or the backend keeps the
\* invariant.
LEMMA InvStep == IInv /\ [Next]_vars => IInv'
<1> SUFFICES ASSUME IInv, [Next]_vars
             PROVE  IInv'
  OBVIOUS
<1> USE DEF server_vars, queue_vars, device_vars, screen_vars
<1>1. TypeOK /\ TypeOK'
  BY TypeStep DEF IInv
<1>2. ASSUME UNCHANGED <<server, sent, queue_vars, snapShots>>,
             members \subseteq members', ScreensLive', ScreensHoldSent',
             \A e \in Devices : screen[e] = "none" => screen'[e] = "none"
      PROVE  IInv'
  <2>1. UnsavedUnseen'
    BY <1>2, RowsKept
  <2> QED
    BY <1>1, <1>2, <2>1, ScreenStep
<1>3. ASSUME NEW d \in Devices, DropController(d), listener'[d] = "none",
             \A e \in Devices \ {d} : listener'[e] = listener[e],
             UNCHANGED <<server, sent, queue_vars, listed, members>>
      PROVE  IInv'
  <2>1. ScreensLive'
    BY <1>3 DEF IInv, TypeOK, ScreensLive, DropController
  <2>2. ScreensHoldSent'
    BY <1>3 DEF IInv, TypeOK, DropController, ScreensHoldSent, NoChat,
                Said, RowLoads, IsMine, NamedSenders
  <2>3. \A e \in Devices : screen[e] = "none" => screen'[e] = "none"
    BY <1>3 DEF IInv, TypeOK, DropController
  <2>4. \A e \in Devices, k \in Keys : snapShots'[e][k] \in {NoDoc, snapShots[e][k]}
    BY <1>3 DEF IInv, TypeOK, DropController, NoChat
  <2>5. UnsavedUnseen'
    BY <1>3, <2>4, RowsKept
  <2> QED
    BY <1>1, <1>3, <2>1, <2>2, <2>3, <2>5, ScreenStep
<1>4. ASSUME Tick PROVE IInv'
  <2>1. UNCHANGED <<server, sent, members, device_vars, screen_vars>>
    BY <1>4 DEF Tick
  <2>2. ScreensLive' /\ ScreensHoldSent'
    BY <2>1 DEF IInv, ScreensLive, ScreensHoldSent, Said, RowLoads, IsMine, NamedSenders
  <2> QED
    BY <1>2, <2>1, <2>2
<1>5. ASSUME NEW d \in Devices, OpenMatching(d) PROVE IInv'
  <2>1. PkOf[d] \in members
    BY <1>5 DEF OpenMatching, IInv, ScreensLive
  <2> QED
    BY <1>1, <1>5, <2>1, LoadStep DEF OpenMatching
<1>6. ASSUME NEW d \in Devices, JoinRoom(d) PROVE IInv'
  BY <1>1, <1>6, LoadStep DEF JoinRoom
<1>7. ASSUME NEW d \in Devices, RejoinRoom(d) PROVE IInv'
  <2>1. /\ UNCHANGED <<server, sent, queue_vars, listed, roomInfo, listener, snapShots>>
        /\ members' = members \cup {PkOf[d]}
        /\ screen' = [screen EXCEPT ![d] = "shown"] /\ screen[d] = "left"
    BY <1>7 DEF RejoinRoom
  <2>2. ScreensLive'
    BY <2>1 DEF IInv, TypeOK, ScreensLive
  <2>3. ScreensHoldSent'
    <3>1. \A e \in Devices, k \in Keys :
            snapShots[e][k] # NoDoc => /\ SaidAt(sent, members', snapShots[e][k], k)
                                       /\ RowLoads(e, snapShots[e][k])
      BY <2>1, SaidAtGrows DEF IInv, ScreensHoldSent, Said
    <3> QED
      BY <2>1, <3>1 DEF ScreensHoldSent, Said, RowLoads, IsMine, NamedSenders
  <2>4. \A e \in Devices : screen[e] = "none" => screen'[e] = "none"
    BY <2>1 DEF IInv, TypeOK
  <2> QED
    BY <1>2, <2>1, <2>2, <2>3, <2>4
<1>8. ASSUME NEW d \in Devices, PopViewController(d) PROVE IInv'
  <2>1. /\ UNCHANGED <<server, sent, queue_vars, listed, members, roomInfo, listener,
                       snapShots>>
        /\ screen' = [screen EXCEPT ![d] = "leaving"] /\ screen[d] = "shown"
    BY <1>8 DEF PopViewController
  <2>2. ScreensLive'
    BY <2>1 DEF IInv, TypeOK, ScreensLive
  <2>3. ScreensHoldSent'
    BY <2>1 DEF IInv, ScreensHoldSent, Said, RowLoads, IsMine, NamedSenders
  <2>4. \A e \in Devices : screen[e] = "none" => screen'[e] = "none"
    BY <2>1 DEF IInv, TypeOK
  <2> QED
    BY <1>2, <2>1, <2>2, <2>3, <2>4
<1>9. ASSUME NEW d \in Devices, LeaveJoinScreen(d) PROVE IInv'
  <2>1. listener[d] = "none" /\ listener' = listener
    BY <1>9 DEF LeaveJoinScreen, IInv, ScreensLive
  <2> QED
    BY <1>3, <1>9, <2>1 DEF LeaveJoinScreen
<1>10. ASSUME NEW d \in Devices, SendMessage(d) PROVE IInv'
  BY <1>1, <1>10, SendStep
<1>11. ASSUME NEW d \in Devices, GameStart(d) PROVE IInv'
  <2>1. UNCHANGED <<server, sent, queue_vars, members, listed, screen, roomInfo,
                    listener, snapShots>>
    BY <1>11 DEF GameStart
  <2>2. ScreensLive' /\ ScreensHoldSent'
    BY <2>1 DEF IInv, ScreensLive, ScreensHoldSent, Said, RowLoads, IsMine, NamedSenders
  <2> QED
    BY <1>2, <2>1, <2>2
<1>12. ASSUME NEW d \in Devices, ReceiveList(d) PROVE IInv'
  <2>1. /\ UNCHANGED <<server, sent, queue_vars, members, screen, roomInfo, listener,
                       snapShots>>
        /\ listed' = [listed EXCEPT ![d] = members]
    BY <1>12 DEF ReceiveList
  <2>2. ScreensLive'
    BY <2>1 DEF IInv, TypeOK, ScreensLive
  <2>3. ScreensHoldSent'
    BY <2>1 DEF IInv, ScreensHoldSent, Said, RowLoads, IsMine, NamedSenders
  <2> QED
    BY <1>2, <2>1, <2>2, <2>3
<1>13. ASSUME NEW d \in Devices, ViewDidDisappear(d) PROVE IInv'
  <2>1. /\ UNCHANGED <<server, sent, queue_vars, members, listed>>
        /\ listener' = [listener EXCEPT ![d] = "none"] /\ screen[d] = "leaving"
    BY <1>13 DEF ViewDidDisappear
  <2>2. CASE fromHome[d]
    <3>1. /\ screen' = [screen EXCEPT ![d] = "left"]
          /\ UNCHANGED <<roomInfo, snapShots>>
      BY <1>13, <2>2 DEF ViewDidDisappear
    <3>2. ScreensLive'
      BY <2>1, <3>1 DEF IInv, TypeOK, ScreensLive
    <3>3. ScreensHoldSent'
      BY <2>1, <3>1 DEF IInv, ScreensHoldSent, Said, RowLoads, IsMine, NamedSenders
    <3>4. \A e \in Devices : screen[e] = "none" => screen'[e] = "none"
      BY <2>1, <3>1 DEF IInv, TypeOK
    <3> QED
      BY <1>2, <2>1, <3>1, <3>2, <3>3, <3>4
  <2>3. CASE ~fromHome[d]
    <3>1. DropController(d)
      BY <1>13, <2>3 DEF ViewDidDisappear
    <3>2. listener'[d] = "none" /\ \A e \in Devices \ {d} : listener'[e] = listener[e]
      BY <2>1 DEF IInv, TypeOK
    <3> QED
      BY <1>3, <2>1, <3>1, <3>2
  <2> QED
    BY <2>2, <2>3
<1>14. ASSUME NEW d \in Devices, LocalSnapshot(d) PROVE IInv'
  <2>1. \A k \in Keys : snapShots[d][k] # NoDoc => Said(snapShots[d][k], k)
    BY DEF IInv, ScreensHoldSent
  <2>2. \A m : Unseen(m) =>
          \A k \in Keys : snapShots[d][k] # NoDoc => snapShots[d][k].message # m
    BY DEF Unseen, UnseenIn
  <2> QED
    BY <1>1, <1>14, <2>1, <2>2, SnapshotStep DEF LocalSnapshot
<1>15. ASSUME NEW d \in Devices, ServerSnapshot(d) PROVE IInv'
  <2>1. \A k \in Keys : server[k] # NoDoc => Said(server[k], k)
    BY DEF IInv, ServerHoldsSent
  <2>2. \A m : Unseen(m) => \A k \in Keys : server[k] # NoDoc => server[k].message # m
    BY DEF Unseen, UnseenIn
  <2> QED
    BY <1>1, <1>15, <2>1, <2>2, SnapshotStep DEF ServerSnapshot
<1>16. ASSUME NEW d \in Devices, ListenError(d) PROVE IInv'
  <2>1. /\ UNCHANGED <<server, sent, queue_vars, members, listed, screen, roomInfo,
                       snapShots>>
        /\ listener' = [listener EXCEPT ![d] = "failed"] /\ listener[d] = "live"
    BY <1>16 DEF ListenError
  <2>2. ScreensLive'
    BY <2>1 DEF IInv, TypeOK, ScreensLive
  <2>3. ScreensHoldSent'
    BY <2>1 DEF IInv, ScreensHoldSent, Said, RowLoads, IsMine, NamedSenders
  <2> QED
    BY <1>2, <2>1, <2>2, <2>3
<1>17. ASSUME NEW d \in Devices, Terminate(d) PROVE IInv'
  BY <1>1, <1>17, EndStep DEF Terminate
<1>18. ASSUME NEW d \in Devices, OpenJoinScreen(d) PROVE IInv'
  BY <1>1, <1>18, EndStep DEF OpenJoinScreen
<1>19. ASSUME NEW d \in Devices, ShowMatchingJoiner(d) PROVE IInv'
  BY <1>1, <1>19, EndStep DEF ShowMatchingJoiner
<1>20. ASSUME UNCHANGED vars PROVE IInv'
  <2>1. UNCHANGED <<server, sent, queue_vars, members, listed, screen, roomInfo,
                    listener, snapShots>>
    BY <1>20 DEF vars
  <2>2. ScreensLive' /\ ScreensHoldSent'
    BY <2>1 DEF IInv, ScreensLive, ScreensHoldSent, Said, RowLoads, IsMine, NamedSenders
  <2> QED
    BY <1>2, <2>1, <2>2
<1>21. ASSUME NEW d \in Devices, User(d) PROVE IInv'
  BY <1>5, <1>6, <1>7, <1>8, <1>9, <1>10, <1>11, <1>18, <1>19, <1>21 DEF User
<1>22. ASSUME NEW d \in Devices, System(d) PROVE IInv'
  <2>1. CASE WriteMutations(d) \/ Commit(d) \/ Acknowledge(d) \/ Reconnect(d)
    BY <1>1, <2>1, StoreStep, CommitStep, AcknowledgeStep, ReconnectStep
  <2> QED
    BY <1>12, <1>13, <1>14, <1>15, <1>16, <1>17, <1>22, <2>1 DEF System
<1> QED
  BY <1>4, <1>20, <1>21, <1>22 DEF Next

\* So the invariant holds in every reachable state.
LEMMA Inductive == Spec => []IInv
<1> QED
  BY InvInit, InvStep, PTL DEF Spec

-----------------------------------------------------------------------------
(* What holds in every room *)

\* What a table shows is what was said, at its second, by whom it names.
THEOREM Attribution == Spec => []RowsAttributed
<1>1. IInv => RowsAttributed
  <2> SUFFICES ASSUME IInv, NEW d \in Devices, NEW k \in Keys, snapShots[d][k] # NoDoc
               PROVE  LET doc == snapShots[d][k] IN
                      /\ doc.message \in Messages
                      /\ SecondOfDay(doc.message) = k
                      /\ LET sender == PkOf[sent[doc.message].by] IN
                         /\ IsMine(d, doc) <=> sender = PkOf[d]
                         /\ ~IsMine(d, doc) => NamedSenders(d, doc) = {sender}
    BY DEF RowsAttributed
  <2>1. Said(snapShots[d][k], k) /\ RowLoads(d, snapShots[d][k])
    BY DEF IInv, ScreensHoldSent
  <2> QED
    BY <2>1, SaidMessage DEF RowLoads, IsMine, NamedSenders
<1> QED
  BY <1>1, Inductive, PTL

\* A message is lost only to another message of its second of the day, or with
\* its process before anyone saw it.
THEOREM NothingElseLost == Spec => []LostOnlyToSameSecond
<1>1. IInv => LostOnlyToSameSecond
  <2> SUFFICES ASSUME IInv, NEW m \in Messages
               PROVE  \/ \E i \in 1..saved[sent[m].by] : outbox[sent[m].by][i].doc.message = m
                      \/ \E k \in Keys : server[k] # NoDoc /\ server[k].message = m
                      \/ \E n \in Messages \ {m} : SecondOfDay(n) = SecondOfDay(m)
                      \/ m \in lost \cup Unsaved(sent[m].by) /\ Unseen(m)
    BY DEF LostOnlyToSameSecond, Unseen, UnseenIn
  <2> DEFINE d == sent[m].by
  <2>1. d \in Devices
    BY SentType DEF IInv
  <2>2. m \in lost => Unseen(m)
    BY DEF IInv, UnsavedUnseen
  <2>3. ASSUME NEW i \in DOMAIN outbox[d], outbox[d][i].doc.message = m, i \notin 1..saved[d]
        PROVE  m \in Unsaved(d) /\ Unseen(m)
    <3>1. m # 0
      BY DEF Messages
    <3>2. i \in (saved[d] + 1)..Len(outbox[d]) /\ i > saved[d]
      BY <2>1, <2>3, QueueType, SMTT(60) DEF IInv, TypeOK
    <3>3. i \in Carries(d)
      BY <2>1, <2>3, <3>1, JoinCarriesNothing
    <3>4. Unseen(m)
      BY <2>1, <2>3, <3>2, <3>3 DEF IInv, UnsavedUnseen
    <3> QED
      BY <2>3, <3>1, <3>2, <3>4 DEF Unsaved
  <2> QED
    BY <2>2, <2>3 DEF IInv, Accounted
<1> QED
  BY <1>1, Inductive, PTL

\* No message is committed before the room's own document.
THEOREM JoinBeforeChat == Spec => []RoomDocumentFirst
<1>1. IInv => RoomDocumentFirst
  BY DEF IInv, JoinsFirst, RoomDocumentFirst
<1> QED
  BY <1>1, Inductive, PTL

\* Only a screen on display, or one being popped, listens.
THEOREM ListenersBounded == Spec => []ListenerOnlyOnScreen
<1>1. IInv => ListenerOnlyOnScreen
  BY DEF IInv, ScreensLive, ListenerOnlyOnScreen
<1> QED
  BY <1>1, Inductive, PTL

\* A screen opened with the complete user list can draw every message.
THEOREM CompleteListsSuffice == Spec => []CompleteListDraws
<1>1. IInv => CompleteListDraws
  <2> SUFFICES ASSUME IInv, NEW d \in Devices, NEW k \in Keys,
                      members \subseteq roomInfo[d], server[k] # NoDoc
               PROVE  RowLoads(d, server[k]) \/ server[k].pks \cap Broken # {}
    BY DEF CompleteListDraws
  <2>1. Said(server[k], k)
    BY DEF IInv, ServerHoldsSent
  <2>2. PICK p : server[k].pks = {p} /\ p \in roomInfo[d]
    BY <2>1, SaidMessage
  <2> QED
    BY <2>2 DEF RowLoads, NamedSenders
<1> QED
  BY <1>1, Inductive, PTL

-----------------------------------------------------------------------------
(* The messages of a queue                                                 *)

\* The count of messages goes up by one at each message, and by nothing else.
LEMMA CarriedSteps ==
  ASSUME NEW q, NEW k \in Nat
  PROVE  /\ Carried(q, k) \in Nat
         /\ Carried(q, 0) = 0
         /\ Carried(q, k + 1) = IF IsMessage(q[k + 1]) THEN Carried(q, k) + 1
                                                       ELSE Carried(q, k)
<1> DEFINE at(n) == {i \in 1..n : IsMessage(q[i])}
<1>1. ASSUME NEW n \in Nat PROVE IsFiniteSet(at(n)) /\ Cardinality(at(n)) \in Nat
  <2>1. IsFiniteSet(1..n) /\ at(n) \in SUBSET (1..n)
    BY FS_Interval
  <2>2. IsFiniteSet(at(n))
    BY <2>1, FS_Subset
  <2> QED
    BY <2>2, FS_CardinalityType
<1>2. at(0) = {}
  OBVIOUS
<1>3. Cardinality(at(0)) = 0
  BY <1>2, FS_EmptySet
<1>4. k + 1 \notin at(k)
  OBVIOUS
<1>5. CASE IsMessage(q[k + 1])
  <2>1. at(k + 1) = at(k) \cup {k + 1}
    BY <1>5
  <2>2. Cardinality(at(k + 1)) = Cardinality(at(k)) + 1
    BY <1>1, <1>4, <2>1, FS_AddElement
  <2> QED
    BY <1>1, <1>3, <1>5, <2>2 DEF Carried
<1>6. CASE ~IsMessage(q[k + 1])
  <2>1. at(k + 1) = at(k)
    BY <1>6
  <2> QED
    BY <1>1, <1>3, <1>6, <2>1 DEF Carried
<1> QED
  BY <1>5, <1>6

\* Only the writes that are counted matter.
LEMMA CarriedAlike ==
  ASSUME NEW q, NEW r, NEW k \in Nat,
         \A i \in 1..k : IsMessage(q[i]) <=> IsMessage(r[i])
  PROVE  Carried(q, k) = Carried(r, k)
<1>1. {i \in 1..k : IsMessage(q[i])} = {i \in 1..k : IsMessage(r[i])}
  OBVIOUS
<1> QED
  BY <1>1 DEF Carried

\* The count never falls, and a message is counted after all before it.
LEMMA CarriedGrows ==
  ASSUME NEW q, NEW k \in Nat, NEW j \in 0..k
  PROVE  /\ Carried(q, j) <= Carried(q, k)
         /\ j < k /\ IsMessage(q[k]) => Carried(q, j) < Carried(q, k)
<1>1. ASSUME NEW n \in Nat, j <= n PROVE Carried(q, j) <= Carried(q, n)
  <2>1. IsFiniteSet({i \in 1..n : IsMessage(q[i])})
    <3>1. IsFiniteSet(1..n) /\ {i \in 1..n : IsMessage(q[i])} \in SUBSET (1..n)
      BY FS_Interval
    <3> QED
      BY <3>1, FS_Subset
  <2>2. {i \in 1..j : IsMessage(q[i])} \in SUBSET {i \in 1..n : IsMessage(q[i])}
    BY <1>1
  <2> QED
    BY <2>1, <2>2, FS_Subset DEF Carried
<1>2. Carried(q, j) <= Carried(q, k)
  BY <1>1
<1>3. ASSUME j < k, IsMessage(q[k]) PROVE Carried(q, j) < Carried(q, k)
  <2>1. k - 1 \in Nat /\ j <= k - 1 /\ (k - 1) + 1 = k
    BY <1>3
  <2>2. Carried(q, j) <= Carried(q, k - 1)
    BY <1>1, <2>1
  <2>3. Carried(q, (k - 1) + 1) = Carried(q, k - 1) + 1
    BY <1>3, <2>1, CarriedSteps
  <2>4. Carried(q, j) \in Nat /\ Carried(q, k - 1) \in Nat
    BY <2>1, CarriedSteps
  <2> QED
    BY <2>1, <2>2, <2>3, <2>4
<1> QED
  BY <1>2, <1>3

\* The n-th message is in some place, and in one only.
LEMMA CarriedOnce ==
  ASSUME NEW q, NEW k \in Nat
  PROVE  /\ \A n \in 1..Carried(q, k) :
              \E i \in 1..k : IsMessage(q[i]) /\ Carried(q, i) = n
         /\ \A i, j \in 1..k :
              IsMessage(q[i]) /\ IsMessage(q[j]) /\ Carried(q, i) = Carried(q, j)
                => i = j
<1>1. ASSUME NEW n \in 1..Carried(q, k)
      PROVE  \E i \in 1..k : IsMessage(q[i]) /\ Carried(q, i) = n
  <2>1. \A i \in Nat : Carried(q, i) \in Nat
    BY CarriedSteps
  <2> DEFINE T == {i \in 0..k : Carried(q, i) >= n}
  <2>2. k \in T /\ T \subseteq Nat
    BY <1>1, <2>1
  <2>3. PICK i \in T : \A j \in T : i <= j
    BY <2>2, LeastNumber
  <2>4. i # 0
    BY <1>1, <2>3, CarriedSteps
  <2>5. i - 1 \in 0..k /\ i - 1 \in Nat /\ (i - 1) + 1 = i /\ i \in 1..k
    BY <2>3, <2>4
  <2>6. Carried(q, i - 1) < n
    <3>1. i - 1 \notin T
      BY <2>3, <2>5
    <3> QED
      BY <1>1, <2>1, <2>5, <3>1
  <2>7. Carried(q, i) = IF IsMessage(q[i]) THEN Carried(q, i - 1) + 1
                                           ELSE Carried(q, i - 1)
    <3>1. Carried(q, (i - 1) + 1) = IF IsMessage(q[(i - 1) + 1])
                                    THEN Carried(q, i - 1) + 1
                                    ELSE Carried(q, i - 1)
      BY <2>5, CarriedSteps
    <3> QED
      BY <2>5, <3>1
  <2>8. Carried(q, i) >= n /\ Carried(q, i) \in Nat /\ Carried(q, i - 1) \in Nat
    BY <2>1, <2>3, <2>5
  <2>9. IsMessage(q[i])
    BY <2>6, <2>7, <2>8
  <2>10. Carried(q, i) = n
    BY <1>1, <2>6, <2>7, <2>8, <2>9
  <2> QED
    BY <2>5, <2>9, <2>10
<1>2. ASSUME NEW i \in 1..k, NEW j \in 1..k, IsMessage(q[i]), IsMessage(q[j]),
             Carried(q, i) = Carried(q, j), i < j
      PROVE  FALSE
  <2>1. j \in Nat /\ i \in 0..j /\ i \in Nat
    BY <1>2
  <2>2. Carried(q, i) < Carried(q, j)
    BY <1>2, <2>1, CarriedGrows
  <2>3. Carried(q, i) \in Nat
    BY <2>1, CarriedSteps
  <2> QED
    BY <1>2, <2>2, <2>3
<1> QED
  BY <1>1, <1>2

\* A sequence is that of the messages exactly if it has each of them at its
\* place in the count.
LEMMA MessagesOfProperties ==
  ASSUME NEW q \in Seq(Write)
  PROVE  /\ MessagesOf(q) \in Seq(Nat)
         /\ Len(MessagesOf(q)) = Carried(q, Len(q))
         /\ \A i \in 1..Len(q) : IsMessage(q[i]) =>
              /\ Carried(q, i) \in 1..Carried(q, Len(q))
              /\ MessagesOf(q)[Carried(q, i)] = q[i].doc.message
         /\ \A s \in Seq(Nat) :
              /\ Len(s) = Carried(q, Len(q))
              /\ \A i \in 1..Len(q) :
                   IsMessage(q[i]) => s[Carried(q, i)] = q[i].doc.message
              => s = MessagesOf(q)
<1>1. Len(q) \in Nat /\ DOMAIN q = 1..Len(q) /\ \A i \in 1..Len(q) : q[i] \in Write
  BY LenProperties, ElementOfSeq
<1> DEFINE n == Carried(q, Len(q))
           place(m) == CHOOSE i \in DOMAIN q : IsMessage(q[i]) /\ Carried(q, i) = m
<1>2. n \in Nat
  BY <1>1, CarriedSteps
<1>3. ASSUME NEW m \in 1..n
      PROVE  /\ place(m) \in 1..Len(q) /\ IsMessage(q[place(m)])
             /\ Carried(q, place(m)) = m /\ q[place(m)].doc.message \in Nat
  <2>1. \E i \in DOMAIN q : IsMessage(q[i]) /\ Carried(q, i) = m
    BY <1>1, CarriedOnce
  <2>2. place(m) \in DOMAIN q /\ IsMessage(q[place(m)]) /\ Carried(q, place(m)) = m
    BY <2>1
  <2>3. q[place(m)] \in Write
    BY <1>1, <2>2
  <2> QED
    BY <1>1, <2>2, <2>3 DEF Write, Docs
<1>4. MessagesOf(q) = [m \in 1..n |-> q[place(m)].doc.message]
  BY DEF MessagesOf
<1> HIDE DEF place
<1>5. MessagesOf(q) \in Seq(Nat) /\ Len(MessagesOf(q)) = n
  <2>1. MessagesOf(q) \in [1..n -> Nat]
    BY <1>3, <1>4
  <2> QED
    BY <1>2, <2>1, SeqDef, LenProperties
<1>6. ASSUME NEW i \in 1..Len(q), IsMessage(q[i])
      PROVE  Carried(q, i) \in 1..n /\ MessagesOf(q)[Carried(q, i)] = q[i].doc.message
  <2>1. i \in Nat /\ 0 \in 0..i /\ 0 < i /\ i \in 0..Len(q)
    BY <1>1
  <2>2. Carried(q, 0) < Carried(q, i) /\ Carried(q, i) <= n
    BY <1>1, <1>6, <2>1, CarriedGrows
  <2>3. Carried(q, i) \in Nat /\ Carried(q, 0) = 0
    BY <2>1, CarriedSteps
  <2>4. Carried(q, i) \in 1..n
    BY <1>2, <2>2, <2>3
  <2>5. place(Carried(q, i)) = i
    <3>1. /\ place(Carried(q, i)) \in 1..Len(q) /\ IsMessage(q[place(Carried(q, i))])
          /\ Carried(q, place(Carried(q, i))) = Carried(q, i)
      BY <1>3, <2>4
    <3> QED
      BY <1>1, <1>6, <3>1, CarriedOnce
  <2> QED
    BY <1>4, <2>4, <2>5
<1>7. ASSUME NEW s \in Seq(Nat), Len(s) = n,
             \A i \in 1..Len(q) :
               IsMessage(q[i]) => s[Carried(q, i)] = q[i].doc.message
      PROVE  s = MessagesOf(q)
  <2>1. \A m \in 1..n : s[m] = MessagesOf(q)[m]
    BY <1>3, <1>4, <1>7
  <2> QED
    BY <1>5, <1>7, <2>1, SeqEqual
<1> QED
  BY <1>5, <1>6, <1>7
\* One more write: its message is the last one.
LEMMA MessagesOfAppend ==
  ASSUME NEW q \in Seq(Write), NEW w \in Write
  PROVE  /\ \A k \in 0..Len(q) : Carried(Append(q, w), k) = Carried(q, k)
         /\ MessagesOf(Append(q, w)) =
              IF IsMessage(w) THEN Append(MessagesOf(q), w.doc.message) ELSE MessagesOf(q)
<1> DEFINE r == Append(q, w)
           n == Carried(q, Len(q))
<1>1. /\ r \in Seq(Write) /\ Len(r) = Len(q) + 1 /\ Len(q) \in Nat
      /\ \A i \in 1..Len(q) : r[i] = q[i]
      /\ r[Len(q) + 1] = w
  BY AppendProperties, LenProperties
<1> HIDE DEF r
<1>2. \A k \in 0..Len(q) : Carried(r, k) = Carried(q, k)
  <2> SUFFICES ASSUME NEW k \in 0..Len(q) PROVE Carried(r, k) = Carried(q, k)
    OBVIOUS
  <2>1. k \in Nat /\ \A i \in 1..k : IsMessage(r[i]) <=> IsMessage(q[i])
    BY <1>1
  <2> QED
    BY <2>1, CarriedAlike
<1>3. Carried(r, Len(r)) = IF IsMessage(w) THEN n + 1 ELSE n
  <2>1. Carried(r, Len(q)) = n
    BY <1>1, <1>2
  <2> QED
    BY <1>1, <2>1, CarriedSteps
<1>4. /\ n \in Nat /\ MessagesOf(q) \in Seq(Nat) /\ Len(MessagesOf(q)) = n
      /\ \A i \in 1..Len(q) : IsMessage(q[i]) =>
           Carried(q, i) \in 1..n /\ MessagesOf(q)[Carried(q, i)] = q[i].doc.message
  BY <1>1, MessagesOfProperties, CarriedSteps
<1>5. ASSUME NEW i \in 1..Len(r)
      PROVE  \/ i = Len(q) + 1 /\ r[i] = w
             \/ i \in 1..Len(q) /\ r[i] = q[i] /\ Carried(r, i) = Carried(q, i)
  <2>1. i = Len(q) + 1 \/ i \in 1..Len(q)
    BY <1>1
  <2>2. i \in 1..Len(q) => i \in 0..Len(q)
    OBVIOUS
  <2> QED
    BY <1>1, <1>2, <2>1, <2>2
<1>6. CASE IsMessage(w)
  <2> DEFINE s == Append(MessagesOf(q), w.doc.message)
  <2>1. w.doc.message \in Nat
    BY DEF Write, Docs
  <2>2. /\ s \in Seq(Nat) /\ Len(s) = n + 1 /\ s[n + 1] = w.doc.message
        /\ \A m \in 1..n : s[m] = MessagesOf(q)[m]
    BY <1>4, <2>1, AppendProperties
  <2> HIDE DEF s
  <2>3. ASSUME NEW i \in 1..Len(r), IsMessage(r[i])
        PROVE  s[Carried(r, i)] = r[i].doc.message
    <3>1. CASE i = Len(q) + 1 /\ r[i] = w
      <4>1. Carried(r, i) = n + 1
        BY <1>1, <1>3, <1>6, <3>1
      <4> QED
        BY <2>2, <3>1, <4>1
    <3>2. CASE i \in 1..Len(q) /\ r[i] = q[i] /\ Carried(r, i) = Carried(q, i)
      BY <1>4, <2>2, <2>3, <3>2
    <3> QED
      BY <1>5, <3>1, <3>2
  <2>4. Len(s) = Carried(r, Len(r))
    BY <1>3, <1>6, <2>2
  <2>5. s = MessagesOf(r)
    BY <1>1, <2>2, <2>3, <2>4, MessagesOfProperties
  <2> QED
    BY <1>2, <1>6, <2>5 DEF r, s
<1>7. CASE ~IsMessage(w)
  <2> DEFINE s == MessagesOf(q)
  <2>1. ASSUME NEW i \in 1..Len(r), IsMessage(r[i])
        PROVE  s[Carried(r, i)] = r[i].doc.message
    BY <1>4, <1>5, <1>7, <2>1
  <2>2. s \in Seq(Nat) /\ Len(s) = Carried(r, Len(r))
    BY <1>3, <1>4, <1>7
  <2> HIDE DEF s
  <2>3. s = MessagesOf(r)
    BY <1>1, <2>1, <2>2, MessagesOfProperties
  <2> QED
    BY <1>2, <1>7, <2>3 DEF r, s
<1> QED
  BY <1>6, <1>7

\* The first writes only: their messages are the first ones.
LEMMA MessagesOfPrefix ==
  ASSUME NEW q \in Seq(Write), NEW n \in 0..Len(q)
  PROVE  /\ Carried(q, n) \in 0..Len(MessagesOf(q))
         /\ \A k \in 0..n : Carried(SubSeq(q, 1, n), k) = Carried(q, k)
         /\ MessagesOf(SubSeq(q, 1, n)) = SubSeq(MessagesOf(q), 1, Carried(q, n))
<1> DEFINE r == SubSeq(q, 1, n)
           c == Carried(q, n)
           s == SubSeq(MessagesOf(q), 1, c)
<1>1. Len(q) \in Nat /\ n \in Nat /\ \A i \in 1..n : q[i] \in Write
  BY LenProperties, ElementOfSeq
<1>2. r \in Seq(Write) /\ Len(r) = n /\ \A i \in 1..n : r[i] = q[i]
  <2>1. /\ r \in Seq(Write)
        /\ Len(r) = IF 1 <= n THEN n - 1 + 1 ELSE 0
        /\ \A i \in 1..(n - 1 + 1) : r[i] = q[1 + i - 1]
    BY <1>1, SubSeqProperties
  <2> QED
    BY <1>1, <2>1
<1> HIDE DEF r
<1>3. \A k \in 0..n : Carried(r, k) = Carried(q, k)
  <2> SUFFICES ASSUME NEW k \in 0..n PROVE Carried(r, k) = Carried(q, k)
    OBVIOUS
  <2>1. k \in Nat /\ \A i \in 1..k : IsMessage(r[i]) <=> IsMessage(q[i])
    BY <1>1, <1>2
  <2> QED
    BY <2>1, CarriedAlike
<1>4. /\ MessagesOf(q) \in Seq(Nat) /\ Len(MessagesOf(q)) = Carried(q, Len(q))
      /\ \A i \in 1..Len(q) : IsMessage(q[i]) =>
           MessagesOf(q)[Carried(q, i)] = q[i].doc.message
  BY MessagesOfProperties
<1>5. c \in 0..Len(MessagesOf(q))
  <2>1. c <= Carried(q, Len(q)) /\ c \in Nat /\ Carried(q, Len(q)) \in Nat
    BY <1>1, CarriedGrows, CarriedSteps
  <2> QED
    BY <1>4, <2>1
<1>6. s \in Seq(Nat) /\ Len(s) = c /\ \A m \in 1..c : s[m] = MessagesOf(q)[m]
  <2>1. \A m \in 1..c : MessagesOf(q)[m] \in Nat
    <3>1. \A m \in 1..Len(MessagesOf(q)) : MessagesOf(q)[m] \in Nat
      BY <1>4, ElementOfSeq
    <3>2. Len(MessagesOf(q)) \in Nat
      BY <1>4, LenProperties
    <3> QED
      BY <1>5, <3>1, <3>2
  <2>2. /\ s \in Seq(Nat)
        /\ Len(s) = IF 1 <= c THEN c - 1 + 1 ELSE 0
        /\ \A m \in 1..(c - 1 + 1) : s[m] = MessagesOf(q)[1 + m - 1]
    BY <1>4, <1>5, <2>1, SubSeqProperties
  <2>3. c \in Nat
    BY <1>5
  <2> HIDE DEF s, c
  <2> QED
    BY <2>2, <2>3
<1> HIDE DEF s, c
<1>7. ASSUME NEW i \in 1..n, IsMessage(r[i])
      PROVE  s[Carried(r, i)] = r[i].doc.message
  <2>1. i \in 0..n /\ i \in 1..Len(q) /\ r[i] = q[i] /\ Carried(r, i) = Carried(q, i)
    BY <1>1, <1>2, <1>3
  <2>2. Carried(r, i) \in 1..Carried(r, Len(r))
    BY <1>2, <1>7, MessagesOfProperties
  <2>3. Carried(q, i) \in 1..c
    BY <1>1, <1>2, <1>3, <2>1, <2>2 DEF c
  <2> QED
    BY <1>4, <1>6, <1>7, <2>1, <2>3
<1>8. Len(s) = Carried(r, Len(r))
  BY <1>1, <1>2, <1>3, <1>6 DEF c
<1>9. s = MessagesOf(r)
  BY <1>2, <1>6, <1>7, <1>8, MessagesOfProperties
<1> QED
  BY <1>3, <1>5, <1>9 DEF r, s, c

\* Without its first write: if that was a message, all others move up.
LEMMA MessagesOfTail ==
  ASSUME NEW q \in Seq(Write), q # <<>>
  PROVE  /\ \A k \in 0..(Len(q) - 1) :
              Carried(Tail(q), k) =
                IF IsMessage(q[1]) THEN Carried(q, k + 1) - 1 ELSE Carried(q, k + 1)
         /\ MessagesOf(Tail(q)) =
              IF IsMessage(q[1]) THEN Tail(MessagesOf(q)) ELSE MessagesOf(q)
         /\ IsMessage(q[1]) => MessagesOf(q) # <<>>
<1> DEFINE r == Tail(q)
           n == Carried(q, Len(q))
           one == IF IsMessage(q[1]) THEN 1 ELSE 0
<1>1. /\ r \in Seq(Write) /\ Len(r) = Len(q) - 1 /\ Len(q) \in Nat \ {0}
      /\ \A i \in 1..(Len(q) - 1) : r[i] = q[i + 1]
  <2>1. /\ r \in Seq(Write) /\ Len(r) = Len(q) - 1
        /\ \A i \in 1..Len(r) : r[i] = q[i + 1]
    BY HeadTailProperties
  <2>2. Len(q) \in Nat /\ Len(q) # 0
    BY LenProperties, EmptySeq
  <2> QED
    BY <2>1, <2>2
<1> HIDE DEF r
<1>2. \A k \in Nat : Carried(q, k) \in Nat /\ Carried(r, k) \in Nat
  BY CarriedSteps
<1>3. Carried(q, 1) = one
  <2>1. 0 \in Nat /\ 0 + 1 = 1
    OBVIOUS
  <2>2. Carried(q, 0) = 0
    BY <2>1, CarriedSteps
  <2>3. Carried(q, 0 + 1) = IF IsMessage(q[0 + 1]) THEN Carried(q, 0) + 1 ELSE Carried(q, 0)
    BY <2>1, CarriedSteps
  <2> QED
    BY <2>1, <2>2, <2>3
<1> HIDE DEF one
<1>4. one \in {0, 1}
  BY DEF one
<1>5. \A k \in 0..(Len(q) - 1) : Carried(r, k) = Carried(q, k + 1) - one
  <2> DEFINE T == {k \in 0..(Len(q) - 1) : Carried(r, k) # Carried(q, k + 1) - one}
  <2> SUFFICES ASSUME T # {} PROVE FALSE
    OBVIOUS
  <2>1. T \subseteq Nat
    OBVIOUS
  <2>2. PICK k \in T : \A j \in T : k <= j
    BY <2>1, LeastNumber
  <2>3. k \in 0..(Len(q) - 1) /\ Carried(r, k) # Carried(q, k + 1) - one
    BY <2>2
  <2>4. k # 0
    <3>1. Carried(r, 0) = 0
      BY CarriedSteps
    <3> QED
      BY <1>3, <1>4, <2>3, <3>1
  <2>5. /\ k - 1 \in 0..(Len(q) - 1) /\ k - 1 \in Nat /\ (k - 1) + 1 = k
        /\ k \in Nat /\ k + 1 \in Nat /\ k \in 1..(Len(q) - 1)
    BY <1>1, <2>3, <2>4
  <2>6. Carried(r, k - 1) = Carried(q, k) - one
    <3>1. k - 1 \notin T
      BY <2>2, <2>5
    <3> QED
      BY <2>5, <3>1
  <2>7. Carried(r, k) = IF IsMessage(r[k]) THEN Carried(r, k - 1) + 1 ELSE Carried(r, k - 1)
    <3>1. Carried(r, (k - 1) + 1) = IF IsMessage(r[(k - 1) + 1])
                                    THEN Carried(r, k - 1) + 1 ELSE Carried(r, k - 1)
      BY <2>5, CarriedSteps
    <3> QED
      BY <2>5, <3>1
  <2>8. Carried(q, k + 1) = IF IsMessage(q[k + 1]) THEN Carried(q, k) + 1 ELSE Carried(q, k)
    BY <2>5, CarriedSteps
  <2>9. r[k] = q[k + 1]
    BY <1>1, <2>5
  <2>10. /\ Carried(q, k) \in Nat /\ Carried(r, k - 1) \in Nat
         /\ Carried(q, k + 1) \in Nat /\ Carried(r, k) \in Nat
    BY <1>2, <2>5
  <2> HIDE DEF T
  <2>11. CASE IsMessage(r[k])
    <3>1. Carried(r, k) = Carried(r, k - 1) + 1 /\ Carried(q, k + 1) = Carried(q, k) + 1
      BY <2>7, <2>8, <2>9, <2>11
    <3> QED
      BY <1>4, <2>3, <2>6, <2>10, <3>1
  <2>12. CASE ~IsMessage(r[k])
    <3>1. Carried(r, k) = Carried(r, k - 1) /\ Carried(q, k + 1) = Carried(q, k)
      BY <2>7, <2>8, <2>9, <2>12
    <3> QED
      BY <1>4, <2>3, <2>6, <2>10, <3>1
  <2> QED
    BY <2>11, <2>12
<1>6. Carried(r, Len(r)) = n - one
  <2>1. Len(r) \in 0..(Len(q) - 1) /\ Len(r) + 1 = Len(q)
    BY <1>1
  <2> QED
    BY <1>5, <2>1
<1>7. /\ MessagesOf(q) \in Seq(Nat) /\ Len(MessagesOf(q)) = n /\ n \in Nat
      /\ \A i \in 1..Len(q) : IsMessage(q[i]) =>
           Carried(q, i) \in 1..n /\ MessagesOf(q)[Carried(q, i)] = q[i].doc.message
  BY <1>1, <1>2, MessagesOfProperties
<1>8. ASSUME NEW i \in 1..Len(r), IsMessage(r[i])
      PROVE  /\ i + 1 \in 1..Len(q) /\ r[i] = q[i + 1]
             /\ Carried(r, i) = Carried(q, i + 1) - one
             /\ Carried(q, i + 1) \in 1..n
             /\ Carried(r, i) \in 1..(n - one)
  <2>1. i + 1 \in 1..Len(q) /\ r[i] = q[i + 1] /\ i \in 0..(Len(q) - 1)
    BY <1>1
  <2>2. Carried(q, i + 1) \in 1..n /\ Carried(r, i) = Carried(q, i + 1) - one
    BY <1>5, <1>7, <1>8, <2>1
  <2>3. Carried(r, i) \in 1..(n - one)
    BY <1>1, <1>6, <1>8, MessagesOfProperties
  <2> QED
    BY <2>1, <2>2, <2>3
<1>9. \A k \in 0..(Len(q) - 1) :
        Carried(r, k) = IF IsMessage(q[1]) THEN Carried(q, k + 1) - 1 ELSE Carried(q, k + 1)
  <2> SUFFICES ASSUME NEW k \in 0..(Len(q) - 1)
               PROVE  Carried(r, k) = IF IsMessage(q[1]) THEN Carried(q, k + 1) - 1
                                                         ELSE Carried(q, k + 1)
    OBVIOUS
  <2>1. Carried(r, k) = Carried(q, k + 1) - one /\ Carried(q, k + 1) \in Nat
    BY <1>2, <1>5
  <2> QED
    BY <2>1 DEF one
<1>10. CASE IsMessage(q[1])
  <2> DEFINE s == Tail(MessagesOf(q))
  <2>1. one = 1 /\ n >= 1
    <3>1. 1 \in 1..Len(q) /\ Carried(q, 1) \in 1..n
      BY <1>1, <1>7, <1>10
    <3> QED
      BY <1>7, <1>10, <3>1 DEF one
  <2>2. MessagesOf(q) # <<>>
    BY <1>7, <2>1, EmptySeq
  <2>3. /\ s \in Seq(Nat) /\ Len(s) = n - 1
        /\ \A m \in 1..(n - 1) : s[m] = MessagesOf(q)[m + 1]
    BY <1>7, <2>2, HeadTailProperties
  <2> HIDE DEF s
  <2>4. ASSUME NEW i \in 1..Len(r), IsMessage(r[i])
        PROVE  s[Carried(r, i)] = r[i].doc.message
    <3>1. /\ Carried(r, i) \in 1..(n - 1) /\ Carried(r, i) + 1 = Carried(q, i + 1)
      BY <1>7, <1>8, <2>1, <2>4
    <3>2. s[Carried(r, i)] = MessagesOf(q)[Carried(q, i + 1)]
      BY <2>3, <3>1
    <3> QED
      BY <1>7, <1>8, <2>4, <3>2
  <2>5. s = MessagesOf(r)
    BY <1>1, <1>6, <2>1, <2>3, <2>4, MessagesOfProperties
  <2> QED
    BY <1>9, <1>10, <2>2, <2>5 DEF r, s
<1>11. CASE ~IsMessage(q[1])
  <2> DEFINE s == MessagesOf(q)
  <2>1. one = 0
    BY <1>11 DEF one
  <2>2. ASSUME NEW i \in 1..Len(r), IsMessage(r[i])
        PROVE  s[Carried(r, i)] = r[i].doc.message
    <3>1. Carried(r, i) = Carried(q, i + 1)
      BY <1>8, <2>1, <2>2
    <3> QED
      BY <1>7, <1>8, <2>2, <3>1
  <2>3. s \in Seq(Nat) /\ Len(s) = Carried(r, Len(r))
    BY <1>6, <1>7, <2>1
  <2> HIDE DEF s
  <2>4. s = MessagesOf(r)
    BY <1>1, <2>2, <2>3, MessagesOfProperties
  <2> QED
    BY <1>9, <1>11, <2>4 DEF r, s
<1> QED
  BY <1>10, <1>11
-----------------------------------------------------------------------------
(* The board                                                               *)

\* A queue holds its device's messages, each for its second; a message is a
\* post, on the slot of its key.
LEMMA MessageIsPost ==
  ASSUME IInv, NEW d \in Devices, NEW i \in 1..Len(outbox[d]), IsMessage(outbox[d][i])
  PROVE  /\ outbox[d][i].path \in Keys
         /\ outbox[d][i].doc.message \in Messages
         /\ SecondOfDay(outbox[d][i].doc.message) = outbox[d][i].path
<1>1. i \in DOMAIN outbox[d]
  BY LenProperties DEF IInv, TypeOK
<1>2. outbox[d][i].path \in Keys
  BY <1>1, QueueType DEF IInv, Paths, IsMessage
<1>3. Said(outbox[d][i].doc, outbox[d][i].path)
  BY <1>1, <1>2 DEF IInv, QueuesHoldSent
<1> QED
  BY <1>2, <1>3, SaidMessage

\* Steps that leave history, queues, what was applied and the collection alone
\* are not seen on the board.
LEMMA BoardRests ==
  ASSUME UNCHANGED <<sent, outbox, applied, server>>
  PROVE  UNCHANGED Board!vars
BY DEF Board!vars, Messages, SecondOfDay

\* A chat screen loads: a join document is no post.
LEMMA LoadRests ==
  ASSUME IInv, NEW d \in Devices, ViewDidLoad(d), UNCHANGED <<sent, server>>
  PROVE  UNCHANGED Board!vars
<1> DEFINE w == [path |-> RoomPath, doc |-> JoinDoc]
<1>1. w \in Write /\ ~IsMessage(w)
  BY DEF Write, Paths, JoinDoc, Docs, IsMessage
<1>2. /\ outbox' = [outbox EXCEPT ![d] = Append(outbox[d], w)] /\ UNCHANGED applied
      /\ outbox \in [Devices -> Seq(Write)]
  BY DEF ViewDidLoad, IInv, TypeOK
<1> HIDE DEF w
<1>3. ASSUME NEW e \in Devices
      PROVE  /\ MessagesOf(outbox'[e]) = MessagesOf(outbox[e])
             /\ Carried(outbox'[e], applied[e]) = Carried(outbox[e], applied[e])
  <2>1. CASE e = d
    <3>1. applied[d] \in 0..Len(outbox[d]) /\ outbox[d] \in Seq(Write)
      BY LenProperties DEF IInv, TypeOK
    <3> QED
      BY <1>1, <1>2, <2>1, <3>1, MessagesOfAppend
  <2>2. CASE e # d
    BY <1>2, <2>2
  <2> QED
    BY <2>1, <2>2
<1> QED
  BY <1>2, <1>3 DEF Board!vars, Messages, SecondOfDay

\* SendMessage submits a post for the second of the sender's clock.
LEMMA SendSubmits ==
  ASSUME IInv, NEW d \in Devices, SendMessage(d)
  PROVE  Board!Submit(d, KeyTime(d, now)) /\ KeyTime(d, now) \in Keys
<1> DEFINE n == Len(sent)
           w == [path |-> KeyTime(d, now), doc |-> MessageDoc(d, n + 1)]
           e == [by |-> d, at |-> now]
<1>1. sent \in Seq(Posts) /\ n \in Nat /\ now \in 0..MaxClock /\ e \in Posts
  BY LenProperties DEF IInv, TypeOK, Posts
<1>2. KeyTime(d, now) \in Keys
  BY <1>1, KeyTimeIsKey, ConstantsAssumption
<1>3. w \in Write /\ IsMessage(w) /\ w.doc.message = n + 1
  BY <1>1, <1>2, ConstantsAssumption DEF Write, Paths, MessageDoc, Docs, IsMessage
<1>4. /\ outbox' = [outbox EXCEPT ![d] = Append(outbox[d], w)]
      /\ sent' = Append(sent, e) /\ UNCHANGED <<applied, server>>
      /\ outbox \in [Devices -> Seq(Write)]
  BY DEF SendMessage, IInv, TypeOK, server_vars
<1>5. KeyTime(d, now) = (e.at + ClockOffset[e.by]) % DayLen
  BY DEF KeyTime
<1> HIDE DEF w, e
<1>6. ASSUME NEW a \in Devices
      PROVE  /\ MessagesOf(outbox'[a]) = IF a = d THEN Append(MessagesOf(outbox[a]), n + 1)
                                                  ELSE MessagesOf(outbox[a])
             /\ Carried(outbox'[a], applied[a]) = Carried(outbox[a], applied[a])
  <2>1. CASE a = d
    <3>1. applied[d] \in 0..Len(outbox[d]) /\ outbox[d] \in Seq(Write)
      BY LenProperties DEF IInv, TypeOK
    <3> QED
      BY <1>3, <1>4, <2>1, <3>1, MessagesOfAppend
  <2>2. CASE a # d
    BY <1>4, <2>2
  <2> QED
    BY <2>1, <2>2
<1> DEFINE P == [m \in Messages |-> [by |-> sent[m].by, slot |-> SecondOfDay(m)]]
           p == [by |-> d, slot |-> KeyTime(d, now)]
<1>7. /\ Len(sent') = n + 1 /\ sent'[n + 1] = e
      /\ \A m \in 1..n : sent'[m] = sent[m]
  BY <1>1, <1>4, AppendProperties
<1>8. e.by = d
  BY DEF e
<1>9. [m \in Messages |-> [by |-> sent[m].by, slot |-> SecondOfDay(m)]]' = Append(P, p)
  <2> DEFINE S == [by : {sent[m].by : m \in Messages} \cup {d},
                   slot : {SecondOfDay(m) : m \in Messages} \cup {KeyTime(d, now)}]
             Q == [m \in 1..(n + 1) |->
                     [by |-> sent'[m].by,
                      slot |-> (sent'[m].at + ClockOffset[sent'[m].by]) % DayLen]]
  <2>1. P \in Seq(S) /\ Len(P) = n /\ p \in S
    <3>1. P \in [1..n -> S]
      BY DEF Messages
    <3> QED
      BY <1>1, <3>1, SeqDef, LenProperties
  <2> HIDE DEF P, p, S
  <2>2. /\ Append(P, p) \in Seq(S) /\ Len(Append(P, p)) = n + 1
        /\ Append(P, p)[n + 1] = p /\ \A m \in 1..n : Append(P, p)[m] = P[m]
    BY <1>1, <2>1, AppendProperties
  <2>3. \A m \in 1..n : Q[m] = P[m]
    BY <1>1, <1>7 DEF P, Messages, SecondOfDay
  <2>4. Q[n + 1] = p
    BY <1>1, <1>5, <1>7, <1>8 DEF p
  <2>5. Q = Append(P, p)
    <3>1. Append(P, p) \in [1..(n + 1) -> S]
      BY <2>2, LenProperties, SeqDef
    <3>2. \A m \in 1..(n + 1) : Q[m] = Append(P, p)[m]
      <4>1. \A m \in 1..(n + 1) : m = n + 1 \/ m \in 1..n
        BY <1>1
      <4> QED
        BY <2>2, <2>3, <2>4, <4>1
    <3>3. Q = [m \in 1..(n + 1) |-> Q[m]]
      OBVIOUS
    <3>4. Append(P, p) = [m \in 1..(n + 1) |-> Append(P, p)[m]]
      BY <3>1, ZenonT(60)
    <3> QED
      BY <3>2, <3>3, <3>4
  <2>6. [m \in Messages |-> [by |-> sent[m].by, slot |-> SecondOfDay(m)]]' = Q
    BY <1>7 DEF Messages, SecondOfDay
  <2> QED
    BY <2>5, <2>6
<1>10. Len(P) = n
  BY <1>1, LenProperties DEF Messages
<1>11. [a \in Devices |-> MessagesOf(outbox[a])]' =
         [[a \in Devices |-> MessagesOf(outbox[a])] EXCEPT ![d] = Append(@, Len(P) + 1)]
  BY <1>6, <1>10, ZenonT(60)
<1>12. UNCHANGED [a \in Devices |-> Carried(outbox[a], applied[a])]
  BY <1>4, <1>6
<1> QED
  BY <1>2, <1>4, <1>9, <1>11, <1>12 DEF Board!Submit
\* The server applies a write: a message lands on its slot, a join document
\* does not show on the board.
LEMMA CommitLands ==
  ASSUME IInv, NEW d \in Devices, Commit(d)
  PROVE  Board!Land(d) \/ UNCHANGED Board!vars
<1> DEFINE q == outbox[d]
           k == applied[d]
           w == q[k + 1]
<1>1. /\ q \in Seq(Write) /\ Len(q) \in Nat /\ k \in Nat /\ k + 1 \in 1..Len(q)
      /\ k \in 0..(k + 1) /\ k + 1 \in 0..Len(q) /\ w \in Write
  <2>1. q \in Seq(Write) /\ k \in Nat /\ k < saved[d] /\ saved[d] <= Len(q) /\ saved[d] \in Nat
    BY DEF Commit, IInv, TypeOK
  <2>2. Len(q) \in Nat
    BY <2>1, LenProperties
  <2>3. k + 1 \in 1..Len(q)
    BY <2>1, <2>2
  <2> QED
    BY <2>1, <2>2, <2>3, ElementOfSeq
<1>2. /\ server' = [server EXCEPT ![w.path] = w.doc]
      /\ applied' = [applied EXCEPT ![d] = k + 1]
      /\ UNCHANGED <<sent, outbox>>
      /\ server \in [Paths -> Docs \cup {NoDoc}] /\ applied \in [Devices -> Nat]
      /\ RoomPath \notin Keys /\ NoDoc \notin Docs
  BY ConstantsAssumption DEF Commit, SetData, IInv, TypeOK, Store
<1>3. /\ Carried(q, k) \in Nat
      /\ Carried(q, k + 1) = IF IsMessage(w) THEN Carried(q, k) + 1 ELSE Carried(q, k)
  BY <1>1, CarriedSteps
<1>4. w.path \in Paths /\ w.doc \in Docs
  BY <1>1 DEF Write
<1>5. CASE IsMessage(w)
  <2> DEFINE m == w.doc.message
  <2>1. w.path \in Keys /\ m \in Messages /\ SecondOfDay(m) = w.path
    BY <1>1, <1>5, MessageIsPost
  <2>2. /\ Carried(q, k + 1) \in 1..Carried(q, Len(q))
        /\ Len(MessagesOf(q)) = Carried(q, Len(q)) /\ Carried(q, Len(q)) \in Nat
        /\ MessagesOf(q)[Carried(q, k) + 1] = m
    <3>1. /\ Len(MessagesOf(q)) = Carried(q, Len(q))
          /\ Carried(q, k + 1) \in 1..Carried(q, Len(q))
          /\ MessagesOf(q)[Carried(q, k + 1)] = w.doc.message
      BY <1>1, <1>5, MessagesOfProperties, ZenonT(60)
    <3>2. Carried(q, Len(q)) \in Nat
      BY <1>1, CarriedSteps
    <3>3. Carried(q, k + 1) = Carried(q, k) + 1
      BY <1>3, <1>5
    <3> QED
      BY <3>1, <3>2, <3>3
  <2>3. Carried(q, k) < Len(MessagesOf(q))
    BY <1>3, <1>5, <2>2
  <2>4. [e \in Devices |-> Carried(outbox[e], applied[e])]' =
          [[e \in Devices |-> Carried(outbox[e], applied[e])] EXCEPT ![d] = @ + 1]
    BY <1>2, <1>3, <1>5
  <2>5. w.doc # NoDoc
    BY <1>2, <1>4
  <2> HIDE DEF w, q, k, m
  <2>6. [s \in Keys |-> IF server[s] = NoDoc THEN 0 ELSE server[s].message]' =
          [[s \in Keys |-> IF server[s] = NoDoc THEN 0 ELSE server[s].message]
             EXCEPT ![w.path] = m]
    <3>1. \A s \in Keys : s \in Paths
      BY DEF Paths
    <3>2. \A s \in Keys : server'[s] = IF s = w.path THEN w.doc ELSE server[s]
      BY <1>2, <1>4, <3>1
    <3> QED
      BY <2>1, <2>5, <3>2 DEF m
  <2>7. UNCHANGED <<[n \in Messages |-> [by |-> sent[n].by, slot |-> SecondOfDay(n)]],
                    [e \in Devices |-> MessagesOf(outbox[e])]>>
    BY <1>2 DEF Messages, SecondOfDay
  <2> DEFINE P == [n \in Messages |-> [by |-> sent[n].by, slot |-> SecondOfDay(n)]]
             F == [e \in Devices |-> MessagesOf(outbox[e])]
             R == [e \in Devices |-> Carried(outbox[e], applied[e])]
  <2>8. R[d] = Carried(q, k) /\ F[d] = MessagesOf(q)
    BY DEF q, k
  <2>9. R[d] < Len(F[d]) /\ F[d][R[d] + 1] = m
    BY <2>2, <2>3, <2>8
  <2>10. P[m].slot = w.path
    BY <2>1
  <2> QED
    BY <2>4, <2>6, <2>7, <2>9, <2>10 DEF Board!Land
<1>6. CASE ~IsMessage(w)
  <2>1. \A s \in Keys : server'[s] = server[s]
    BY <1>2, <1>6 DEF IsMessage
  <2>2. \A e \in Devices : Carried(outbox[e], applied'[e]) = Carried(outbox[e], applied[e])
    BY <1>2, <1>3, <1>6
  <2> QED
    BY <1>2, <2>1, <2>2 DEF Board!vars, Messages, SecondOfDay
<1> QED
  BY <1>5, <1>6

\* An acknowledgement settles the oldest post, or removes a join document.
LEMMA AcknowledgeSettles ==
  ASSUME IInv, NEW d \in Devices, Acknowledge(d)
  PROVE  Board!Settle(d) \/ UNCHANGED Board!vars
<1> DEFINE q == outbox[d]
           k == applied[d]
<1>1. q \in Seq(Write) /\ q # <<>> /\ k \in Nat \ {0} /\ k <= Len(q) /\ Len(q) \in Nat
  <2>1. /\ q \in Seq(Write) /\ k \in Nat /\ k > 0 /\ k <= saved[d] /\ saved[d] <= Len(q)
        /\ saved[d] \in Nat
    BY DEF Acknowledge, IInv, TypeOK
  <2>2. Len(q) \in Nat /\ Len(q) # 0
    BY <2>1, LenProperties
  <2>3. q # <<>>
    BY <2>2, EmptySeq
  <2> QED
    BY <2>1, <2>2, <2>3
<1>2. /\ outbox' = [outbox EXCEPT ![d] = Tail(q)] /\ applied' = [applied EXCEPT ![d] = k - 1]
      /\ UNCHANGED <<sent, server>>
      /\ outbox \in [Devices -> Seq(Write)] /\ applied \in [Devices -> Nat]
  BY DEF Acknowledge, server_vars, IInv, TypeOK
<1> HIDE DEF q
<1>3. /\ Carried(Tail(q), k - 1) = IF IsMessage(q[1]) THEN Carried(q, k) - 1 ELSE Carried(q, k)
      /\ MessagesOf(Tail(q)) = IF IsMessage(q[1]) THEN Tail(MessagesOf(q)) ELSE MessagesOf(q)
  <2>1. k - 1 \in 0..(Len(q) - 1) /\ (k - 1) + 1 = k
    BY <1>1
  <2>2. Carried(Tail(q), k - 1) = IF IsMessage(q[1]) THEN Carried(q, (k - 1) + 1) - 1
                                                     ELSE Carried(q, (k - 1) + 1)
    BY <1>1, <2>1, MessagesOfTail
  <2> QED
    BY <1>1, <2>1, <2>2, MessagesOfTail
<1>4. ASSUME NEW e \in Devices
      PROVE  /\ MessagesOf(outbox'[e]) = IF e = d THEN MessagesOf(Tail(q)) ELSE MessagesOf(outbox[e])
             /\ Carried(outbox'[e], applied'[e]) =
                  IF e = d THEN Carried(Tail(q), k - 1) ELSE Carried(outbox[e], applied[e])
  BY <1>2
<1>5. CASE IsMessage(q[1])
  <2>1. Carried(q, k) > 0
    <3>1. 1 \in 0..k /\ 0 \in 0..1 /\ 0 < 1 /\ k \in Nat /\ 1 \in Nat /\ 0 \in Nat
      BY <1>1
    <3>2. Carried(q, 0) < Carried(q, 1) /\ Carried(q, 1) <= Carried(q, k)
      BY <1>5, <3>1, CarriedGrows
    <3>3. Carried(q, 0) = 0 /\ Carried(q, 1) \in Nat /\ Carried(q, k) \in Nat
      BY <3>1, CarriedSteps
    <3> QED
      BY <3>2, <3>3
  <2> DEFINE F == [e \in Devices |-> MessagesOf(outbox[e])]
             R == [e \in Devices |-> Carried(outbox[e], applied[e])]
  <2>2. R[d] > 0
    BY <2>1 DEF q
  <2>3. [e \in Devices |-> MessagesOf(outbox[e])]' = [F EXCEPT ![d] = Tail(@)]
    BY <1>3, <1>4, <1>5 DEF q
  <2>4. [e \in Devices |-> Carried(outbox[e], applied[e])]' = [R EXCEPT ![d] = @ - 1]
    BY <1>3, <1>4, <1>5 DEF q
  <2>5. UNCHANGED <<[n \in Messages |-> [by |-> sent[n].by, slot |-> SecondOfDay(n)]],
                    [s \in Keys |-> IF server[s] = NoDoc THEN 0 ELSE server[s].message]>>
    BY <1>2 DEF Messages, SecondOfDay
  <2> QED
    BY <2>2, <2>3, <2>4, <2>5 DEF Board!Settle
<1>6. CASE ~IsMessage(q[1])
  <2>1. \A e \in Devices : /\ MessagesOf(outbox'[e]) = MessagesOf(outbox[e])
                           /\ Carried(outbox'[e], applied'[e]) = Carried(outbox[e], applied[e])
    BY <1>3, <1>4, <1>6 DEF q
  <2> QED
    BY <1>2, <2>1 DEF Board!vars, Messages, SecondOfDay
<1> QED
  BY <1>5, <1>6

\* The process ends: posts that are not on its disk are withdrawn.
LEMMA EndWithdraws ==
  ASSUME IInv, NEW d \in Devices, EndProcess(d), UNCHANGED <<sent, server>>
  PROVE  Board!Withdraw(d)
<1> DEFINE q == outbox[d]
           n == Carried(q, saved[d])
           F == [e \in Devices |-> MessagesOf(outbox[e])]
           R == [e \in Devices |-> Carried(outbox[e], applied[e])]
<1>1. /\ q \in Seq(Write) /\ saved[d] \in 0..Len(q) /\ saved[d] \in Nat
      /\ applied[d] \in 0..saved[d] /\ applied[d] \in Nat
  BY LenProperties DEF IInv, TypeOK
<1>2. /\ outbox' = [outbox EXCEPT ![d] = SubSeq(q, 1, saved[d])] /\ UNCHANGED applied
      /\ outbox \in [Devices -> Seq(Write)]
  BY DEF EndProcess, Stored, IInv, TypeOK
<1>3. /\ n \in 0..Len(MessagesOf(q))
      /\ Carried(SubSeq(q, 1, saved[d]), applied[d]) = Carried(q, applied[d])
      /\ MessagesOf(SubSeq(q, 1, saved[d])) = SubSeq(MessagesOf(q), 1, n)
  BY <1>1, MessagesOfPrefix
<1>4. Carried(q, applied[d]) <= n /\ Carried(q, applied[d]) \in Nat /\ n \in Nat
  BY <1>1, CarriedGrows, CarriedSteps
<1>5. Len(MessagesOf(q)) \in Nat
  BY <1>1, MessagesOfProperties, LenProperties
<1>6. R[d] = Carried(q, applied[d]) /\ F[d] = MessagesOf(q)
  OBVIOUS
<1>7. n \in R[d]..Len(F[d])
  <2> HIDE DEF n, R, F, q
  <2> QED
    BY <1>3, <1>4, <1>5, <1>6
<1>8. [e \in Devices |-> MessagesOf(outbox[e])]' = [F EXCEPT ![d] = SubSeq(@, 1, n)]
  BY <1>2, <1>3
<1>9. UNCHANGED <<[e \in Devices |-> Carried(outbox[e], applied[e])],
                  [m \in Messages |-> [by |-> sent[m].by, slot |-> SecondOfDay(m)]],
                  [s \in Keys |-> IF server[s] = NoDoc THEN 0 ELSE server[s].message]>>
  BY <1>2, <1>3 DEF Messages, SecondOfDay
<1> QED
  BY <1>7, <1>8, <1>9 DEF Board!Withdraw

\* The connection starts anew, and so does the sending of what has not settled.
LEMMA ReconnectReconnects ==
  ASSUME IInv, NEW d \in Devices, Reconnect(d)
  PROVE  Board!Reconnect(d)
<1>1. /\ applied' = [applied EXCEPT ![d] = 0] /\ UNCHANGED <<sent, outbox, server>>
      /\ applied \in [Devices -> Nat]
  BY DEF Reconnect, server_vars, IInv, TypeOK
<1>2. Carried(outbox[d], 0) = 0
  <2>1. 0 \in Nat
    OBVIOUS
  <2> QED
    BY <2>1, CarriedSteps
<1>3. [e \in Devices |-> Carried(outbox[e], applied[e])]' =
        [[e \in Devices |-> Carried(outbox[e], applied[e])] EXCEPT ![d] = 0]
  BY <1>1, <1>2
<1>4. UNCHANGED <<[e \in Devices |-> MessagesOf(outbox[e])],
                  [m \in Messages |-> [by |-> sent[m].by, slot |-> SecondOfDay(m)]],
                  [s \in Keys |-> IF server[s] = NoDoc THEN 0 ELSE server[s].message]>>
  BY <1>1 DEF Messages, SecondOfDay
<1> QED
  BY <1>3, <1>4 DEF Board!Reconnect

\* A snapshot is not seen on the board, unless a row that cannot be drawn ends
\* the process.
LEMMA SnapshotOnBoard ==
  ASSUME IInv, NEW d \in Devices, NEW store, GetMessage(d, store)
  PROVE  Board!Withdraw(d) \/ UNCHANGED Board!vars
<1>1. UNCHANGED <<sent, server>>
  BY DEF GetMessage, server_vars
<1>2. EndProcess(d) \/ UNCHANGED <<outbox, applied>>
  BY DEF GetMessage, device_vars, queue_vars
<1> QED
  BY <1>1, <1>2, EndWithdraws, BoardRests

\* Every step of the room is one of the board or a stutter.
LEMMA BoardStep ==
  ASSUME IInv, [Next]_vars
  PROVE  [Board!Next]_(Board!vars)
<1> USE DEF server_vars, queue_vars, device_vars
<1>1. ASSUME NEW d \in Devices, Board!Withdraw(d) PROVE Board!Next
  BY <1>1 DEF Board!Next
<1>2. ASSUME NEW d \in Devices, User(d) PROVE [Board!Next]_(Board!vars)
  <2>1. CASE SendMessage(d)
    <3>1. Board!Submit(d, KeyTime(d, now)) /\ KeyTime(d, now) \in Keys
      BY <2>1, SendSubmits
    <3>2. \E k \in Keys : Board!Submit(d, k)
      BY <3>1 DEF Board!Submit
    <3> QED
      BY <3>2 DEF Board!Next, Board!Submit
  <2>2. CASE OpenMatching(d) \/ JoinRoom(d)
    BY <2>2, LoadRests DEF OpenMatching, JoinRoom
  <2>3. CASE OpenJoinScreen(d) \/ ShowMatchingJoiner(d)
    BY <1>1, <2>3, EndWithdraws DEF OpenJoinScreen, ShowMatchingJoiner
  <2>4. CASE RejoinRoom(d) \/ PopViewController(d) \/ LeaveJoinScreen(d) \/ GameStart(d)
    BY <2>4, BoardRests DEF RejoinRoom, PopViewController, LeaveJoinScreen, GameStart
  <2> QED
    BY <1>2, <2>1, <2>2, <2>3, <2>4 DEF User
<1>3. ASSUME NEW d \in Devices, System(d) PROVE [Board!Next]_(Board!vars)
  <2>1. CASE Commit(d)
    BY <2>1, CommitLands DEF Board!Next
  <2>2. CASE Acknowledge(d)
    BY <2>2, AcknowledgeSettles DEF Board!Next
  <2>3. CASE Reconnect(d)
    BY <2>3, ReconnectReconnects DEF Board!Next
  <2>4. CASE LocalSnapshot(d) \/ ServerSnapshot(d)
    BY <1>1, <2>4, SnapshotOnBoard DEF LocalSnapshot, ServerSnapshot
  <2>5. CASE Terminate(d)
    BY <1>1, <2>5, EndWithdraws DEF Terminate
  <2>6. CASE ReceiveList(d) \/ ViewDidDisappear(d) \/ WriteMutations(d) \/ ListenError(d)
    BY <2>6, BoardRests DEF ReceiveList, ViewDidDisappear, WriteMutations, ListenError
  <2> QED
    BY <1>3, <2>1, <2>2, <2>3, <2>4, <2>5, <2>6 DEF System
<1>4. CASE Tick
  BY <1>4, BoardRests DEF Tick
<1>5. CASE UNCHANGED vars
  BY <1>5, BoardRests DEF vars
<1> QED
  BY <1>2, <1>3, <1>4, <1>5 DEF Next

\* The room implements ChatBoard: a device's messages land in the order they
\* were sent, each on the slot of its second, again after a broken connection
\* but never once settled, and only the landing of another removes one
\* (sendMessage:143-163, keyTime:38-40, setDBdata:154-163).
THEOREM ImplementsChatBoard == Spec => BoardSpec
<1>1. Init => Board!Init
  <2> SUFFICES ASSUME Init PROVE Board!Init
    OBVIOUS
  <2>1. sent = <<>> /\ Messages = 1..0
    BY DEF Init, Messages
  <2>2. [m \in Messages |-> [by |-> sent[m].by, slot |-> SecondOfDay(m)]] = <<>>
    BY <2>1
  <2>3. MessagesOf(<<>>) = <<>> /\ Carried(<<>>, 0) = 0
    <3>1. <<>> \in Seq(Write) /\ Len(<<>>) = 0 /\ 0 \in Nat
      BY EmptySeq
    <3>2. Carried(<<>>, 0) = 0
      BY <3>1, CarriedSteps
    <3>3. MessagesOf(<<>>) \in Seq(Nat) /\ Len(MessagesOf(<<>>)) = 0
      BY <3>1, <3>2, MessagesOfProperties
    <3> QED
      BY <3>2, <3>3, EmptySeq
  <2>4. /\ \A d \in Devices : outbox[d] = <<>> /\ applied[d] = 0
        /\ \A k \in Keys : server[k] = NoDoc
    BY DEF Init, Paths
  <2> QED
    BY <2>2, <2>3, <2>4 DEF Board!Init
<1>2. IInv /\ [Next]_vars => [Board!Next]_(Board!vars)
  BY BoardStep
<1> QED
  BY <1>1, <1>2, Inductive, PTL DEF Spec, BoardSpec, Board!Spec
-----------------------------------------------------------------------------
(* Rows that stay                                                          *)

\* What a table shows is committed, or waits on the device's own disk.
ShownHeld ==
  \A d \in Devices, k \in Keys :
    snapShots[d][k] # NoDoc =>
      \/ server[k] # NoDoc
      \/ \E i \in 1..saved[d] : outbox[d][i].path = k

\* A path that a queue writes to has a last write.
LEMMA LastWriteExists ==
  ASSUME NEW q \in Seq(Write), NEW p, NEW i \in DOMAIN q, q[i].path = p
  PROVE  \E j \in DOMAIN q : LastWriteOf(q, p, j)
<1>1. Len(q) \in Nat /\ DOMAIN q = 1..Len(q)
  BY LenProperties
<1> DEFINE T == {n \in 0..Len(q) : Len(q) - n \in DOMAIN q /\ q[Len(q) - n].path = p}
<1>2. T \subseteq Nat /\ Len(q) - i \in T
  <2>1. Len(q) - (Len(q) - i) = i /\ Len(q) - i \in 0..Len(q)
    BY <1>1
  <2> QED
    BY <2>1
<1>3. PICK n \in T : \A m \in T : n <= m
  BY <1>2, LeastNumber
<1>4. Len(q) - n \in DOMAIN q /\ q[Len(q) - n].path = p /\ n \in Nat
  BY <1>3
<1>5. ASSUME NEW j \in DOMAIN q, q[j].path = p PROVE j <= Len(q) - n
  <2>1. Len(q) - (Len(q) - j) = j /\ Len(q) - j \in 0..Len(q) /\ j \in Nat
    BY <1>1
  <2>2. Len(q) - j \in T
    BY <1>5, <2>1
  <2>3. n <= Len(q) - j
    BY <1>3, <2>2
  <2> QED
    BY <1>1, <1>4, <2>1, <2>3
<1> QED
  BY <1>4, <1>5 DEF LastWriteOf

\* A snapshot shows a row wherever there is a document or a stored write.
LEMMA OverlayShows ==
  ASSUME IInv, NEW d \in Devices, NEW store, NEW k \in Keys,
         store[k] # NoDoc \/ \E i \in 1..saved[d] : outbox[d][i].path = k
  PROVE  Overlay(store, Stored(d))[k] # NoDoc
<1> DEFINE q == Stored(d)
<1>1. /\ q \in Seq(Write) /\ DOMAIN q = 1..saved[d]
      /\ \A i \in 1..saved[d] : q[i] = outbox[d][i]
  BY StoredIsPrefix DEF IInv
<1> HIDE DEF q
<1>2. \A i \in DOMAIN q : q[i].doc # NoDoc
  <2>1. \A i \in DOMAIN q : q[i] \in Write
    BY <1>1, LenProperties, ElementOfSeq
  <2> QED
    BY <2>1, ConstantsAssumption DEF Write
<1>3. CASE \E i \in DOMAIN q : LastWriteOf(q, k, i)
  <2> DEFINE i == CHOOSE j \in DOMAIN q : LastWriteOf(q, k, j)
  <2>1. i \in DOMAIN q
    BY <1>3
  <2> QED
    BY <1>2, <1>3, <2>1 DEF Overlay, Overlaid, q
<1>4. CASE ~ \E i \in DOMAIN q : LastWriteOf(q, k, i)
  <2>1. ~ \E i \in 1..saved[d] : outbox[d][i].path = k
    BY <1>1, <1>4, LastWriteExists
  <2> QED
    BY <1>4, <2>1 DEF Overlay, Overlaid, q
<1> QED
  BY <1>3, <1>4

\* And nowhere else.
LEMMA OverlayHolds ==
  ASSUME IInv, NEW d \in Devices, NEW store, NEW k \in Keys,
         Overlay(store, Stored(d))[k] # NoDoc
  PROVE  store[k] # NoDoc \/ \E i \in 1..saved[d] : outbox[d][i].path = k
<1>1. /\ Stored(d) \in Seq(Write) /\ DOMAIN Stored(d) = 1..saved[d]
      /\ \A i \in 1..saved[d] : Stored(d)[i] = outbox[d][i]
  BY StoredIsPrefix DEF IInv
<1> DEFINE q == Stored(d)
<1> HIDE DEF q
<1>2. \/ Overlay(store, q)[k] = store[k]
      \/ \E i \in DOMAIN q : q[i].path = k /\ Overlay(store, q)[k] = q[i].doc
  <2>1. q \in Seq(Write)
    BY <1>1 DEF q
  <2>2. \/ Overlay(store, q)[k] = store[k]
        \/ \E i \in DOMAIN q : /\ q[i].path = k
                               /\ Overlay(store, q)[k] = q[i].doc
    BY <2>1, OverlaidIsStoredOrQueued
  <2> QED
    BY <2>2
<1>3. CASE \E i \in DOMAIN q : q[i].path = k
  BY <1>1, <1>3 DEF q
<1>4. CASE Overlay(store, q)[k] = store[k]
  BY <1>4 DEF q
<1> QED
  BY <1>2, <1>3, <1>4

\* Where no table has a new row, it is enough that a document stays committed
\* and that a write leaves the disk only for the collection.
LEMMA HeldStays ==
  ASSUME ShownHeld,
         \A d \in Devices, k \in Keys : snapShots'[d][k] \in {NoDoc, snapShots[d][k]},
         \A k \in Keys : server[k] # NoDoc => server'[k] # NoDoc,
         \A d \in Devices, k \in Keys :
           (\E i \in 1..saved[d] : outbox[d][i].path = k) =>
             \/ server'[k] # NoDoc
             \/ \E i \in 1..saved'[d] : outbox'[d][i].path = k
             \/ snapShots'[d][k] = NoDoc
  PROVE  ShownHeld'
BY DEF ShownHeld

\* The process of a device ends, and its table with it.
LEMMA HeldAtEnd ==
  ASSUME IInv, ShownHeld, NEW d \in Devices, EndProcess(d), UNCHANGED server
  PROVE  ShownHeld' /\ screen'[d] = "none" /\ \A e \in Devices \ {d} : snapShots'[e] = snapShots[e]
<1>1. /\ snapShots' = [snapShots EXCEPT ![d] = NoChat]
      /\ screen' = [screen EXCEPT ![d] = "none"]
      /\ outbox' = [outbox EXCEPT ![d] = Stored(d)] /\ UNCHANGED <<saved, server>>
  BY DEF EndProcess, DropController
<1>2. /\ snapShots \in [Devices -> [Keys -> Docs \cup {NoDoc}]]
      /\ screen \in [Devices -> {"none", "shown", "leaving", "left"}]
      /\ outbox \in [Devices -> Seq(Write)]
  BY DEF IInv, TypeOK
<1>3. \A k \in Keys : NoChat[k] = NoDoc
  BY DEF NoChat
<1>4. \A e \in Devices \ {d} : snapShots'[e] = snapShots[e] /\ outbox'[e] = outbox[e]
  BY <1>1, <1>2
<1>5. snapShots'[d] = NoChat /\ screen'[d] = "none"
  BY <1>1, <1>2
<1>6. ShownHeld'
  BY <1>1, <1>3, <1>4, <1>5 DEF ShownHeld
<1> QED
  BY <1>4, <1>5, <1>6

\* A snapshot of documents none of which is neither committed nor stored.
LEMMA HeldAtSnapshot ==
  ASSUME IInv, ShownHeld, NEW d \in Devices, NEW store, GetMessage(d, store),
         \A k \in Keys : store[k] # NoDoc =>
           server[k] # NoDoc \/ \E i \in 1..saved[d] : outbox[d][i].path = k
  PROVE  ShownHeld'
<1>1. UNCHANGED server
  BY DEF GetMessage, server_vars
<1>2. CASE EndProcess(d)
  BY <1>1, <1>2, HeldAtEnd
<1>3. CASE ~EndProcess(d)
  <2>1. /\ snapShots' = [snapShots EXCEPT ![d] = Overlay(store, Stored(d))]
        /\ UNCHANGED <<saved, outbox>>
        /\ snapShots \in [Devices -> [Keys -> Docs \cup {NoDoc}]]
    BY <1>3 DEF GetMessage, device_vars, queue_vars, IInv, TypeOK
  <2>2. \A k \in Keys : Overlay(store, Stored(d))[k] # NoDoc =>
          server[k] # NoDoc \/ \E i \in 1..saved[d] : outbox[d][i].path = k
    BY OverlayHolds
  <2> HIDE DEF Stored
  <2> QED
    BY <1>1, <2>1, <2>2 DEF ShownHeld
<1> QED
  BY <1>2, <1>3

\* Every step keeps the tables within what is held.
LEMMA HeldStep == IInv /\ ShownHeld /\ [Next]_vars => ShownHeld'
<1> SUFFICES ASSUME IInv, ShownHeld, [Next]_vars PROVE ShownHeld'
  OBVIOUS
<1> USE DEF server_vars, queue_vars, device_vars, screen_vars
<1>1. ASSUME UNCHANGED <<server, outbox, saved, snapShots>> PROVE ShownHeld'
  BY <1>1 DEF ShownHeld
<1>2. ASSUME NEW d \in Devices, DropController(d), UNCHANGED <<server, outbox, saved>>
      PROVE  ShownHeld'
  BY <1>2 DEF ShownHeld, DropController, NoChat, IInv, TypeOK
<1>3. ASSUME NEW d \in Devices, NEW w, outbox' = [outbox EXCEPT ![d] = Append(@, w)],
             UNCHANGED <<server, saved, snapShots>>
      PROVE  ShownHeld'
  <2>1. /\ outbox[d] \in Seq(Write) /\ saved[d] \in Nat /\ saved[d] <= Len(outbox[d])
        /\ outbox \in [Devices -> Seq(Write)]
    BY DEF IInv, TypeOK
  <2>2. \A i \in 1..saved[d] : Append(outbox[d], w)[i] = outbox[d][i]
    <3>1. Len(outbox[d]) \in Nat /\ outbox[d] \in Seq(Write \cup {w}) /\ w \in Write \cup {w}
      <4>1. \A i \in 1..Len(outbox[d]) : outbox[d][i] \in Write
        BY <2>1, ElementOfSeq
      <4> QED
        BY <2>1, <4>1, LenProperties, SeqDef
    <3> QED
      BY <2>1, <3>1, AppendProperties
  <2> QED
    BY <1>3, <2>1, <2>2 DEF ShownHeld
<1>4. ASSUME NEW d \in Devices, ViewDidLoad(d), UNCHANGED server PROVE ShownHeld'
  BY <1>3, <1>4 DEF ViewDidLoad
<1>5. ASSUME NEW d \in Devices, User(d) PROVE ShownHeld'
  <2>1. CASE OpenMatching(d) \/ JoinRoom(d)
    BY <1>4, <2>1 DEF OpenMatching, JoinRoom
  <2>2. CASE OpenJoinScreen(d) \/ ShowMatchingJoiner(d)
    BY <2>2, HeldAtEnd DEF OpenJoinScreen, ShowMatchingJoiner
  <2>3. CASE RejoinRoom(d) \/ PopViewController(d) \/ GameStart(d)
    BY <1>1, <2>3 DEF RejoinRoom, PopViewController, GameStart
  <2>4. CASE LeaveJoinScreen(d)
    BY <1>2, <2>4 DEF LeaveJoinScreen
  <2>5. CASE SendMessage(d)
    BY <1>3, <2>5 DEF SendMessage
  <2> QED
    BY <1>5, <2>1, <2>2, <2>3, <2>4, <2>5 DEF User
<1>6. ASSUME NEW d \in Devices, System(d) PROVE ShownHeld'
  <2>1. CASE ReceiveList(d) \/ ListenError(d) \/ Reconnect(d)
    BY <1>1, <2>1 DEF ReceiveList, ListenError, Reconnect
  <2>2. CASE ViewDidDisappear(d)
    BY <1>1, <1>2, <2>2 DEF ViewDidDisappear
  <2>3. CASE WriteMutations(d)
    <3>1. /\ saved' = [saved EXCEPT ![d] = @ + 1] /\ saved \in [Devices -> Nat]
          /\ UNCHANGED <<server, outbox, snapShots>>
      BY <2>3 DEF WriteMutations, IInv, TypeOK
    <3>2. \A e \in Devices : \A i \in 1..saved[e] : i \in 1..saved'[e]
      BY <3>1
    <3> QED
      BY <3>1, <3>2 DEF ShownHeld
  <2>4. CASE Commit(d)
    <3> DEFINE w == outbox[d][applied[d] + 1]
    <3>1. w \in Write
      <4>1. applied[d] + 1 \in 1..Len(outbox[d])
        BY <2>4, LenProperties DEF Commit, IInv, TypeOK
      <4> QED
        BY <4>1, ElementOfSeq DEF IInv, TypeOK
    <3>2. w.doc # NoDoc
      BY <3>1, ConstantsAssumption DEF Write
    <3>3. /\ server' = [server EXCEPT ![w.path] = w.doc]
          /\ UNCHANGED <<outbox, saved, snapShots>>
          /\ server \in [Paths -> Docs \cup {NoDoc}]
      BY <2>4 DEF Commit, SetData, IInv, TypeOK, Store
    <3> HIDE DEF w
    <3>4. \A k \in Keys : server[k] # NoDoc => server'[k] # NoDoc
      BY <3>2, <3>3 DEF Paths
    <3> QED
      BY <3>3, <3>4 DEF ShownHeld
  <2>5. CASE Acknowledge(d)
    <3>1. /\ outbox' = [outbox EXCEPT ![d] = Tail(outbox[d])]
          /\ saved' = [saved EXCEPT ![d] = saved[d] - 1]
          /\ UNCHANGED <<server, snapShots>> /\ applied[d] > 0
      BY <2>5 DEF Acknowledge
    <3>2. /\ outbox[d] \in Seq(Write) /\ saved[d] \in Nat /\ applied[d] \in Nat
          /\ saved[d] <= Len(outbox[d]) /\ applied[d] <= saved[d]
          /\ outbox \in [Devices -> Seq(Write)] /\ saved \in [Devices -> Nat]
      BY DEF IInv, TypeOK
    <3>3. server[outbox[d][1].path] # NoDoc
      BY <3>1, <3>2 DEF IInv, LandedStays
    <3>4. /\ Len(outbox[d]) \in Nat
          /\ \A i \in 1..(Len(outbox[d]) - 1) : Tail(outbox[d])[i] = outbox[d][i + 1]
      <4>1. Len(outbox[d]) \in Nat /\ outbox[d] # <<>>
        BY <3>1, <3>2, LenProperties, EmptySeq
      <4>2. /\ Len(Tail(outbox[d])) = Len(outbox[d]) - 1
            /\ \A i \in 1..Len(Tail(outbox[d])) : Tail(outbox[d])[i] = outbox[d][i + 1]
        BY <3>2, <4>1, HeadTailProperties
      <4> QED
        BY <4>1, <4>2
    <3>5. ASSUME NEW k \in Keys, NEW i \in 1..saved[d], outbox[d][i].path = k
          PROVE  server[k] # NoDoc \/ \E j \in 1..saved'[d] : outbox'[d][j].path = k
      <4>1. CASE i = 1
        BY <3>3, <3>5, <4>1
      <4>2. CASE i # 1
        <5>1. /\ i - 1 \in 1..(saved[d] - 1) /\ i - 1 \in 1..(Len(outbox[d]) - 1)
              /\ (i - 1) + 1 = i
          BY <3>2, <3>4, <4>2
        <5>2. Tail(outbox[d])[i - 1] = outbox[d][i]
          BY <3>4, <5>1
        <5>3. saved'[d] = saved[d] - 1 /\ outbox'[d] = Tail(outbox[d])
          BY <3>1, <3>2
        <5> QED
          BY <3>5, <5>1, <5>2, <5>3
      <4> QED
        BY <4>1, <4>2
    <3>6. \A e \in Devices \ {d} : saved'[e] = saved[e] /\ outbox'[e] = outbox[e]
      BY <3>1, <3>2
    <3>7. ASSUME NEW e \in Devices, NEW k \in Keys,
                 \E i \in 1..saved[e] : outbox[e][i].path = k
          PROVE  server'[k] # NoDoc \/ \E i \in 1..saved'[e] : outbox'[e][i].path = k
      <4>1. CASE e = d
        <5>1. PICK i \in 1..saved[d] : outbox[d][i].path = k
          BY <3>7, <4>1
        <5>2. server[k] # NoDoc \/ \E j \in 1..saved'[d] : outbox'[d][j].path = k
          BY <3>5, <5>1
        <5> QED
          BY <3>1, <4>1, <5>2
      <4>2. CASE e # d
        BY <3>6, <3>7, <4>2
      <4> QED
        BY <4>1, <4>2
    <3> QED
      BY <3>1, <3>7, HeldStays, ZenonT(60)
  <2>6. CASE LocalSnapshot(d)
    <3>1. \A k \in Keys : snapShots[d][k] # NoDoc =>
            server[k] # NoDoc \/ \E i \in 1..saved[d] : outbox[d][i].path = k
      BY DEF ShownHeld
    <3> QED
      BY <2>6, <3>1, HeldAtSnapshot DEF LocalSnapshot
  <2>7. CASE ServerSnapshot(d)
    BY <2>7, HeldAtSnapshot DEF ServerSnapshot
  <2>8. CASE Terminate(d)
    BY <2>8, HeldAtEnd DEF Terminate
  <2> QED
    BY <1>6, <2>1, <2>2, <2>3, <2>4, <2>5, <2>6, <2>7, <2>8 DEF System
<1>7. CASE Tick
  BY <1>1, <1>7 DEF Tick
<1>8. CASE UNCHANGED vars
  BY <1>1, <1>8 DEF vars
<1> QED
  BY <1>5, <1>6, <1>7, <1>8 DEF Next

\* A table with a row keeps it while its screen is there, and a table without
\* a live listener does not move.
StaysOn(d) ==
  screen'[d] # "none" /\ screen[d] # "none" =>
    /\ \A k \in Keys : snapShots[d][k] # NoDoc => snapShots'[d][k] # NoDoc
    /\ listener[d] # "live" => snapShots'[d] = snapShots[d]

\* A snapshot leaves every row of its own table, and all of the others.
LEMMA SnapshotStays ==
  ASSUME IInv, ShownHeld, NEW d \in Devices, NEW store, GetMessage(d, store),
         \A k \in Keys : snapShots[d][k] # NoDoc =>
           store[k] # NoDoc \/ \E i \in 1..saved[d] : outbox[d][i].path = k
  PROVE  \A e \in Devices : StaysOn(e)
<1>1. UNCHANGED server /\ listener[d] = "live"
  BY DEF GetMessage, server_vars
<1>2. CASE EndProcess(d)
  <2>1. screen'[d] = "none" /\ \A e \in Devices \ {d} : snapShots'[e] = snapShots[e]
    BY <1>1, <1>2, HeldAtEnd
  <2> QED
    BY <2>1 DEF StaysOn
<1>3. CASE ~EndProcess(d)
  <2>1. /\ snapShots' = [snapShots EXCEPT ![d] = Overlay(store, Stored(d))]
        /\ snapShots \in [Devices -> [Keys -> Docs \cup {NoDoc}]]
    BY <1>3 DEF GetMessage, IInv, TypeOK
  <2>2. \A k \in Keys : snapShots[d][k] # NoDoc => Overlay(store, Stored(d))[k] # NoDoc
    BY OverlayShows
  <2> HIDE DEF Stored
  <2> QED
    BY <1>1, <2>1, <2>2 DEF StaysOn
<1> QED
  BY <1>2, <1>3

\* A row on a screen stays as long as the screen does, and nothing moves on a
\* screen whose listener is gone (getMessage:89-104).
THEOREM RowsNeverVanish == Spec => RowsStay
<1>1. ASSUME IInv, ShownHeld, [Next]_vars PROVE \A d \in Devices : StaysOn(d)
  <2> USE DEF server_vars, queue_vars, device_vars, screen_vars
  <2>1. ASSUME UNCHANGED snapShots PROVE \A d \in Devices : StaysOn(d)
    BY <2>1 DEF StaysOn
  <2>2. ASSUME NEW d \in Devices, DropController(d) PROVE \A e \in Devices : StaysOn(e)
    BY <1>1, <2>2 DEF StaysOn, DropController, IInv, TypeOK
  <2>3. ASSUME NEW d \in Devices, User(d) PROVE \A e \in Devices : StaysOn(e)
    <3>1. CASE OpenMatching(d) \/ JoinRoom(d)
      BY <2>1, <3>1 DEF OpenMatching, JoinRoom, ViewDidLoad
    <3>2. CASE OpenJoinScreen(d) \/ ShowMatchingJoiner(d) \/ LeaveJoinScreen(d)
      BY <2>2, <3>2 DEF OpenJoinScreen, ShowMatchingJoiner, LeaveJoinScreen, EndProcess
    <3>3. CASE RejoinRoom(d) \/ PopViewController(d) \/ GameStart(d) \/ SendMessage(d)
      BY <2>1, <3>3 DEF RejoinRoom, PopViewController, GameStart, SendMessage
    <3> QED
      BY <2>3, <3>1, <3>2, <3>3 DEF User
  <2>4. ASSUME NEW d \in Devices, System(d) PROVE \A e \in Devices : StaysOn(e)
    <3>1. CASE ReceiveList(d) \/ ListenError(d) \/ Reconnect(d) \/ WriteMutations(d)
               \/ Commit(d) \/ Acknowledge(d)
      BY <2>1, <3>1 DEF ReceiveList, ListenError, Reconnect, WriteMutations, Commit,
                        Acknowledge
    <3>2. CASE ViewDidDisappear(d)
      BY <2>1, <2>2, <3>2 DEF ViewDidDisappear
    <3>3. CASE LocalSnapshot(d)
      BY <1>1, <3>3, SnapshotStays DEF LocalSnapshot
    <3>4. CASE ServerSnapshot(d)
      <4>1. \A k \in Keys : snapShots[d][k] # NoDoc =>
              server[k] # NoDoc \/ \E i \in 1..saved[d] : outbox[d][i].path = k
        BY <1>1 DEF ShownHeld
      <4> QED
        BY <1>1, <3>4, <4>1, SnapshotStays DEF ServerSnapshot
    <3>5. CASE Terminate(d)
      BY <2>2, <3>5 DEF Terminate, EndProcess
    <3> QED
      BY <2>4, <3>1, <3>2, <3>3, <3>4, <3>5 DEF System
  <2>5. CASE Tick
    BY <2>1, <2>5 DEF Tick
  <2>6. CASE UNCHANGED vars
    BY <2>1, <2>6 DEF vars
  <2> QED
    BY <1>1, <2>3, <2>4, <2>5, <2>6 DEF Next
<1>2. Init => ShownHeld
  BY DEF Init, NoChat, ShownHeld
<1>3. IInv /\ ShownHeld /\ [Next]_vars =>
        \A d \in Devices :
          screen'[d] # "none" /\ screen[d] # "none" =>
            /\ \A k \in Keys : snapShots[d][k] # NoDoc => snapShots'[d][k] # NoDoc
            /\ listener[d] # "live" => snapShots'[d] = snapShots[d]
  BY <1>1 DEF StaysOn
<1> QED
  BY <1>2, <1>3, HeldStep, Inductive, PTL DEF Spec, RowsStay
=============================================================================
