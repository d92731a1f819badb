------------------------ MODULE FirestoreViewProofs -------------------------
(***************************************************************************)
(* Theorems about what FirestoreWatch shows, for every collection, every   *)
(* number of writes and listeners and any number of broken streams.        *)
(*                                                                         *)
(* What the server has vouched for is the server's, and what is on show    *)
(* never gives way to anything older.  What is told of the stream and the  *)
(* disk is FirestoreWatchProofs'.                                          *)
(***************************************************************************)
EXTENDS FirestoreWatchProofs

-----------------------------------------------------------------------------
(* The view: each document on show is the one the disk and the stored      *)
(* writes make, but for a write that is acknowledged and not yet seen in a *)
(* snapshot, which stays on show as the device's own.                      *)

\* LocalDoc for any log.
DocOf(log, cache, stored, done, k) ==
  IF OwnWrites(stored, done, k) # {}
  THEN [content |-> GreatestOf(OwnWrites(stored, done, k)), state |-> "local"]
  ELSE IF cache[k].version = 0 THEN NoDoc
  ELSE [content |-> Content(log, cache[k].version),
        state   |-> IF cache[k].byAck THEN "committed" ELSE "synced"]

DocsOf(log, cache, stored, done) ==
  [k \in Keys |-> DocOf(log, cache, stored, done, k)]

LEMMA LocalDocOf ==
  ASSUME NEW cache, NEW stored, NEW done, NEW k
  PROVE  LocalDoc(cache, stored, done, k) = DocOf(commits, cache, stored, done, k)
BY DEF LocalDoc, DocOf, OwnWrites, GreatestOf

\* A document on show beside the one on the device.
Fits(doc, here, mutated) ==
  /\ doc.content = here.content
  /\ \/ doc.state = "none" /\ here.state = "none" /\ ~mutated
     \/ doc.state = "local" /\ here.state \in {"local", "committed"} /\ mutated
     \/ doc.state = "committed" /\ here.state \in {"committed", "synced"} /\ ~mutated
     \/ doc.state = "synced" /\ here.state = "synced" /\ ~mutated

FitsAll(v, h) == \A k \in Keys : Fits(v.docs[k], h[k], k \in v.mutated)

\* Only no document has no content.
WellMade(doc) == doc \in Doc /\ (doc.content = 0 <=> doc.state = "none")

\* What a step makes of the document on the device.
Becomes(here, here2) ==
  \/ here2 = here
  \/ here2.state = "local" /\ here2.content # here.content
  \/ here.state = "local" /\ here2.state = "committed" /\ here2.content = here.content
  \/ here2.state = "synced"

LEMMA WhenNoDoc ==
  ASSUME NEW doc, WellMade(doc)
  PROVE  doc = NoDoc <=> doc.state = "none"
<1>1. doc = [content |-> doc.content, state |-> doc.state]
  BY DEF WellMade, Doc
<1>2. NoDoc.content = 0 /\ NoDoc.state = "none"
  BY DEF NoDoc
<1> QED
  BY <1>1, <1>2 DEF WellMade, NoDoc

\* A document is taken if there was none or is none, if its content is news,
\* unless it is an acknowledged write that waits for the watch stream, or if
\* its state is.
LEMMA ChangesIs ==
  ASSUME NEW v, NEW k, NEW new, NEW old, old = v.docs[k]
  PROVE  /\ old = NoDoc \/ new = NoDoc => (Changes(v, k, new) <=> old # new)
         /\ old # NoDoc /\ new # NoDoc /\ old.content # new.content =>
              (Changes(v, k, new) <=> ~ShouldWaitForSyncedDocument(new, old))
         /\ old # NoDoc /\ new # NoDoc /\ old.content = new.content =>
              (Changes(v, k, new) <=>
                 IF k \in v.mutated THEN new.state \notin {"local", "committed"}
                 ELSE new.state = "local")
<1> DEFINE pending == new.state = "local" \/ (k \in v.mutated /\ new.state = "committed")
           was == k \in v.mutated
           other == was # pending
           wait == ~ShouldWaitForSyncedDocument(new, old)
           differ == old # new
<1>1. Changes(v, k, new) = (CASE old = NoDoc \/ new = NoDoc -> differ
                              [] old.content # new.content -> wait
                              [] OTHER -> other)
  BY Zenon DEF Changes
<1>2. other <=> IF was THEN ~pending ELSE pending
  <2>1. pending = TRUE \/ pending = FALSE
    OBVIOUS
  <2> HIDE DEF pending
  <2>2. was = TRUE \/ was = FALSE
    <3>1. CASE k \in v.mutated
      BY <3>1
    <3>2. CASE k \notin v.mutated
      BY <3>2
    <3> QED
      BY <3>1, <3>2, Zenon
  <2> HIDE DEF was
  <2> QED
    BY <2>1, <2>2
<1> HIDE DEF differ, wait, other
<1>7. ASSUME old = NoDoc \/ new = NoDoc PROVE Changes(v, k, new) <=> differ
  <2>1. CASE old.content = new.content
    BY <1>1, <1>7, <2>1
  <2>2. CASE old.content # new.content
    <3>1. old.state = "none" \/ new.state = "none"
      BY <1>7 DEF NoDoc
    <3>2. wait = TRUE
      BY <3>1 DEF wait, ShouldWaitForSyncedDocument
    <3>3. differ = TRUE
      BY <2>2 DEF differ
    <3> QED
      BY <1>1, <1>7, <2>2, <3>2, <3>3
  <2> QED
    BY <2>1, <2>2
<1>12. differ <=> old # new
  BY DEF differ
<1>8. ASSUME old # NoDoc, new # NoDoc, old.content # new.content 
      PROVE Changes(v, k, new) <=> ~ShouldWaitForSyncedDocument(new, old)
  BY <1>1, <1>8 DEF wait
<1>9. ASSUME old # NoDoc, new # NoDoc, old.content = new.content 
      PROVE Changes(v, k, new) <=> other
  BY <1>1, <1>9
<1>11. other <=> IF k \in v.mutated THEN new.state \notin {"local", "committed"}
                 ELSE new.state = "local"
  BY <1>2
<1> QED
  BY <1>7, <1>8, <1>9, <1>11, <1>12

\* Whether the view takes a document that fits or not.
LEMMA FitsStep ==
  ASSUME NEW v \in View, NEW k \in Keys, NEW here, NEW new,
         WellMade(here), WellMade(new), WellMade(v.docs[k]),
         Fits(v.docs[k], here, k \in v.mutated), Becomes(here, new)
  PROVE  IF Changes(v, k, new)
         THEN new.state # "committed" /\ Fits(new, new, new.state = "local")
         ELSE Fits(v.docs[k], new, k \in v.mutated)
<1>1. PICK old : old = v.docs[k]
  OBVIOUS
<1>2. /\ old = NoDoc <=> old.state = "none"
      /\ new = NoDoc <=> new.state = "none"
  BY <1>1, WhenNoDoc
<1>3. /\ old.content = 0 <=> old.state = "none"
      /\ new.content = 0 <=> new.state = "none"
      /\ here.content = 0 <=> here.state = "none"
      /\ new.state \in {"none", "local", "committed", "synced"}
      /\ here.state \in {"none", "local", "committed", "synced"}
  BY <1>1 DEF WellMade, Doc
<1>4. /\ old = NoDoc \/ new = NoDoc => (Changes(v, k, new) <=> old # new)
      /\ old # NoDoc /\ new # NoDoc /\ old.content # new.content =>
           (Changes(v, k, new) <=> ~(old.state = "local" /\ new.state = "committed"))
      /\ old # NoDoc /\ new # NoDoc /\ old.content = new.content =>
           (Changes(v, k, new) <=>
              IF k \in v.mutated THEN new.state \notin {"local", "committed"}
              ELSE new.state = "local")
  BY <1>1, ChangesIs DEF ShouldWaitForSyncedDocument
<1>5. Fits(old, here, k \in v.mutated)
  BY <1>1
<1>6. CASE new = here
  <2>1. old.content = new.content
    BY <1>5, <1>6 DEF Fits
  <2>2. ~Changes(v, k, new)
    <3>1. CASE old = NoDoc \/ new = NoDoc
      BY <1>2, <1>3, <1>4, <2>1, <3>1
    <3>2. CASE old # NoDoc /\ new # NoDoc
      BY <1>2, <1>4, <1>5, <1>6, <2>1, <3>2 DEF Fits
    <3> QED
      BY <3>1, <3>2
  <2> QED
    BY <1>6, <2>2
<1>7. CASE new # here /\ new.state = "local" /\ new.content # here.content
  <2>1. old.content # new.content /\ new # NoDoc
    BY <1>2, <1>5, <1>7 DEF Fits
  <2>2. Changes(v, k, new)
    BY <1>4, <1>7, <2>1
  <2> QED
    BY <1>7, <2>2 DEF Fits
<1>8. CASE here.state = "local" /\ new.state = "committed" /\ new.content = here.content
  <2>1. old.state = "local" /\ k \in v.mutated /\ old.content = new.content
    BY <1>5, <1>8 DEF Fits
  <2>2. old # NoDoc /\ new # NoDoc
    BY <1>2, <1>8, <2>1
  <2>3. ~Changes(v, k, new)
    BY <1>4, <1>8, <2>1, <2>2
  <2> QED
    BY <1>1, <1>8, <2>1, <2>3 DEF Fits
<1>9. CASE new # here /\ new.state = "synced"
  <2>1. new # NoDoc
    BY <1>2, <1>9
  <2>2. CASE Changes(v, k, new)
    BY <1>9, <2>2 DEF Fits
  <2>3. CASE ~Changes(v, k, new)
    <3>1. old # NoDoc /\ old.content = new.content
      BY <1>4, <1>9, <2>1, <2>3
    <3>2. k \notin v.mutated
      BY <1>4, <1>9, <2>1, <2>3, <3>1
    <3>3. old.state \in {"committed", "synced"}
      BY <1>2, <1>5, <3>1, <3>2 DEF Fits
    <3> QED
      BY <1>1, <1>9, <2>3, <3>1, <3>2, <3>3 DEF Fits
  <2> QED
    BY <2>2, <2>3
<1> QED
  BY <1>6, <1>7, <1>8, <1>9 DEF Becomes

\* A step takes the documents on the device from h to h2, and the new ones of
\* D to the view.
DocsStep(D, new, h, h2) ==
  /\ D \subseteq Keys
  /\ \A k \in Keys : WellMade(h[k]) /\ WellMade(h2[k])
  /\ \A k \in D : new[k] = h2[k] /\ Becomes(h[k], h2[k])
  /\ \A k \in Keys \ D : h2[k] = h[k]

\* The view after the documents of D.
LEMMA ShowsFits ==
  ASSUME NEW v \in View, NEW view, NEW D, NEW new, NEW change,
         Shows(view, v, D, new, change), NEW h, NEW h2,
         DocsStep(D, new, h, h2), FitsAll(v, h)
  PROVE  /\ FitsAll(view, h2)
         /\ \A k \in Keys : view.docs[k].state = "committed" => view.docs[k] = v.docs[k]
<1> SUFFICES ASSUME NEW k \in Keys
             PROVE  /\ Fits(view.docs[k], h2[k], k \in view.mutated)
                    /\ view.docs[k].state = "committed" => view.docs[k] = v.docs[k]
  BY DEF FitsAll
<1>1. /\ Fits(v.docs[k], h[k], k \in v.mutated)
      /\ WellMade(h[k]) /\ WellMade(h2[k]) /\ v.docs[k] \in Doc
  BY DEF FitsAll, View, DocsStep
<1>2. WellMade(v.docs[k])
  BY <1>1 DEF Fits, WellMade, Doc
<1>3. CASE k \notin D
  BY <1>1, <1>3 DEF Shows, DocsStep
<1>4. CASE k \in D
  <2>1. new[k] = h2[k] /\ Becomes(h[k], h2[k])
    BY <1>4 DEF DocsStep
  <2>2. IF Changes(v, k, h2[k])
        THEN h2[k].state # "committed" /\ Fits(h2[k], h2[k], h2[k].state = "local")
        ELSE Fits(v.docs[k], h2[k], k \in v.mutated)
    BY <1>1, <1>2, <2>1, FitsStep
  <2>3. CASE Changes(v, k, h2[k])
    <3>1. view.docs[k] = h2[k] /\ (k \in view.mutated <=> h2[k].state = "local")
      BY <1>4, <2>1, <2>3 DEF Shows
    <3> QED
      BY <2>2, <2>3, <3>1 DEF Fits
  <2>4. CASE ~Changes(v, k, h2[k])
    <3>1. view.docs[k] = v.docs[k] /\ (k \in view.mutated <=> k \in v.mutated)
      BY <1>4, <2>1, <2>4 DEF Shows
    <3> QED
      BY <2>2, <2>4, <3>1 DEF Fits
  <2> QED
    BY <2>3, <2>4
<1> QED
  BY <1>3, <1>4

-----------------------------------------------------------------------------
(* The writes of the device, and the documents on it *)

OwnCommits(log) == {v \in 1..Len(log) : log[v].own # 0}

\* The writes are committed in their order, once each, and acknowledged after.
OwnOK(log, stored, done) ==
  /\ done <= Cardinality(OwnCommits(log))
  /\ Cardinality(OwnCommits(log)) <= Len(stored)
  /\ Len(stored) <= MaxOwn
  /\ \A v \in OwnCommits(log) :
       /\ log[v].own \in 1..Cardinality(OwnCommits(log))
       /\ stored[log[v].own] = log[v].key
  /\ \A i \in 1..Cardinality(OwnCommits(log)) : \E v \in OwnCommits(log) : log[v].own = i
  /\ \A v, w \in OwnCommits(log) : v < w => log[v].own < log[w].own

LEMMA OwnCommitsFinite ==
  ASSUME NEW log \in Seq(Commits)
  PROVE  /\ IsFiniteSet(OwnCommits(log)) /\ Cardinality(OwnCommits(log)) \in Nat
         /\ OwnCommits(log) \subseteq 1..Len(log) /\ Len(log) \in Nat
<1>1. Len(log) \in Nat
  BY LenProperties
<1>2. OwnCommits(log) \in SUBSET (1..Len(log)) /\ IsFiniteSet(1..Len(log))
  BY <1>1, FS_Interval DEF OwnCommits
<1>3. IsFiniteSet(OwnCommits(log))
  BY <1>2, FS_Subset
<1> QED
  BY <1>1, <1>2, <1>3, FS_CardinalityType

LEMMA OwnIs ==
  ASSUME TypeOK
  PROVE  Own = OwnCommits(commits)
<1>1. DOMAIN commits = 1..Len(commits)
  BY LenProperties DEF TypeOK
<1> QED
  BY <1>1 DEF Own, OwnCommits

\* A commit more.
LogGrows(log, log2, e) ==
  /\ log2 \in Seq(Commits) /\ Len(log) \in Nat /\ Len(log2) = Len(log) + 1
  /\ log2[Len(log) + 1] = e
  /\ \A v \in 1..Len(log) : log2[v] = log[v]
  /\ OwnCommits(log2) = IF e.own # 0 THEN OwnCommits(log) \cup {Len(log) + 1}
                        ELSE OwnCommits(log)
  /\ Cardinality(OwnCommits(log2)) =
       IF e.own # 0 THEN Cardinality(OwnCommits(log)) + 1
       ELSE Cardinality(OwnCommits(log))

LEMMA LogLonger ==
  ASSUME NEW log \in Seq(Commits), NEW e \in Commits, NEW log2, log2 = Append(log, e)
  PROVE  LogGrows(log, log2, e)
<1>1. /\ log2 \in Seq(Commits) /\ Len(log) \in Nat /\ Len(log2) = Len(log) + 1
      /\ log2[Len(log) + 1] = e
      /\ \A v \in 1..Len(log) : log2[v] = log[v]
  BY AppendProperties, LenProperties
<1>2. 1..Len(log2) = (1..Len(log)) \cup {Len(log) + 1}
  BY <1>1
<1>3. OwnCommits(log2) = IF e.own # 0 THEN OwnCommits(log) \cup {Len(log) + 1}
                         ELSE OwnCommits(log)
  <2>1. ASSUME NEW v \in 1..Len(log)
        PROVE  v \in OwnCommits(log2) <=> v \in OwnCommits(log)
    BY <1>1, <1>2, <2>1 DEF OwnCommits
  <2>2. Len(log) + 1 \in OwnCommits(log2) <=> e.own # 0
    BY <1>1, <1>2 DEF OwnCommits
  <2>3. OwnCommits(log2) \subseteq (1..Len(log)) \cup {Len(log) + 1}
    BY <1>2 DEF OwnCommits
  <2>4. OwnCommits(log) \subseteq 1..Len(log)
    BY DEF OwnCommits
  <2> DEFINE numbers == 1..Len(log)
             last == Len(log) + 1
  <2> HIDE DEF numbers, last
  <2>5. /\ \A v \in numbers : v \in OwnCommits(log2) <=> v \in OwnCommits(log)
        /\ last \in OwnCommits(log2) <=> e.own # 0
        /\ OwnCommits(log2) \subseteq numbers \cup {last}
        /\ OwnCommits(log) \subseteq numbers
    BY <2>1, <2>2, <2>3, <2>4 DEF numbers, last
  <2>6. CASE e.own # 0
    <3>1. OwnCommits(log2) = OwnCommits(log) \cup {last}
      BY <2>5, <2>6
    <3> QED
      BY <2>6, <3>1 DEF last
  <2>7. CASE e.own = 0
    <3>1. OwnCommits(log2) = OwnCommits(log)
      BY <2>5, <2>7
    <3> QED
      BY <2>7, <3>1
  <2> QED
    BY <2>6, <2>7
<1>4. Len(log) + 1 \notin OwnCommits(log)
  BY <1>1 DEF OwnCommits
<1>5. /\ IsFiniteSet(OwnCommits(log)) /\ Cardinality(OwnCommits(log)) \in Nat
  BY OwnCommitsFinite
<1>6. Cardinality(OwnCommits(log) \cup {Len(log) + 1}) = Cardinality(OwnCommits(log)) + 1
  BY <1>4, <1>5, FS_AddElement
<1> QED
  BY <1>1, <1>3, <1>6 DEF LogGrows

LEMMA CommitKeepsOwn ==
  ASSUME NEW log \in Seq(Commits), NEW stored \in Seq(Keys), NEW done \in Nat,
         OwnOK(log, stored, done), NEW e \in Commits, NEW log2, log2 = Append(log, e),
         e.own # 0 => /\ e.own = Cardinality(OwnCommits(log)) + 1
                      /\ e.own <= Len(stored) /\ stored[e.own] = e.key
  PROVE  OwnOK(log2, stored, done)
<1>1. /\ log2 \in Seq(Commits) /\ Len(log) \in Nat /\ Len(log2) = Len(log) + 1
      /\ log2[Len(log) + 1] = e
      /\ \A v \in 1..Len(log) : log2[v] = log[v]
      /\ OwnCommits(log2) = IF e.own # 0 THEN OwnCommits(log) \cup {Len(log) + 1}
                            ELSE OwnCommits(log)
      /\ Cardinality(OwnCommits(log2)) = IF e.own # 0 THEN Cardinality(OwnCommits(log)) + 1
                                         ELSE Cardinality(OwnCommits(log))
  <2>1. LogGrows(log, log2, e)
    BY LogLonger
  <2> QED
    BY <2>1 DEF LogGrows
<1>2. PICK own : own = OwnCommits(log)
  OBVIOUS
<1>3. PICK n : n = Cardinality(own)
  OBVIOUS
<1>9. n \in Nat
  BY <1>2, <1>3, OwnCommitsFinite
<1>4. own \subseteq 1..Len(log) /\ Len(stored) \in Nat
  BY <1>2, OwnCommitsFinite, LenProperties
<1>5. /\ done <= n /\ n <= Len(stored) /\ Len(stored) <= MaxOwn
      /\ \A v \in own : log[v].own \in 1..n /\ stored[log[v].own] = log[v].key
      /\ \A i \in 1..n : \E v \in own : log[v].own = i
      /\ \A v, w \in own : v < w => log[v].own < log[w].own
  BY <1>2, <1>3 DEF OwnOK
<1>6. \A v \in own : log2[v] = log[v] /\ v \in 1..Len(log)
  BY <1>1, <1>4
<1>7. CASE e.own = 0
  <2>1. OwnCommits(log2) = own /\ Cardinality(OwnCommits(log2)) = n
    BY <1>1, <1>2, <1>3, <1>7
  <2>2. \A i \in 1..n : \E v \in own : log2[v].own = i
    BY <1>5, <1>6
  <2> QED
    BY <1>5, <1>6, <2>1, <2>2 DEF OwnOK
<1>8. CASE e.own # 0
  <2>1. PICK last : last = Len(log) + 1
    OBVIOUS
  <2>2. /\ OwnCommits(log2) = own \cup {last} /\ Cardinality(OwnCommits(log2)) = n + 1
        /\ log2[last] = e /\ e.own = n + 1 /\ n + 1 <= Len(stored) /\ stored[n + 1] = e.key
    BY <1>1, <1>2, <1>3, <1>8, <2>1
  <2>3. ASSUME NEW v \in own \cup {last}
        PROVE  log2[v].own \in 1..(n + 1) /\ stored[log2[v].own] = log2[v].key
    <3>1. CASE v \in own
      BY <1>5, <1>6, <1>9, <3>1
    <3>2. CASE v = last
      <4>1. log2[v].own = n + 1 /\ log2[v].key = e.key
        BY <2>2, <3>2
      <4> QED
        BY <1>9, <2>2, <4>1
    <3> QED
      BY <3>1, <3>2
  <2>4. ASSUME NEW i \in 1..(n + 1) PROVE \E v \in own \cup {last} : log2[v].own = i
    <3>1. CASE i \in 1..n
      BY <1>5, <1>6, <3>1
    <3>2. CASE i = n + 1
      BY <2>2, <3>2
    <3>3. i \in 1..n \/ i = n + 1
      BY <1>9, <2>4
    <3> QED
      BY <3>1, <3>2, <3>3
  <2>5. ASSUME NEW v \in own \cup {last}, NEW w \in own \cup {last}, v < w
        PROVE  log2[v].own < log2[w].own
    <3>1. v \in own
      BY <1>1, <1>6, <2>1, <2>5
    <3>2. CASE w \in own
      BY <1>5, <1>6, <2>5, <3>1, <3>2
    <3>3. CASE w = last
      <4>1. log2[v].own \in 1..n
        BY <1>5, <1>6, <3>1
      <4>2. log2[w].own = n + 1
        BY <2>2, <3>3
      <4>3. \A x \in 1..n : x < n + 1
        BY <1>9
      <4> QED
        BY <4>1, <4>2, <4>3
    <3> QED
      BY <3>2, <3>3
  <2>6. done <= n + 1
    BY <1>5, <1>9
  <2> QED
    BY <1>5, <2>2, <2>3, <2>4, <2>5, <2>6 DEF OwnOK
<1> QED
  BY <1>7, <1>8

LEMMA WriteKeepsOwn ==
  ASSUME NEW log \in Seq(Commits), NEW stored \in Seq(Keys), NEW done \in Nat,
         OwnOK(log, stored, done), NEW k \in Keys, Len(stored) < MaxOwn, MaxOwn \in Nat,
         NEW stored2, stored2 = Append(stored, k)
  PROVE  OwnOK(log, stored2, done)
<1>1. /\ Len(stored) \in Nat /\ Len(stored2) = Len(stored) + 1
      /\ \A i \in 1..Len(stored) : stored2[i] = stored[i]
  BY AppendProperties, LenProperties
<1>2. PICK n \in Nat : n = Cardinality(OwnCommits(log))
  BY OwnCommitsFinite
<1>3. n <= Len(stored)
  BY <1>2 DEF OwnOK
<1>4. n <= Len(stored2) /\ Len(stored2) <= MaxOwn
  BY <1>1, <1>2, <1>3
<1>5. ASSUME NEW v \in OwnCommits(log)
      PROVE  log[v].own \in 1..n /\ stored2[log[v].own] = log[v].key
  <2>1. log[v].own \in 1..n /\ stored[log[v].own] = log[v].key
    BY <1>2 DEF OwnOK
  <2>2. log[v].own \in 1..Len(stored)
    BY <1>1, <1>2, <1>3, <2>1
  <2> QED
    BY <1>1, <2>1, <2>2
<1> QED
  BY <1>2, <1>4, <1>5 DEF OwnOK

\* The commits of a write are one.
LEMMA OneCommit ==
  ASSUME NEW log \in Seq(Commits), NEW stored, NEW done, OwnOK(log, stored, done),
         NEW v \in OwnCommits(log), NEW w \in OwnCommits(log), log[v].own = log[w].own
  PROVE  v = w
<1>1. OwnCommits(log) \subseteq 1..Len(log) /\ Len(log) \in Nat
  BY OwnCommitsFinite
<1>2. v \in Nat /\ w \in Nat
  BY <1>1
<1>3. log[v] \in Commits /\ log[w] \in Commits
  BY <1>1, ElementOfSeq
<1>4. log[v].own \in Nat /\ log[w].own \in Nat
  BY <1>3 DEF Commits
<1>5. ~(v < w) /\ ~(w < v)
  BY <1>4 DEF OwnOK
<1> QED
  BY <1>2, <1>5

\* What the cache holds is acknowledged, or of a version that was raised.
CacheOK(d, log, done) ==
  \A k \in Keys :
    IF d.cache[k].byAck
    THEN d.cache[k].version # 0 /\ log[d.cache[k].version].own \in 1..done
    ELSE d.cache[k].version <= d.lastRemote

LEMMA GreatestIs ==
  ASSUME NEW S, S \subseteq Nat, NEW i \in S, \A j \in S : j <= i
  PROVE  GreatestOf(S) = i
<1>1. GreatestOf(S) \in S /\ \A j \in S : j <= GreatestOf(S)
  BY DEF GreatestOf
<1>2. GreatestOf(S) \in Nat /\ i \in Nat /\ i <= GreatestOf(S) /\ GreatestOf(S) <= i
  BY <1>1
<1> QED
  BY <1>2

\* What makes the documents on the device.
DocsMade(log, cache, stored, done) ==
  /\ log \in Seq(Commits) /\ cache \in [Keys -> Cached]
  /\ stored \in Seq(Keys) /\ done \in Nat
  /\ \A k \in Keys : cache[k].version # 0 => Made(log, k, cache[k].version)

LEMMA DocCases ==
  ASSUME NEW log, NEW cache, NEW stored, NEW done, NEW k
  PROVE  /\ OwnWrites(stored, done, k) # {} =>
              /\ DocOf(log, cache, stored, done, k).content =
                   GreatestOf(OwnWrites(stored, done, k))
              /\ DocOf(log, cache, stored, done, k).state = "local"
         /\ OwnWrites(stored, done, k) = {} /\ cache[k].version = 0 =>
              /\ DocOf(log, cache, stored, done, k).content = 0
              /\ DocOf(log, cache, stored, done, k).state = "none"
         /\ OwnWrites(stored, done, k) = {} /\ cache[k].version # 0 =>
              /\ DocOf(log, cache, stored, done, k).content =
                   Content(log, cache[k].version)
              /\ DocOf(log, cache, stored, done, k).state =
                   IF cache[k].byAck THEN "committed" ELSE "synced"
BY DEF DocOf, NoDoc

LEMMA ContentOf ==
  ASSUME ConstantsAssumption, NEW log \in Seq(Commits), NEW v \in 1..Len(log)
  PROVE  /\ Content(log, v) \in Nat \ {0}
         /\ Content(log, v) = IF log[v].own # 0 THEN log[v].own ELSE MaxOwn + v
         /\ v \in Nat /\ log[v].own \in Nat
<1>1. log[v] \in Commits /\ v \in Nat /\ v # 0
  BY ElementOfSeq, LenProperties
<1> QED
  BY <1>1 DEF Content, Commits, ConstantsAssumption

LEMMA DocWellMade ==
  ASSUME ConstantsAssumption, NEW log, NEW cache, NEW stored, NEW done,
         DocsMade(log, cache, stored, done), NEW k \in Keys
  PROVE  WellMade(DocOf(log, cache, stored, done, k))
<1>1. PICK doc : doc = DocOf(log, cache, stored, done, k)
  OBVIOUS
<1>2. PICK own : own = OwnWrites(stored, done, k)
  OBVIOUS
<1>3. CASE own # {}
  <2>1. PICK i : i = GreatestOf(own)
    OBVIOUS
  <2>2. i \in own /\ own \subseteq 1..Len(stored)
    BY <1>2, <1>3, <2>1, LastOwn DEF DocsMade
  <2>3. i \in Nat /\ i # 0
    BY <2>2
  <2>4. doc = [content |-> i, state |-> "local"]
    BY <1>1, <1>2, <1>3, <2>1 DEF DocOf
  <2> QED
    BY <1>1, <2>3, <2>4 DEF WellMade, Doc
<1>4. CASE own = {} /\ cache[k].version = 0
  <2>1. doc = NoDoc
    BY <1>1, <1>2, <1>4 DEF DocOf
  <2> QED
    BY <1>1, <2>1 DEF NoDoc, WellMade, Doc
<1>5. CASE own = {} /\ cache[k].version # 0
  <2>1. PICK i : i = Content(log, cache[k].version)
    OBVIOUS
  <2>2. i \in Nat /\ i # 0
    BY <1>5, <2>1, ContentOf DEF DocsMade, Made
  <2>3. doc = [content |-> i, state |-> IF cache[k].byAck THEN "committed" ELSE "synced"]
    BY <1>1, <1>2, <1>5, <2>1 DEF DocOf
  <2> QED
    BY <1>1, <2>2, <2>3 DEF WellMade, Doc
<1> QED
  BY <1>3, <1>4, <1>5

\* The server commits: the documents on the device stay as they are.
LEMMA CommitKeepsDocs ==
  ASSUME NEW log, NEW cache, NEW stored, NEW done, DocsMade(log, cache, stored, done),
         NEW e \in Commits
  PROVE  DocsOf(Append(log, e), cache, stored, done) = DocsOf(log, cache, stored, done)
<1>1. PICK log2 : log2 = Append(log, e)
  OBVIOUS
<1>2. ASSUME NEW k \in Keys
      PROVE  DocOf(log2, cache, stored, done, k) = DocOf(log, cache, stored, done, k)
  <2>1. CASE cache[k].version = 0
    BY <2>1 DEF DocOf
  <2>2. CASE cache[k].version # 0
    <3>1. PICK v : v = cache[k].version
      OBVIOUS
    <3>2. v \in 1..Len(log)
      BY <1>2, <2>2, <3>1 DEF DocsMade, Made
    <3>3. log2[v] = log[v]
      BY <1>1, <3>2, AppendProperties DEF DocsMade
    <3>4. Content(log2, v) = Content(log, v)
      BY <3>3 DEF Content
    <3> QED
      BY <3>1, <3>4 DEF DocOf
  <2> QED
    BY <2>1, <2>2
<1>3. DocsOf(log2, cache, stored, done) = DocsOf(log, cache, stored, done)
  BY <1>2 DEF DocsOf
<1> QED
  BY <1>1, <1>3

\* What the documents are when the device has stored a write to k.
WriteShown(log, cache, stored, stored2, done, k) ==
  /\ \A j \in Keys \ {k} :
       DocOf(log, cache, stored2, done, j) = DocOf(log, cache, stored, done, j)
  /\ DocOf(log, cache, stored2, done, k).state = "local"
  /\ DocOf(log, cache, stored2, done, k).content = Len(stored) + 1
  /\ DocOf(log, cache, stored, done, k).content # Len(stored) + 1

\* A write of the device hides what was there.
LEMMA WriteMakesDoc ==
  ASSUME ConstantsAssumption, NEW log, NEW cache, NEW stored, NEW done,
         DocsMade(log, cache, stored, done), OwnOK(log, stored, done),
         NEW k \in Keys, Len(stored) < MaxOwn, NEW stored2, stored2 = Append(stored, k)
  PROVE  WriteShown(log, cache, stored, stored2, done, k)
<1>1. /\ stored \in Seq(Keys) /\ done \in Nat /\ log \in Seq(Commits)
      /\ Len(stored) \in Nat /\ MaxOwn \in Nat
  BY LenProperties DEF DocsMade, ConstantsAssumption
<1>2. /\ stored2 \in Seq(Keys) /\ Len(stored2) = Len(stored) + 1 /\ stored2[Len(stored) + 1] = k
      /\ \A i \in 1..Len(stored) : stored2[i] = stored[i]
  BY <1>1, AppendProperties
<1>3. done <= Len(stored)
  <2>1. Cardinality(OwnCommits(log)) \in Nat
    BY <1>1, OwnCommitsFinite
  <2> QED
    BY <1>1, <2>1 DEF OwnOK
<1>4. ASSUME NEW j \in Keys \ {k}
      PROVE  DocOf(log, cache, stored2, done, j) = DocOf(log, cache, stored, done, j)
  <2>1. ASSUME NEW i \in OwnWrites(stored2, done, j)
        PROVE  i \in OwnWrites(stored, done, j)
    <3>1. i \in (done + 1)..(Len(stored) + 1) /\ stored2[i] = j
      BY <1>2, <2>1 DEF OwnWrites
    <3>2. i # Len(stored) + 1
      BY <1>2, <1>4, <3>1
    <3>3. i \in (done + 1)..Len(stored) /\ i \in 1..Len(stored)
      BY <1>1, <3>1, <3>2
    <3> QED
      BY <1>2, <3>1, <3>3 DEF OwnWrites
  <2>2. ASSUME NEW i \in OwnWrites(stored, done, j)
        PROVE  i \in OwnWrites(stored2, done, j)
    <3>1. i \in (done + 1)..Len(stored) /\ stored[i] = j
      BY <2>2 DEF OwnWrites
    <3>2. i \in (done + 1)..Len(stored2) /\ i \in 1..Len(stored)
      BY <1>1, <1>2, <3>1
    <3> QED
      BY <1>2, <3>1, <3>2 DEF OwnWrites
  <2>3. OwnWrites(stored2, done, j) = OwnWrites(stored, done, j)
    BY <2>1, <2>2
  <2> QED
    BY <2>3 DEF DocOf
<1>5. PICK own : own = OwnWrites(stored2, done, k)
  OBVIOUS
<1>6. own \subseteq 1..(Len(stored) + 1) /\ Len(stored) + 1 \in own
  BY <1>1, <1>2, <1>3, <1>5 DEF OwnWrites
<1>7. GreatestOf(own) = Len(stored) + 1
  <2>1. PICK last : last = Len(stored) + 1
    OBVIOUS
  <2>2. own \subseteq Nat /\ last \in own /\ \A j \in own : j <= last
    BY <1>1, <1>6, <2>1
  <2>3. GreatestOf(own) = last
    BY <2>2, GreatestIs
  <2> QED
    BY <2>1, <2>3
<1>8. /\ DocOf(log, cache, stored2, done, k).state = "local"
      /\ DocOf(log, cache, stored2, done, k).content = Len(stored) + 1
  BY <1>5, <1>6, <1>7, DocCases
<1>9. DocOf(log, cache, stored, done, k).content # Len(stored) + 1
  <2>1. CASE OwnWrites(stored, done, k) # {}
    <3>1. PICK i : i = GreatestOf(OwnWrites(stored, done, k))
      OBVIOUS
    <3>2. i \in 1..Len(stored)
      BY <1>1, <2>1, <3>1, LastOwn
    <3>3. i # Len(stored) + 1
      BY <1>1, <3>2
    <3> QED
      BY <2>1, <3>1, <3>3, DocCases
  <2>2. CASE OwnWrites(stored, done, k) = {} /\ cache[k].version = 0
    <3>1. Len(stored) + 1 # 0
      BY <1>1
    <3> QED
      BY <2>2, <3>1, DocCases
  <2>3. CASE OwnWrites(stored, done, k) = {} /\ cache[k].version # 0
    <3>1. PICK v : v = cache[k].version
      OBVIOUS
    <3>2. v \in 1..Len(log)
      BY <2>3, <3>1 DEF DocsMade, Made
    <3>3. /\ Content(log, v) = IF log[v].own # 0 THEN log[v].own ELSE MaxOwn + v
          /\ v \in Nat /\ log[v].own \in Nat
      BY <1>1, <3>2, ContentOf
    <3>4. log[v].own # 0 => log[v].own <= Len(stored)
      <4>1. ASSUME log[v].own # 0 PROVE log[v].own <= Len(stored)
        <5>1. v \in OwnCommits(log)
          BY <3>2, <4>1 DEF OwnCommits
        <5>2. PICK n : n = Cardinality(OwnCommits(log))
          OBVIOUS
        <5>3. n \in Nat
          BY <1>1, <5>2, OwnCommitsFinite
        <5>4. log[v].own \in 1..n /\ n <= Len(stored)
          BY <5>1, <5>2 DEF OwnOK
        <5> QED
          BY <1>1, <3>3, <5>3, <5>4
      <4> QED
        BY <4>1
    <3>5. Content(log, v) # Len(stored) + 1
      BY <1>1, <3>2, <3>3, <3>4
    <3> QED
      BY <2>3, <3>1, <3>5, DocCases
  <2> QED
    BY <2>1, <2>2, <2>3
<1> QED
  BY <1>4, <1>8, <1>9 DEF WriteShown

\* A version is raised: a document is what it was or the server's.
LEMMA RaiseMakesDoc ==
  ASSUME NEW log, NEW d, NEW stored, NEW done, NEW updates, NEW k \in Keys
  PROVE  /\ k \notin NewerOf(d, updates) =>
              DocOf(log, CacheOf(d, updates), stored, done, k) =
                DocOf(log, d.cache, stored, done, k)
         /\ k \in NewerOf(d, updates) =>
              \/ DocOf(log, CacheOf(d, updates), stored, done, k) =
                   DocOf(log, d.cache, stored, done, k)
              \/ DocOf(log, CacheOf(d, updates), stored, done, k).state = "synced"
<1>1. CASE k \notin NewerOf(d, updates)
  <2>1. CacheOf(d, updates)[k] = d.cache[k]
    BY <1>1 DEF CacheOf
  <2> QED
    BY <1>1, <2>1 DEF DocOf
<1>2. CASE k \in NewerOf(d, updates)
  <2>1. CacheOf(d, updates)[k] = [version |-> updates[k], byAck |-> FALSE] /\ updates[k] # 0
    BY <1>2 DEF CacheOf, NewerOf
  <2>2. CASE OwnWrites(stored, done, k) # {}
    BY <1>2, <2>2 DEF DocOf
  <2>3. CASE OwnWrites(stored, done, k) = {}
    BY <1>2, <2>1, <2>3, DocCases
  <2> QED
    BY <2>2, <2>3
<1> QED
  BY <1>1, <1>2

\* A write is acknowledged: its document shows it until a snapshot does, or
\* what the server has made of it since.
LEMMA AckMakesDoc ==
  ASSUME ConstantsAssumption, NEW log, NEW d \in Disk, NEW stored, NEW done,
         DocsMade(log, d.cache, stored, done), OwnOK(log, stored, done),
         CacheOK(d, log, done), NEW k \in Keys, NEW v \in OwnCommits(log),
         log[v].key = k, log[v].own = done + 1
  PROVE  /\ \A j \in Keys \ {k} :
              DocOf(log, AckedCache(d.cache, k, v), stored, done + 1, j) =
                DocOf(log, d.cache, stored, done, j)
         /\ DocOf(log, d.cache, stored, done, k).state = "local"
         /\ Becomes(DocOf(log, d.cache, stored, done, k),
                    DocOf(log, AckedCache(d.cache, k, v), stored, done + 1, k))
<1>1. /\ stored \in Seq(Keys) /\ done \in Nat /\ log \in Seq(Commits)
      /\ d.cache \in [Keys -> Cached] /\ Len(stored) \in Nat
  BY LenProperties DEF DocsMade
<1>2. v \in 1..Len(log) /\ v \in Nat
  BY <1>1, OwnCommitsFinite
<1>3. PICK n : n = Cardinality(OwnCommits(log))
  OBVIOUS
<1>4. n \in Nat
  BY <1>1, <1>3, OwnCommitsFinite
<1>5. done + 1 \in 1..n /\ stored[done + 1] = k /\ n <= Len(stored)
  BY <1>3 DEF OwnOK
<1>6. done + 1 \in (done + 1)..Len(stored)
  BY <1>1, <1>4, <1>5
<1>7. PICK own : own = OwnWrites(stored, done, k)
  OBVIOUS
<1>8. PICK own2 : own2 = OwnWrites(stored, done + 1, k)
  OBVIOUS
<1>9. PICK here : here = DocOf(log, d.cache, stored, done, k)
  OBVIOUS
<1>10. PICK cache : cache = AckedCache(d.cache, k, v)
  OBVIOUS
<1>11. PICK new : new = DocOf(log, cache, stored, done + 1, k)
  OBVIOUS
<1>12. done + 1 \in own
  BY <1>5, <1>6, <1>7 DEF OwnWrites
<1>13. here.state = "local" /\ here.content = GreatestOf(own)
  BY <1>7, <1>9, <1>12, DocCases
<1>14. own2 = own \ {done + 1}
  BY <1>1, <1>7, <1>8 DEF OwnWrites
<1>15. ASSUME NEW j \in Keys \ {k}
       PROVE  DocOf(log, cache, stored, done + 1, j) = DocOf(log, d.cache, stored, done, j)
  <2>1. OwnWrites(stored, done + 1, j) = OwnWrites(stored, done, j)
    BY <1>1, <1>5, <1>15 DEF OwnWrites
  <2>2. cache[j] = d.cache[j]
    BY <1>10 DEF AckedCache
  <2> QED
    BY <2>1, <2>2 DEF DocOf
<1>16. CASE own2 # {}
  <2>1. PICK i : i = GreatestOf(own2)
    OBVIOUS
  <2>2. /\ i \in own2 /\ \A j \in own2 : j <= i
        /\ own2 \subseteq 1..Len(stored)
    <3>1. done + 1 \in Nat
      BY <1>1
    <3> QED
      BY <1>1, <1>8, <1>16, <2>1, <3>1, LastOwn
  <2>3. own \subseteq Nat /\ i \in own /\ \A j \in own : j <= i
    <3>1. i \in (done + 1)..Len(stored)
      BY <1>7, <1>14, <2>2 DEF OwnWrites
    <3>2. i \in Nat /\ done + 1 <= i
      BY <1>1, <3>1
    <3>3. own \subseteq 1..Len(stored)
      BY <1>1, <1>7, <1>12, LastOwn
    <3> QED
      BY <1>14, <2>2, <3>2, <3>3
  <2>4. GreatestOf(own) = i
    BY <2>3, GreatestIs
  <2>5. new = [content |-> i, state |-> "local"]
    BY <1>8, <1>11, <1>16, <2>1 DEF DocOf
  <2>6. here = [content |-> i, state |-> "local"]
    BY <1>7, <1>9, <1>12, <2>4 DEF DocOf
  <2> QED
    BY <1>9, <1>10, <1>11, <1>13, <1>15, <2>5, <2>6 DEF Becomes
<1>17. CASE own2 = {}
  <2>1. GreatestOf(own) = done + 1
    <3>1. PICK i : i = done + 1
      OBVIOUS
    <3>2. own = {i} /\ i \in Nat
      BY <1>1, <1>12, <1>14, <1>17, <3>1
    <3>3. own \subseteq Nat /\ i \in own /\ \A j \in own : j <= i
      BY <3>2
    <3>4. GreatestOf(own) = i
      BY <3>3, GreatestIs
    <3> QED
      BY <3>1, <3>4
  <2>2. PICK was : was = d.cache[k]
    OBVIOUS
  <2>3. was \in Cached /\ was.version \in Nat
    BY <1>1, <2>2 DEF Cached
  <2>4. CASE was.version >= v
    <3>1. cache = d.cache
      BY <1>10, <2>2, <2>4 DEF AckedCache
    <3>2. v # 0 /\ was.version # 0
      BY <1>2, <2>3, <2>4
    <3>3. ~was.byAck
      <4>1. ASSUME was.byAck PROVE FALSE
        <5>1. PICK x : x = was.version
          OBVIOUS
        <5>2. log[x].own \in 1..done /\ x \in 1..Len(log)
          BY <2>2, <3>2, <4>1, <5>1 DEF CacheOK, DocsMade, Made
        <5>3. x \in OwnCommits(log) /\ log[x].own <= done
          <6>1. log[x].own # 0 /\ log[x].own <= done
            BY <1>1, <5>2
          <6> QED
            BY <5>2, <6>1 DEF OwnCommits
        <5>4. v < x => log[v].own < log[x].own
          BY <5>3 DEF OwnOK
        <5>5. v < x \/ v = x
          BY <1>2, <2>3, <2>4, <5>1
        <5>6. log[x].own \in Nat
          BY <1>1, <5>2, ContentOf
        <5> QED
          BY <1>1, <5>3, <5>4, <5>5, <5>6
      <4> QED
        BY <4>1
    <3>4. new.state = "synced"
      BY <1>8, <1>11, <1>17, <2>2, <3>1, <3>2, <3>3, DocCases
    <3> QED
      BY <1>9, <1>10, <1>11, <1>13, <1>15, <3>4 DEF Becomes
  <2>5. CASE ~(was.version >= v)
    <3>1. cache[k] = [version |-> v, byAck |-> TRUE]
      BY <1>1, <1>10, <2>2, <2>5 DEF AckedCache
    <3>2. cache[k].version = v /\ cache[k].byAck /\ v # 0
      BY <1>2, <3>1
    <3>3. Content(log, v) = done + 1
      <4>1. log[v].own # 0
        BY DEF OwnCommits
      <4> QED
        BY <4>1 DEF Content
    <3>4. new.state = "committed" /\ new.content = done + 1
      BY <1>8, <1>11, <1>17, <3>2, <3>3, DocCases
    <3> QED
      BY <1>9, <1>10, <1>11, <1>13, <1>15, <2>1, <3>4 DEF Becomes
  <2> QED
    BY <2>4, <2>5
<1> QED
  BY <1>16, <1>17

-----------------------------------------------------------------------------
(* The updates on their way to the disk: the snapshot that will store one  *)
(* is sent behind it, and is not older.                                    *)

\* The next snapshot from p on is of version v at least.
Closed(s, p, v) ==
  \E q \in 1..Len(s) :
    /\ p <= q /\ s[q].type = "snapshot" /\ s[q].version >= v
    /\ \A r \in 1..Len(s) : p <= r /\ r < q => s[r].type # "snapshot"

DocsClosed(s) ==
  \A q \in 1..Len(s) : s[q].type = "document" => Closed(s, q, s[q].version)

UpdatesClosed(updates, last, s) ==
  \A k \in Keys : updates[k] <= last \/ Closed(s, 1, updates[k])

UpdatesOK(c, d, w) ==
  c.stream = "open" =>
    DocsClosed(w.responses) /\ UpdatesClosed(c.agg.updates, d.lastRemote, w.responses)

LEMMA ClosedTail ==
  ASSUME NEW s \in Seq(Responses), s # <<>>, NEW v
  PROVE  /\ \A p \in 1..(Len(s) - 1) : Closed(s, p + 1, v) => Closed(Tail(s), p, v)
         /\ s[1].type # "snapshot" /\ Closed(s, 1, v) => Closed(Tail(s), 1, v)
         /\ s[1].type = "snapshot" /\ Closed(s, 1, v) => s[1].version >= v
<1>1. PICK n : n = Len(s)
  OBVIOUS
<1>2. PICK t : t = Tail(s)
  OBVIOUS
<1>3. /\ n \in Nat /\ 1 <= n /\ Len(t) = n - 1
      /\ \A i \in 1..(n - 1) : t[i] = s[i + 1]
  BY <1>1, <1>2, TailAnswers
<1>4. ASSUME NEW p \in Nat, NEW q \in 1..n, p + 1 <= q,
             s[q].type = "snapshot", s[q].version >= v,
             \A r \in 1..n : p + 1 <= r /\ r < q => s[r].type # "snapshot",
             1 <= q - 1
      PROVE  Closed(t, p, v)
  <2>1. q - 1 \in 1..(n - 1) /\ p <= q - 1 /\ t[q - 1] = s[q]
    BY <1>3, <1>4
  <2>2. ASSUME NEW r \in 1..(n - 1), p <= r, r < q - 1 PROVE t[r].type # "snapshot"
    <3>1. r + 1 \in 1..n /\ p + 1 <= r + 1 /\ r + 1 < q
      BY <1>3, <1>4, <2>2
    <3> QED
      BY <1>3, <1>4, <3>1
  <2> QED
    BY <1>3, <1>4, <2>1, <2>2 DEF Closed
<1>5. ASSUME NEW p \in 1..(n - 1), Closed(s, p + 1, v) PROVE Closed(t, p, v)
  <2>1. PICK q \in 1..n :
          /\ p + 1 <= q /\ s[q].type = "snapshot" /\ s[q].version >= v
          /\ \A r \in 1..n : p + 1 <= r /\ r < q => s[r].type # "snapshot"
    BY <1>1, <1>5 DEF Closed
  <2>2. p \in Nat /\ 1 <= q - 1
    BY <1>3, <2>1
  <2> QED
    BY <1>4, <2>1, <2>2
<1>6. ASSUME Closed(s, 1, v)
      PROVE  /\ s[1].type # "snapshot" => Closed(t, 1, v)
             /\ s[1].type = "snapshot" => s[1].version >= v
  <2>1. PICK q \in 1..n :
          /\ 1 <= q /\ s[q].type = "snapshot" /\ s[q].version >= v
          /\ \A r \in 1..n : 1 <= r /\ r < q => s[r].type # "snapshot"
    BY <1>1, <1>6 DEF Closed
  <2>2. CASE q = 1
    BY <2>1, <2>2
  <2>3. CASE q # 1
    <3>1. 1 \in 1..n /\ 1 < q
      BY <1>3, <2>1, <2>3
    <3>2. s[1].type # "snapshot"
      BY <2>1, <3>1
    <3>3. 1 \in Nat /\ 1 + 1 <= q /\ 1 <= q - 1
      BY <1>3, <2>1, <2>3
    <3>4. \A r \in 1..n : 1 + 1 <= r /\ r < q => s[r].type # "snapshot"
      BY <1>3, <2>1
    <3>5. Closed(t, 1, v)
      BY <1>4, <2>1, <3>3, <3>4
    <3> QED
      BY <3>2, <3>5
  <2> QED
    BY <2>2, <2>3
<1> QED
  BY <1>1, <1>2, <1>5, <1>6

\* A message is taken: a document goes into the updates, a snapshot stores
\* them.
LEMMA HeadCloses ==
  ASSUME NEW s \in Seq(Responses), s # <<>>, NEW updates \in [Keys -> Nat],
         NEW updates2, NEW last \in Nat, NEW last2 \in Nat, last <= last2,
         DocsClosed(s), UpdatesClosed(updates, last, s),
         s[1].type = "snapshot" => s[1].version <= last2,
         \A k \in Keys : \/ updates2[k] = updates[k]
                         \/ s[1].type = "document" /\ updates2[k] = s[1].version
                         \/ updates2[k] = 0
  PROVE  DocsClosed(Tail(s)) /\ UpdatesClosed(updates2, last2, Tail(s))
<1>1. PICK t : t = Tail(s)
  OBVIOUS
<1>2. /\ Len(s) \in Nat /\ 1 <= Len(s) /\ Len(t) = Len(s) - 1
      /\ \A i \in 1..(Len(s) - 1) : t[i] = s[i + 1]
      /\ s[1] \in Responses
  BY <1>1, TailAnswers
<1>3. s[1].version \in Nat
  BY <1>2 DEF Responses, Messages, Documents
<1>4. DocsClosed(t)
  <2> SUFFICES ASSUME NEW q \in 1..Len(t), t[q].type = "document"
               PROVE  Closed(t, q, t[q].version)
    BY DEF DocsClosed
  <2>1. q \in 1..(Len(s) - 1) /\ q + 1 \in 1..Len(s) /\ t[q] = s[q + 1]
    BY <1>2
  <2>2. Closed(s, q + 1, s[q + 1].version)
    BY <2>1 DEF DocsClosed
  <2> QED
    BY <1>1, <2>1, <2>2, ClosedTail
<1>5. UpdatesClosed(updates2, last2, t)
  <2> SUFFICES ASSUME NEW k \in Keys
               PROVE  updates2[k] <= last2 \/ Closed(t, 1, updates2[k])
    BY DEF UpdatesClosed
  <2>1. CASE updates2[k] = 0
    BY <2>1
  <2>2. CASE updates2[k] = updates[k]
    <3>1. PICK u \in Nat : u = updates[k]
      OBVIOUS
    <3>2. u <= last \/ Closed(s, 1, u)
      BY <3>1 DEF UpdatesClosed
    <3>3. CASE u <= last
      BY <2>2, <3>1, <3>3
    <3>4. CASE Closed(s, 1, u) /\ s[1].type # "snapshot"
      BY <1>1, <2>2, <3>1, <3>4, ClosedTail
    <3>5. CASE Closed(s, 1, u) /\ s[1].type = "snapshot"
      <4>1. s[1].version >= u
        BY <3>5, ClosedTail
      <4> QED
        BY <1>3, <2>2, <3>1, <3>5, <4>1
    <3> QED
      BY <3>2, <3>3, <3>4, <3>5
  <2>3. CASE s[1].type = "document" /\ updates2[k] = s[1].version
    <3>1. Closed(s, 1, s[1].version)
      BY <1>2, <2>3 DEF DocsClosed
    <3>2. s[1].type # "snapshot"
      BY <2>3
    <3> QED
      BY <1>1, <2>3, <3>1, <3>2, ClosedTail
  <2> QED
    BY <2>1, <2>2, <2>3
<1> QED
  BY <1>1, <1>4, <1>5

LEMMA ClosedBefore ==
  ASSUME NEW s \in Seq(Responses), NEW more, NEW t, Joined(s, more, t), Len(more) \in Nat,
         NEW p, NEW v, Closed(s, p, v)
  PROVE  Closed(t, p, v)
<1>1. PICK n \in Nat : n = Len(s)
  BY LenProperties
<1>2. /\ n <= Len(t) /\ Len(t) \in Nat /\ \A i \in 1..n : t[i] = s[i]
  BY <1>1 DEF Joined
<1>3. PICK q \in 1..n :
        /\ p <= q /\ s[q].type = "snapshot" /\ s[q].version >= v
        /\ \A r \in 1..n : p <= r /\ r < q => s[r].type # "snapshot"
  BY <1>1 DEF Closed
<1>4. q \in 1..Len(t) /\ t[q] = s[q]
  BY <1>2, <1>3
<1>5. ASSUME NEW r \in 1..Len(t), p <= r, r < q PROVE t[r].type # "snapshot"
  <2>1. r \in 1..n
    BY <1>2, <1>3, <1>5
  <2> QED
    BY <1>2, <1>3, <1>5, <2>1
<1> QED
  BY <1>3, <1>4, <1>5 DEF Closed

\* Messages are sent: a document only with the snapshot that closes its round.
LEMMA MoreCloses ==
  ASSUME NEW s \in Seq(Responses), NEW more \in Seq(Responses), NEW t, Joined(s, more, t),
         NEW updates, NEW last, DocsClosed(s), UpdatesClosed(updates, last, s),
         DocsClosed(more)
  PROVE  DocsClosed(t) /\ UpdatesClosed(updates, last, t)
<1>1. PICK n \in Nat : n = Len(s)
  BY LenProperties
<1>2. PICK m \in Nat : m = Len(more)
  BY LenProperties
<1>3. /\ Len(t) = n + m
      /\ \A i \in 1..n : t[i] = s[i]
      /\ \A i \in 1..m : t[n + i] = more[i]
  BY <1>1, <1>2 DEF Joined
<1>4. ASSUME NEW q \in 1..Len(t), t[q].type = "document"
      PROVE  Closed(t, q, t[q].version)
  <2>1. CASE q \in 1..n
    <3>1. Closed(s, q, s[q].version) /\ t[q] = s[q]
      BY <1>1, <1>3, <1>4, <2>1 DEF DocsClosed
    <3> QED
      BY <1>2, <3>1, ClosedBefore
  <2>2. CASE q \notin 1..n
    <3>1. PICK i \in 1..m : q = n + i
      <4>1. q - n \in 1..m /\ q = n + (q - n)
        BY <1>3, <2>2
      <4> QED
        BY <4>1
    <3>2. t[q] = more[i]
      BY <1>3, <3>1
    <3>3. PICK j \in 1..m :
            /\ i <= j /\ more[j].type = "snapshot" /\ more[j].version >= more[i].version
            /\ \A r \in 1..m : i <= r /\ r < j => more[r].type # "snapshot"
      BY <1>2, <1>4, <3>1, <3>2 DEF DocsClosed, Closed
    <3>4. n + j \in 1..Len(t) /\ q <= n + j /\ t[n + j] = more[j]
      <4>1. t[n + j] = more[j]
        BY <1>3, <3>3
      <4>2. j \in 1..m /\ i \in 1..m /\ i <= j /\ q = n + i /\ Len(t) = n + m
        BY <1>3, <3>1, <3>3
      <4>3. n + j \in 1..Len(t) /\ q <= n + j
        BY <4>2
      <4> QED
        BY <4>1, <4>3
    <3>5. ASSUME NEW r \in 1..Len(t), q <= r, r < n + j PROVE t[r].type # "snapshot"
      <4>1. r - n \in 1..m /\ r = n + (r - n) /\ i <= r - n /\ r - n < j
        BY <1>3, <3>1, <3>3, <3>5
      <4>2. t[r] = more[r - n]
        BY <1>3, <4>1
      <4> QED
        BY <3>3, <4>1, <4>2
    <3> QED
      BY <3>2, <3>3, <3>4, <3>5 DEF Closed
  <2> QED
    BY <2>1, <2>2
<1>5. ASSUME NEW k \in Keys PROVE updates[k] <= last \/ Closed(t, 1, updates[k])
  <2>1. CASE updates[k] <= last
    BY <2>1
  <2>2. CASE Closed(s, 1, updates[k])
    BY <1>2, <2>2, ClosedBefore
  <2> QED
    BY <2>1, <2>2 DEF UpdatesClosed
<1> QED
  BY <1>4, <1>5 DEF DocsClosed, UpdatesClosed

LEMMA RoundCloses ==
  ASSUME NEW more, NEW log, NEW upTo, NEW last, Round(more, log, upTo, last)
  PROVE  DocsClosed(more)
<1> SUFFICES ASSUME NEW q \in 1..Len(more), more[q].type = "document"
             PROVE  Closed(more, q, more[q].version)
  BY DEF DocsClosed
<1>1. PICK n \in Nat : n = Len(more)
  BY DEF Round
<1>2. n \in 1..n /\ q <= n /\ 1 <= n
  BY <1>1
<1>3. more[n].type = "snapshot" /\ more[n].version = last
  BY <1>1, <1>2 DEF Round
<1>4. more[n].version >= more[q].version
  <2>1. more[q].version <= last
    BY DEF Round
  <2> QED
    BY <1>3, <2>1
<1>5. \A r \in 1..n : r < n => more[r].type # "snapshot"
  BY <1>1 DEF Round
<1> QED
  BY <1>1, <1>2, <1>3, <1>4, <1>5 DEF Closed

-----------------------------------------------------------------------------
(* What is known of the view *)

ViewOK(c, h) == c.listening => FitsAll(c.view, h)

\* No answer comes before a version: the server goes on with the listen that
\* made the view current, or has just been asked again by a new stream.
Uninterrupted(w) ==
  /\ \A p \in 1..Len(w.responses) :
       w.responses[p].type = "snapshot" => Fresh(w.responses, p)
  /\ w.requests # <<>> =>
       Len(w.requests) = 1 /\ w.responses = <<>> /\ ~w.serving

\* A view that the server vouched for has the collection on disk up to the
\* last version raised.
CurrentOK(c, d, w, log) ==
  c.view.current =>
    /\ c.listening
    /\ DiskCovers(d, log, d.lastRemote)
    /\ c.stream = "open" => Uninterrupted(w)

\* An acknowledged write on show that no snapshot brought yet comes with the
\* next one.
AckedSeen(c, d, w) ==
  c.listening =>
    \A k \in Keys : c.view.docs[k].state = "committed" /\ d.cache[k].byAck =>
      /\ c.view.current => d.cache[k].version <= d.lastRemote
      /\ c.stream = "open" /\ w.requests = <<>> =>
           \A p \in 1..Len(w.responses) : FreshSnapshot(w.responses, p) =>
             w.responses[p].version >= d.cache[k].version

ViewInv ==
  /\ OwnOK(commits, writes, acked)
  /\ CacheOK(disk, commits, acked)
  /\ UpdatesOK(client, disk, wire)
  /\ ViewOK(client, DocsOf(commits, disk.cache, writes, acked))
  /\ CurrentOK(client, disk, wire, commits)
  /\ AckedSeen(client, disk, wire)

\* The documents of the view are the same, and it is at most as current.
SameView(c, c2) ==
  /\ c2.listening = c.listening
  /\ c2.view.docs = c.view.docs
  /\ c2.view.mutated = c.view.mutated
  /\ c2.view.current => c.view.current

\* What the server wrote and the device stored is the same.
SameData ==
  /\ UNCHANGED <<commits, writes, acked>>
  /\ disk'.cache = disk.cache /\ disk'.lastRemote = disk.lastRemote

LEMMA SameDataOwn ==
  ASSUME ViewInv, SameData
  PROVE  OwnOK(commits, writes, acked)' /\ CacheOK(disk, commits, acked)'
<1>1. /\ commits' = commits /\ writes' = writes /\ acked' = acked
      /\ disk'.cache = disk.cache /\ disk'.lastRemote = disk.lastRemote
  BY DEF SameData
<1>2. OwnOK(commits', writes', acked')
  BY <1>1 DEF ViewInv
<1>3. CacheOK(disk', commits', acked')
  BY <1>1 DEF ViewInv, CacheOK
<1> QED
  BY <1>2, <1>3

LEMMA SameViewFits ==
  ASSUME ViewInv, SameData, SameView(client, client')
  PROVE  ViewOK(client, DocsOf(commits, disk.cache, writes, acked))'
<1>1. PICK h : h = DocsOf(commits, disk.cache, writes, acked)
  OBVIOUS
<1>2. DocsOf(commits', disk'.cache, writes', acked') = h
  BY <1>1 DEF SameData
<1>3. ViewOK(client, h)
  BY <1>1 DEF ViewInv
<1>4. ViewOK(client', h)
  BY <1>3 DEF ViewOK, FitsAll, SameView
<1> QED
  BY <1>2, <1>4

\* A stream that is not open brings nothing.
LEMMA ShutView ==
  ASSUME ViewInv, SameView(client, client'), UNCHANGED <<commits, writes, acked, disk>>,
         client'.stream # "open"
  PROVE  ViewInv'
<1>1. SameData
  BY DEF SameData
<1>2. UpdatesOK(client', disk', wire')
  BY DEF UpdatesOK
<1>3. CurrentOK(client', disk', wire', commits')
  BY DEF ViewInv, CurrentOK, SameView
<1>4. AckedSeen(client', disk', wire')
  BY DEF ViewInv, AckedSeen, SameView
<1> QED
  BY <1>1, <1>2, <1>3, <1>4, SameDataOwn, SameViewFits DEF ViewInv

LEMMA RestartedView ==
  ASSUME ViewInv, NEW stream, NEW agg, Restarted(client, client', stream, agg),
         stream # "open", UNCHANGED <<commits, writes, acked, disk>>
  PROVE  ViewInv'
<1>1. SameView(client, client') /\ client'.stream # "open"
  BY DEF Restarted, SameView
<1> QED
  BY <1>1, ShutView

LEMMA BreakStreamView ==
  ASSUME WatchInv, ViewInv, BreakStream
  PROVE  ViewInv'
<1>1. client \in Client
  BY DEF WatchInv, TypeOK
<1>2. /\ UNCHANGED <<commits, writes, acked, disk>>
      /\ client' = OnWatchStreamClose(client)
  BY DEF BreakStream
<1>3. CASE Restarted(client, OnWatchStreamClose(client), "starting", NewAggregator)
  BY <1>2, <1>3, RestartedView
<1>4. CASE Restarted(client, OnWatchStreamClose(client), "off", client.agg)
  BY <1>2, <1>4, RestartedView
<1> QED
  BY <1>1, <1>3, <1>4, OnWatchStreamCloseRestarts

LEMMA IdleTimeoutView ==
  ASSUME WatchInv, ViewInv, IdleTimeout
  PROVE  ViewInv'
<1>1. client \in Client
  BY DEF WatchInv, TypeOK
<1>2. /\ UNCHANGED <<commits, writes, acked, disk>>
      /\ client' = UpdateState(Close(client), "Unknown")
  BY DEF IdleTimeout
<1>3. Restarted(client, client', "off", client.agg)
  BY <1>1, <1>2, StopRestarts
<1> QED
  BY <1>2, <1>3, RestartedView

LEMMA RestartNetworkView ==
  ASSUME WatchInv, ViewInv, RestartNetwork
  PROVE  ViewInv'
<1>1. client \in Client
  BY DEF WatchInv, TypeOK
<1>2. PICK stopped : stopped = UpdateState(Close(client), "Unknown")
  OBVIOUS
<1>3. /\ UNCHANGED <<commits, writes, acked, disk>>
      /\ client' = IF client.listening THEN StartWatchStream(stopped) ELSE stopped
  BY <1>2 DEF RestartNetwork
<1>4. Restarted(client, stopped, "off", client.agg) /\ stopped \in Client
  BY <1>1, <1>2, StopRestarts DEF Restarted
<1>5. CASE client.listening
  <2>1. Restarted(stopped, client', "starting", NewAggregator)
    BY <1>3, <1>4, <1>5, StartWatchStreamRestarts
  <2>2. Restarted(client, client', "starting", NewAggregator)
    BY <1>4, <2>1, RestartedTwice
  <2> QED
    BY <1>3, <2>2, RestartedView
<1>6. CASE ~client.listening
  BY <1>3, <1>4, <1>6, RestartedView
<1> QED
  BY <1>5, <1>6

LEMMA OnlineStateTimeoutView ==
  ASSUME WatchInv, ViewInv, OnlineStateTimeout
  PROVE  ViewInv'
<1>1. client \in Client
  BY DEF WatchInv, TypeOK
<1>2. PICK b : b = [client EXCEPT !.timer = FALSE]
  OBVIOUS
<1>3. /\ b \in Client /\ b.listening = client.listening /\ b.view = client.view
      /\ b.stream = client.stream /\ b.agg = client.agg
  BY <1>1, <1>2 DEF Client
<1>4. Quiet(b, client') /\ UNCHANGED <<commits, writes, acked, disk, wire>>
  BY <1>2, <1>3, SetAndBroadcastQuiet DEF OnlineStateTimeout, OnlineStates
<1>5. /\ SameView(client, client') /\ client'.stream = client.stream
      /\ client'.agg = client.agg
  BY <1>3, <1>4, SameListener DEF Quiet, SameView
<1>6. SameData
  BY <1>4 DEF SameData
<1>7. UpdatesOK(client', disk', wire')
  BY <1>4, <1>5 DEF UpdatesOK, ViewInv
<1>8. CurrentOK(client', disk', wire', commits')
  BY <1>4, <1>5 DEF ViewInv, CurrentOK, SameView
<1>9. AckedSeen(client', disk', wire')
  BY <1>4, <1>5 DEF ViewInv, AckedSeen, SameView
<1> QED
  BY <1>5, <1>6, <1>7, <1>8, <1>9, SameDataOwn, SameViewFits DEF ViewInv

\* Without a listener nothing is on show.
LEMMA NoListenerView ==
  ASSUME ViewInv, SameData, ~client'.listening, ~client'.view.current,
         UpdatesOK(client', disk', wire')
  PROVE  ViewInv'
<1>1. ViewOK(client', DocsOf(commits', disk'.cache, writes', acked'))
  BY DEF ViewOK
<1>2. CurrentOK(client', disk', wire', commits') /\ AckedSeen(client', disk', wire')
  BY DEF CurrentOK, AckedSeen
<1> QED
  BY <1>1, <1>2, SameDataOwn DEF ViewInv

LEMMA EndProcessView ==
  ASSUME WatchInv, ViewInv, EndProcess
  PROVE  ViewInv'
<1>1. /\ client' = [NewClient EXCEPT !.shown = client.shown]
      /\ UNCHANGED <<commits, writes, acked, disk>>
  BY DEF EndProcess
<1>2. /\ ~client'.listening /\ client'.stream = "off" /\ ~client'.view.current
  BY <1>1, NewClientType DEF Client, NoView
<1>3. UpdatesOK(client', disk', wire')
  BY <1>2 DEF UpdatesOK
<1>4. SameData
  BY <1>1 DEF SameData
<1> QED
  BY <1>2, <1>3, <1>4, NoListenerView

-----------------------------------------------------------------------------
(* Messages of the server, and what is asked of it *)

LEMMA HeadView ==
  ASSUME WatchInv, ViewInv, NEW type, OnWatchStreamChange(type), UNCHANGED disk,
         NEW agg, Gathers(Online, client', agg),
         type = "snapshot" => Version <= disk.lastRemote,
         \A k \in Keys : \/ agg.updates[k] = client.agg.updates[k]
                         \/ type = "document" /\ agg.updates[k] = Version
                         \/ agg.updates[k] = 0
  PROVE  ViewInv'
<1>1. /\ TypeOK /\ client \in Client /\ disk \in Disk /\ wire \in Wire
      /\ disk.lastRemote \in Nat /\ client.agg.updates \in [Keys -> Nat]
  BY ClientFields DEF WatchInv, TypeOK, Disk
<1>2. Heard(client', agg)
  BY <1>1, MessageHeard
<1>3. UNCHANGED <<commits, writes, acked>>
  BY DEF OnWatchStreamChange
<1>4. /\ SameData /\ SameView(client, client') /\ client'.agg = agg
      /\ client.stream = "open" /\ client'.stream = "open"
  <2>1. client.stream = "open"
    BY DEF OnWatchStreamChange
  <2>2. /\ client'.view = Online.view /\ client'.agg = agg
        /\ client'.listening = Online.listening /\ client'.stream = Online.stream
    BY DEF Gathers
  <2>3. /\ Online.listening = client.listening /\ Online.stream = client.stream
        /\ Quiet(client, Online)
    BY <1>1, <1>2, SameListener DEF Heard, Quiet
  <2> QED
    BY <1>3, <2>1, <2>2, <2>3 DEF SameData, SameView, Quiet
<1>5. PICK s : s = wire.responses
  OBVIOUS
<1>6. /\ s \in Seq(Responses) /\ s # <<>> /\ Len(s) \in Nat /\ 1 <= Len(s)
      /\ wire'.responses = Tail(s) /\ wire'.requests = wire.requests
      /\ s[1].type = type /\ Version = s[1].version /\ Len(Tail(s)) = Len(s) - 1
      /\ \A i \in 1..(Len(s) - 1) : Tail(s)[i] = s[i + 1]
  BY <1>1, <1>5, ResponseTaken, TailAnswers, WireType DEF TakenOff
<1>7. /\ \A p \in Nat : p >= 1 => (Fresh(Tail(s), p) <=> Fresh(s, p + 1))
      /\ \A p \in 1..(Len(s) - 1) : FreshSnapshot(Tail(s), p) <=> FreshSnapshot(s, p + 1)
  BY <1>6, HeadFresh
<1>8. UpdatesOK(client', disk', wire')
  <2>1. DocsClosed(s) /\ UpdatesClosed(client.agg.updates, disk.lastRemote, s)
    BY <1>4, <1>5 DEF ViewInv, UpdatesOK
  <2>2. \A k \in Keys : \/ agg.updates[k] = client.agg.updates[k]
                        \/ s[1].type = "document" /\ agg.updates[k] = s[1].version
                        \/ agg.updates[k] = 0
    BY <1>6
  <2>3. DocsClosed(Tail(s)) /\ UpdatesClosed(agg.updates, disk.lastRemote, Tail(s))
    <3>1. PICK updates \in [Keys -> Nat] : updates = client.agg.updates
      BY <1>1
    <3>2. PICK updates2 : updates2 = agg.updates
      OBVIOUS
    <3>3. PICK last \in Nat : last = disk.lastRemote
      BY <1>1
    <3>4. last <= last
      OBVIOUS
    <3>5. s[1].type = "snapshot" => s[1].version <= last
      BY <1>6, <3>3
    <3>6. \A k \in Keys : \/ updates2[k] = updates[k]
                          \/ s[1].type = "document" /\ updates2[k] = s[1].version
                          \/ updates2[k] = 0
      BY <2>2, <3>1, <3>2
    <3>7. DocsClosed(s) /\ UpdatesClosed(updates, last, s)
      BY <2>1, <3>1, <3>3
    <3>8. DocsClosed(Tail(s)) /\ UpdatesClosed(updates2, last, Tail(s))
      BY <1>6, <3>4, <3>5, <3>6, <3>7, HeadCloses
    <3> QED
      BY <3>2, <3>3, <3>8
  <2> QED
    BY <1>4, <1>6, <2>3 DEF UpdatesOK
<1>9. CurrentOK(client', disk', wire', commits')
  <2> SUFFICES ASSUME client'.view.current
               PROVE  /\ client'.listening
                      /\ DiskCovers(disk', commits', disk'.lastRemote)
                      /\ Uninterrupted(wire')
    BY DEF CurrentOK
  <2>1. /\ client.listening /\ DiskCovers(disk, commits, disk.lastRemote)
        /\ Uninterrupted(wire)
    BY <1>4 DEF ViewInv, CurrentOK, SameView
  <2>2. ASSUME NEW p \in 1..(Len(s) - 1), Tail(s)[p].type = "snapshot"
        PROVE  Fresh(Tail(s), p)
    <3>1. p + 1 \in 1..Len(s) /\ s[p + 1].type = "snapshot" /\ p \in Nat /\ p >= 1
      BY <1>6, <2>2
    <3>2. Fresh(s, p + 1)
      BY <1>5, <2>1, <3>1 DEF Uninterrupted
    <3> QED
      BY <1>7, <3>1, <3>2
  <2>3. wire.requests = <<>>
    BY <1>5, <1>6, <2>1 DEF Uninterrupted
  <2>4. Uninterrupted(wire')
    BY <1>6, <2>2, <2>3 DEF Uninterrupted
  <2> QED
    BY <1>3, <1>4, <2>1, <2>4 DEF SameView
<1>10. AckedSeen(client', disk', wire')
  <2> SUFFICES ASSUME client'.listening, NEW k \in Keys,
                      client'.view.docs[k].state = "committed", disk'.cache[k].byAck
               PROVE  /\ client'.view.current =>
                           disk'.cache[k].version <= disk'.lastRemote
                      /\ wire'.requests = <<>> =>
                           \A p \in 1..Len(wire'.responses) :
                             FreshSnapshot(wire'.responses, p) =>
                               wire'.responses[p].version >= disk'.cache[k].version
    BY DEF AckedSeen
  <2>1. /\ client.view.current => disk.cache[k].version <= disk.lastRemote
        /\ wire.requests = <<>> =>
             \A p \in 1..Len(s) : FreshSnapshot(s, p) =>
               s[p].version >= disk.cache[k].version
    BY <1>4, <1>5 DEF ViewInv, AckedSeen, SameView
  <2>2. ASSUME wire'.requests = <<>>, NEW p \in 1..(Len(s) - 1), FreshSnapshot(Tail(s), p)
        PROVE  Tail(s)[p].version >= disk.cache[k].version
    <3>1. p + 1 \in 1..Len(s) /\ Tail(s)[p] = s[p + 1]
      BY <1>6
    <3>2. FreshSnapshot(s, p + 1)
      BY <1>7, <2>2
    <3> QED
      BY <1>6, <2>1, <2>2, <3>1, <3>2
  <2> QED
    BY <1>4, <1>6, <2>1, <2>2 DEF SameView
<1> QED
  BY <1>4, <1>8, <1>9, <1>10, SameDataOwn, SameViewFits DEF ViewInv

LEMMA HandleTargetChangeView ==
  ASSUME WatchInv, ViewInv, HandleTargetChange
  PROVE  ViewInv'
<1>1. /\ TypeOK /\ Online \in Client /\ Online.agg = client.agg /\ UNCHANGED disk
  <2>1. TypeOK /\ client \in Client
    BY DEF WatchInv, TypeOK
  <2>2. Online \in Client /\ ListenerOf(Online) = ListenerOf(client)
    BY <2>1, OnlineQuiet
  <2> QED
    BY <2>1, <2>2, ListenerFieldsOf DEF HandleTargetChange
<1>2. CASE OnWatchStreamChange("added") /\ client' = TargetAdded(Online)
  <2>1. PICK agg : Gathers(Online, client', agg) /\ agg.updates = client.agg.updates
    BY <1>1, <1>2, TargetAddedAnswers DEF Answered
  <2> QED
    BY <1>1, <1>2, <2>1, HeadView
<1>3. CASE OnWatchStreamChange("removed") /\ client' = TargetRemoved(Online)
  <2>1. PICK agg : Gathers(Online, client', agg) /\ agg.updates = client.agg.updates
    BY <1>1, <1>3, TargetRemovedAnswers DEF Answered
  <2> QED
    BY <1>1, <1>3, <2>1, HeadView
<1>4. CASE OnWatchStreamChange("current") /\ client' = TargetCurrent(Online, Version)
  <2>1. Version \in Nat
    BY <1>1, <1>4, ResponseTaken
  <2>2. PICK agg : Gathers(Online, client', agg) /\ agg.updates = client.agg.updates
    BY <1>1, <1>4, <2>1, TargetCurrentTold DEF Told
  <2> QED
    BY <1>1, <1>4, <2>2, HeadView
<1>5. CASE /\ OnWatchStreamChange("reset")
           /\ client' = IF IsActive(Online) THEN ResetTarget(Online) ELSE Online
  <2>1. PICK agg : Gathers(Online, client', agg) /\ agg.updates = client.agg.updates
    <3>1. CASE IsActive(Online)
      BY <1>1, <1>5, <3>1, ResetTargetGathers
    <3>2. CASE ~IsActive(Online)
      <4>1. Gathers(Online, client', client.agg)
        BY <1>1, <1>5, <3>2, ClientFields DEF Gathers
      <4> QED
        BY <4>1
    <3> QED
      BY <3>1, <3>2
  <2> QED
    BY <1>1, <1>5, <2>1, HeadView
<1> QED
  BY <1>2, <1>3, <1>4, <1>5 DEF HandleTargetChange

LEMMA HoldBackSnapshotView ==
  ASSUME WatchInv, ViewInv, HoldBackSnapshot
  PROVE  ViewInv'
<1>1. TypeOK /\ OnWatchStreamChange("snapshot") /\ UNCHANGED disk
      /\ Version < disk.lastRemote /\ client' = TargetNoChange(Online, Version)
  BY DEF WatchInv, HoldBackSnapshot
<1>2. /\ Online \in Client /\ Online.agg = client.agg /\ disk \in Disk
  <2>1. Online \in Client /\ ListenerOf(Online) = ListenerOf(client) /\ client \in Client
    BY <1>1, OnlineQuiet DEF TypeOK
  <2> QED
    BY <1>1, <2>1, ListenerFieldsOf DEF TypeOK
<1>3. Version \in Nat /\ Version <= disk.lastRemote
  <2>1. Version \in Nat
    BY <1>1, ResponseTaken
  <2> QED
    BY <1>1, <1>2, <2>1 DEF Disk
<1>4. PICK agg : Gathers(Online, client', agg) /\ agg.updates = client.agg.updates
  BY <1>1, <1>2, <1>3, TargetNoChangeTold DEF Told
<1> QED
  BY <1>1, <1>3, <1>4, HeadView

LEMMA HandleDocumentChangeView ==
  ASSUME WatchInv, ViewInv, HandleDocumentChange
  PROVE  ViewInv'
<1>1. TypeOK /\ client \in Client
  BY DEF WatchInv, TypeOK
<1>2. /\ OnWatchStreamChange("document") /\ UNCHANGED disk
      /\ client' = AddDocumentToTarget(Online, Head(wire.responses).key, Version)
  BY DEF HandleDocumentChange
<1>3. /\ Online \in Client /\ ListenerOf(Online) = ListenerOf(client)
      /\ Online.agg = client.agg
  BY <1>1, OnlineQuiet, ListenerFieldsOf
<1>4. /\ wire.responses[1].type = "document"
      /\ Head(wire.responses) = wire.responses[1] /\ Version \in Nat
      /\ wire.responses[1] \in Responses
  BY <1>1, <1>2, ResponseTaken
<1>5. PICK k \in Keys : k = wire.responses[1].key
  BY <1>4 DEF Responses, Messages, Documents
<1>6. PICK agg : /\ Gathers(Online, client', agg)
                 /\ DocumentGathered(ListenerOf(Online), client.agg, agg, k, Version)
  BY <1>2, <1>3, <1>4, <1>5, DocumentAdded
<1>7. \A j \in Keys : \/ agg.updates[j] = client.agg.updates[j]
                      \/ agg.updates[j] = Version
  BY <1>6 DEF DocumentGathered
<1> QED
  BY <1>2, <1>6, <1>7, HeadView

\* The target is asked for on a stream that has just opened.
LEMMA OnWatchStreamOpenView ==
  ASSUME WatchInv, ViewInv, OnWatchStreamOpen
  PROVE  ViewInv'
<1>1. /\ StreamInv(ListenerOf(client), disk, wire, commits)
      /\ client \in Client /\ disk \in Disk /\ disk.lastRemote \in Nat
  BY DEF WatchInv, TypeOK, Disk
<1>2. client.stream = "starting" /\ UNCHANGED <<commits, writes, acked, disk>>
  BY DEF OnWatchStreamOpen
<1>3. client.agg = NewAggregator
  BY <1>1, <1>2 DEF StreamInv, StreamOK, ListenerOf
<1>4. PICK open : open = [client EXCEPT !.stream = "open"]
  OBVIOUS
<1>5. /\ open \in Client /\ open.listening = client.listening /\ open.stream = "open"
      /\ open.view = client.view /\ open.agg = client.agg
  BY <1>1, <1>4 DEF Client
<1>6. PICK agg : Gathers(open, client', agg) /\ agg.updates = client.agg.updates
  <2>1. CASE client.listening
    <3>1. client' = RecordPendingTargetRequest(open)
      BY <1>4, <2>1 DEF OnWatchStreamOpen
    <3> QED
      BY <1>5, <3>1, RequestRecorded
  <2>2. CASE ~client.listening
    <3>1. client' = open
      BY <1>4, <2>2 DEF OnWatchStreamOpen
    <3>2. Gathers(open, open, client.agg)
      BY <1>1, <1>5, ClientFields DEF Gathers
    <3> QED
      BY <3>1, <3>2
  <2> QED
    BY <2>1, <2>2
<1>7. /\ wire'.responses = <<>> /\ ~wire'.serving
      /\ wire'.requests # <<>> => Len(wire'.requests) = 1
  <2>1. CASE client.listening
    <3>1. PICK asked : asked = <<WatchRequest(client)>>
      OBVIOUS
    <3>2. wire' = [NoWire EXCEPT !.requests = asked]
      BY <2>1, <3>1 DEF OnWatchStreamOpen
    <3>3. wire'.responses = <<>> /\ ~wire'.serving /\ wire'.requests = asked
      BY <3>2 DEF NoWire
    <3>4. Len(asked) = 1
      BY <3>1
    <3> QED
      BY <3>3, <3>4
  <2>2. CASE ~client.listening
    <3>1. wire' = NoWire
      BY <2>2 DEF OnWatchStreamOpen
    <3> QED
      BY <3>1, NoWireType
  <2> QED
    BY <2>1, <2>2
<1>8. SameView(client, client') /\ SameData /\ client'.agg = agg
  BY <1>2, <1>5, <1>6 DEF SameView, SameData, Gathers
<1>9. Len(wire'.responses) = 0
  BY <1>7
<1>10. UpdatesOK(client', disk', wire')
  <2>1. \A k \in Keys : agg.updates[k] = 0
    BY <1>3, <1>6 DEF NewAggregator
  <2>2. UpdatesClosed(agg.updates, disk.lastRemote, wire'.responses)
    BY <1>1, <2>1 DEF UpdatesClosed
  <2>3. DocsClosed(wire'.responses)
    BY <1>9 DEF DocsClosed
  <2> QED
    BY <1>2, <1>8, <2>2, <2>3 DEF UpdatesOK
<1>11. CurrentOK(client', disk', wire', commits')
  <2>1. Uninterrupted(wire')
    BY <1>7, <1>9 DEF Uninterrupted
  <2> QED
    BY <1>2, <1>8, <2>1 DEF ViewInv, CurrentOK, SameView
<1>12. AckedSeen(client', disk', wire')
  BY <1>2, <1>8, <1>9 DEF ViewInv, AckedSeen, SameView
<1> QED
  BY <1>8, <1>10, <1>11, <1>12, SameDataOwn, SameViewFits DEF ViewInv

LEMMA StopListeningView ==
  ASSUME WatchInv, ViewInv, StopListening
  PROVE  ViewInv'
<1>1. client \in Client /\ disk \in Disk /\ wire \in Wire
  BY DEF WatchInv, TypeOK
<1>2. SameData
  <2>1. client.token \in Nat
    BY <1>1, ClientFields
  <2>2. UNCHANGED <<commits, writes, acked>> /\ disk' = [disk EXCEPT !.token = client.token]
    BY DEF StopListening
  <2> QED
    BY <1>1, <2>1, <2>2 DEF Disk, SameData
<1>3. PICK gone : gone = [client EXCEPT !.listening = FALSE, !.token = 0,
                                        !.view = NoView, !.raised = FALSE]
  OBVIOUS
<1>4. NoView \in View /\ ~NoView.current
  BY NewClientType, ClientFields DEF NoView
<1>5. /\ gone \in Client /\ ~gone.listening /\ ~gone.view.current
      /\ gone.stream = client.stream /\ gone.agg = client.agg
  BY <1>1, <1>3, <1>4 DEF Client
<1>6. CASE client.stream = "open"
  <2>1. PICK c : c = RecordPendingTargetRequest(gone)
    OBVIOUS
  <2>2. PICK agg : Gathers(gone, c, agg) /\ agg.updates = client.agg.updates
    BY <1>5, <2>1, RequestRecorded
  <2>3. client' = [c EXCEPT !.idle = TRUE]
    BY <1>3, <1>6, <2>1 DEF StopListening, StopTarget
  <2>4. /\ ~client'.listening /\ ~client'.view.current
        /\ client'.agg.updates = client.agg.updates
    BY <1>5, <2>2, <2>3 DEF Gathers, Client
  <2>5. wire'.responses = wire.responses
    <3>1. Send(UnwatchRequest) /\ UnwatchRequest \in Requests
      BY <1>3, <1>6 DEF StopListening, StopTarget, UnwatchRequest, Requests
    <3> QED
      BY <1>1, <3>1, RequestSent DEF Send
  <2>6. UpdatesOK(client', disk', wire')
    BY <1>2, <1>6, <2>4, <2>5 DEF ViewInv, UpdatesOK, SameData
  <2> QED
    BY <1>2, <2>4, <2>6, NoListenerView
<1>7. CASE client.stream # "open"
  <2>1. client' = UpdateState(gone, "Unknown")
    BY <1>3, <1>7 DEF StopListening, StopTarget
  <2>2. Quiet(gone, client')
    BY <1>5, <2>1, UpdateStateQuiet DEF OnlineStates
  <2>3. ~client'.listening /\ ~client'.view.current /\ client'.stream # "open"
    BY <1>5, <1>7, <2>2, SameListener DEF Quiet
  <2>4. UpdatesOK(client', disk', wire')
    BY <2>3 DEF UpdatesOK
  <2> QED
    BY <1>2, <2>3, <2>4, NoListenerView
<1> QED
  BY <1>6, <1>7

-----------------------------------------------------------------------------
(* The server *)

LEMMA DeviceMade ==
  ASSUME WatchInv
  PROVE  /\ TypeOK /\ client \in Client /\ disk \in Disk /\ wire \in Wire
         /\ commits \in Seq(Commits) /\ writes \in Seq(Keys) /\ acked \in Nat
         /\ disk.cache \in [Keys -> Cached] /\ disk.lastRemote \in Nat
         /\ disk.lastRemote \in 0..Len(commits)
         /\ StreamInv(ListenerOf(client), disk, wire, commits)
         /\ CacheMade(disk, commits)
         /\ DocsMade(commits, disk.cache, writes, acked)
<1>1. /\ TypeOK /\ client \in Client /\ disk \in Disk /\ wire \in Wire
      /\ commits \in Seq(Commits) /\ writes \in Seq(Keys) /\ acked \in Nat
      /\ disk.cache \in [Keys -> Cached] /\ disk.lastRemote \in Nat
      /\ StreamInv(ListenerOf(client), disk, wire, commits)
      /\ CacheMade(disk, commits)
  BY DEF WatchInv, TypeOK, Disk, MadeOK
<1>2. disk.lastRemote <= Len(commits) /\ Len(commits) \in Nat
  BY <1>1, LenProperties DEF StreamInv, Bounds
<1> QED
  BY <1>1, <1>2 DEF DocsMade, CacheMade

LEMMA SentCloses ==
  ASSUME WatchInv, ViewInv, NEW more \in Seq(Responses), DocsClosed(more),
         wire'.responses = wire.responses \o more, UNCHANGED <<client, disk>>
  PROVE  UpdatesOK(client, disk, wire)'
<1>1. PICK s : s = wire.responses
  OBVIOUS
<1>2. s \in Seq(Responses)
  BY <1>1, DeviceMade, WireType
<1>3. Joined(s, more, s \o more)
  BY <1>2, Join
<1>4. CASE client.stream = "open"
  <2>1. DocsClosed(s) /\ UpdatesClosed(client.agg.updates, disk.lastRemote, s)
    BY <1>1, <1>4 DEF ViewInv, UpdatesOK
  <2>2. /\ DocsClosed(s \o more)
        /\ UpdatesClosed(client.agg.updates, disk.lastRemote, s \o more)
    BY <1>2, <1>3, <2>1, MoreCloses
  <2> QED
    BY <1>1, <2>2 DEF UpdatesOK
<1>5. CASE client.stream # "open"
  BY <1>5 DEF UpdatesOK
<1> QED
  BY <1>4, <1>5

LEMMA ServeAnswersView ==
  ASSUME WatchInv, ViewInv, ServeListen \/ ServeUnlisten
  PROVE  ViewInv'
<1>1. PICK more : AnswerSent(more)
  BY ServeListenAnswers, ServeUnlistenAnswers
<1>2. /\ wire.requests # <<>> /\ UNCHANGED <<commits, writes, acked, disk, client>>
      /\ wire'.requests = Tail(wire.requests)
  BY <1>1 DEF AnswerSent, AnsweredWith
<1>3. /\ more \in Seq(Responses) /\ Len(more) \in {1, 2} /\ Answers(more) = {1}
      /\ \A i \in 1..Len(more) : more[i].type \in {"added", "removed", "reset"}
  BY <1>1, AnswerAlone DEF AnswerSent
<1>4. PICK s : s = wire.responses
  OBVIOUS
<1>5. PICK t : t = s \o more
  OBVIOUS
<1>6. /\ s \in Seq(Responses) /\ Len(s) \in Nat /\ wire'.responses = t
      /\ wire.requests \in Seq(Requests)
  BY <1>1, <1>4, <1>5, DeviceMade, WireType DEF AnswerSent, AnsweredWith
<1>7. /\ Len(t) = Len(s) + Len(more)
      /\ \A i \in 1..Len(s) : t[i] = s[i]
      /\ \A i \in 1..Len(more) : t[Len(s) + i] = more[i]
      /\ Answers(t) = Answers(s) \cup {Len(s) + 1}
  BY <1>3, <1>5, <1>6, OneAnswer, Join DEF Joined
<1>8. ASSUME NEW p \in 1..Len(t), FreshSnapshot(t, p) PROVE FALSE
  <2>1. Len(s) + 1 < p /\ t[p].type = "snapshot"
    BY <1>7, <1>8 DEF FreshSnapshot, Fresh
  <2>2. p - Len(s) \in 1..Len(more) /\ p = Len(s) + (p - Len(s))
    BY <1>3, <1>6, <1>7, <2>1
  <2>3. t[p] = more[p - Len(s)]
    BY <1>7, <2>2
  <2> QED
    BY <1>3, <2>1, <2>2, <2>3
<1>9. UpdatesOK(client', disk', wire')
  <2>1. DocsClosed(more)
    BY <1>3 DEF DocsClosed
  <2> QED
    BY <1>2, <1>3, <1>4, <1>5, <1>6, <2>1, SentCloses
<1>10. CurrentOK(client', disk', wire', commits')
  <2> SUFFICES ASSUME client.view.current, client.stream = "open"
               PROVE  Uninterrupted(wire')
    BY <1>2 DEF ViewInv, CurrentOK
  <2>1. Len(wire.requests) = 1 /\ s = <<>>
    BY <1>2, <1>4 DEF ViewInv, CurrentOK, Uninterrupted
  <2>2. wire'.requests = <<>>
    <3>1. Tail(wire.requests) \in Seq(Requests) /\ Len(Tail(wire.requests)) = 0
      BY <1>2, <1>6, <2>1, HeadTailProperties
    <3> QED
      BY <1>2, <3>1, EmptySeq
  <2>3. ASSUME NEW p \in 1..Len(t), t[p].type = "snapshot" PROVE FALSE
    <3>1. Len(s) = 0
      BY <2>1
    <3>2. p \in 1..Len(more) /\ t[p] = more[p]
      BY <1>3, <1>7, <3>1
    <3> QED
      BY <1>3, <2>3, <3>2
  <2> QED
    BY <1>6, <2>2, <2>3 DEF Uninterrupted
<1>11. AckedSeen(client', disk', wire')
  <2>1. \A p \in 1..Len(wire'.responses) : ~FreshSnapshot(wire'.responses, p)
    BY <1>6, <1>8
  <2> QED
    BY <1>2, <2>1 DEF ViewInv, AckedSeen
<1>12. SameData /\ SameView(client, client')
  BY <1>2 DEF SameData, SameView
<1> QED
  BY <1>9, <1>10, <1>11, <1>12, SameDataOwn, SameViewFits DEF ViewInv

LEMMA ServeChangesView ==
  ASSUME WatchInv, ViewInv, ServeChanges
  PROVE  ViewInv'
<1>1. PICK last, more : RoundServed(last, more)
  BY ServeSendsRound
<1>2. /\ wire.serving /\ last \in 0..Len(commits) /\ wire.upTo <= last
      /\ \A v \in Own : commits[v].own <= acked => v <= last
      /\ Round(more, commits, wire.upTo, last) /\ more \in Seq(Responses)
      /\ wire'.requests = wire.requests /\ wire'.responses = wire.responses \o more
      /\ UNCHANGED <<commits, writes, acked, disk, client>>
  BY <1>1 DEF RoundServed, RoundSent
<1>3. PICK s : s = wire.responses
  OBVIOUS
<1>4. PICK t : t = s \o more
  OBVIOUS
<1>5. /\ s \in Seq(Responses) /\ Len(s) \in Nat /\ wire'.responses = t
      /\ commits \in Seq(Commits)
  BY <1>2, <1>3, <1>4, DeviceMade, WireType
<1>6. Behind(s, more, t)
  BY <1>2, <1>4, <1>5, RoundFresh
<1>7. ASSUME NEW p \in 1..Len(t), t[p].type = "snapshot"
      PROVE  \/ p \in 1..Len(s) /\ t[p] = s[p] /\ (Fresh(t, p) <=> Fresh(s, p))
             \/ Fresh(t, p) /\ t[p].version = last
  <2>1. CASE p \in 1..Len(s)
    BY <1>6, <2>1 DEF Behind
  <2>2. CASE p \notin 1..Len(s)
    <3>1. PICK j \in 1..Len(more) : p = Len(s) + j
      BY <1>6, <2>2 DEF Behind
    <3>2. t[p] = more[j] /\ j \in Nat
      BY <1>6, <3>1 DEF Behind
    <3>3. more[j].version = last
      BY <1>2, <1>7, <3>2 DEF Round
    <3>4. p \in Nat /\ p > Len(s)
      BY <1>5, <3>1, <3>2
    <3>5. Fresh(t, p)
      BY <1>6, <3>4 DEF Behind
    <3> QED
      BY <3>2, <3>3, <3>5
  <2> QED
    BY <2>1, <2>2
<1>8. UpdatesOK(client', disk', wire')
  <2>1. DocsClosed(more)
    BY <1>2, RoundCloses
  <2> QED
    BY <1>2, <2>1, SentCloses
<1>9. CurrentOK(client', disk', wire', commits')
  <2> SUFFICES ASSUME client.view.current, client.stream = "open"
               PROVE  Uninterrupted(wire')
    BY <1>2 DEF ViewInv, CurrentOK
  <2>1. Uninterrupted(wire)
    BY DEF ViewInv, CurrentOK
  <2>2. wire.requests = <<>>
    BY <1>2, <2>1 DEF Uninterrupted
  <2>3. \A p \in 1..Len(t) : t[p].type = "snapshot" => Fresh(t, p)
    BY <1>3, <1>7, <2>1 DEF Uninterrupted
  <2> QED
    BY <1>2, <1>5, <2>2, <2>3 DEF Uninterrupted
<1>10. AckedSeen(client', disk', wire')
  <2> SUFFICES ASSUME client.listening, NEW k \in Keys,
                      client.view.docs[k].state = "committed", disk.cache[k].byAck,
                      client.stream = "open", wire.requests = <<>>,
                      NEW p \in 1..Len(t), FreshSnapshot(t, p)
               PROVE  t[p].version >= disk.cache[k].version
    BY <1>2, <1>5 DEF ViewInv, AckedSeen
  <2>1. Fresh(t, p) /\ t[p].type = "snapshot"
    BY DEF FreshSnapshot
  <2>2. CASE p \in 1..Len(s) /\ t[p] = s[p] /\ (Fresh(t, p) <=> Fresh(s, p))
    <3>1. FreshSnapshot(s, p)
      BY <2>1, <2>2 DEF FreshSnapshot
    <3> QED
      BY <1>3, <2>2, <3>1 DEF ViewInv, AckedSeen
  <2>3. CASE t[p].version = last
    <3>1. PICK v : v = disk.cache[k].version
      OBVIOUS
    <3>2. v # 0 /\ commits[v].own \in 1..acked /\ v \in 1..Len(commits)
      <4>1. v # 0 /\ commits[v].own \in 1..acked
        BY <3>1 DEF ViewInv, CacheOK
      <4>2. CacheMade(disk, commits)
        BY DeviceMade
      <4> QED
        BY <3>1, <4>1, <4>2 DEF CacheMade, Made
    <3>3. acked \in Nat
      BY DeviceMade
    <3>4. commits[v].own # 0 /\ commits[v].own <= acked
      BY <3>2, <3>3
    <3>5. v \in OwnCommits(commits)
      BY <3>2, <3>4 DEF OwnCommits
    <3>6. v \in Own
      BY <3>5, OwnIs, DeviceMade
    <3>7. v <= last
      BY <1>2, <3>4, <3>6
    <3>8. v \in Nat /\ last \in Nat
      BY <1>2, <1>5, <3>2, LenProperties
    <3> QED
      BY <2>3, <3>1, <3>7, <3>8
  <2> QED
    BY <1>7, <2>1, <2>2, <2>3
<1>11. SameData /\ SameView(client, client')
  BY <1>2 DEF SameData, SameView
<1> QED
  BY <1>8, <1>9, <1>10, <1>11, SameDataOwn, SameViewFits DEF ViewInv

LEMMA CommitView ==
  ASSUME WatchInv, ViewInv, NEW e \in Commits, commits' = Append(commits, e),
         UNCHANGED <<writes, acked, disk, client, wire>>,
         e.own # 0 => /\ e.own = Cardinality(OwnCommits(commits)) + 1
                      /\ e.own <= Len(writes) /\ writes[e.own] = e.key
  PROVE  ViewInv'
<1>1. /\ commits \in Seq(Commits) /\ writes \in Seq(Keys) /\ acked \in Nat
      /\ disk \in Disk /\ disk.lastRemote \in 0..Len(commits) /\ CacheMade(disk, commits)
      /\ DocsMade(commits, disk.cache, writes, acked)
  BY DeviceMade
<1>2. OwnOK(commits', writes', acked')
  <2>1. OwnOK(commits, writes, acked)
    BY DEF ViewInv
  <2>2. OwnOK(commits', writes, acked)
    BY <1>1, <2>1, CommitKeepsOwn
  <2> QED
    BY <2>2
<1>3. CacheOK(disk', commits', acked')
  <2> SUFFICES ASSUME NEW k \in Keys
               PROVE  IF disk.cache[k].byAck
                      THEN /\ disk.cache[k].version # 0
                           /\ commits'[disk.cache[k].version].own \in 1..acked
                      ELSE disk.cache[k].version <= disk.lastRemote
    BY DEF CacheOK
  <2>1. IF disk.cache[k].byAck
        THEN /\ disk.cache[k].version # 0
             /\ commits[disk.cache[k].version].own \in 1..acked
        ELSE disk.cache[k].version <= disk.lastRemote
    BY DEF ViewInv, CacheOK
  <2>2. CASE disk.cache[k].byAck
    <3>1. disk.cache[k].version \in 1..Len(commits)
      BY <1>1, <2>1, <2>2 DEF CacheMade, Made
    <3>2. commits'[disk.cache[k].version] = commits[disk.cache[k].version]
      BY <1>1, <3>1, AppendProperties
    <3> QED
      BY <2>1, <2>2, <3>2
  <2>3. CASE ~disk.cache[k].byAck
    BY <2>1, <2>3
  <2> QED
    BY <2>2, <2>3
<1>4. UpdatesOK(client', disk', wire')
  BY DEF ViewInv, UpdatesOK
<1>5. ViewOK(client', DocsOf(commits', disk'.cache, writes', acked'))
  <2>2. DocsOf(commits', disk.cache, writes, acked) =
          DocsOf(commits, disk.cache, writes, acked)
    BY <1>1, CommitKeepsDocs
  <2>3. ViewOK(client, DocsOf(commits, disk.cache, writes, acked))
    BY DEF ViewInv
  <2>4. ViewOK(client, DocsOf(commits', disk.cache, writes, acked))
    BY <2>2, <2>3
  <2> QED
    BY <2>4
<1>6. CurrentOK(client', disk', wire', commits')
  <2>1. CASE client.view.current
    <3>1. DiskCovers(disk, commits, disk.lastRemote)
      BY <2>1 DEF ViewInv, CurrentOK
    <3>2. DiskCovers(disk, commits', disk.lastRemote)
      BY <1>1, <3>1, DiskCoversLater
    <3> QED
      BY <2>1, <3>2 DEF ViewInv, CurrentOK
  <2>2. CASE ~client.view.current
    BY <2>2 DEF CurrentOK
  <2> QED
    BY <2>1, <2>2
<1>7. AckedSeen(client', disk', wire')
  BY DEF ViewInv, AckedSeen
<1> QED
  BY <1>2, <1>3, <1>4, <1>5, <1>6, <1>7 DEF ViewInv

LEMMA CommitOtherView ==
  ASSUME WatchInv, ViewInv, NEW k \in Keys, CommitOther(k)
  PROVE  ViewInv'
<1>1. PICK e : e = [key |-> k, own |-> 0]
  OBVIOUS
<1>2. e \in Commits /\ e.own = 0
  BY <1>1 DEF Commits
<1>3. commits' = Append(commits, e) /\ UNCHANGED <<writes, acked, disk, client, wire>>
  BY <1>1 DEF CommitOther, Commit
<1> QED
  BY <1>2, <1>3, CommitView

\* The device's oldest write that is not committed is the next commit.
CommitsOwn(e) ==
  /\ e \in Commits /\ commits' = Append(commits, e)
  /\ e.own = Cardinality(OwnCommits(commits)) + 1
  /\ e.own <= Len(writes) /\ writes[e.own] = e.key

LEMMA CommitOwnAppends ==
  ASSUME WatchInv, CommitOwn
  PROVE  \E e : CommitsOwn(e)
<1>1. PICK done : done = Cardinality(Own)
  OBVIOUS
<1>2. done = Cardinality(OwnCommits(commits)) /\ done \in Nat
  BY <1>1, DeviceMade, OwnIs, OwnCommitsFinite
<1>3. done < Len(writes) /\ Commit(writes[done + 1], done + 1)
  BY <1>1 DEF CommitOwn
<1>4. writes \in Seq(Keys) /\ Len(writes) \in Nat
  BY DeviceMade, LenProperties
<1>5. done + 1 \in 1..Len(writes)
  BY <1>2, <1>3, <1>4
<1>6. PICK k \in Keys : k = writes[done + 1]
  BY <1>4, <1>5, ElementOfSeq
<1>7. PICK e : e = [key |-> k, own |-> done + 1]
  OBVIOUS
<1>8. e \in Commits /\ e.own = done + 1 /\ e.key = k
  BY <1>2, <1>7 DEF Commits
<1>9. commits' = Append(commits, e)
  BY <1>3, <1>6, <1>7 DEF Commit
<1>10. e.own <= Len(writes) /\ writes[e.own] = e.key
  BY <1>5, <1>6, <1>8
<1> QED
  BY <1>2, <1>8, <1>9, <1>10 DEF CommitsOwn

LEMMA CommitOwnView ==
  ASSUME WatchInv, ViewInv, CommitOwn
  PROVE  ViewInv'
<1>1. PICK e : CommitsOwn(e)
  BY CommitOwnAppends
<1>2. UNCHANGED <<writes, acked, disk, client, wire>>
  BY DEF CommitOwn, Commit
<1> QED
  BY <1>1, <1>2, CommitView DEF CommitsOwn

-----------------------------------------------------------------------------
(* The chat screen and the device's writes *)

\* The view when documents are emitted without a target change.
EmitsDocs(c, d, D, new) ==
  /\ d \in Client /\ d.listening = c.listening /\ d.stream = c.stream /\ d.agg = c.agg
  /\ ~c.listening => d = c
  /\ c.listening => Shows(d.view, c.view, D, new, NoChange)
  /\ d.view.current = c.view.current
  /\ d.shown = c.shown \/ (d.listening /\ d.shown = Contents(d.view))

LEMMA EmitShows ==
  ASSUME NEW c \in Client, NEW D \in SUBSET Keys, NEW new \in [D -> Doc],
         NEW d, d = EmitNewSnapshots(c, new, NoChange)
  PROVE  EmitsDocs(c, d, D, new)
<1>1. NoChange \in Change /\ ~NoChange.any
  BY DEF NoChange, Change
<1>2. Emits(c, d, new, NoChange)
  BY <1>1, EmitsSnapshot
<1>3. CASE ~c.listening
  BY <1>2, <1>3 DEF Emits, EmitsDocs
<1>4. CASE c.listening
  <2>1. c.view \in View
    BY ClientFields
  <2>2. Shows(NextView(c.view, new, NoChange), c.view, D, new, NoChange)
    BY <1>1, <2>1, NextViewShows
  <2>3. d.view = NextView(c.view, new, NoChange)
    BY <1>2, <1>4 DEF Emits
  <2>4. Shows(d.view, c.view, D, new, NoChange) /\ d.view.current = c.view.current
    BY <1>1, <2>2, <2>3 DEF Shows
  <2> QED
    BY <1>2, <1>4, <2>4 DEF Emits, EmitsDocs
<1> QED
  BY <1>3, <1>4

\* A step that emits the document of k.
LEMMA EmittedFits ==
  ASSUME NEW c \in Client, NEW d, NEW D, NEW new, EmitsDocs(c, d, D, new),
         NEW h, NEW h2, DocsStep(D, new, h, h2), ViewOK(c, h)
  PROVE  /\ ViewOK(d, h2)
         /\ d.listening => \A k \in Keys : d.view.docs[k].state = "committed" =>
                             d.view.docs[k] = c.view.docs[k]
<1>1. CASE ~c.listening
  BY <1>1 DEF EmitsDocs, ViewOK
<1>2. CASE c.listening
  <2>1. c.view \in View /\ FitsAll(c.view, h)
    BY <1>2, ClientFields DEF ViewOK
  <2>2. PICK view : view = d.view
    OBVIOUS
  <2>3. PICK v : v = c.view
    OBVIOUS
  <2>4. Shows(view, v, D, new, NoChange)
    BY <1>2, <2>2, <2>3 DEF EmitsDocs
  <2>5. /\ FitsAll(view, h2)
        /\ \A k \in Keys : view.docs[k].state = "committed" => view.docs[k] = v.docs[k]
    <3>1. v \in View /\ FitsAll(v, h)
      BY <2>1, <2>3
    <3> QED
      BY <2>4, <3>1, ShowsFits
  <2> QED
    BY <1>2, <2>2, <2>3, <2>5 DEF ViewOK
<1> QED
  BY <1>1, <1>2

\* The documents on the device are well made.
LEMMA DocsWellMade ==
  ASSUME ConstantsAssumption, NEW log, NEW cache, NEW stored, NEW done,
         DocsMade(log, cache, stored, done)
  PROVE  \A k \in Keys : WellMade(DocsOf(log, cache, stored, done)[k])
BY DocWellMade DEF DocsOf

LEMMA WriteMutationsView ==
  ASSUME ConstantsAssumption, WatchInv, ViewInv, NEW k \in Keys, WriteMutations(k)
  PROVE  ViewInv'
<1>1. /\ TypeOK /\ CacheMade(disk, commits)
      /\ client \in Client /\ disk \in Disk /\ commits \in Seq(Commits)
      /\ writes \in Seq(Keys) /\ acked \in Nat /\ disk.cache \in [Keys -> Cached]
      /\ DocsMade(commits, disk.cache, writes, acked) /\ MaxOwn \in Nat
  BY DeviceMade DEF ConstantsAssumption
<1>2. PICK stored2 : stored2 = Append(writes, k)
  OBVIOUS
<1>3. /\ writes' = stored2 /\ UNCHANGED <<commits, acked, disk, wire>>
      /\ Len(writes) < MaxOwn /\ stored2 \in Seq(Keys)
  BY <1>1, <1>2, AppendProperties DEF WriteMutations
<1>4. PICK D : D = {k}
  OBVIOUS
<1>5. PICK new : new = [j \in D |-> LocalDoc(disk.cache, stored2, acked, j)]
  OBVIOUS
<1>6. new \in [D -> Doc]
  <2>1. disk.cache[k].version # 0 => Made(commits, k, disk.cache[k].version)
    BY <1>1 DEF CacheMade
  <2>2. LocalDoc(disk.cache, stored2, acked, k) \in Doc
    BY <1>1, <1>3, <2>1, LocalDocType
  <2> QED
    BY <1>4, <1>5, <2>2
<1>7. client' = EmitNewSnapshots(client, new, NoChange)
  BY <1>3, <1>4, <1>5 DEF WriteMutations
<1>8. PICK d : d = client'
  OBVIOUS
<1>9. EmitsDocs(client, d, D, new)
  BY <1>1, <1>4, <1>6, <1>7, <1>8, EmitShows
<1>10. PICK h : h = DocsOf(commits, disk.cache, writes, acked)
  OBVIOUS
<1>11. PICK h2 : h2 = DocsOf(commits, disk.cache, stored2, acked)
  OBVIOUS
<1>12. \A j \in Keys : WellMade(h[j]) /\ WellMade(h2[j])
  <2>1. DocsMade(commits, disk.cache, stored2, acked)
    BY <1>1, <1>3 DEF DocsMade
  <2>2. \A j \in Keys : WellMade(h[j])
    BY <1>1, <1>10, DocsWellMade
  <2>3. \A j \in Keys : WellMade(h2[j])
    BY <1>11, <2>1, DocsWellMade
  <2> QED
    BY <2>2, <2>3
<1>13. /\ \A j \in Keys \ {k} : h2[j] = h[j]
       /\ h2[k].state = "local" /\ h2[k].content # h[k].content
  <2>1. OwnOK(commits, writes, acked)
    BY DEF ViewInv
  <2>2. PICK cache : cache = disk.cache
    OBVIOUS
  <2>3. WriteShown(commits, cache, writes, stored2, acked, k)
    <3>1. DocsMade(commits, cache, writes, acked) /\ Len(writes) < MaxOwn
      BY <1>1, <1>3, <2>2
    <3> QED
      BY <1>2, <2>1, <3>1, WriteMakesDoc
  <2> QED
    BY <1>10, <1>11, <2>2, <2>3 DEF WriteShown, DocsOf
<1>14. \A j \in D : new[j] = h2[j] /\ Becomes(h[j], h2[j])
  <2>1. new[k] = h2[k]
    BY <1>4, <1>5, <1>11, LocalDocOf DEF DocsOf
  <2>2. Becomes(h[k], h2[k])
    BY <1>13 DEF Becomes
  <2> QED
    BY <1>4, <2>1, <2>2
<1>15. ViewOK(client, h)
  BY <1>10 DEF ViewInv
<1>24. DocsStep(D, new, h, h2)
  BY <1>4, <1>12, <1>13, <1>14 DEF DocsStep
<1>16. /\ ViewOK(d, h2)
       /\ d.listening => \A j \in Keys : d.view.docs[j].state = "committed" =>
                           d.view.docs[j] = client.view.docs[j]
  BY <1>1, <1>9, <1>15, <1>24, EmittedFits
<1>17. /\ d.listening = client.listening /\ d.stream = client.stream
       /\ d.agg = client.agg /\ d.view.current = client.view.current
  BY <1>9 DEF EmitsDocs
<1>18. OwnOK(commits', writes', acked')
  <2>1. OwnOK(commits, writes, acked)
    BY DEF ViewInv
  <2>2. OwnOK(commits, stored2, acked)
    BY <1>1, <1>2, <1>3, <2>1, WriteKeepsOwn
  <2> QED
    BY <1>3, <2>2
<1>19. CacheOK(disk', commits', acked')
  BY <1>3 DEF ViewInv
<1>20. UpdatesOK(client', disk', wire')
  BY <1>3, <1>8, <1>17 DEF ViewInv, UpdatesOK
<1>21. CurrentOK(client', disk', wire', commits')
  BY <1>3, <1>8, <1>17 DEF ViewInv, CurrentOK
<1>22. AckedSeen(client', disk', wire')
  BY <1>3, <1>8, <1>16, <1>17 DEF ViewInv, AckedSeen
<1>23. ViewOK(client', DocsOf(commits', disk'.cache, writes', acked'))
  BY <1>3, <1>8, <1>11, <1>16
<1> QED
  BY <1>18, <1>19, <1>20, <1>21, <1>22, <1>23 DEF ViewInv

LEMMA HandleSuccessfulWriteView ==
  ASSUME ConstantsAssumption, WatchInv, ViewInv, HandleSuccessfulWrite
  PROVE  ViewInv'
<1>1. /\ TypeOK /\ CacheMade(disk, commits)
      /\ client \in Client /\ disk \in Disk /\ commits \in Seq(Commits)
      /\ writes \in Seq(Keys) /\ acked \in Nat /\ disk.cache \in [Keys -> Cached]
      /\ DocsMade(commits, disk.cache, writes, acked)
      /\ disk.lastRemote \in 0..Len(commits)
  BY DeviceMade
<1>2. PICK v \in DOMAIN commits :
        /\ commits[v].own = acked + 1
        /\ acked' = acked + 1
        /\ disk' = [disk EXCEPT !.cache = AckedCache(disk.cache, commits[v].key, v)]
        /\ client' = EmitNewSnapshots(client,
                       [j \in {commits[v].key} |->
                          LocalDoc(AckedCache(disk.cache, commits[v].key, v),
                                   writes, acked', j)], NoChange)
        /\ UNCHANGED <<commits, writes, wire, counters>>
  BY Zenon DEF HandleSuccessfulWrite, AckedCache
<1>3. v \in 1..Len(commits) /\ v \in Nat /\ commits[v] \in Commits
  BY <1>1, LenProperties, ElementOfSeq
<1>4. PICK k \in Keys : k = commits[v].key
  BY <1>3 DEF Commits
<1>5. Made(commits, k, v) /\ v \in OwnCommits(commits) /\ v # 0
  BY <1>1, <1>2, <1>3, <1>4 DEF Made, OwnCommits
<1>6. PICK cache \in [Keys -> Cached] :
        /\ cache = AckedCache(disk.cache, k, v)
        /\ \A j \in Keys :
              /\ disk.cache[j].version <= cache[j].version
              /\ cache[j] = disk.cache[j] \/ (j = k /\ cache[j].version = v)
  BY <1>1, <1>3, AckedCacheGrows
<1>7. disk' = [disk EXCEPT !.cache = cache]
  BY <1>2, <1>4, <1>6
<1>8. /\ disk' \in Disk /\ disk'.cache = cache /\ disk'.keys = disk.keys
      /\ disk'.lastRemote = disk.lastRemote
  BY <1>1, <1>6, <1>7 DEF Disk
<1>9. PICK done \in Nat : done = acked + 1
  BY <1>1
<1>10. acked' = done /\ UNCHANGED <<commits, writes, wire>>
  BY <1>2, <1>9
<1>11. PICK D : D = {k}
  OBVIOUS
<1>12. PICK new : new = [j \in D |-> LocalDoc(cache, writes, done, j)]
  OBVIOUS
<1>13. \A j \in Keys : cache[j].version # 0 => Made(commits, j, cache[j].version)
  BY <1>1, <1>5, <1>6 DEF CacheMade
<1>14. new \in [D -> Doc]
  <2>1. LocalDoc(cache, writes, done, k) \in Doc
    BY <1>1, <1>6, <1>9, <1>13, LocalDocType
  <2> QED
    BY <1>11, <1>12, <2>1
<1>15. PICK d : d = client'
  OBVIOUS
<1>16. d = EmitNewSnapshots(client, new, NoChange)
  BY <1>2, <1>4, <1>6, <1>10, <1>11, <1>12, <1>15
<1>17. EmitsDocs(client, d, D, new)
  <2>1. D \in SUBSET Keys
    BY <1>11
  <2> QED
    BY <1>1, <1>14, <1>16, <2>1, EmitShows
<1>18. PICK h : h = DocsOf(commits, disk.cache, writes, acked)
  OBVIOUS
<1>19. PICK h2 : h2 = DocsOf(commits, cache, writes, done)
  OBVIOUS
<1>20. \A j \in Keys : WellMade(h[j]) /\ WellMade(h2[j])
  <2>1. DocsMade(commits, cache, writes, done)
    BY <1>1, <1>6, <1>9, <1>13 DEF DocsMade
  <2>2. \A j \in Keys : WellMade(h[j])
    BY <1>1, <1>18, DocsWellMade
  <2>3. \A j \in Keys : WellMade(h2[j])
    BY <1>19, <2>1, DocsWellMade
  <2> QED
    BY <2>2, <2>3
<1>21. /\ \A j \in Keys \ {k} : h2[j] = h[j]
       /\ h[k].state = "local" /\ Becomes(h[k], h2[k])
  <2>1. OwnOK(commits, writes, acked) /\ CacheOK(disk, commits, acked)
    BY DEF ViewInv
  <2>2. /\ \A j \in Keys \ {k} :
             DocOf(commits, AckedCache(disk.cache, k, v), writes, acked + 1, j) =
               DocOf(commits, disk.cache, writes, acked, j)
        /\ DocOf(commits, disk.cache, writes, acked, k).state = "local"
        /\ Becomes(DocOf(commits, disk.cache, writes, acked, k),
                   DocOf(commits, AckedCache(disk.cache, k, v), writes, acked + 1, k))
    BY <1>1, <1>2, <1>4, <1>5, <2>1, AckMakesDoc
  <2> QED
    BY <1>6, <1>9, <1>18, <1>19, <2>2 DEF DocsOf
<1>22. \A j \in D : new[j] = h2[j] /\ Becomes(h[j], h2[j])
  <2>1. new[k] = h2[k]
    BY <1>11, <1>12, <1>19, LocalDocOf DEF DocsOf
  <2> QED
    BY <1>11, <1>21, <2>1
<1>23. ViewOK(client, h)
  BY <1>18 DEF ViewInv
<1>24. /\ ViewOK(d, h2)
       /\ d.listening => \A j \in Keys : d.view.docs[j].state = "committed" =>
                           d.view.docs[j] = client.view.docs[j]
  <2>1. DocsStep(D, new, h, h2)
    BY <1>11, <1>20, <1>21, <1>22 DEF DocsStep
  <2> QED
    BY <1>1, <1>17, <1>23, <2>1, EmittedFits
<1>25. /\ d.listening = client.listening /\ d.stream = client.stream
       /\ d.agg = client.agg /\ d.view.current = client.view.current
  BY <1>17 DEF EmitsDocs
<1>26. OwnOK(commits', writes', acked')
  <2>1. PICK n \in Nat : n = Cardinality(OwnCommits(commits))
    BY <1>1, OwnCommitsFinite
  <2>2. done \in 1..n
    BY <1>2, <1>5, <1>9, <2>1 DEF ViewInv, OwnOK
  <2>3. done <= Cardinality(OwnCommits(commits))
    BY <2>1, <2>2
  <2> QED
    BY <1>10, <2>3 DEF ViewInv, OwnOK
<1>27. CacheOK(disk', commits', acked')
  <2> SUFFICES ASSUME NEW j \in Keys
               PROVE  IF cache[j].byAck
                      THEN cache[j].version # 0 /\ commits[cache[j].version].own \in 1..done
                      ELSE cache[j].version <= disk.lastRemote
    BY <1>8, <1>10 DEF CacheOK
  <2>1. IF disk.cache[j].byAck
        THEN disk.cache[j].version # 0 /\ commits[disk.cache[j].version].own \in 1..acked
        ELSE disk.cache[j].version <= disk.lastRemote
    BY DEF ViewInv, CacheOK
  <2>2. \A i \in 1..acked : i \in 1..done
    BY <1>1, <1>9
  <2>3. CASE cache[j] = disk.cache[j]
    BY <2>1, <2>2, <2>3
  <2>4. CASE cache[j] # disk.cache[j]
    <3>1. j = k /\ cache # disk.cache
      BY <1>6, <2>4
    <3>2. cache = [disk.cache EXCEPT ![k] = [version |-> v, byAck |-> TRUE]]
      BY <1>6, <3>1 DEF AckedCache
    <3>3. cache[j].version = v /\ cache[j].byAck
      BY <1>1, <3>1, <3>2
    <3>4. done \in 1..done
      BY <1>1, <1>9
    <3> QED
      BY <1>2, <1>5, <1>9, <3>3, <3>4
  <2> QED
    BY <2>3, <2>4
<1>28. UpdatesOK(client', disk', wire')
  BY <1>8, <1>10, <1>15, <1>25 DEF ViewInv, UpdatesOK
<1>29. CurrentOK(client', disk', wire', commits')
  <2>1. CASE client.view.current
    <3>1. /\ client.listening /\ DiskCovers(disk, commits, disk.lastRemote)
          /\ client.stream = "open" => Uninterrupted(wire)
      BY <2>1 DEF ViewInv, CurrentOK
    <3>2. CacheGrows(disk, disk')
      BY <1>6, <1>8 DEF CacheGrows
    <3>3. DiskCovers(disk', commits, disk.lastRemote)
      BY <1>1, <1>8, <3>1, <3>2, DiskCoversLonger
    <3> QED
      BY <1>8, <1>10, <1>15, <1>25, <3>1, <3>3 DEF CurrentOK
  <2>2. CASE ~client.view.current
    BY <1>15, <1>25, <2>2 DEF CurrentOK
  <2> QED
    BY <2>1, <2>2
<1>30. AckedSeen(client', disk', wire')
  <2> SUFFICES ASSUME d.listening, NEW j \in Keys,
                      d.view.docs[j].state = "committed", cache[j].byAck
               PROVE  /\ client.view.current => cache[j].version <= disk.lastRemote
                      /\ client.stream = "open" /\ wire.requests = <<>> =>
                           \A p \in 1..Len(wire.responses) :
                             FreshSnapshot(wire.responses, p) =>
                               wire.responses[p].version >= cache[j].version
    BY <1>8, <1>10, <1>15, <1>25 DEF AckedSeen
  <2>1. client.listening /\ client.view.docs[j].state = "committed"
    BY <1>24, <1>25
  <2>2. j # k
    <3>1. Fits(client.view.docs[j], h[j], j \in client.view.mutated)
      BY <1>23, <2>1 DEF ViewOK, FitsAll
    <3>2. h[j].state # "local"
      BY <2>1, <3>1 DEF Fits
    <3> QED
      BY <1>21, <3>2
  <2>3. cache[j] = disk.cache[j]
    BY <1>6, <2>2
  <2> QED
    BY <2>1, <2>3 DEF ViewInv, AckedSeen
<1>31. ViewOK(client', DocsOf(commits', disk'.cache, writes', acked'))
  BY <1>8, <1>10, <1>15, <1>19, <1>24
<1> QED
  BY <1>26, <1>27, <1>28, <1>29, <1>30, <1>31 DEF ViewInv

-----------------------------------------------------------------------------
(* A listener comes *)

\* The first view is what is on the device.
LEMMA FirstViewFits ==
  ASSUME ConstantsAssumption, TypeOK, CacheMade(disk, commits)
  PROVE  FitsAll(FirstView, DocsOf(commits, disk.cache, writes, acked))
<1>1. /\ disk \in Disk /\ commits \in Seq(Commits) /\ writes \in Seq(Keys)
      /\ acked \in Nat /\ disk.keys \in SUBSET Keys /\ disk.cache \in [Keys -> Cached]
  BY DEF TypeOK, Disk
<1>2. PICK v : v = [NoView EXCEPT !.synced = disk.keys]
  OBVIOUS
<1>3. v \in View /\ v.docs = NoView.docs /\ v.mutated = {}
  <2>1. NoView \in View /\ NoView.mutated = {}
    BY DEF NoView, NoDoc, View, Doc
  <2> QED
    BY <1>1, <1>2, <2>1 DEF View
<1>4. PICK cache : cache = disk.cache
  OBVIOUS
<1>5. PICK new : new = [k \in Keys |-> LocalDoc(cache, writes, acked, k)]
  OBVIOUS
<1>6. DocsMade(commits, cache, writes, acked)
  BY <1>1, <1>4 DEF DocsMade, CacheMade
<1>7. PICK h : h = DocsOf(commits, cache, writes, acked)
  OBVIOUS
<1>8. \A k \in Keys : new[k] = h[k] /\ WellMade(h[k])
  <2>1. \A k \in Keys : new[k] = DocOf(commits, cache, writes, acked, k)
    BY <1>5, LocalDocOf
  <2>2. \A k \in Keys : WellMade(h[k])
    BY <1>6, <1>7, DocsWellMade
  <2> QED
    BY <1>7, <2>1, <2>2 DEF DocsOf
<1>9. new \in [Keys -> Doc]
  <2>1. \A k \in Keys : LocalDoc(cache, writes, acked, k) \in Doc
    BY <1>5, <1>8 DEF WellMade
  <2> QED
    BY <1>5, <2>1
<1>10. NoChange \in Change
  BY DEF NoChange, Change
<1>11. PICK view : view = FirstView
  OBVIOUS
<1>12. Shows(view, v, Keys, new, NoChange)
  <2>1. view = NextView(v, new, NoChange)
    BY <1>2, <1>4, <1>5, <1>11 DEF FirstView
  <2> QED
    BY <1>3, <1>9, <1>10, <2>1, NextViewShows
<1>13. ASSUME NEW k \in Keys PROVE Fits(view.docs[k], h[k], k \in view.mutated)
  <2>1. v.docs[k] = NoDoc /\ k \notin v.mutated
    BY <1>3 DEF NoView
  <2>2. PICK here : here = h[k]
    OBVIOUS
  <2>3. WellMade(here) /\ new[k] = here
    BY <1>8, <2>2
  <2>4. Changes(v, k, here) <=> NoDoc # here
    BY <2>1, ChangesIs
  <2>5. here = NoDoc <=> here.state = "none"
    BY <2>3, WhenNoDoc
  <2>6. /\ view.docs[k] = IF Changes(v, k, here) THEN here ELSE NoDoc
        /\ k \in view.mutated <=> IF Changes(v, k, here) THEN here.state = "local"
                                  ELSE k \in v.mutated
    BY <1>12, <2>1, <2>3 DEF Shows
  <2>7. view.docs[k] = here /\ (k \in view.mutated <=> here.state = "local")
    BY <2>1, <2>4, <2>5, <2>6
  <2>8. here.state \in {"none", "local", "committed", "synced"}
    BY <2>3 DEF WellMade, Doc
  <2> QED
    BY <2>2, <2>7, <2>8 DEF Fits
<1> QED
  BY <1>4, <1>7, <1>11, <1>13 DEF FitsAll

\* What the listener is told and asked for.
Listened(view) ==
  /\ client'.listening /\ view = FirstView
  /\ client'.view.docs = view.docs /\ client'.view.mutated = view.mutated
  /\ ~client'.view.current
  /\ client'.shown = client.shown \/ client'.shown = Contents(client'.view)
  /\ UNCHANGED <<commits, writes, acked, disk>>
  /\ client'.stream = "open" =>
       /\ client.stream = "open" /\ client'.agg.updates = client.agg.updates
       /\ wire'.responses = wire.responses /\ wire'.requests # <<>>

LEMMA ListenEffects ==
  ASSUME ConstantsAssumption, WatchInv, Listen
  PROVE  \E view : Listened(view)
<1>1. /\ TypeOK /\ CacheMade(disk, commits) /\ client \in Client /\ disk \in Disk
      /\ wire \in Wire
  BY DEF WatchInv, MadeOK, TypeOK
<1>2. PICK view : view = FirstView
  OBVIOUS
<1>3. view \in View /\ ~view.current
  BY <1>1, <1>2, FirstViewType
<1>4. PICK b : b = [client EXCEPT !.listening = TRUE, !.token = disk.token,
                                  !.view = view, !.raised = FALSE]
  OBVIOUS
<1>5. disk.token \in Nat
  BY <1>1 DEF Disk
<1>6. /\ b \in Client /\ b.listening /\ b.token = disk.token /\ b.view = view
      /\ b.stream = client.stream /\ b.agg = client.agg /\ b.shown = client.shown
  BY <1>1, <1>3, <1>4, <1>5 DEF Client
<1>7. PICK heard : heard = OnViewSnapshot(b, NoView)
  OBVIOUS
<1>8. Quiet(b, heard)
  BY <1>6, <1>7, OnViewSnapshotQuiet
<1>9. /\ heard \in Client /\ heard.listening /\ heard.token = disk.token
      /\ heard.view.docs = view.docs /\ heard.view.mutated = view.mutated
      /\ ~heard.view.current
      /\ heard.shown = client.shown \/ heard.shown = Contents(heard.view)
      /\ heard.stream = client.stream /\ heard.agg = client.agg
  BY <1>3, <1>6, <1>8, SameListener DEF Quiet
<1>11. UNCHANGED <<commits, writes, acked, disk>>
  BY DEF Listen
<1>12. heard = OnViewSnapshot([client EXCEPT !.listening = TRUE, !.token = disk.token,
                                             !.view = FirstView, !.raised = FALSE], NoView)
  BY <1>2, <1>4, <1>7
<1>13. CASE client.stream = "off"
  <2>1. client' = StartWatchStream(heard)
    BY <1>12, <1>13 DEF Listen
  <2>2. Restarted(heard, client', "starting", NewAggregator)
    BY <1>9, <2>1, StartWatchStreamRestarts
  <2>3. /\ client'.listening /\ client'.stream = "starting"
        /\ client'.view.docs = view.docs /\ client'.view.mutated = view.mutated
        /\ ~client'.view.current
    BY <1>9, <2>2 DEF Restarted
  <2>4. client'.shown = client.shown \/ client'.shown = Contents(client'.view)
    <3>1. client'.shown = heard.shown \/ client'.shown = Contents(client'.view)
      BY <2>2 DEF Restarted
    <3>2. Contents(client'.view) = Contents(heard.view)
      BY <1>9, <2>3 DEF Contents
    <3> QED
      BY <1>9, <3>1, <3>2
  <2> QED
    BY <1>2, <1>11, <2>3, <2>4 DEF Listened
<1>14. CASE client.stream = "starting"
  <2>1. client' = heard
    BY <1>12, <1>14 DEF Listen
  <2> QED
    BY <1>2, <1>9, <1>11, <1>14, <2>1 DEF Listened
<1>15. CASE client.stream = "open"
  <2>1. PICK r : r = WatchRequest(heard)
    OBVIOUS
  <2>2. /\ client' = [RecordPendingTargetRequest(heard) EXCEPT !.idle = FALSE]
        /\ Send(r)
    BY <1>12, <1>15, <2>1 DEF Listen
  <2>3. r \in Requests
    BY <1>5, <1>9, <2>1 DEF WatchRequest, Requests
  <2>4. PICK c : c = RecordPendingTargetRequest(heard)
    OBVIOUS
  <2>5. PICK agg : Gathers(heard, c, agg) /\ agg.updates = client.agg.updates
    BY <1>9, <2>4, RequestRecorded
  <2>6. /\ c \in Client /\ c.agg = agg /\ c.listening /\ c.view = heard.view
        /\ c.shown = heard.shown
    BY <1>9, <2>5 DEF Gathers
  <2>7. /\ client'.agg = agg /\ client'.listening /\ client'.view = heard.view
        /\ client'.shown = heard.shown
    BY <2>2, <2>4, <2>6 DEF Client
  <2>8. wire'.requests # <<>> /\ wire'.responses = wire.responses
    <3>1. wire' \in Wire /\ wire'.requests = Append(wire.requests, r)
          /\ wire'.responses = wire.responses
      BY <1>1, <2>2, <2>3, RequestSent DEF Send
    <3>2. wire.requests \in Seq(Requests)
      BY <1>1, WireType
    <3>3. Len(Append(wire.requests, r)) # 0
      BY <2>3, <3>2, AppendProperties, LenProperties
    <3> QED
      BY <3>1, <3>3, WireType
  <2> QED
    BY <1>2, <1>9, <1>11, <1>15, <2>5, <2>7, <2>8 DEF Listened
<1> QED
  BY <1>1, <1>13, <1>14, <1>15, ClientFields

LEMMA ListenView ==
  ASSUME ConstantsAssumption, WatchInv, ViewInv, Listen
  PROVE  ViewInv'
<1>1. PICK view : Listened(view)
  BY ListenEffects
<1>2. PICK h : h = DocsOf(commits, disk.cache, writes, acked)
  OBVIOUS
<1>3. FitsAll(view, h)
  BY <1>1, <1>2, FirstViewFits DEF Listened, WatchInv, MadeOK
<1>4. UNCHANGED <<commits, writes, acked, disk>>
  BY <1>1 DEF Listened
<1>5. SameData
  BY <1>4 DEF SameData
<1>6. ViewOK(client', DocsOf(commits', disk'.cache, writes', acked'))
  <2>1. DocsOf(commits', disk'.cache, writes', acked') = h
    BY <1>2, <1>4
  <2>2. ViewOK(client', h)
    BY <1>1, <1>3 DEF ViewOK, FitsAll, Listened
  <2> QED
    BY <2>1, <2>2
<1>7. CurrentOK(client', disk', wire', commits')
  BY <1>1 DEF CurrentOK, Listened
<1>8. AckedSeen(client', disk', wire')
  BY <1>1 DEF AckedSeen, Listened
<1>9. UpdatesOK(client', disk', wire')
  BY <1>1, <1>4 DEF ViewInv, UpdatesOK, Listened
<1> QED
  BY <1>5, <1>6, <1>7, <1>8, <1>9, SameDataOwn DEF ViewInv

-----------------------------------------------------------------------------
(* A version is raised *)

LEMMA RaiseCache ==
  ASSUME WatchInv, ViewInv, NEW c, NEW D, NEW new, NEW change, RaisedTo(c, D, new, change)
  PROVE  /\ CacheOK(disk', commits, acked)
         /\ UpdatesOK(client', disk', wire')
<1>1. PICK s : s = wire.responses
  OBVIOUS
<1>2. PICK updates : updates = client.agg.updates
  OBVIOUS
<1>3. PICK last : last = disk.lastRemote
  OBVIOUS
<1>4. PICK v : v = Version
  OBVIOUS
<1>5. /\ v \in Nat /\ v >= last /\ s[1].type = "snapshot" /\ s[1].version = v
      /\ disk'.lastRemote = v /\ disk'.cache = CacheOf(disk, updates)
      /\ client'.stream = client.stream
      /\ \A k \in Keys : client'.agg.updates[k] = 0
  BY <1>1, <1>2, <1>3, <1>4 DEF RaisedTo
<1>6. /\ client.stream = "open" /\ s # <<>> /\ wire'.responses = Tail(s)
  BY <1>1 DEF RaisedTo, HeadStep, ListenerOf
<1>7. /\ s \in Seq(Responses) /\ last \in Nat /\ updates \in [Keys -> Nat]
      /\ client \in Client /\ disk \in Disk
  BY <1>1, <1>2, <1>3, ClientFields, WireType DEF WatchInv, TypeOK, Disk
<1>8. DocsClosed(s) /\ UpdatesClosed(updates, last, s)
  BY <1>1, <1>2, <1>3, <1>6 DEF ViewInv, UpdatesOK
<1>9. CacheOK(disk', commits, acked)
  <2> SUFFICES ASSUME NEW k \in Keys
               PROVE  IF disk'.cache[k].byAck
                      THEN /\ disk'.cache[k].version # 0
                           /\ commits[disk'.cache[k].version].own \in 1..acked
                      ELSE disk'.cache[k].version <= v
    BY <1>5 DEF CacheOK
  <2>1. CASE k \in NewerOf(disk, updates)
    <3>1. disk'.cache[k] = [version |-> updates[k], byAck |-> FALSE]
      BY <1>5, <2>1 DEF CacheOf
    <3>2. PICK u \in Nat : u = updates[k]
      BY <1>7
    <3>3. u <= last \/ Closed(s, 1, u)
      BY <1>8, <3>2 DEF UpdatesClosed
    <3>4. u <= v
      <4>1. CASE u <= last
        BY <1>5, <1>7, <3>2, <4>1
      <4>2. CASE Closed(s, 1, u)
        <5>1. s[1].version >= u
          BY <1>5, <1>6, <1>7, <4>2, ClosedTail
        <5> QED
          BY <1>5, <3>2, <5>1
      <4> QED
        BY <3>3, <4>1, <4>2
    <3> QED
      BY <3>1, <3>2, <3>4
  <2>2. CASE k \notin NewerOf(disk, updates)
    <3>1. disk'.cache[k] = disk.cache[k]
      BY <1>5, <2>2 DEF CacheOf
    <3>2. IF disk.cache[k].byAck
          THEN disk.cache[k].version # 0 /\ commits[disk.cache[k].version].own \in 1..acked
          ELSE disk.cache[k].version <= last
      BY <1>3 DEF ViewInv, CacheOK
    <3>3. disk.cache[k].version \in Nat
      BY <1>7 DEF Disk, Cached
    <3> QED
      BY <1>5, <1>7, <3>1, <3>2, <3>3
  <2> QED
    BY <2>1, <2>2
<1>10. UpdatesOK(client', disk', wire')
  <2>1. PICK updates2 : updates2 = client'.agg.updates
    OBVIOUS
  <2>2. \A k \in Keys : \/ updates2[k] = updates[k]
                        \/ s[1].type = "document" /\ updates2[k] = s[1].version
                        \/ updates2[k] = 0
    BY <1>5, <2>1
  <2>3. last <= v /\ (s[1].type = "snapshot" => s[1].version <= v)
    BY <1>5, <1>7
  <2>4. DocsClosed(Tail(s)) /\ UpdatesClosed(updates2, v, Tail(s))
    BY <1>5, <1>6, <1>7, <1>8, <2>2, <2>3, HeadCloses
  <2> QED
    BY <1>5, <1>6, <2>1, <2>4 DEF UpdatesOK
<1> QED
  BY <1>9, <1>10

\* What the view makes of the documents of the event.
LEMMA RaiseShows ==
  ASSUME ConstantsAssumption, WatchInv, ViewInv,
         NEW c, NEW D, NEW new, NEW change, RaisedTo(c, D, new, change)
  PROVE  /\ ViewOK(client', DocsOf(commits, disk'.cache, writes, acked))
         /\ client'.listening => \A k \in Keys :
              client'.view.docs[k].state = "committed" =>
                client'.view.docs[k] = client.view.docs[k]
<1>1. PICK updates : updates = client.agg.updates
  OBVIOUS
<1>2. PICK cache : cache = CacheOf(disk, updates)
  OBVIOUS
<1>3. /\ disk'.cache = cache /\ D = NewerOf(disk, updates)
      /\ new = [k \in D |-> LocalDoc(cache, writes, acked, k)]
      /\ c \in Client /\ c.listening = client.listening
      /\ c.view.docs = client.view.docs /\ c.view.mutated = client.view.mutated
      /\ client'.listening => Shows(client'.view, c.view, D, new, change)
      /\ client'.listening = client.listening
  BY <1>1, <1>2 DEF RaisedTo
<1>4. /\ TypeOK /\ CacheMade(disk, commits)
      /\ client \in Client /\ disk \in Disk /\ commits \in Seq(Commits)
      /\ writes \in Seq(Keys) /\ acked \in Nat /\ disk.cache \in [Keys -> Cached]
      /\ DocsMade(commits, disk.cache, writes, acked)
  BY DeviceMade
<1>5. DocsMade(commits, cache, writes, acked)
  <2>1. updates \in [Keys -> Nat]
    BY <1>1, <1>4, ClientFields
  <2>2. cache \in [Keys -> Cached]
    BY <1>2, <1>4, <2>1, EventStored
  <2>3. UpdatesMade(ListenerOf(client), commits)
    BY DEF WatchInv, MadeOK
  <2>4. \A k \in Keys : cache[k].version # 0 => Made(commits, k, cache[k].version)
    BY <1>1, <1>2, <1>4, <2>3, EventDocuments
  <2> QED
    BY <1>4, <2>2, <2>4 DEF DocsMade
<1>6. PICK h : h = DocsOf(commits, disk.cache, writes, acked)
  OBVIOUS
<1>7. PICK h2 : h2 = DocsOf(commits, cache, writes, acked)
  OBVIOUS
<1>8. DocsStep(D, new, h, h2)
  <2>1. D \subseteq Keys
    BY <1>3 DEF NewerOf
  <2>2. \A k \in Keys : WellMade(h[k])
    BY <1>4, <1>6, DocsWellMade
  <2>3. \A k \in Keys : WellMade(h2[k])
    BY <1>5, <1>7, DocsWellMade
  <2>4. ASSUME NEW k \in D PROVE new[k] = h2[k] /\ Becomes(h[k], h2[k])
    <3>1. k \in Keys
      BY <2>1
    <3>2. new[k] = DocOf(commits, cache, writes, acked, k)
      BY <1>3, LocalDocOf
    <3>3. \/ DocOf(commits, CacheOf(disk, updates), writes, acked, k) =
               DocOf(commits, disk.cache, writes, acked, k)
          \/ DocOf(commits, CacheOf(disk, updates), writes, acked, k).state = "synced"
      BY <1>3, <3>1, RaiseMakesDoc
    <3>4. /\ h[k] = DocOf(commits, disk.cache, writes, acked, k)
          /\ h2[k] = DocOf(commits, cache, writes, acked, k)
      BY <1>6, <1>7, <3>1 DEF DocsOf
    <3> QED
      BY <1>2, <3>2, <3>3, <3>4 DEF Becomes
  <2>5. ASSUME NEW k \in Keys \ D PROVE h2[k] = h[k]
    <3>1. DocOf(commits, CacheOf(disk, updates), writes, acked, k) =
            DocOf(commits, disk.cache, writes, acked, k)
      BY <1>3, RaiseMakesDoc
    <3> QED
      BY <1>2, <1>6, <1>7, <3>1 DEF DocsOf
  <2> QED
    BY <2>1, <2>2, <2>3, <2>4, <2>5 DEF DocsStep
<1>9. CASE ~client'.listening
  BY <1>9 DEF ViewOK
<1>10. CASE client'.listening
  <2>1. ViewOK(client, h)
    BY <1>6 DEF ViewInv
  <2>2. PICK v : v = c.view
    OBVIOUS
  <2>3. v \in View /\ FitsAll(v, h)
    BY <1>3, <1>10, <2>1, <2>2, ClientFields DEF ViewOK, FitsAll
  <2>4. PICK view : view = client'.view
    OBVIOUS
  <2>5. Shows(view, v, D, new, change)
    BY <1>3, <1>10, <2>2, <2>4
  <2>6. /\ FitsAll(view, h2)
        /\ \A k \in Keys : view.docs[k].state = "committed" => view.docs[k] = v.docs[k]
    BY <1>8, <2>3, <2>5, ShowsFits
  <2> QED
    BY <1>3, <1>7, <2>2, <2>4, <2>6 DEF ViewOK
<1> QED
  BY <1>9, <1>10

\* A view that is current now was told so, or was before.
LEMMA RaiseActive ==
  ASSUME WatchInv, ViewInv, NEW c, NEW D, NEW new, NEW change, RaisedTo(c, D, new, change),
         client'.view.current
  PROVE  IsActive(client) /\ client'.listening
<1>1. /\ client \in Client /\ wire \in Wire /\ StreamOK(ListenerOf(client), wire)
  BY DEF WatchInv, TypeOK, StreamInv
<1>2. /\ wire.responses # <<>> /\ wire.responses[1].type = "snapshot"
      /\ client.stream = "open"
  BY DEF RaisedTo, HeadStep, ListenerOf
<1>3. client'.listening = client.listening
  BY DEF RaisedTo
<1>4. CASE client.view.current
  <2>1. client.listening /\ Uninterrupted(wire)
    BY <1>2, <1>4 DEF ViewInv, CurrentOK
  <2>2. wire.requests = <<>>
    BY <1>2, <2>1 DEF Uninterrupted
  <2>3. Fresh(wire.responses, 1)
    <3>1. 1 \in 1..Len(wire.responses)
      BY <1>1, <1>2, WireType
    <3> QED
      BY <1>2, <2>1, <3>1 DEF Uninterrupted
  <2>4. PICK l : l = ListenerOf(client)
    OBVIOUS
  <2>5. /\ l \in Listener /\ l.stream = "open" /\ l.listening
        /\ IsActive(l) <=> IsActive(client)
    BY <1>1, <1>2, <2>1, <2>4, ListenerFieldsOf
  <2>6. Settled(l, wire)
    BY <2>2, <2>5 DEF Settled
  <2>7. IsActive(l)
    BY <1>1, <2>3, <2>4, <2>5, <2>6, ActiveIsFresh
  <2> QED
    BY <1>3, <2>1, <2>5, <2>7
<1>5. CASE ~client.view.current
  <2>1. ~c.view.current
    BY <1>5 DEF RaisedTo
  <2>2. client'.listening /\ Shows(client'.view, c.view, D, new, change)
    BY <2>1 DEF RaisedTo
  <2>3. change.any
    BY <2>1, <2>2 DEF Shows
  <2> QED
    BY <2>2, <2>3 DEF RaisedTo
<1> QED
  BY <1>4, <1>5

\* What was sent behind the version.
BehindVersion(s, t) ==
  /\ Len(s) \in Nat /\ 1 <= Len(s) /\ Len(t) = Len(s) - 1
  /\ \A i \in 1..(Len(s) - 1) : t[i] = s[i + 1]
  /\ \A p \in 1..(Len(s) - 1) : Fresh(t, p) <=> Fresh(s, p + 1)
  /\ \A p \in 1..(Len(s) - 1) : FreshSnapshot(t, p) <=> FreshSnapshot(s, p + 1)

LEMMA VersionTaken ==
  ASSUME WatchInv, NEW c, NEW D, NEW new, NEW change, RaisedTo(c, D, new, change),
         NEW s, s = wire.responses
  PROVE  /\ s \in Seq(Responses) /\ s # <<>> /\ s[1].type = "snapshot"
         /\ s[1].version = Version /\ disk'.lastRemote = Version
         /\ client.stream = "open" /\ client'.stream = "open"
         /\ wire'.responses = Tail(s) /\ wire'.requests = wire.requests
         /\ BehindVersion(s, Tail(s))
<1>1. /\ client \in Client /\ wire \in Wire /\ s \in Seq(Responses)
  BY WireType DEF WatchInv, TypeOK
<1>2. /\ s # <<>> /\ s[1].type = "snapshot" /\ s[1].version = Version
      /\ disk'.lastRemote = Version
      /\ client.stream = "open" /\ client'.stream = "open"
      /\ wire'.responses = Tail(s) /\ wire'.requests = wire.requests
  BY DEF RaisedTo, HeadStep, ListenerOf
<1>3. PICK t : t = Tail(s)
  OBVIOUS
<1>4. /\ Len(s) \in Nat /\ 1 <= Len(s) /\ Len(t) = Len(s) - 1
      /\ \A i \in 1..(Len(s) - 1) : t[i] = s[i + 1]
  BY <1>1, <1>2, <1>3, TailAnswers
<1>5. /\ \A p \in Nat : p >= 1 => (Fresh(t, p) <=> Fresh(s, p + 1))
      /\ \A p \in 1..(Len(s) - 1) : FreshSnapshot(t, p) <=> FreshSnapshot(s, p + 1)
  BY <1>1, <1>2, <1>3, HeadFresh
<1>6. \A p \in 1..(Len(s) - 1) : p \in Nat /\ p >= 1
  BY <1>4
<1>7. BehindVersion(s, t)
  BY <1>4, <1>5, <1>6 DEF BehindVersion
<1> QED
  BY <1>1, <1>2, <1>3, <1>7

\* The view is current with the version.
LEMMA RaiseCurrent ==
  ASSUME ConstantsAssumption, WatchInv, ViewInv,
         NEW c, NEW D, NEW new, NEW change, RaisedTo(c, D, new, change)
  PROVE  CurrentOK(client', disk', wire', commits)
<1> SUFFICES ASSUME client'.view.current
             PROVE  /\ client'.listening
                    /\ DiskCovers(disk', commits, disk'.lastRemote)
                    /\ Uninterrupted(wire')
  BY DEF CurrentOK
<1>1. IsActive(client) /\ client'.listening
  BY RaiseActive
<1>2. PICK s : s = wire.responses
  OBVIOUS
<1>3. /\ s \in Seq(Responses) /\ s # <<>> /\ s[1].type = "snapshot"
      /\ s[1].version = Version /\ disk'.lastRemote = Version
      /\ client.stream = "open"
      /\ wire'.responses = Tail(s) /\ wire'.requests = wire.requests
      /\ BehindVersion(s, Tail(s))
  BY <1>2, VersionTaken
<1>4. /\ client \in Client /\ disk \in Disk /\ wire \in Wire /\ commits \in Seq(Commits)
      /\ StreamInv(ListenerOf(client), disk, wire, commits)
  BY DEF WatchInv, TypeOK
<1>5. PICK l : l = ListenerOf(client)
  OBVIOUS
<1>6. /\ l \in Listener /\ l.stream = "open" /\ IsActive(l)
      /\ StreamInv(l, disk, wire, commits)
  BY <1>1, <1>3, <1>4, <1>5, ListenerFieldsOf
<1>7. DiskCovers(disk', commits, disk'.lastRemote)
  <2>1. PICK l2 : l2 = ListenerOf(client')
    OBVIOUS
  <2>2. disk' \in Disk /\ Raised(l, l2, disk, disk', wire.responses[1].version)
    BY <1>5, <2>1 DEF RaisedTo
  <2>3. wire.responses # <<>> /\ wire.responses[1].type = "snapshot"
    BY <1>2, <1>3
  <2>4. DiskCovers(disk', commits, wire.responses[1].version)
    BY <1>4, <1>6, <2>2, <2>3, RaisedCovers
  <2> QED
    BY <1>2, <1>3, <2>4
<1>8. wire.requests = <<>> /\ \A p : Fresh(s, p)
  <2>1. StreamOK(l, wire)
    BY <1>6 DEF StreamInv
  <2> QED
    BY <1>2, <1>4, <1>6, <2>1, ActiveIsFresh
<1>9. Uninterrupted(wire')
  BY <1>3, <1>8 DEF Uninterrupted, BehindVersion
<1> QED
  BY <1>1, <1>7, <1>9

LEMMA RaiseAcked ==
  ASSUME ConstantsAssumption, WatchInv, ViewInv,
         NEW c, NEW D, NEW new, NEW change, RaisedTo(c, D, new, change)
  PROVE  AckedSeen(client', disk', wire')
<1>1. PICK s : s = wire.responses
  OBVIOUS
<1>2. /\ s \in Seq(Responses) /\ s # <<>> /\ s[1].type = "snapshot"
      /\ s[1].version = Version /\ disk'.lastRemote = Version
      /\ client.stream = "open" /\ client'.stream = "open"
      /\ wire'.responses = Tail(s) /\ wire'.requests = wire.requests
      /\ BehindVersion(s, Tail(s))
  BY <1>1, VersionTaken
<1>3. /\ client \in Client /\ disk \in Disk /\ wire \in Wire
      /\ StreamOK(ListenerOf(client), wire)
  BY DEF WatchInv, TypeOK, StreamInv
<1> SUFFICES ASSUME client'.listening, NEW k \in Keys,
                    client'.view.docs[k].state = "committed", disk'.cache[k].byAck
             PROVE  /\ client'.view.current =>
                         disk'.cache[k].version <= disk'.lastRemote
                    /\ wire'.requests = <<>> =>
                         \A p \in 1..Len(wire'.responses) :
                           FreshSnapshot(wire'.responses, p) =>
                             wire'.responses[p].version >= disk'.cache[k].version
  BY <1>2 DEF AckedSeen
<1>4. client.listening /\ client.view.docs[k].state = "committed"
  <2>1. client'.view.docs[k] = client.view.docs[k]
    BY RaiseShows
  <2> QED
    BY <2>1 DEF RaisedTo
<1>5. disk'.cache[k] = disk.cache[k]
  BY DEF RaisedTo, CacheOf
<1>6. PICK v : v = disk.cache[k].version
  OBVIOUS
<1>7. v \in Nat
  BY <1>3, <1>6 DEF Disk, Cached
<1>8. wire.requests = <<>> =>
        \A p \in 1..Len(s) : FreshSnapshot(s, p) => s[p].version >= v
  BY <1>1, <1>2, <1>4, <1>5, <1>6 DEF ViewInv, AckedSeen
<1>9. ASSUME client'.view.current PROVE v <= Version
  <2>1. IsActive(client)
    BY <1>9, RaiseActive
  <2>2. PICK l : l = ListenerOf(client)
    OBVIOUS
  <2>3. l \in Listener /\ l.stream = "open" /\ IsActive(l) /\ StreamOK(l, wire)
    BY <1>2, <1>3, <2>1, <2>2, ListenerFieldsOf
  <2>4. wire.requests = <<>> /\ Fresh(s, 1)
    BY <1>1, <1>3, <2>3, ActiveIsFresh
  <2>5. 1 \in 1..Len(s)
    BY <1>2 DEF BehindVersion
  <2>6. FreshSnapshot(s, 1)
    BY <1>2, <2>4, <2>5 DEF FreshSnapshot
  <2>7. s[1].version >= v
    BY <1>8, <2>4, <2>5, <2>6
  <2>8. Version \in Nat
    BY DEF RaisedTo
  <2> QED
    BY <1>2, <1>7, <2>7, <2>8
<1>10. ASSUME wire.requests = <<>>, NEW p \in 1..Len(Tail(s)), FreshSnapshot(Tail(s), p)
       PROVE  Tail(s)[p].version >= v
  <2>1. p \in 1..(Len(s) - 1) /\ p + 1 \in 1..Len(s)
    BY <1>2 DEF BehindVersion
  <2>2. FreshSnapshot(s, p + 1) /\ Tail(s)[p] = s[p + 1]
    BY <1>2, <1>10, <2>1 DEF BehindVersion
  <2> QED
    BY <1>8, <1>10, <2>1, <2>2
<1> QED
  BY <1>2, <1>5, <1>6, <1>9, <1>10

LEMMA RaiseWatchSnapshotView ==
  ASSUME ConstantsAssumption, WatchInv, ViewInv, RaiseWatchSnapshot
  PROVE  ViewInv'
<1>1. PICK c, D, new, change : RaisedTo(c, D, new, change)
  BY RaiseEffects
<1>2. UNCHANGED <<commits, writes, acked>>
  BY DEF RaiseWatchSnapshot, OnWatchStreamChange
<1>3. OwnOK(commits', writes', acked')
  BY <1>2 DEF ViewInv
<1>4. CacheOK(disk', commits', acked') /\ UpdatesOK(client', disk', wire')
  BY <1>1, <1>2, RaiseCache
<1>5. ViewOK(client', DocsOf(commits', disk'.cache, writes', acked'))
  BY <1>1, <1>2, RaiseShows
<1>6. CurrentOK(client', disk', wire', commits')
  BY <1>1, <1>2, RaiseCurrent
<1>7. AckedSeen(client', disk', wire')
  BY <1>1, RaiseAcked
<1> QED
  BY <1>3, <1>4, <1>5, <1>6, <1>7 DEF ViewInv

-----------------------------------------------------------------------------
(* The invariant of the view *)

LEMMA ViewInit ==
  ASSUME ConstantsAssumption, Init
  PROVE  ViewInv
<1>1. /\ commits = <<>> /\ writes = <<>> /\ acked = 0 /\ disk = NewDisk
      /\ client = NewClient /\ wire = NoWire
  BY DEF Init
<1>2. /\ ~client.listening /\ client.stream = "off" /\ ~client.view.current
  BY <1>1, NewClientType DEF NoView
<1>3. OwnOK(commits, writes, acked)
  <2>1. OwnCommits(commits) = {}
    BY <1>1 DEF OwnCommits
  <2>2. Cardinality(OwnCommits(commits)) = 0
    BY <2>1, FS_EmptySet
  <2>3. Len(writes) = 0 /\ 0 <= MaxOwn
    BY <1>1 DEF ConstantsAssumption
  <2> QED
    BY <1>1, <2>1, <2>2, <2>3 DEF OwnOK
<1>4. CacheOK(disk, commits, acked)
  BY <1>1 DEF CacheOK, NewDisk
<1>5. UpdatesOK(client, disk, wire)
  BY <1>2 DEF UpdatesOK
<1>6. ViewOK(client, DocsOf(commits, disk.cache, writes, acked))
  BY <1>2 DEF ViewOK
<1>7. CurrentOK(client, disk, wire, commits) /\ AckedSeen(client, disk, wire)
  BY <1>2 DEF CurrentOK, AckedSeen
<1> QED
  BY <1>3, <1>4, <1>5, <1>6, <1>7 DEF ViewInv

LEMMA ViewNext ==
  ASSUME ConstantsAssumption, WatchInv, ViewInv, [Next]_vars
  PROVE  ViewInv'
<1>1. CASE HandleSuccessfulWrite
  BY <1>1, HandleSuccessfulWriteView
<1>2. CASE OnWatchStreamOpen
  BY <1>2, OnWatchStreamOpenView
<1>3. CASE HandleTargetChange
  BY <1>3, HandleTargetChangeView
<1>4. CASE HandleDocumentChange
  BY <1>4, HandleDocumentChangeView
<1>5. CASE RaiseWatchSnapshot
  BY <1>5, RaiseWatchSnapshotView
<1>6. CASE HoldBackSnapshot
  BY <1>6, HoldBackSnapshotView
<1>7. CASE ServeListen \/ ServeUnlisten
  BY <1>7, ServeAnswersView
<1>8. CASE ServeChanges
  BY <1>8, ServeChangesView
<1>9. CASE CommitOwn
  BY <1>9, CommitOwnView
<1>10. CASE OnlineStateTimeout
  BY <1>10, OnlineStateTimeoutView
<1>11. CASE Listen
  BY <1>11, ListenView
<1>12. CASE StopListening
  BY <1>12, StopListeningView
<1>13. CASE IdleTimeout
  BY <1>13, IdleTimeoutView
<1>14. ASSUME NEW k \in Keys, WriteMutations(k) PROVE ViewInv'
  BY <1>14, WriteMutationsView
<1>15. ASSUME NEW k \in Keys, CommitOther(k) PROVE ViewInv'
  BY <1>15, CommitOtherView
<1>16. CASE BreakStream
  BY <1>16, BreakStreamView
<1>17. CASE RestartNetwork
  BY <1>17, RestartNetworkView
<1>18. CASE EndProcess
  BY <1>18, EndProcessView
<1>19. CASE UNCHANGED vars
  <2>1. UNCHANGED <<commits, writes, acked, disk, client, wire>>
    BY <1>19 DEF vars
  <2> QED
    BY <2>1 DEF ViewInv
<1> QED
  BY <1>1, <1>2, <1>3, <1>4, <1>5, <1>6, <1>7, <1>8, <1>9, <1>10, <1>11, <1>12, <1>13,
     <1>14, <1>15, <1>16, <1>17, <1>18, <1>19 DEF Next, Worker, Server

-----------------------------------------------------------------------------
(* A view the server has vouched for *)

\* The document of the cache beside the version last raised.
LEMMA CachedVersion ==
  ASSUME ConstantsAssumption, WatchInv, ViewInv, client.view.current, NEW k \in Keys,
         NEW x, x = disk.cache[k].version, NEW last, last = disk.lastRemote,
         NEW at, at = VersionAt(commits, last, k)
  PROVE  /\ x \in Nat /\ last \in Nat /\ at \in Nat
         /\ x = 0 => at = 0
         /\ at # 0 => k \in disk.keys
         /\ x # 0 /\ x <= last => at = x
         /\ x # 0 => Made(commits, k, x)
         /\ x > last => disk.cache[k].byAck
<1>1. /\ CacheMade(disk, commits) /\ disk \in Disk /\ commits \in Seq(Commits)
      /\ last \in 0..Len(commits)
  BY DeviceMade
<1>2. /\ x \in Nat /\ Len(commits) \in Nat /\ last \in Nat
  BY <1>1, LenProperties DEF Disk, Cached
<1>3. /\ at \in 0..last
      /\ \A i \in 1..last : commits[i].key = k => i <= at
  BY <1>1, VersionAtProperties
<1>4. at \in Nat
  BY <1>2, <1>3
<1>5. DiskCovers(disk, commits, last)
  BY DEF ViewInv, CurrentOK
<1>6. at # 0 => k \in disk.keys /\ x >= at
  BY <1>5 DEF DiskCovers, Held
<1>7. x # 0 => Made(commits, k, x)
  BY <1>1 DEF CacheMade
<1>8. ASSUME x # 0, x <= last PROVE at = x
  <2>1. x \in 1..last /\ commits[x].key = k
    BY <1>2, <1>7, <1>8 DEF Made
  <2>2. x <= at
    BY <1>3, <2>1
  <2> QED
    BY <1>2, <1>4, <1>6, <1>8, <2>2
<1>9. x > last => disk.cache[k].byAck
  <2>1. ~disk.cache[k].byAck => x <= last
    BY DEF ViewInv, CacheOK
  <2> QED
    BY <1>2, <2>1
<1> QED
  BY <1>2, <1>4, <1>6, <1>7, <1>8, <1>9

LEMMA NoLimbo ==
  ASSUME ConstantsAssumption, WatchInv, ViewInv, client.view.current
  PROVE  Limbo(client.view) = {}
<1> SUFFICES ASSUME NEW k \in Keys, k \notin client.view.synced,
                    client.view.docs[k].state \in {"committed", "synced"}
             PROVE  FALSE
  BY DEF Limbo
<1>1. client.listening
  BY DEF ViewInv, CurrentOK
<1>2. client \in Client /\ client.view.synced = disk.keys
  BY <1>1 DEF WatchInv, TypeOK, StreamInv, GatherOK, ListenerOf
<1>3. PICK here : here = DocOf(commits, disk.cache, writes, acked, k)
  OBVIOUS
<1>4. Fits(client.view.docs[k], here, k \in client.view.mutated)
  BY <1>1, <1>3 DEF ViewInv, ViewOK, FitsAll, DocsOf
<1>5. /\ here.state \in {"committed", "synced"}
      /\ here.state = "committed" => client.view.docs[k].state = "committed"
  BY <1>4 DEF Fits
<1>6. PICK x : x = disk.cache[k].version
  OBVIOUS
<1>7. PICK last : last = disk.lastRemote
  OBVIOUS
<1>8. PICK at : at = VersionAt(commits, last, k)
  OBVIOUS
<1>9. /\ x \in Nat /\ last \in Nat /\ at \in Nat
      /\ at # 0 => k \in disk.keys
      /\ x # 0 /\ x <= last => at = x
      /\ x > last => disk.cache[k].byAck
  BY <1>6, <1>7, <1>8, CachedVersion
<1>10. /\ OwnWrites(writes, acked, k) = {} /\ x # 0
       /\ here.state = IF disk.cache[k].byAck THEN "committed" ELSE "synced"
  <2>1. OwnWrites(writes, acked, k) = {}
    BY <1>3, <1>5, DocCases
  <2>2. x # 0
    BY <1>3, <1>5, <1>6, <2>1, DocCases
  <2> QED
    BY <1>3, <1>6, <2>1, <2>2, DocCases
<1>11. x > last
  BY <1>2, <1>9, <1>10
<1>12. disk.cache[k].byAck /\ client.view.docs[k].state = "committed"
  BY <1>5, <1>9, <1>10, <1>11
<1>13. x <= last
  BY <1>1, <1>6, <1>7, <1>12 DEF ViewInv, AckedSeen
<1> QED
  BY <1>9, <1>11, <1>13

LEMMA SyncedFromView ==
  ASSUME ConstantsAssumption, WatchInv, ViewInv
  PROVE  SyncedViewIsServers
<1> SUFFICES ASSUME client.view.current, NEW k \in Keys
             PROVE  LET version == VersionAt(commits, disk.lastRemote, k)
                        content == client.view.docs[k].content
                    IN  \/ content = (IF version = 0 THEN 0 ELSE Content(commits, version))
                        \/ \E i \in 1..Len(writes) :
                             writes[i] = k /\ content = i /\ Ahead(i)
  BY NoLimbo DEF SyncedViewIsServers
<1>1. /\ writes \in Seq(Keys) /\ acked \in Nat /\ commits \in Seq(Commits)
      /\ Len(writes) \in Nat
  BY LenProperties DEF WatchInv, TypeOK
<1>2. PICK content : content = client.view.docs[k].content
  OBVIOUS
<1>3. PICK x : x = disk.cache[k].version
  OBVIOUS
<1>4. PICK last : last = disk.lastRemote
  OBVIOUS
<1>5. PICK at : at = VersionAt(commits, last, k)
  OBVIOUS
<1>6. /\ x \in Nat /\ last \in Nat /\ at \in Nat
      /\ x = 0 => at = 0
      /\ x # 0 /\ x <= last => at = x
      /\ x # 0 => Made(commits, k, x)
      /\ x > last => disk.cache[k].byAck
  BY <1>3, <1>4, <1>5, CachedVersion
<1> SUFFICES \/ content = (IF at = 0 THEN 0 ELSE Content(commits, at))
             \/ \E i \in 1..Len(writes) : writes[i] = k /\ content = i /\ Ahead(i)
  BY <1>2, <1>4, <1>5
<1>7. content = DocOf(commits, disk.cache, writes, acked, k).content
  BY <1>2 DEF ViewInv, CurrentOK, ViewOK, FitsAll, Fits, DocsOf
<1>8. CASE OwnWrites(writes, acked, k) # {}
  <2>1. PICK i : i = GreatestOf(OwnWrites(writes, acked, k))
    OBVIOUS
  <2>2. content = i
    BY <1>7, <1>8, <2>1, DocCases
  <2>3. i \in OwnWrites(writes, acked, k) /\ i \in 1..Len(writes)
    BY <1>1, <1>8, <2>1, LastOwn
  <2>4. writes[i] = k /\ i > acked
    BY <1>1, <2>3 DEF OwnWrites
  <2> QED
    BY <2>2, <2>3, <2>4 DEF Ahead
<1>9. CASE OwnWrites(writes, acked, k) = {} /\ x = 0
  <2>4. disk.cache[k].version = 0
    BY <1>3, <1>9
  <2>1. content = 0
    BY <1>7, <1>9, <2>4, DocCases
  <2>2. at = 0
    BY <1>6, <1>9
  <2>3. content = (IF at = 0 THEN 0 ELSE Content(commits, at))
    BY <2>1, <2>2, Zenon
  <2> QED
    BY <2>3
<1>10. CASE OwnWrites(writes, acked, k) = {} /\ x # 0
  <2>1. content = Content(commits, x)
    BY <1>3, <1>7, <1>10, DocCases
  <2>2. CASE x <= last
    BY <1>6, <1>10, <2>1, <2>2
  <2>3. CASE x > last
    <3>1. Made(commits, k, x) /\ disk.cache[k].byAck
      BY <1>6, <1>10, <2>3
    <3>2. x \in 1..Len(commits) /\ commits[x].key = k
      BY <3>1 DEF Made
    <3>3. PICK i : i = commits[x].own
      OBVIOUS
    <3>4. i \in 1..acked
      BY <1>3, <3>1, <3>3 DEF ViewInv, CacheOK
    <3>5. i # 0
      BY <1>1, <3>4
    <3>6. content = i
      BY <2>1, <3>3, <3>5 DEF Content
    <3>7. x \in OwnCommits(commits)
      BY <3>2, <3>3, <3>5 DEF OwnCommits
    <3>8. PICK n : n = Cardinality(OwnCommits(commits))
      OBVIOUS
    <3>9. i \in 1..n /\ writes[i] = k /\ n <= Len(writes)
      BY <3>2, <3>3, <3>7, <3>8 DEF ViewInv, OwnOK
    <3>10. n \in Nat
      BY <1>1, <3>8, OwnCommitsFinite
    <3>11. i \in 1..Len(writes)
      BY <1>1, <3>9, <3>10
    <3>12. Ahead(i)
      <4>1. DOMAIN commits = 1..Len(commits)
        BY <1>1, LenProperties
      <4> QED
        BY <1>4, <2>3, <3>2, <3>3, <4>1 DEF Ahead
    <3> QED
      BY <3>6, <3>9, <3>11, <3>12
  <2> QED
    BY <1>6, <2>2, <2>3
<1> QED
  BY <1>8, <1>9, <1>10

-----------------------------------------------------------------------------
(* The order in which contents were made *)

\* What MadeAt says of a content: nothing, another's write, a commit of the
\* device, or a write of the device that is not committed.
MadeIs(log, content, m) ==
  \/ content = 0 /\ m = 0
  \/ content > MaxOwn /\ m = content - MaxOwn
  \/ /\ content \in 1..MaxOwn
     /\ \E v \in 1..Len(log) : log[v].own = content /\ m = v
  \/ /\ content \in 1..MaxOwn
     /\ \A v \in 1..Len(log) : log[v].own # content
     /\ m = Len(log) + content

LEMMA MadeAtIs ==
  ASSUME ConstantsAssumption, NEW log \in Seq(Commits), NEW content \in Nat
  PROVE  MadeIs(log, content, MadeAt(log, content))
<1>1. MaxOwn \in Nat /\ DOMAIN log = 1..Len(log) /\ Len(log) \in Nat
  BY LenProperties DEF ConstantsAssumption
<1>2. PICK made : made = {v \in DOMAIN log : log[v].own = content}
  OBVIOUS
<1>3. PICK m : m = IF made = {} THEN Len(log) + content ELSE CHOOSE v \in made : TRUE
  OBVIOUS
<1>4. MadeAt(log, content) = CASE content = 0      -> 0
                               [] content > MaxOwn -> content - MaxOwn
                               [] OTHER            -> m
  BY <1>2, <1>3 DEF MadeAt
<1>5. CASE content = 0
  <2>1. ~(content > MaxOwn)
    BY <1>1, <1>5
  <2>2. MadeAt(log, content) = 0
    BY <1>4, <1>5, <2>1
  <2> QED
    BY <1>5, <2>2 DEF MadeIs
<1>6. CASE content > MaxOwn
  <2>1. content # 0
    BY <1>1, <1>6
  <2>2. MadeAt(log, content) = content - MaxOwn
    BY <1>4, <1>6, <2>1
  <2> QED
    BY <1>6, <2>2 DEF MadeIs
<1>7. CASE content # 0 /\ ~(content > MaxOwn)
  <2>1. content \in 1..MaxOwn
    BY <1>1, <1>7
  <2>2. MadeAt(log, content) = m
    BY <1>4, <1>7
  <2>3. CASE made = {}
    <3>1. \A v \in 1..Len(log) : log[v].own # content
      BY <1>1, <1>2, <2>3
    <3>2. m = Len(log) + content
      BY <1>3, <2>3
    <3> QED
      BY <2>1, <2>2, <3>1, <3>2 DEF MadeIs
  <2>4. CASE made # {}
    <3>1. m \in made
      BY <1>3, <2>4
    <3>2. m \in 1..Len(log) /\ log[m].own = content
      BY <1>1, <1>2, <3>1
    <3> QED
      BY <2>1, <2>2, <3>2 DEF MadeIs
  <2> QED
    BY <2>3, <2>4
<1> QED
  BY <1>5, <1>6, <1>7

\* A content there is.
Valid(log, content) == content \in 0..(MaxOwn + Len(log))

LEMMA MadeAtType ==
  ASSUME ConstantsAssumption, NEW log \in Seq(Commits), NEW content, Valid(log, content)
  PROVE  MadeAt(log, content) \in Nat /\ content \in Nat
<1>1. MaxOwn \in Nat /\ Len(log) \in Nat
  BY LenProperties DEF ConstantsAssumption
<1>2. content \in Nat
  BY <1>1 DEF Valid
<1>3. PICK m : m = MadeAt(log, content)
  OBVIOUS
<1>4. MadeIs(log, content, m)
  BY <1>2, <1>3, MadeAtIs
<1>5. m \in Nat
  BY <1>1, <1>2, <1>4 DEF MadeIs
<1> QED
  BY <1>2, <1>3, <1>5

\* A commit of the device made its write.
LEMMA MadeAtOwn ==
  ASSUME ConstantsAssumption, NEW log \in Seq(Commits), NEW stored, Len(stored) \in Nat,
         NEW done, OwnOK(log, stored, done), NEW v \in OwnCommits(log)
  PROVE  MadeAt(log, log[v].own) = v /\ log[v].own \in 1..MaxOwn
<1>1. MaxOwn \in Nat /\ Len(log) \in Nat
  BY LenProperties DEF ConstantsAssumption
<1>2. PICK i : i = log[v].own
  OBVIOUS
<1>3. PICK n \in Nat : n = Cardinality(OwnCommits(log))
  BY OwnCommitsFinite
<1>4. i \in 1..n /\ n <= Len(stored) /\ Len(stored) <= MaxOwn
  BY <1>2, <1>3 DEF OwnOK
<1>5. i \in 1..MaxOwn /\ i \in Nat /\ i # 0 /\ ~(i > MaxOwn)
  BY <1>1, <1>3, <1>4
<1>6. PICK m : m = MadeAt(log, i)
  OBVIOUS
<1>7. MadeIs(log, i, m)
  BY <1>5, <1>6, MadeAtIs
<1>8. v \in 1..Len(log)
  BY DEF OwnCommits
<1>9. PICK w \in 1..Len(log) : log[w].own = i /\ m = w
  BY <1>2, <1>5, <1>7, <1>8 DEF MadeIs
<1>10. w \in OwnCommits(log)
  BY <1>5, <1>9 DEF OwnCommits
<1>11. w = v
  BY <1>2, <1>9, <1>10, OneCommit
<1> QED
  BY <1>2, <1>5, <1>6, <1>9, <1>11

\* A commit made its content.
LEMMA MadeAtCommit ==
  ASSUME ConstantsAssumption, NEW log \in Seq(Commits), NEW stored, Len(stored) \in Nat,
         NEW done, OwnOK(log, stored, done), NEW v \in 1..Len(log)
  PROVE  MadeAt(log, Content(log, v)) = v /\ Valid(log, Content(log, v))
<1>1. MaxOwn \in Nat /\ Len(log) \in Nat /\ v \in Nat
  BY LenProperties DEF ConstantsAssumption
<1>2. CASE log[v].own # 0
  <2>1. v \in OwnCommits(log) /\ Content(log, v) = log[v].own
    BY <1>2 DEF OwnCommits, Content
  <2>2. MadeAt(log, log[v].own) = v /\ log[v].own \in 1..MaxOwn
    BY <2>1, MadeAtOwn
  <2> QED
    BY <1>1, <2>1, <2>2 DEF Valid
<1>3. CASE log[v].own = 0
  <2>1. PICK i \in Nat : i = MaxOwn + v
    BY <1>1
  <2>2. Content(log, v) = i
    BY <1>3, <2>1 DEF Content
  <2>3. i > MaxOwn /\ i # 0 /\ i \notin 1..MaxOwn /\ i - MaxOwn = v /\ i \in 0..(MaxOwn + Len(log))
    BY <1>1, <2>1
  <2>4. MadeIs(log, i, MadeAt(log, i))
    BY <2>1, MadeAtIs
  <2>5. MadeAt(log, i) = v
    BY <2>3, <2>4 DEF MadeIs
  <2> QED
    BY <2>2, <2>3, <2>5 DEF Valid
<1> QED
  BY <1>2, <1>3

\* What a commit does to the moment a content was made.
LaterIs(log, e, content, m, m2) ==
  \/ m <= Len(log) /\ m2 = m
  \/ /\ content \in 1..MaxOwn /\ content > Cardinality(OwnCommits(log))
     /\ m = Len(log) + content
     /\ m2 = IF e.own = content THEN Len(log) + 1 ELSE Len(log) + 1 + content

LEMMA MadeAtLater ==
  ASSUME ConstantsAssumption, NEW log \in Seq(Commits), NEW e \in Commits,
         NEW log2, log2 = Append(log, e), NEW stored, Len(stored) \in Nat, NEW done,
         OwnOK(log, stored, done), OwnOK(log2, stored, done),
         NEW content, Valid(log, content)
  PROVE  /\ LaterIs(log, e, content, MadeAt(log, content), MadeAt(log2, content))
         /\ Valid(log2, content)
<1>1. /\ log2 \in Seq(Commits) /\ Len(log) \in Nat /\ Len(log2) = Len(log) + 1
      /\ log2[Len(log) + 1] = e
      /\ \A v \in 1..Len(log) : log2[v] = log[v]
  BY AppendProperties, LenProperties
<1>2. MaxOwn \in Nat /\ content \in Nat /\ content <= MaxOwn + Len(log)
  BY <1>1 DEF Valid, ConstantsAssumption
<1>3. Valid(log2, content)
  BY <1>1, <1>2 DEF Valid
<1>4. PICK m : m = MadeAt(log, content)
  OBVIOUS
<1>5. PICK m2 : m2 = MadeAt(log2, content)
  OBVIOUS
<1>6. MadeIs(log, content, m) /\ MadeIs(log2, content, m2)
  BY <1>1, <1>2, <1>4, <1>5, MadeAtIs
<1>7. CASE content = 0
  <2>1. m = 0 /\ m2 = 0
    BY <1>2, <1>6, <1>7 DEF MadeIs
  <2> QED
    BY <1>1, <1>3, <1>4, <1>5, <2>1 DEF LaterIs
<1>8. CASE content > MaxOwn
  <2>1. m = content - MaxOwn /\ m2 = content - MaxOwn
    BY <1>2, <1>6, <1>8 DEF MadeIs
  <2> QED
    BY <1>1, <1>2, <1>3, <1>4, <1>5, <1>8, <2>1 DEF LaterIs
<1>9. CASE content \in 1..MaxOwn
  <2>1. content # 0 /\ ~(content > MaxOwn)
    BY <1>2, <1>9
  <2>2. CASE \E v \in 1..Len(log) : log[v].own = content
    <3>1. PICK v \in 1..Len(log) : log[v].own = content
      BY <2>2
    <3>2. v \in 1..Len(log2) /\ log2[v].own = content
      BY <1>1, <3>1
    <3>3. v \in OwnCommits(log) /\ v \in OwnCommits(log2)
      BY <2>1, <3>1, <3>2 DEF OwnCommits
    <3>4. MadeAt(log, log[v].own) = v
      BY <3>3, MadeAtOwn
    <3>5. MadeAt(log2, log2[v].own) = v
      BY <1>1, <3>3, MadeAtOwn
    <3>6. m = v /\ m2 = v /\ v <= Len(log)
      BY <1>1, <1>4, <1>5, <3>1, <3>2, <3>4, <3>5
    <3> QED
      BY <1>3, <1>4, <1>5, <3>6 DEF LaterIs
  <2>3. CASE \A v \in 1..Len(log) : log[v].own # content
    <3>1. m = Len(log) + content
      BY <1>6, <2>1, <2>3 DEF MadeIs
    <3>2. PICK n \in Nat : n = Cardinality(OwnCommits(log))
      BY OwnCommitsFinite
    <3>3. content > n
      <4>1. \A i \in 1..n : \E v \in OwnCommits(log) : log[v].own = i
        BY <3>2 DEF OwnOK
      <4>2. \A v \in OwnCommits(log) : v \in 1..Len(log)
        BY DEF OwnCommits
      <4>3. content \notin 1..n
        BY <2>3, <4>1, <4>2
      <4> QED
        BY <1>2, <2>1, <3>2, <4>3
    <3>4. m2 = IF e.own = content THEN Len(log) + 1 ELSE Len(log) + 1 + content
      <4>1. CASE e.own = content
        <5>1. PICK last : last = Len(log) + 1
          OBVIOUS
        <5>2. last \in OwnCommits(log2) /\ log2[last].own = content
          BY <1>1, <2>1, <4>1, <5>1 DEF OwnCommits
        <5>3. MadeAt(log2, log2[last].own) = last
          BY <1>1, <5>2, MadeAtOwn
        <5> QED
          BY <1>5, <4>1, <5>1, <5>2, <5>3
      <4>2. CASE e.own # content
        <5>1. ASSUME NEW v \in 1..Len(log2) PROVE log2[v].own # content
          <6>1. v \in 1..Len(log) \/ v = Len(log) + 1
            BY <1>1
          <6> QED
            BY <1>1, <2>3, <4>2, <6>1
        <5>2. m2 = Len(log2) + content
          BY <1>6, <2>1, <5>1 DEF MadeIs
        <5> QED
          BY <1>1, <4>2, <5>2
      <4> QED
        BY <4>1, <4>2
    <3> QED
      BY <1>3, <1>4, <1>5, <1>9, <3>1, <3>2, <3>3, <3>4 DEF LaterIs
  <2> QED
    BY <2>2, <2>3
<1> QED
  BY <1>2, <1>7, <1>8, <1>9

\* A commit keeps the order.
LEMMA OrderLater ==
  ASSUME ConstantsAssumption, NEW log \in Seq(Commits), NEW e \in Commits,
         NEW stored, Len(stored) \in Nat, NEW done,
         OwnOK(log, stored, done), OwnOK(Append(log, e), stored, done),
         e.own # 0 => e.own = Cardinality(OwnCommits(log)) + 1,
         NEW a, Valid(log, a), NEW b, Valid(log, b), MadeAt(log, a) >= MadeAt(log, b)
  PROVE  MadeAt(Append(log, e), a) >= MadeAt(Append(log, e), b)
<1>1. PICK log2 : log2 = Append(log, e)
  OBVIOUS
<1>2. PICK n \in Nat : n = Cardinality(OwnCommits(log))
  BY OwnCommitsFinite
<1>3. PICK m \in Nat : m = Len(log)
  BY LenProperties
<1>4. PICK i \in Nat : i = e.own
  BY DEF Commits
<1>5. PICK ma : ma = MadeAt(log, a)
  OBVIOUS
<1>6. PICK mb : mb = MadeAt(log, b)
  OBVIOUS
<1>7. PICK ma2 : ma2 = MadeAt(log2, a)
  OBVIOUS
<1>8. PICK mb2 : mb2 = MadeAt(log2, b)
  OBVIOUS
<1>9. LaterIs(log, e, a, ma, ma2) /\ LaterIs(log, e, b, mb, mb2)
  BY <1>1, <1>5, <1>6, <1>7, <1>8, MadeAtLater
<1>10. a \in Nat /\ b \in Nat /\ ma \in Nat /\ mb \in Nat /\ ma >= mb
  BY <1>5, <1>6, MadeAtType
<1>11. \/ ma <= m /\ ma2 = ma
       \/ a > n /\ ma = m + a /\ ma2 = IF i = a THEN m + 1 ELSE m + 1 + a
  BY <1>2, <1>3, <1>4, <1>9 DEF LaterIs
<1>12. \/ mb <= m /\ mb2 = mb
       \/ b > n /\ mb = m + b /\ mb2 = IF i = b THEN m + 1 ELSE m + 1 + b
  BY <1>2, <1>3, <1>4, <1>9 DEF LaterIs
<1>13. i = 0 \/ i = n + 1
  BY <1>2, <1>4
<1>14. ma2 >= mb2
  BY <1>10, <1>11, <1>12, <1>13
<1> QED
  BY <1>1, <1>7, <1>8, <1>14

-----------------------------------------------------------------------------
(* What the device has of a document is never made earlier *)

\* When the content of a document of the device was made.
HereMade(log, version, own, content) ==
  /\ Valid(log, content)
  /\ own = {} => MadeAt(log, content) = version
  /\ own # {} => content = GreatestOf(own)

LEMMA HereMadeAt ==
  ASSUME ConstantsAssumption, NEW log, NEW cache, NEW stored, NEW done,
         DocsMade(log, cache, stored, done), OwnOK(log, stored, done), NEW k \in Keys,
         NEW own, own = OwnWrites(stored, done, k)
  PROVE  HereMade(log, cache[k].version, own, DocOf(log, cache, stored, done, k).content)
<1>1. /\ stored \in Seq(Keys) /\ done \in Nat /\ log \in Seq(Commits)
      /\ Len(stored) \in Nat /\ Len(log) \in Nat /\ MaxOwn \in Nat
  BY LenProperties DEF DocsMade, ConstantsAssumption
<1>2. PICK content : content = DocOf(log, cache, stored, done, k).content
  OBVIOUS
<1>3. PICK version : version = cache[k].version
  OBVIOUS
<1>4. CASE own # {}
  <2>1. content = GreatestOf(own)
    BY <1>2, <1>4, DocCases
  <2>2. content \in own /\ own \subseteq 1..Len(stored)
    BY <1>1, <1>4, <2>1, LastOwn
  <2>3. Len(stored) <= MaxOwn
    BY DEF OwnOK
  <2>4. content \in 1..Len(stored)
    BY <2>2
  <2>5. Valid(log, content)
    BY <1>1, <2>3, <2>4 DEF Valid
  <2>6. HereMade(log, version, own, content)
    BY <1>4, <2>1, <2>5 DEF HereMade
  <2> QED
    BY <1>2, <1>3, <2>6
<1>5. CASE own = {} /\ version = 0
  <2>0. OwnWrites(stored, done, k) = {} /\ cache[k].version = 0
    BY <1>3, <1>5
  <2>1. content = 0
    BY <1>2, <2>0, DocCases
  <2>2. 0 \in Nat /\ ~(0 > MaxOwn) /\ 0 \notin 1..MaxOwn /\ 0 \in 0..(MaxOwn + Len(log))
    BY <1>1
  <2>3. MadeIs(log, 0, MadeAt(log, 0))
    BY <1>1, <2>2, MadeAtIs
  <2>4. MadeAt(log, 0) = 0
    BY <2>2, <2>3 DEF MadeIs
  <2>5. Valid(log, content) /\ MadeAt(log, content) = version
    BY <1>5, <2>1, <2>2, <2>4 DEF Valid
  <2>6. HereMade(log, version, own, content)
    BY <1>5, <2>5 DEF HereMade
  <2> QED
    BY <1>2, <1>3, <2>6
<1>6. CASE own = {} /\ version # 0
  <2>0. OwnWrites(stored, done, k) = {} /\ cache[k].version # 0
    BY <1>3, <1>6
  <2>1. content = Content(log, version)
    BY <1>2, <1>3, <2>0, DocCases
  <2>2. version \in 1..Len(log)
    BY <1>3, <1>6 DEF DocsMade, Made
  <2>3. MadeAt(log, Content(log, version)) = version /\ Valid(log, Content(log, version))
    BY <1>1, <2>2, MadeAtCommit
  <2> QED
    BY <1>2, <1>3, <1>6, <2>1, <2>3 DEF HereMade
<1> QED
  BY <1>4, <1>5, <1>6

\* A cache that grows: the document is hidden by a write or grows with it.
LEMMA CacheGrowsHere ==
  ASSUME ConstantsAssumption, NEW log, NEW cache, NEW cache2, NEW stored, NEW done,
         DocsMade(log, cache, stored, done), DocsMade(log, cache2, stored, done),
         OwnOK(log, stored, done), NEW k \in Keys, cache[k].version <= cache2[k].version
  PROVE  MadeAt(log, DocOf(log, cache2, stored, done, k).content)
           >= MadeAt(log, DocOf(log, cache, stored, done, k).content)
<1>1. PICK own : own = OwnWrites(stored, done, k)
  OBVIOUS
<1>2. PICK a : a = DocOf(log, cache, stored, done, k).content
  OBVIOUS
<1>3. PICK b : b = DocOf(log, cache2, stored, done, k).content
  OBVIOUS
<1>4. HereMade(log, cache[k].version, own, a) /\ HereMade(log, cache2[k].version, own, b)
  BY <1>1, <1>2, <1>3, HereMadeAt
<1>5. log \in Seq(Commits)
  BY DEF DocsMade
<1>6. MadeAt(log, a) \in Nat
  BY <1>4, <1>5, MadeAtType DEF HereMade
<1>7. CASE own = {}
  <2>1. cache[k].version \in Nat /\ cache2[k].version \in Nat
    BY DEF DocsMade, Cached
  <2>2. MadeAt(log, a) = cache[k].version /\ MadeAt(log, b) = cache2[k].version
    BY <1>4, <1>7 DEF HereMade
  <2> QED
    BY <1>2, <1>3, <2>1, <2>2
<1>8. CASE own # {}
  <2>1. a = b
    BY <1>4, <1>8 DEF HereMade
  <2> QED
    BY <1>2, <1>3, <1>6, <2>1
<1> QED
  BY <1>7, <1>8

\* A write that is not committed is the last that was made.
LEMMA WriteGrowsHere ==
  ASSUME ConstantsAssumption, NEW log, NEW cache, NEW stored, NEW done,
         DocsMade(log, cache, stored, done), OwnOK(log, stored, done),
         NEW k \in Keys, Len(stored) < MaxOwn, NEW stored2, stored2 = Append(stored, k),
         NEW j \in Keys
  PROVE  MadeAt(log, DocOf(log, cache, stored2, done, j).content)
           >= MadeAt(log, DocOf(log, cache, stored, done, j).content)
<1>1. /\ stored \in Seq(Keys) /\ done \in Nat /\ log \in Seq(Commits)
      /\ Len(stored) \in Nat /\ Len(log) \in Nat /\ MaxOwn \in Nat
  BY LenProperties DEF DocsMade, ConstantsAssumption
<1>2. WriteShown(log, cache, stored, stored2, done, k)
  BY WriteMakesDoc
<1>3. PICK own : own = OwnWrites(stored, done, j)
  OBVIOUS
<1>4. PICK a : a = DocOf(log, cache, stored, done, j).content
  OBVIOUS
<1>5. HereMade(log, cache[j].version, own, a)
  BY <1>3, <1>4, HereMadeAt
<1>6. MadeAt(log, a) \in Nat /\ a \in Nat
  BY <1>1, <1>5, MadeAtType DEF HereMade
<1>7. CASE j # k
  <2>1. DocOf(log, cache, stored2, done, j) = DocOf(log, cache, stored, done, j)
    BY <1>2, <1>7 DEF WriteShown
  <2> QED
    BY <1>4, <1>6, <2>1
<1>8. CASE j = k
  <2>1. PICK b : b = Len(stored) + 1
    OBVIOUS
  <2>2. DocOf(log, cache, stored2, done, j).content = b
    BY <1>2, <1>8, <2>1 DEF WriteShown
  <2>3. b \in Nat /\ b # 0 /\ ~(b > MaxOwn)
    BY <1>1, <2>1
  <2>4. ASSUME NEW v \in 1..Len(log) PROVE log[v].own # b
    <3>1. CASE log[v].own = 0
      BY <2>3, <3>1
    <3>2. CASE log[v].own # 0
      <4>1. v \in OwnCommits(log)
        BY <3>2 DEF OwnCommits
      <4>2. PICK n \in Nat : n = Cardinality(OwnCommits(log))
        BY <1>1, OwnCommitsFinite
      <4>3. log[v].own \in 1..n /\ n <= Len(stored)
        BY <4>1, <4>2 DEF OwnOK
      <4> QED
        BY <1>1, <2>1, <4>2, <4>3
    <3> QED
      BY <3>1, <3>2
  <2>5. PICK mb : mb = MadeAt(log, b)
    OBVIOUS
  <2>6. MadeIs(log, b, mb)
    BY <1>1, <2>3, <2>5, MadeAtIs
  <2>7. mb = Len(log) + b
    BY <2>3, <2>4, <2>6 DEF MadeIs
  <2>8. PICK ma : ma = MadeAt(log, a)
    OBVIOUS
  <2>9. ma <= Len(log) + Len(stored)
    <3>1. CASE own = {}
      <4>1. ma = cache[j].version
        BY <1>5, <2>8, <3>1 DEF HereMade
      <4>2. ma # 0 => ma \in 1..Len(log)
        BY <4>1 DEF DocsMade, Made
      <4>3. ma \in Nat
        BY <1>6, <2>8
      <4> QED
        BY <1>1, <4>2, <4>3
    <3>2. CASE own # {}
      <4>1. a = GreatestOf(own)
        BY <1>5, <3>2 DEF HereMade
      <4>2. a \in own /\ own \subseteq 1..Len(stored)
        BY <1>1, <1>3, <3>2, <4>1, LastOwn
      <4>3. a \in 1..Len(stored) /\ ~(a > MaxOwn) /\ a # 0
        BY <1>1, <4>2
      <4>4. MadeIs(log, a, ma)
        BY <1>1, <1>6, <2>8, MadeAtIs
      <4>5. (\E v \in 1..Len(log) : ma = v) \/ ma = Len(log) + a
        BY <4>3, <4>4 DEF MadeIs
      <4> QED
        BY <1>1, <4>3, <4>5
    <3> QED
      BY <3>1, <3>2
  <2>10. mb >= ma
    BY <1>1, <1>6, <2>1, <2>7, <2>8, <2>9
  <2> QED
    BY <1>4, <2>2, <2>5, <2>8, <2>10
<1> QED
  BY <1>7, <1>8

\* An acknowledged write goes to the cache, or something newer is there.
LEMMA AckGrowsHere ==
  ASSUME ConstantsAssumption, NEW log, NEW cache, NEW cache2, NEW stored,
         NEW done, NEW done2, done2 = done + 1,
         DocsMade(log, cache, stored, done), DocsMade(log, cache2, stored, done2),
         OwnOK(log, stored, done), OwnOK(log, stored, done2), NEW v \in OwnCommits(log),
         log[v].own = done2, cache2[log[v].key].version >= v,
         NEW k \in Keys, cache[k].version <= cache2[k].version
  PROVE  MadeAt(log, DocOf(log, cache2, stored, done2, k).content)
           >= MadeAt(log, DocOf(log, cache, stored, done, k).content)
<1>1. /\ stored \in Seq(Keys) /\ done \in Nat /\ done2 \in Nat /\ log \in Seq(Commits)
      /\ Len(stored) \in Nat /\ cache[k].version \in Nat /\ cache2[k].version \in Nat
      /\ stored[done2] = log[v].key /\ log[v].own # 0
  BY LenProperties, SMTT(60) DEF DocsMade, OwnOK, Cached
<1>2. PICK own : own = OwnWrites(stored, done, k)
  OBVIOUS
<1>3. PICK own2 : own2 = OwnWrites(stored, done2, k)
  OBVIOUS
<1>4. PICK a : a = DocOf(log, cache, stored, done, k).content
  OBVIOUS
<1>5. PICK b : b = DocOf(log, cache2, stored, done2, k).content
  OBVIOUS
<1>6. HereMade(log, cache[k].version, own, a)
  BY <1>2, <1>4, HereMadeAt
<1>7. HereMade(log, cache2[k].version, own2, b)
  BY <1>3, <1>5, HereMadeAt
<1>8. MadeAt(log, a) \in Nat
  BY <1>1, <1>6, MadeAtType DEF HereMade
<1>9. /\ own2 \subseteq own /\ \A i \in own : i = done2 \/ i \in own2
      /\ \A i \in own2 : i > done2
  BY <1>1, <1>2, <1>3 DEF OwnWrites
<1>10. CASE own2 # {}
  <2>1. b = GreatestOf(own2) /\ own # {} /\ a = GreatestOf(own)
    BY <1>6, <1>7, <1>9, <1>10 DEF HereMade
  <2>2. b \in own2 /\ (\A i \in own2 : i <= b) /\ own2 \subseteq 1..Len(stored)
    BY <1>1, <1>3, <1>10, <2>1, LastOwn
  <2>3. own \subseteq Nat
    <3>1. own \subseteq 1..Len(stored)
      BY <1>1, <1>2, <2>1, LastOwn
    <3> QED
      BY <3>1
  <2>4. b \in own /\ \A i \in own : i <= b
    <3>1. b \in Nat /\ b > done2
      BY <1>9, <2>2, <2>3
    <3>2. done2 <= b
      BY <1>1, <3>1
    <3> QED
      BY <1>9, <2>2, <3>2
  <2>5. GreatestOf(own) = b
    BY <2>3, <2>4, GreatestIs
  <2> QED
    BY <1>4, <1>5, <1>8, <2>1, <2>5
<1>11. CASE own2 = {} /\ own = {}
  <2>1. MadeAt(log, a) = cache[k].version /\ MadeAt(log, b) = cache2[k].version
    BY <1>6, <1>7, <1>11 DEF HereMade
  <2> QED
    BY <1>1, <1>4, <1>5, <2>1
<1>12. CASE own2 = {} /\ own # {}
  <2>1. a = GreatestOf(own) /\ MadeAt(log, b) = cache2[k].version
    BY <1>6, <1>7, <1>12 DEF HereMade
  <2>2. own = {done2}
    BY <1>9, <1>12
  <2>3. a = done2
    <3>1. own \subseteq Nat /\ done2 \in own /\ \A i \in own : i <= done2
      BY <1>1, <2>2
    <3> QED
      BY <2>1, <3>1, GreatestIs
  <2>4. MadeAt(log, log[v].own) = v
    BY <1>1, MadeAtOwn
  <2>5. k = log[v].key
    BY <1>1, <1>2, <2>2 DEF OwnWrites
  <2>6. MadeAt(log, b) >= MadeAt(log, a)
    BY <2>1, <2>3, <2>4, <2>5
  <2> QED
    BY <1>4, <1>5, <2>6
<1> QED
  BY <1>10, <1>11, <1>12

-----------------------------------------------------------------------------
(* What is on show *)

\* What the listener is told is what a view holds, before the step or after.
ShowsOnly(c, c2) ==
  \/ c2.shown = c.shown
  \/ c2.listening /\ c2.shown = Contents(c2.view)
  \/ c.listening /\ c2.shown = Contents(c.view)

\* What is on show is not made later than what the device has.
ShownOK(log, h, shown) ==
  \A k \in Keys : /\ Valid(log, shown[k]) /\ Valid(log, h[k].content)
                  /\ MadeAt(log, h[k].content) >= MadeAt(log, shown[k])

ShownInv == ShownOK(commits, DocsOf(commits, disk.cache, writes, acked), client.shown)

\* What the device has gives way to what was made later.
HereGrows(log, h, h2) ==
  \A k \in Keys : /\ Valid(log, h2[k].content)
                  /\ MadeAt(log, h2[k].content) >= MadeAt(log, h[k].content)

ShownGrows(log, shown, shown2) ==
  \A k \in Keys : MadeAt(log, shown2[k]) >= MadeAt(log, shown[k])

LEMMA ShownStep ==
  ASSUME ConstantsAssumption, NEW log \in Seq(Commits), NEW c, NEW c2, NEW h, NEW h2,
         ViewOK(c, h), ViewOK(c2, h2), ShowsOnly(c, c2), HereGrows(log, h, h2),
         ShownOK(log, h, c.shown)
  PROVE  ShownOK(log, h2, c2.shown) /\ ShownGrows(log, c.shown, c2.shown)
<1> SUFFICES ASSUME NEW k \in Keys
             PROVE  /\ Valid(log, c2.shown[k]) /\ Valid(log, h2[k].content)
                    /\ MadeAt(log, h2[k].content) >= MadeAt(log, c2.shown[k])
                    /\ MadeAt(log, c2.shown[k]) >= MadeAt(log, c.shown[k])
  BY DEF ShownOK, ShownGrows
<1>1. PICK a : a = c.shown[k]
  OBVIOUS
<1>2. PICK b : b = h[k].content
  OBVIOUS
<1>3. PICK b2 : b2 = h2[k].content
  OBVIOUS
<1>4. PICK a2 : a2 = c2.shown[k]
  OBVIOUS
<1>5. /\ Valid(log, a) /\ Valid(log, b) /\ Valid(log, b2)
      /\ MadeAt(log, b) >= MadeAt(log, a) /\ MadeAt(log, b2) >= MadeAt(log, b)
  BY <1>1, <1>2, <1>3 DEF ShownOK, HereGrows
<1>6. /\ MadeAt(log, a) \in Nat /\ MadeAt(log, b) \in Nat /\ MadeAt(log, b2) \in Nat
  BY <1>5, MadeAtType
<1>7. a2 = a \/ a2 = b \/ a2 = b2
  <2>1. CASE c2.shown = c.shown
    BY <1>1, <1>4, <2>1
  <2>2. CASE c2.listening /\ c2.shown = Contents(c2.view)
    <3>1. Fits(c2.view.docs[k], h2[k], k \in c2.view.mutated)
      BY <2>2 DEF ViewOK, FitsAll
    <3>2. c2.view.docs[k].content = h2[k].content
      BY <3>1 DEF Fits
    <3> QED
      BY <1>3, <1>4, <2>2, <3>2 DEF Contents
  <2>3. CASE c.listening /\ c2.shown = Contents(c.view)
    <3>1. Fits(c.view.docs[k], h[k], k \in c.view.mutated)
      BY <2>3 DEF ViewOK, FitsAll
    <3>2. c.view.docs[k].content = h[k].content
      BY <3>1 DEF Fits
    <3> QED
      BY <1>2, <1>4, <2>3, <3>2 DEF Contents
  <2> QED
    BY <2>1, <2>2, <2>3 DEF ShowsOnly
<1>8. Valid(log, a2) /\ MadeAt(log, b2) >= MadeAt(log, a2) /\ MadeAt(log, a2) >= MadeAt(log, a)
  BY <1>5, <1>6, <1>7
<1> QED
  BY <1>1, <1>3, <1>4, <1>5, <1>8

\* A step that commits nothing.
LEMMA ShownKept ==
  ASSUME ConstantsAssumption, WatchInv, ViewInv, ViewInv', ShownInv, commits' = commits,
         ShowsOnly(client, client'),
         HereGrows(commits, DocsOf(commits, disk.cache, writes, acked),
                   DocsOf(commits, disk'.cache, writes', acked'))
  PROVE  ShownInv' /\ ShownGrows(commits', client.shown, client'.shown)
<1>1. PICK h : h = DocsOf(commits, disk.cache, writes, acked)
  OBVIOUS
<1>2. PICK h2 : h2 = DocsOf(commits, disk'.cache, writes', acked')
  OBVIOUS
<1>3. PICK c2 : c2 = client'
  OBVIOUS
<1>4. commits \in Seq(Commits) /\ ViewOK(client, h) /\ ShownOK(commits, h, client.shown)
  BY <1>1, DeviceMade DEF ViewInv, ShownInv
<1>5. ViewOK(c2, h2)
  BY <1>2, <1>3 DEF ViewInv
<1>6. ShownOK(commits, h2, c2.shown) /\ ShownGrows(commits, client.shown, c2.shown)
  BY <1>1, <1>2, <1>3, <1>4, <1>5, ShownStep
<1> QED
  BY <1>2, <1>3, <1>6 DEF ShownInv

\* A step that only the listener sees.
LEMMA ShownOnly ==
  ASSUME ConstantsAssumption, WatchInv, ViewInv, ViewInv', ShownInv,
         UNCHANGED <<commits, writes, acked>>, disk'.cache = disk.cache,
         ShowsOnly(client, client')
  PROVE  ShownInv' /\ ShownGrows(commits', client.shown, client'.shown)
<1>1. PICK h : h = DocsOf(commits, disk.cache, writes, acked)
  OBVIOUS
<1>2. DocsOf(commits, disk'.cache, writes', acked') = h
  BY <1>1
<1>3. commits \in Seq(Commits) /\ ShownOK(commits, h, client.shown)
  BY <1>1, DeviceMade DEF ShownInv
<1>4. ASSUME NEW k \in Keys
      PROVE  /\ Valid(commits, h[k].content)
             /\ MadeAt(commits, h[k].content) >= MadeAt(commits, h[k].content)
  <2>1. Valid(commits, h[k].content)
    BY <1>3 DEF ShownOK
  <2>2. MadeAt(commits, h[k].content) \in Nat
    BY <1>3, <2>1, MadeAtType
  <2> QED
    BY <2>1, <2>2
<1>5. HereGrows(commits, h, h)
  BY <1>4 DEF HereGrows
<1> QED
  BY <1>1, <1>2, <1>5, ShownKept

\* A commit.
LEMMA CommitShown ==
  ASSUME ConstantsAssumption, WatchInv, ViewInv, ViewInv', ShownInv, NEW e \in Commits,
         commits' = Append(commits, e), UNCHANGED <<writes, acked, disk, client>>,
         e.own # 0 => e.own = Cardinality(OwnCommits(commits)) + 1
  PROVE  ShownInv' /\ ShownGrows(commits', client.shown, client'.shown)
<1>1. PICK h : h = DocsOf(commits, disk.cache, writes, acked)
  OBVIOUS
<1>2. PICK log2 : log2 = Append(commits, e)
  OBVIOUS
<1>3. PICK shown : shown = client.shown
  OBVIOUS
<1>4. /\ commits \in Seq(Commits) /\ DocsMade(commits, disk.cache, writes, acked)
      /\ Len(writes) \in Nat /\ ShownOK(commits, h, shown) /\ OwnOK(commits, writes, acked)
  BY <1>1, <1>3, DeviceMade, LenProperties DEF ShownInv, ViewInv
<1>5. OwnOK(log2, writes, acked) /\ log2 \in Seq(Commits)
  BY <1>2, <1>4, AppendProperties DEF ViewInv
<1>6. DocsOf(commits', disk'.cache, writes', acked') = h
  BY <1>1, <1>4, CommitKeepsDocs
<1>7. ASSUME NEW k \in Keys
      PROVE  /\ Valid(log2, shown[k]) /\ Valid(log2, h[k].content)
             /\ MadeAt(log2, h[k].content) >= MadeAt(log2, shown[k])
             /\ MadeAt(log2, shown[k]) >= MadeAt(log2, shown[k])
  <2>1. PICK a : a = h[k].content
    OBVIOUS
  <2>2. PICK b : b = shown[k]
    OBVIOUS
  <2>3. Valid(commits, a) /\ Valid(commits, b) /\ MadeAt(commits, a) >= MadeAt(commits, b)
    BY <1>4, <2>1, <2>2 DEF ShownOK
  <2>4. Valid(log2, a)
    BY <1>2, <1>4, <1>5, <2>3, MadeAtLater
  <2>5. Valid(log2, b)
    BY <1>2, <1>4, <1>5, <2>3, MadeAtLater
  <2>6. MadeAt(log2, a) >= MadeAt(log2, b)
    BY <1>2, <1>4, <1>5, <2>3, OrderLater
  <2>7. MadeAt(log2, b) \in Nat
    BY <1>5, <2>5, MadeAtType
  <2> QED
    BY <2>1, <2>2, <2>4, <2>5, <2>6, <2>7
<1>8. ShownOK(log2, h, shown) /\ ShownGrows(log2, shown, shown)
  BY <1>7 DEF ShownOK, ShownGrows
<1> QED
  BY <1>2, <1>3, <1>6, <1>8 DEF ShownInv

LEMMA CommitOtherShown ==
  ASSUME ConstantsAssumption, WatchInv, ViewInv, ViewInv', ShownInv,
         NEW k \in Keys, CommitOther(k)
  PROVE  ShownInv' /\ ShownGrows(commits', client.shown, client'.shown)
<1>1. PICK e : e = [key |-> k, own |-> 0]
  OBVIOUS
<1>2. e \in Commits /\ e.own = 0
  BY <1>1 DEF Commits
<1>3. commits' = Append(commits, e) /\ UNCHANGED <<writes, acked, disk, client>>
  BY <1>1 DEF CommitOther, Commit
<1> QED
  BY <1>2, <1>3, CommitShown

LEMMA CommitOwnShown ==
  ASSUME ConstantsAssumption, WatchInv, ViewInv, ViewInv', ShownInv, CommitOwn
  PROVE  ShownInv' /\ ShownGrows(commits', client.shown, client'.shown)
<1>1. PICK e : CommitsOwn(e)
  BY CommitOwnAppends
<1>2. UNCHANGED <<writes, acked, disk, client>>
  BY DEF CommitOwn, Commit
<1> QED
  BY <1>1, <1>2, CommitShown DEF CommitsOwn

\* The steps of the stream, and of a listener that comes and goes.

LEMMA QuietShows ==
  ASSUME NEW c \in Client, NEW d, Quiet(c, d)
  PROVE  ShowsOnly(c, d)
BY DEF Quiet, ShowsOnly

LEMMA RestartedShows ==
  ASSUME NEW c, NEW d, NEW stream, NEW agg, Restarted(c, d, stream, agg)
  PROVE  ShowsOnly(c, d)
BY DEF Restarted, ShowsOnly

LEMMA GathersShows ==
  ASSUME NEW c, NEW d, NEW e, NEW agg, Gathers(d, e, agg), ShowsOnly(c, d)
  PROVE  ShowsOnly(c, e)
BY DEF Gathers, ShowsOnly

LEMMA StreamShows ==
  ASSUME WatchInv, BreakStream \/ IdleTimeout \/ RestartNetwork \/ OnlineStateTimeout
  PROVE  ShowsOnly(client, client')
<1>1. client \in Client
  BY DEF WatchInv, TypeOK
<1>2. CASE BreakStream
  <2>1. client' = OnWatchStreamClose(client)
    BY <1>2 DEF BreakStream
  <2>2. CASE Restarted(client, OnWatchStreamClose(client), "starting", NewAggregator)
    BY <2>1, <2>2, RestartedShows
  <2>3. CASE Restarted(client, OnWatchStreamClose(client), "off", client.agg)
    BY <2>1, <2>3, RestartedShows
  <2> QED
    BY <1>1, <2>2, <2>3, OnWatchStreamCloseRestarts
<1>3. CASE IdleTimeout
  <2>1. Restarted(client, client', "off", client.agg)
    BY <1>1, <1>3, StopRestarts DEF IdleTimeout
  <2> QED
    BY <2>1, RestartedShows
<1>4. CASE RestartNetwork
  <2>1. PICK stopped : stopped = UpdateState(Close(client), "Unknown")
    OBVIOUS
  <2>2. client' = IF client.listening THEN StartWatchStream(stopped) ELSE stopped
    BY <1>4, <2>1 DEF RestartNetwork
  <2>3. Restarted(client, stopped, "off", client.agg) /\ stopped \in Client
    BY <1>1, <2>1, StopRestarts DEF Restarted
  <2>4. CASE client.listening
    <3>1. Restarted(stopped, client', "starting", NewAggregator)
      BY <2>2, <2>3, <2>4, StartWatchStreamRestarts
    <3>2. Restarted(client, client', "starting", NewAggregator)
      BY <2>3, <3>1, RestartedTwice
    <3> QED
      BY <3>2, RestartedShows
  <2>5. CASE ~client.listening
    BY <2>2, <2>3, <2>5, RestartedShows
  <2> QED
    BY <2>4, <2>5
<1>5. CASE OnlineStateTimeout
  <2>1. PICK b : b = [client EXCEPT !.timer = FALSE]
    OBVIOUS
  <2>2. /\ b \in Client /\ b.listening = client.listening /\ b.view = client.view
        /\ b.shown = client.shown
    BY <1>1, <2>1 DEF Client
  <2>3. Quiet(b, client')
    BY <1>5, <2>1, <2>2, SetAndBroadcastQuiet DEF OnlineStateTimeout, OnlineStates
  <2>4. ShowsOnly(b, client')
    BY <2>2, <2>3, QuietShows
  <2> QED
    BY <2>2, <2>4 DEF ShowsOnly
<1> QED
  BY <1>2, <1>3, <1>4, <1>5

LEMMA HeadShows ==
  ASSUME WatchInv, HandleTargetChange \/ HandleDocumentChange \/ HoldBackSnapshot
  PROVE  ShowsOnly(client, client')
<1>1. TypeOK /\ client \in Client /\ Online \in Client
  BY OnlineQuiet DEF WatchInv, TypeOK
<1>2. ShowsOnly(client, Online)
  BY <1>1, OnlineQuiet, QuietShows
<1>3. ASSUME NEW type, OnWatchStreamChange(type) PROVE Version \in Nat
  BY <1>1, <1>3, ResponseTaken
<1>4. \E agg : Gathers(Online, client', agg)
  <2>1. CASE client' = TargetAdded(Online)
    BY <1>1, <2>1, TargetAddedAnswers
  <2>2. CASE client' = TargetRemoved(Online)
    BY <1>1, <2>2, TargetRemovedAnswers
  <2>3. CASE OnWatchStreamChange("current") /\ client' = TargetCurrent(Online, Version)
    BY <1>1, <1>3, <2>3, TargetCurrentTold
  <2>4. CASE client' = IF IsActive(Online) THEN ResetTarget(Online) ELSE Online
    <3>1. CASE IsActive(Online)
      BY <1>1, <2>4, <3>1, ResetTargetGathers
    <3>2. CASE ~IsActive(Online)
      <4>1. Gathers(Online, client', Online.agg)
        BY <1>1, <2>4, <3>2, ClientFields DEF Gathers
      <4> QED
        BY <4>1
    <3> QED
      BY <3>1, <3>2
  <2>5. CASE HandleDocumentChange
    <3>1. /\ OnWatchStreamChange("document")
          /\ client' = AddDocumentToTarget(Online, Head(wire.responses).key, Version)
      BY <2>5 DEF HandleDocumentChange
    <3>2. /\ Head(wire.responses) = wire.responses[1] /\ wire.responses[1] \in Responses
          /\ wire.responses[1].type = "document"
      BY <1>1, <3>1, ResponseTaken
    <3>3. PICK k \in Keys : k = Head(wire.responses).key
      BY <3>2 DEF Responses, Messages, Documents
    <3> QED
      BY <1>1, <1>3, <3>1, <3>3, DocumentAdded
  <2>6. CASE HoldBackSnapshot
    <3>1. OnWatchStreamChange("snapshot") /\ client' = TargetNoChange(Online, Version)
      BY <2>6 DEF HoldBackSnapshot
    <3> QED
      BY <1>1, <1>3, <3>1, TargetNoChangeTold
  <2> QED
    BY <2>1, <2>2, <2>3, <2>4, <2>5, <2>6 DEF HandleTargetChange
<1>5. PICK agg : Gathers(Online, client', agg)
  BY <1>4
<1> QED
  BY <1>2, <1>5, GathersShows

LEMMA OnWatchStreamOpenShows ==
  ASSUME WatchInv, OnWatchStreamOpen
  PROVE  ShowsOnly(client, client')
<1>1. client \in Client
  BY DEF WatchInv, TypeOK
<1>2. PICK open : open = [client EXCEPT !.stream = "open"]
  OBVIOUS
<1>3. open \in Client /\ open.shown = client.shown
  BY <1>1, <1>2 DEF Client
<1>4. ShowsOnly(client, open)
  BY <1>3 DEF ShowsOnly
<1>5. CASE client' = RecordPendingTargetRequest(open)
  <2>1. PICK agg : Gathers(open, client', agg)
    BY <1>3, <1>5, RequestRecorded
  <2> QED
    BY <1>4, <2>1, GathersShows
<1> QED
  BY <1>2, <1>4, <1>5 DEF OnWatchStreamOpen

LEMMA StopListeningShows ==
  ASSUME WatchInv, StopListening
  PROVE  ShowsOnly(client, client')
<1>1. client \in Client
  BY DEF WatchInv, TypeOK
<1>2. PICK gone : gone = [client EXCEPT !.listening = FALSE, !.token = 0,
                                        !.view = NoView, !.raised = FALSE]
  OBVIOUS
<1>3. NoView \in View
  BY NewClientType, ClientFields
<1>4. gone \in Client /\ ~gone.listening /\ gone.shown = client.shown
  BY <1>1, <1>2, <1>3 DEF Client
<1>5. CASE client.stream = "open"
  <2>1. PICK c : c = RecordPendingTargetRequest(gone)
    OBVIOUS
  <2>2. PICK agg : Gathers(gone, c, agg)
    BY <1>4, <2>1, RequestRecorded
  <2>3. client' = [c EXCEPT !.idle = TRUE]
    BY <1>2, <1>5, <2>1 DEF StopListening, StopTarget
  <2>4. client'.shown = client.shown
    BY <1>4, <2>2, <2>3 DEF Gathers, Client
  <2> QED
    BY <2>4 DEF ShowsOnly
<1>6. CASE client.stream # "open"
  <2>1. client' = UpdateState(gone, "Unknown")
    BY <1>2, <1>6 DEF StopListening, StopTarget
  <2>2. Quiet(gone, client')
    BY <1>4, <2>1, UpdateStateQuiet DEF OnlineStates
  <2>3. ~client'.listening
    BY <1>4, <2>2, SameListener DEF Quiet
  <2> QED
    BY <1>4, <2>2, <2>3 DEF Quiet, ShowsOnly
<1> QED
  BY <1>5, <1>6

LEMMA EndProcessShows ==
  ASSUME EndProcess
  PROVE  ShowsOnly(client, client')
<1>1. client'.shown = client.shown
  BY NewClientType DEF EndProcess, Client
<1> QED
  BY <1>1 DEF ShowsOnly

\* The steps that change what the device has.

LEMMA EmitsOnly ==
  ASSUME NEW c \in Client, NEW new, NEW d, d = EmitNewSnapshots(c, new, NoChange)
  PROVE  ShowsOnly(c, d)
<1>1. CASE ~c.listening
  BY <1>1 DEF EmitNewSnapshots, ShowsOnly
<1>2. CASE c.listening
  <2>1. PICK view : view = NextView(c.view, new, NoChange)
    OBVIOUS
  <2>2. PICK b : b = [c EXCEPT !.view = view]
    OBVIOUS
  <2>3. b.view = view /\ b.shown = c.shown /\ b.listening = c.listening
    BY <2>2 DEF Client
  <2>4. d = OnViewSnapshot(b, c.view)
    BY <1>2, <2>1, <2>2 DEF EmitNewSnapshots
  <2>5. d = b \/ d = Raise(b)
    BY <2>4 DEF OnViewSnapshot
  <2>6. PICK shown : shown = Contents(b.view)
    OBVIOUS
  <2>7. PICK r : r = [b EXCEPT !.raised = TRUE, !.shown = shown]
    OBVIOUS
  <2>8. r = Raise(b)
    BY <2>6, <2>7 DEF Raise
  <2>9. r.shown = shown /\ r.view = b.view /\ r.listening = b.listening
    BY <2>2, <2>7 DEF Client
  <2>10. CASE d = b
    BY <2>3, <2>10 DEF ShowsOnly
  <2>11. CASE d = r
    BY <1>2, <2>3, <2>6, <2>9, <2>11 DEF ShowsOnly
  <2> QED
    BY <2>5, <2>8, <2>10, <2>11
<1> QED
  BY <1>1, <1>2

\* The contents of the documents that the device has.
LEMMA HereValid ==
  ASSUME ConstantsAssumption, NEW log, NEW cache, NEW stored, NEW done,
         DocsMade(log, cache, stored, done), OwnOK(log, stored, done), NEW k \in Keys
  PROVE  /\ Valid(log, DocsOf(log, cache, stored, done)[k].content)
         /\ DocsOf(log, cache, stored, done)[k] = DocOf(log, cache, stored, done, k)
<1>1. PICK own : own = OwnWrites(stored, done, k)
  OBVIOUS
<1>2. HereMade(log, cache[k].version, own, DocOf(log, cache, stored, done, k).content)
  BY <1>1, HereMadeAt
<1>3. DocsOf(log, cache, stored, done)[k] = DocOf(log, cache, stored, done, k)
  BY DEF DocsOf
<1> QED
  BY <1>2, <1>3 DEF HereMade

LEMMA WriteMutationsShown ==
  ASSUME ConstantsAssumption, WatchInv, ViewInv, ViewInv', ShownInv,
         NEW k \in Keys, WriteMutations(k)
  PROVE  ShownInv' /\ ShownGrows(commits', client.shown, client'.shown)
<1>1. /\ client \in Client /\ writes \in Seq(Keys)
      /\ DocsMade(commits, disk.cache, writes, acked) /\ OwnOK(commits, writes, acked)
  BY DeviceMade DEF ViewInv
<1>2. PICK stored2 : stored2 = Append(writes, k)
  OBVIOUS
<1>3. /\ writes' = stored2 /\ UNCHANGED <<commits, acked, disk>> /\ Len(writes) < MaxOwn
      /\ stored2 \in Seq(Keys)
  BY <1>1, <1>2, AppendProperties DEF WriteMutations
<1>4. ShowsOnly(client, client')
  BY <1>1, EmitsOnly DEF WriteMutations
<1>5. DocsMade(commits, disk.cache, stored2, acked) /\ OwnOK(commits, stored2, acked)
  BY <1>1, <1>3 DEF DocsMade, ViewInv
<1>6. PICK h : h = DocsOf(commits, disk.cache, writes, acked)
  OBVIOUS
<1>7. PICK h2 : h2 = DocsOf(commits, disk.cache, stored2, acked)
  OBVIOUS
<1>8. ASSUME NEW j \in Keys
      PROVE  /\ Valid(commits, h2[j].content)
             /\ MadeAt(commits, h2[j].content) >= MadeAt(commits, h[j].content)
  <2>1. h[j] = DocOf(commits, disk.cache, writes, acked, j)
    BY <1>1, <1>6, HereValid
  <2>2. /\ h2[j] = DocOf(commits, disk.cache, stored2, acked, j)
        /\ Valid(commits, h2[j].content)
    BY <1>5, <1>7, HereValid
  <2>3. PICK cache : cache = disk.cache
    OBVIOUS
  <2>4. MadeAt(commits, DocOf(commits, cache, stored2, acked, j).content)
          >= MadeAt(commits, DocOf(commits, cache, writes, acked, j).content)
    BY <1>1, <1>2, <1>3, <2>3, WriteGrowsHere
  <2> QED
    BY <2>1, <2>2, <2>3, <2>4
<1>9. HereGrows(commits, h, h2)
  BY <1>8 DEF HereGrows
<1>10. DocsOf(commits, disk'.cache, writes', acked') = h2
  BY <1>3, <1>7
<1> QED
  BY <1>3, <1>4, <1>6, <1>9, <1>10, ShownKept

LEMMA HandleSuccessfulWriteShown ==
  ASSUME ConstantsAssumption, WatchInv, WatchInv', ViewInv, ViewInv', ShownInv,
         HandleSuccessfulWrite
  PROVE  ShownInv' /\ ShownGrows(commits', client.shown, client'.shown)
<1>1. /\ client \in Client /\ disk \in Disk /\ commits \in Seq(Commits) /\ acked \in Nat
      /\ disk.cache \in [Keys -> Cached]
      /\ DocsMade(commits, disk.cache, writes, acked) /\ OwnOK(commits, writes, acked)
  BY DeviceMade DEF ViewInv
<1>2. PICK v \in DOMAIN commits :
        /\ commits[v].own = acked + 1
        /\ acked' = acked + 1
        /\ disk' = [disk EXCEPT !.cache = AckedCache(disk.cache, commits[v].key, v)]
        /\ client' = EmitNewSnapshots(client,
                       [j \in {commits[v].key} |->
                          LocalDoc(AckedCache(disk.cache, commits[v].key, v),
                                   writes, acked', j)], NoChange)
        /\ UNCHANGED <<commits, writes, wire, counters>>
  BY Zenon DEF HandleSuccessfulWrite, AckedCache
<1>3. UNCHANGED <<commits, writes>>
  BY <1>2
<1>4. v \in 1..Len(commits) /\ v \in Nat /\ commits[v].key \in Keys
  <2>1. v \in 1..Len(commits) /\ v \in Nat /\ commits[v] \in Commits
    BY <1>1, LenProperties, ElementOfSeq
  <2> QED
    BY <2>1 DEF Commits
<1>5. ShowsOnly(client, client')
  BY <1>1, <1>2, EmitsOnly
<1>6. PICK done : done = acked + 1
  OBVIOUS
<1>7. PICK cache : cache = AckedCache(disk.cache, commits[v].key, v)
  OBVIOUS
<1>8. disk'.cache = cache /\ acked' = done /\ commits[v].own = done
  BY <1>1, <1>2, <1>6, <1>7 DEF Disk
<1>9. v \in OwnCommits(commits)
  BY <1>1, <1>4, <1>6, <1>8 DEF OwnCommits
<1>10. \A j \in Keys : disk.cache[j].version <= cache[j].version
  BY <1>1, <1>4, <1>7, AckedCacheGrows
<1>11. cache[commits[v].key].version >= v
  <2>1. CASE disk.cache[commits[v].key].version >= v
    BY <1>7, <2>1 DEF AckedCache
  <2>2. CASE ~(disk.cache[commits[v].key].version >= v)
    <3>1. cache[commits[v].key] = [version |-> v, byAck |-> TRUE]
      BY <1>1, <1>4, <1>7, <2>2 DEF AckedCache
    <3> QED
      BY <1>4, <3>1
  <2> QED
    BY <2>1, <2>2
<1>12. DocsMade(commits, cache, writes, done) /\ OwnOK(commits, writes, done)
  <2>1. DocsMade(commits', disk'.cache, writes', acked')
    BY DEF WatchInv, TypeOK, Disk, MadeOK, CacheMade, DocsMade
  <2> QED
    BY <1>3, <1>8, <2>1 DEF ViewInv
<1>13. PICK h : h = DocsOf(commits, disk.cache, writes, acked)
  OBVIOUS
<1>14. PICK h2 : h2 = DocsOf(commits, cache, writes, done)
  OBVIOUS
<1>15. ASSUME NEW j \in Keys
       PROVE  /\ Valid(commits, h2[j].content)
              /\ MadeAt(commits, h2[j].content) >= MadeAt(commits, h[j].content)
  <2>1. h[j] = DocOf(commits, disk.cache, writes, acked, j)
    BY <1>1, <1>13, HereValid
  <2>2. /\ h2[j] = DocOf(commits, cache, writes, done, j)
        /\ Valid(commits, h2[j].content)
    BY <1>12, <1>14, HereValid
  <2>3. PICK was : was = disk.cache
    OBVIOUS
  <2>4. was[j].version <= cache[j].version
    BY <1>10, <2>3
  <2>5. MadeAt(commits, DocOf(commits, cache, writes, done, j).content)
          >= MadeAt(commits, DocOf(commits, was, writes, acked, j).content)
    BY <1>1, <1>6, <1>8, <1>9, <1>11, <1>12, <2>3, <2>4, AckGrowsHere
  <2> QED
    BY <2>1, <2>2, <2>3, <2>5
<1>16. HereGrows(commits, h, h2)
  BY <1>15 DEF HereGrows
<1>17. DocsOf(commits, disk'.cache, writes', acked') = h2
  BY <1>3, <1>8, <1>14
<1> QED
  BY <1>3, <1>5, <1>13, <1>16, <1>17, ShownKept

LEMMA RaiseShown ==
  ASSUME ConstantsAssumption, WatchInv, WatchInv', ViewInv, ViewInv', ShownInv,
         RaiseWatchSnapshot
  PROVE  ShownInv' /\ ShownGrows(commits', client.shown, client'.shown)
<1>1. PICK c, D, new, change : RaisedTo(c, D, new, change)
  BY RaiseEffects
<1>2. UNCHANGED <<commits, writes, acked>>
  BY DEF RaiseWatchSnapshot, OnWatchStreamChange
<1>3. /\ client \in Client /\ disk \in Disk
      /\ DocsMade(commits, disk.cache, writes, acked) /\ OwnOK(commits, writes, acked)
  BY DeviceMade DEF ViewInv
<1>4. ShowsOnly(client, client')
  <2>1. c.listening = client.listening /\ Contents(c.view) = Contents(client.view)
    BY <1>1 DEF RaisedTo, Contents
  <2>2. /\ c.shown = client.shown \/ (c.listening /\ c.shown = Contents(c.view))
        /\ \/ client'.shown = c.shown
           \/ client'.listening /\ client'.shown = Contents(client'.view)
    BY <1>1 DEF RaisedTo
  <2> QED
    BY <2>1, <2>2 DEF ShowsOnly
<1>5. PICK cache : cache = disk'.cache
  OBVIOUS
<1>6. \A j \in Keys : disk.cache[j].version <= cache[j].version
  <2>1. disk'.cache = CacheOf(disk, client.agg.updates) /\ client.agg.updates \in [Keys -> Nat]
    BY <1>1, <1>3, ClientFields DEF RaisedTo
  <2> QED
    BY <1>3, <1>5, <2>1, EventStored
<1>7. DocsMade(commits, cache, writes, acked)
  <2>1. DocsMade(commits', disk'.cache, writes', acked')
    BY DEF WatchInv, TypeOK, Disk, MadeOK, CacheMade, DocsMade
  <2> QED
    BY <1>2, <1>5, <2>1
<1>8. PICK h : h = DocsOf(commits, disk.cache, writes, acked)
  OBVIOUS
<1>9. PICK h2 : h2 = DocsOf(commits, cache, writes, acked)
  OBVIOUS
<1>10. ASSUME NEW j \in Keys
       PROVE  /\ Valid(commits, h2[j].content)
              /\ MadeAt(commits, h2[j].content) >= MadeAt(commits, h[j].content)
  <2>1. h[j] = DocOf(commits, disk.cache, writes, acked, j)
    BY <1>3, <1>8, HereValid
  <2>2. /\ h2[j] = DocOf(commits, cache, writes, acked, j)
        /\ Valid(commits, h2[j].content)
    BY <1>3, <1>7, <1>9, HereValid
  <2>3. PICK was : was = disk.cache
    OBVIOUS
  <2>4. was[j].version <= cache[j].version
    BY <1>6, <2>3
  <2>5. MadeAt(commits, DocOf(commits, cache, writes, acked, j).content)
          >= MadeAt(commits, DocOf(commits, was, writes, acked, j).content)
    BY <1>3, <1>7, <2>3, <2>4, CacheGrowsHere
  <2> QED
    BY <2>1, <2>2, <2>3, <2>5
<1>11. HereGrows(commits, h, h2)
  BY <1>10 DEF HereGrows
<1>12. DocsOf(commits, disk'.cache, writes', acked') = h2
  BY <1>2, <1>5, <1>9
<1> QED
  BY <1>2, <1>4, <1>8, <1>11, <1>12, ShownKept

LEMMA ListenShows ==
  ASSUME ConstantsAssumption, WatchInv, Listen
  PROVE  ShowsOnly(client, client')
<1>1. PICK view : Listened(view)
  BY ListenEffects
<1> QED
  BY <1>1 DEF Listened, ShowsOnly

LEMMA ShownInit ==
  ASSUME ConstantsAssumption, Init, WatchInv, ViewInv
  PROVE  ShownInv
<1>1. /\ commits = <<>> /\ client = NewClient /\ disk = NewDisk /\ writes = <<>>
      /\ commits \in Seq(Commits) /\ OwnOK(commits, writes, acked)
      /\ DocsMade(commits, disk.cache, writes, acked)
  BY DeviceMade DEF Init, ViewInv
<1>2. PICK h : h = DocsOf(commits, disk.cache, writes, acked)
  OBVIOUS
<1>3. ASSUME NEW k \in Keys
      PROVE  /\ Valid(commits, client.shown[k]) /\ Valid(commits, h[k].content)
             /\ MadeAt(commits, h[k].content) >= MadeAt(commits, client.shown[k])
  <2>1. client.shown[k] = 0
    BY <1>1 DEF NewClient
  <2>2. Valid(commits, h[k].content)
    BY <1>1, <1>2, HereValid
  <2>3. MaxOwn \in Nat /\ Len(commits) \in Nat
    BY <1>1, LenProperties DEF ConstantsAssumption
  <2>4. 0 \in Nat /\ ~(0 > MaxOwn) /\ 0 \notin 1..MaxOwn /\ 0 \in 0..(MaxOwn + Len(commits))
    BY <2>3
  <2>5. MadeIs(commits, 0, MadeAt(commits, 0))
    BY <1>1, <2>4, MadeAtIs
  <2>6. MadeAt(commits, 0) = 0 /\ Valid(commits, 0)
    BY <2>4, <2>5 DEF MadeIs, Valid
  <2>7. MadeAt(commits, h[k].content) \in Nat
    BY <1>1, <2>2, MadeAtType
  <2> QED
    BY <2>1, <2>2, <2>6, <2>7
<1>4. ShownOK(commits, h, client.shown)
  BY <1>3 DEF ShownOK
<1> QED
  BY <1>2, <1>4 DEF ShownInv

LEMMA ShownNext ==
  ASSUME ConstantsAssumption, WatchInv, WatchInv', ViewInv, ViewInv', ShownInv, [Next]_vars
  PROVE  ShownInv' /\ ShownGrows(commits', client.shown, client'.shown)
<1>1. CASE HandleSuccessfulWrite
  BY <1>1, HandleSuccessfulWriteShown
<1>2. CASE RaiseWatchSnapshot
  BY <1>2, RaiseShown
<1>3. ASSUME NEW k \in Keys, WriteMutations(k)
      PROVE  ShownInv' /\ ShownGrows(commits', client.shown, client'.shown)
  BY <1>3, WriteMutationsShown
<1>4. ASSUME NEW k \in Keys, CommitOther(k)
      PROVE  ShownInv' /\ ShownGrows(commits', client.shown, client'.shown)
  BY <1>4, CommitOtherShown
<1>5. CASE CommitOwn
  BY <1>5, CommitOwnShown
<1>6. CASE OnWatchStreamOpen
  <2>1. UNCHANGED <<commits, writes, acked, disk>>
    BY <1>6 DEF OnWatchStreamOpen
  <2> QED
    BY <1>6, <2>1, OnWatchStreamOpenShows, ShownOnly
<1>7. CASE HandleTargetChange \/ HandleDocumentChange \/ HoldBackSnapshot
  <2>1. UNCHANGED <<commits, writes, acked, disk>>
    BY <1>7 DEF HandleTargetChange, HandleDocumentChange, HoldBackSnapshot,
                OnWatchStreamChange
  <2> QED
    BY <1>7, <2>1, HeadShows, ShownOnly
<1>8. CASE ServeListen \/ ServeUnlisten \/ ServeChanges
  <2>1. UNCHANGED <<commits, writes, acked, disk, client>>
    BY <1>8, ServeHasParts DEF ServeListen, ServeUnlisten
  <2> QED
    BY <2>1, ShownOnly DEF ShowsOnly
<1>9. CASE BreakStream \/ IdleTimeout \/ RestartNetwork \/ OnlineStateTimeout
  <2>1. UNCHANGED <<commits, writes, acked, disk>>
    BY <1>9 DEF BreakStream, IdleTimeout, RestartNetwork, OnlineStateTimeout
  <2> QED
    BY <1>9, <2>1, StreamShows, ShownOnly
<1>10. CASE Listen
  <2>1. UNCHANGED <<commits, writes, acked, disk>>
    BY <1>10 DEF Listen
  <2> QED
    BY <1>10, <2>1, ListenShows, ShownOnly
<1>11. CASE StopListening
  <2>1. UNCHANGED <<commits, writes, acked>> /\ disk' = [disk EXCEPT !.token = client.token]
    BY <1>11 DEF StopListening
  <2>2. disk'.cache = disk.cache
    BY <2>1 DEF WatchInv, TypeOK, Disk
  <2> QED
    BY <1>11, <2>1, <2>2, StopListeningShows, ShownOnly
<1>12. CASE EndProcess
  <2>1. UNCHANGED <<commits, writes, acked, disk>>
    BY <1>12 DEF EndProcess
  <2> QED
    BY <1>12, <2>1, EndProcessShows, ShownOnly
<1>13. CASE UNCHANGED vars
  <2>1. UNCHANGED <<commits, writes, acked, disk, client>>
    BY <1>13 DEF vars
  <2> QED
    BY <2>1, ShownOnly DEF ShowsOnly
<1> QED
  BY <1>1, <1>2, <1>3, <1>4, <1>5, <1>6, <1>7, <1>8, <1>9, <1>10, <1>11, <1>12, <1>13
     DEF Next, Worker, Server

-----------------------------------------------------------------------------
(* The theorems of the view *)

\* The invariant of the view, inductive on top of that of the stream: the
\* device's writes are committed in order, what is gathered is stored before
\* a later version is raised, each document of the view is the one that disk
\* and stored writes make, and a view that is current has what the disk has
\* up to the last version raised.
THEOREM ViewInvariant == Spec => []ViewInv
<1>1. Init => ViewInv
  BY ViewInit, ConstantsAssumption
<1>2. WatchInv /\ ViewInv /\ [Next]_vars => ViewInv'
  BY ViewNext, ConstantsAssumption
<1> QED
  BY <1>1, <1>2, WatchInvariant, PTL DEF Spec

\* A view that the server has vouched for is the collection as the server had
\* it at the last version raised but for later writes of the device, and no
\* document of it needs to be asked for (View::UpdateLimboDocuments,
\* RaiseWatchSnapshot, LocalStore::ApplyRemoteEvent).
THEOREM SyncedViewIsTrue == Spec => []SyncedViewIsServers
<1>1. WatchInv /\ ViewInv => SyncedViewIsServers
  BY SyncedFromView, ConstantsAssumption
<1> QED
  BY <1>1, WatchInvariant, ViewInvariant, PTL

\* What is on show was not made later than what the device has, and each step
\* of the device only brings what was made later.
THEOREM ShownInvariant == Spec => []ShownInv
<1>1. Init /\ WatchInv /\ ViewInv => ShownInv
  BY ShownInit, ConstantsAssumption
<1>2. /\ WatchInv /\ WatchInv' /\ ViewInv /\ ViewInv' /\ ShownInv /\ [Next]_vars
      => ShownInv'
  BY ShownNext, ConstantsAssumption
<1> QED
  BY <1>1, <1>2, WatchInvariant, ViewInvariant, PTL DEF Spec

\* A message on show never gives way to an older one and never disappears:
\* not by a commit, an acknowledgement or a version that is raised, not when
\* the stream breaks or the process ends, and not when the chat is opened
\* again (LocalStore::ApplyRemoteEvent, MutationQueue,
\* View::ShouldWaitForSyncedDocument).
THEOREM NeverGivesWay == Spec => NeverOlder
<1>1. /\ WatchInv /\ WatchInv' /\ ViewInv /\ ViewInv' /\ ShownInv /\ [Next]_vars
      => [\A k \in Keys : MadeAt(commits', client'.shown[k])
                            >= MadeAt(commits', client.shown[k])]_vars
  <2> SUFFICES ASSUME WatchInv, WatchInv', ViewInv, ViewInv', ShownInv, [Next]_vars
               PROVE  \A k \in Keys : MadeAt(commits', client'.shown[k])
                                        >= MadeAt(commits', client.shown[k])
    OBVIOUS
  <2>1. ShownGrows(commits', client.shown, client'.shown)
    BY ShownNext, ConstantsAssumption
  <2> QED
    BY <2>1 DEF ShownGrows
<1> QED
  BY <1>1, WatchInvariant, ViewInvariant, ShownInvariant, PTL DEF Spec, NeverOlder
=============================================================================
