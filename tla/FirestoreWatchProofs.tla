------------------------ MODULE FirestoreWatchProofs ------------------------
(***************************************************************************)
(* Theorems about FirestoreWatch, for every collection, every number of    *)
(* writes and listeners and any number of broken streams.                  *)
(*                                                                         *)
(* The stream and the disk: the aggregator counts the answers that are     *)
(* owed, and the token on disk never claims more than the disk holds.      *)
(* FirestoreViewProofs takes the view from there.                          *)
(***************************************************************************)
EXTENDS FirestoreWatch, Integers, SequenceTheorems, FiniteSetTheorems,
        WellFoundedInduction, TLAPS

\* The types of the state.
Commits   == [key : Keys, own : Nat]
Requests  == [listen : BOOLEAN, token : Nat]
Messages  == [type : {"added", "removed", "current", "reset", "snapshot"},
              version : Nat]
Documents == [type : {"document"}, key : Keys, version : Nat]
Responses == Messages \cup Documents
Wire      == [requests : Seq(Requests), responses : Seq(Responses),
              serving : BOOLEAN, current : BOOLEAN, upTo : Nat]

Doc    == [content : Nat, state : {"none", "local", "committed", "synced"}]
View   == [docs : [Keys -> Doc], mutated : SUBSET Keys, synced : SUBSET Keys,
           current : BOOLEAN, syncState : {"none", "local", "synced"}]
Change == [added : SUBSET Keys, removed : SUBSET Keys, current : BOOLEAN,
           any : BOOLEAN]
Target == [outstanding : Int,
           changes : [Keys -> {"none", "Added", "Modified", "Removed"}],
           current : BOOLEAN, token : Nat, pending : BOOLEAN]
Aggregator == [target : Target, updates : [Keys -> Nat]]
Client == [listening : BOOLEAN, token : Nat, view : View, raised : BOOLEAN,
           shown : [Keys -> Nat], online : {"Unknown", "Online", "Offline"},
           failed : BOOLEAN, timer : BOOLEAN, stream : {"off", "starting", "open"},
           idle : BOOLEAN, agg : Aggregator]
Cached == [version : Nat, byAck : BOOLEAN]
Disk   == [cache : [Keys -> Cached], keys : SUBSET Keys, token : Nat,
           lastRemote : Nat]

TypeOK ==
  /\ commits \in Seq(Commits)
  /\ writes \in Seq(Keys)
  /\ acked \in Nat
  /\ disk \in Disk
  /\ client \in Client
  /\ wire \in Wire

\* What the stream and the disk depend on of the client.
Listener == [listening : BOOLEAN, token : Nat, stream : {"off", "starting", "open"},
             synced : SUBSET Keys, agg : Aggregator]
ListenerOf(c) == [listening |-> c.listening, token |-> c.token, stream |-> c.stream,
                  synced |-> c.view.synced, agg |-> c.agg]

-----------------------------------------------------------------------------
(* Sequences of requests and responses *)

\* A function on 1..n is a sequence.
LEMMA FunctionIsSeq ==
  ASSUME NEW S, NEW n \in Nat, NEW f \in [1..n -> S]
  PROVE  f \in Seq(S) /\ Len(f) = n /\ DOMAIN f = 1..n
OBVIOUS

\* The answers of a sequence of responses are finitely many.
LEMMA AnswersFinite ==
  ASSUME NEW s \in Seq(Responses)
  PROVE  /\ Answers(s) = {i \in 1..Len(s) : s[i].type \in {"added", "removed"}}
         /\ Len(s) \in Nat
         /\ \A i \in 1..Len(s) : s[i] \in Responses
         /\ Answers(s) \subseteq Nat
         /\ IsFiniteSet(Answers(s))
         /\ Cardinality(Answers(s)) \in Nat
         /\ Cardinality(Answers(s)) = 0 <=> Answers(s) = {}
<1>1. Len(s) \in Nat /\ DOMAIN s = 1..Len(s) /\ \A i \in 1..Len(s) : s[i] \in Responses
  BY LenProperties, ElementOfSeq
<1>2. Answers(s) = {i \in 1..Len(s) : s[i].type \in {"added", "removed"}}
  BY <1>1 DEF Answers
<1>3. IsFiniteSet(1..Len(s)) /\ Answers(s) \in SUBSET (1..Len(s))
  BY <1>1, <1>2, FS_Interval
<1>4. IsFiniteSet(Answers(s))
  BY <1>3, FS_Subset
<1>5. Cardinality(Answers(s)) \in Nat
  BY <1>4, FS_CardinalityType
<1>6. Cardinality(Answers(s)) = 0 <=> Answers(s) = {}
  BY <1>4, FS_EmptySet
<1> QED
  BY <1>1, <1>2, <1>3, <1>4, <1>5, <1>6

\* Without the first response.
LEMMA TailAnswers ==
  ASSUME NEW s \in Seq(Responses), s # <<>>
  PROVE  /\ Tail(s) \in Seq(Responses)
         /\ Len(s) \in Nat /\ 1 <= Len(s)
         /\ Len(Tail(s)) = Len(s) - 1
         /\ Head(s) = s[1] /\ s[1] \in Responses
         /\ \A i \in 1..(Len(s) - 1) : Tail(s)[i] = s[i + 1]
         /\ Answers(Tail(s)) = {i \in 1..(Len(s) - 1) : i + 1 \in Answers(s)}
         /\ Cardinality(Answers(Tail(s))) =
              IF 1 \in Answers(s) THEN Cardinality(Answers(s)) - 1
              ELSE Cardinality(Answers(s))
<1> DEFINE t == Tail(s)
<1>1. /\ t \in Seq(Responses) /\ Len(s) \in Nat /\ s[1] \in Responses
      /\ Len(t) = Len(s) - 1 /\ 1 <= Len(s) /\ Head(s) = s[1]
      /\ \A i \in 1..(Len(s) - 1) : t[i] = s[i + 1]
  <2>1. /\ t \in Seq(Responses) /\ Len(t) = Len(s) - 1
        /\ \A i \in 1..Len(t) : t[i] = s[i + 1]
    BY HeadTailProperties
  <2>2. Len(s) \in Nat /\ 1 <= Len(s)
    BY EmptySeq
  <2>3. s[1] \in Responses
    BY <2>2, ElementOfSeq
  <2> QED
    BY <2>1, <2>2, <2>3
<1> HIDE DEF t
<1>2. Answers(t) = {i \in 1..Len(t) : t[i].type \in {"added", "removed"}}
  BY <1>1, AnswersFinite
<1>3. Answers(s) = {i \in 1..Len(s) : s[i].type \in {"added", "removed"}}
  BY AnswersFinite
<1>4. ASSUME NEW i \in 1..(Len(s) - 1)
      PROVE  i \in Answers(t) <=> i + 1 \in Answers(s)
  <2>1. i + 1 \in 1..Len(s) /\ i \in 1..Len(t) /\ t[i] = s[i + 1]
    BY <1>1
  <2> QED
    BY <2>1, <1>2, <1>3
<1>5. Answers(t) = {i \in 1..(Len(s) - 1) : i + 1 \in Answers(s)}
  BY <1>1, <1>2, <1>4
<1> DEFINE rest == Answers(s) \ {1}
           f    == [i \in Answers(t) |-> i + 1]
<1>6. IsFiniteSet(Answers(s)) /\ IsFiniteSet(Answers(t)) /\ Answers(t) \subseteq Nat
  BY <1>1, AnswersFinite
<1>7. /\ IsFiniteSet(rest)
      /\ Cardinality(rest) = IF 1 \in Answers(s) THEN Cardinality(Answers(s)) - 1
                             ELSE Cardinality(Answers(s))
  BY <1>6, FS_RemoveElement
<1>8. f \in Bijection(Answers(t), rest)
  <2>1. f \in [Answers(t) -> rest]
    <3> SUFFICES ASSUME NEW i \in Answers(t) PROVE i + 1 \in rest
      OBVIOUS
    <3> QED
      BY <1>5, <1>1
  <2>2. \A a, b \in Answers(t) : f[a] = f[b] => a = b
    BY <1>6
  <2>3. \A y \in rest : \E x \in Answers(t) : f[x] = y
    <3> SUFFICES ASSUME NEW y \in rest PROVE \E x \in Answers(t) : f[x] = y
      OBVIOUS
    <3>1. y \in 2..Len(s) /\ y \in Answers(s)
      BY <1>1, <1>3
    <3>2. y - 1 \in 1..(Len(s) - 1) /\ (y - 1) + 1 = y
      BY <3>1, <1>1
    <3>3. y - 1 \in Answers(t)
      BY <3>1, <3>2, <1>4
    <3> QED
      BY <3>2, <3>3
  <2> HIDE DEF f, rest
  <2> QED
    BY <2>1, <2>2, <2>3 DEF Bijection, Injection, Surjection, IsInjective
<1>9. Cardinality(rest) = Cardinality(Answers(t))
  <2>1. ExistsBijection(Answers(t), rest)
    BY <1>8 DEF ExistsBijection
  <2> QED
    BY <2>1, <1>6, FS_Bijection
<1> QED
  BY <1>1, <1>5, <1>7, <1>9 DEF t

\* More responses: what they hold of answers comes on top.
LEMMA MoreAnswers ==
  ASSUME NEW s \in Seq(Responses), NEW more \in Seq(Responses)
  PROVE  /\ s \o more \in Seq(Responses)
         /\ Len(s) \in Nat /\ Len(more) \in Nat
         /\ Len(s \o more) = Len(s) + Len(more)
         /\ \A i \in 1..Len(s) : (s \o more)[i] = s[i]
         /\ \A i \in 1..Len(more) : (s \o more)[Len(s) + i] = more[i]
         /\ \A i \in 1..Len(s) : i \in Answers(s \o more) <=> i \in Answers(s)
         /\ \A i \in 1..Len(more) : Len(s) + i \in Answers(s \o more) <=> i \in Answers(more)
<1>0. PICK t : t = s \o more
  OBVIOUS
<1>1. Len(s) \in Nat /\ Len(more) \in Nat
  BY LenProperties
<1>2. /\ t \in Seq(Responses) /\ Len(t) = Len(s) + Len(more)
      /\ \A i \in 1..(Len(s) + Len(more)) :
           t[i] = IF i <= Len(s) THEN s[i] ELSE more[i - Len(s)]
  BY <1>0, ConcatProperties
<1>3. \A i \in 1..Len(s) : t[i] = s[i]
  BY <1>1, <1>2
<1>4. \A i \in 1..Len(more) : t[Len(s) + i] = more[i]
  <2> SUFFICES ASSUME NEW i \in 1..Len(more) PROVE t[Len(s) + i] = more[i]
    OBVIOUS
  <2>1. /\ Len(s) + i \in 1..(Len(s) + Len(more)) /\ ~(Len(s) + i <= Len(s))
        /\ (Len(s) + i) - Len(s) = i
    BY <1>1
  <2> QED
    BY <2>1, <1>2
<1>5. Answers(t) = {i \in 1..Len(t) : t[i].type \in {"added", "removed"}}
  BY <1>2, AnswersFinite
<1>6. Answers(s) = {i \in 1..Len(s) : s[i].type \in {"added", "removed"}}
  BY AnswersFinite
<1>7. Answers(more) = {i \in 1..Len(more) : more[i].type \in {"added", "removed"}}
  BY AnswersFinite
<1>8. \A i \in 1..Len(s) : i \in Answers(t) <=> i \in Answers(s)
  BY <1>1, <1>2, <1>3, <1>5, <1>6
<1>9. \A i \in 1..Len(more) : Len(s) + i \in Answers(t) <=> i \in Answers(more)
  <2> SUFFICES ASSUME NEW i \in 1..Len(more)
               PROVE  Len(s) + i \in Answers(t) <=> i \in Answers(more)
    OBVIOUS
  <2>1. Len(s) + i \in 1..Len(t) /\ t[Len(s) + i] = more[i]
    BY <1>1, <1>2, <1>4
  <2>2. Len(s) + i \in Answers(t) <=> t[Len(s) + i].type \in {"added", "removed"}
    BY <2>1, <1>5
  <2>3. i \in Answers(more) <=> more[i].type \in {"added", "removed"}
    BY <1>7
  <2> QED
    BY <2>1, <2>2, <2>3
<1> QED
  BY <1>0, <1>1, <1>2, <1>3, <1>4, <1>8, <1>9

\* Responses without an answer, and one that starts with an answer.
LEMMA RoundAnswers ==
  ASSUME NEW s \in Seq(Responses), NEW more \in Seq(Responses), Answers(more) = {}
  PROVE  Answers(s \o more) = Answers(s)
<1>0. PICK t : t = s \o more
  OBVIOUS
<1>1. /\ t \in Seq(Responses) /\ Len(s) \in Nat /\ Len(more) \in Nat
      /\ Len(t) = Len(s) + Len(more)
      /\ \A i \in 1..Len(s) : i \in Answers(t) <=> i \in Answers(s)
      /\ \A i \in 1..Len(more) : Len(s) + i \notin Answers(t)
  BY <1>0, MoreAnswers
<1>2. Answers(t) \subseteq 1..Len(t) /\ Answers(s) \subseteq 1..Len(s)
  BY <1>1, AnswersFinite
<1>3. ASSUME NEW i \in Answers(t) PROVE i \in 1..Len(s)
  <2>1. i \in 1..Len(s) \/ (i - Len(s) \in 1..Len(more) /\ Len(s) + (i - Len(s)) = i)
    BY <1>1, <1>2
  <2> QED
    BY <2>1, <1>1
<1> QED
  BY <1>0, <1>1, <1>2, <1>3

LEMMA OneAnswer ==
  ASSUME NEW s \in Seq(Responses), NEW more \in Seq(Responses), Answers(more) = {1}
  PROVE  /\ Answers(s \o more) = Answers(s) \cup {Len(s) + 1}
         /\ Cardinality(Answers(s \o more)) = Cardinality(Answers(s)) + 1
<1>0. PICK t : t = s \o more
  OBVIOUS
<1>1. /\ t \in Seq(Responses) /\ Len(s) \in Nat /\ Len(more) \in Nat
      /\ Len(t) = Len(s) + Len(more)
      /\ \A i \in 1..Len(s) : i \in Answers(t) <=> i \in Answers(s)
      /\ \A i \in 1..Len(more) : Len(s) + i \in Answers(t) <=> i = 1
      /\ 1 \in 1..Len(more)
  BY <1>0, MoreAnswers, AnswersFinite
<1>2. Answers(t) \subseteq 1..Len(t) /\ Answers(s) \subseteq 1..Len(s)
  BY <1>1, AnswersFinite
<1>3. ASSUME NEW i \in Answers(t) PROVE i \in 1..Len(s) \/ i = Len(s) + 1
  <2>1. i \in 1..Len(s) \/ (i - Len(s) \in 1..Len(more) /\ Len(s) + (i - Len(s)) = i)
    BY <1>1, <1>2
  <2> QED
    BY <2>1, <1>1
<1>4. Answers(t) = Answers(s) \cup {Len(s) + 1}
  BY <1>1, <1>2, <1>3
<1>5. IsFiniteSet(Answers(s)) /\ Len(s) + 1 \notin Answers(s)
  BY <1>1, <1>2, AnswersFinite
<1> QED
  BY <1>0, <1>4, <1>5, FS_AddElement

-----------------------------------------------------------------------------
(* Versions *)

\* A set of numbers that is not empty has a least one.
LEMMA LeastNumber ==
  ASSUME NEW T, T \subseteq Nat, T # {}
  PROVE  \E x \in T : \A y \in T : x <= y
<1>1. PICK x \in T : \A y \in T : ~(<<y, x>> \in OpToRel(<, Nat))
  BY NatLessThanWellFounded, WFMin, ZenonT(60)
<1>2. \A y \in T : ~(y < x)
  BY <1>1 DEF OpToRel
<1> QED
  BY <1>2

\* A set of numbers with a bound has a greatest one.
LEMMA GreatestNumber ==
  ASSUME NEW n \in Nat, NEW T \in SUBSET (1..n), T # {}
  PROVE  \E x \in T : \A y \in T : y <= x
<1> DEFINE U == {n - x : x \in T}
<1>1. U \subseteq Nat /\ U # {}
  <2>1. PICK x \in T : TRUE
    OBVIOUS
  <2>2. n - x \in U
    OBVIOUS
  <2>3. U \subseteq Nat
    OBVIOUS
  <2> QED
    BY <2>2, <2>3
<1>2. PICK u \in U : \A w \in U : u <= w
  <2> HIDE DEF U
  <2> QED
    BY <1>1, LeastNumber
<1>3. PICK x \in T : u = n - x
  OBVIOUS
<1>4. ASSUME NEW y \in T PROVE y <= x
  <2>1. n - y \in U
    OBVIOUS
  <2>2. u <= n - y
    BY <1>2, <2>1
  <2> QED
    BY <1>3, <2>2
<1> QED
  BY <1>4

\* VersionAt is the greatest commit of the document up to v.
LEMMA VersionAtProperties ==
  ASSUME NEW log \in Seq(Commits), NEW v \in 0..Len(log), NEW k
  PROVE  /\ VersionAt(log, v, k) \in 0..v
         /\ VersionAt(log, v, k) # 0 => log[VersionAt(log, v, k)].key = k
         /\ \A i \in 1..v : log[i].key = k => i <= VersionAt(log, v, k)
<1>1. v \in Nat
  BY LenProperties
<1>2. PICK made : made = {i \in 1..v : log[i].key = k}
  OBVIOUS
<1>3. VersionAt(log, v, k) =
        IF made = {} THEN 0 ELSE CHOOSE i \in made : \A j \in made : j <= i
  BY <1>2 DEF VersionAt
<1>4. CASE made = {}
  BY <1>1, <1>2, <1>3, <1>4
<1>5. CASE made # {}
  <2>1. made \in SUBSET (1..v)
    BY <1>2
  <2>2. \E i \in made : \A j \in made : j <= i
    BY <1>1, <1>5, <2>1, GreatestNumber
  <2>3. VersionAt(log, v, k) = CHOOSE i \in made : \A j \in made : j <= i
    BY <1>3, <1>5
  <2>4. /\ VersionAt(log, v, k) \in made
        /\ \A j \in made : j <= VersionAt(log, v, k)
    BY <2>2, <2>3
  <2> QED
    BY <1>1, <1>2, <2>4
<1> QED
  BY <1>4, <1>5

\* What is committed later changes no earlier version.
LEMMA VersionAtLonger ==
  ASSUME NEW log \in Seq(Commits), NEW e \in Commits, NEW v \in 0..Len(log), NEW k
  PROVE  VersionAt(Append(log, e), v, k) = VersionAt(log, v, k)
<1>1. \A i \in 1..v : Append(log, e)[i] = log[i]
  BY AppendProperties, LenProperties
<1>2. PICK made : made = {i \in 1..v : log[i].key = k}
  OBVIOUS
<1>3. made = {i \in 1..v : Append(log, e)[i].key = k}
  BY <1>1, <1>2
<1>4. VersionAt(log, v, k) =
        IF made = {} THEN 0 ELSE CHOOSE i \in made : \A j \in made : j <= i
  BY <1>2 DEF VersionAt
<1>5. VersionAt(Append(log, e), v, k) =
        IF made = {} THEN 0 ELSE CHOOSE i \in made : \A j \in made : j <= i
  BY <1>3 DEF VersionAt
<1> QED
  BY <1>4, <1>5

\* A document that did not change between two versions.
LEMMA VersionAtSame ==
  ASSUME NEW log \in Seq(Commits), NEW v \in 0..Len(log), NEW u \in 0..v, NEW k,
         VersionAt(log, v, k) <= u
  PROVE  VersionAt(log, u, k) = VersionAt(log, v, k)
<1>1. v \in Nat /\ u \in 0..Len(log) /\ Len(log) \in Nat
  BY LenProperties
<1>2. PICK x \in 0..v : /\ x = VersionAt(log, v, k) /\ x <= u
                        /\ x # 0 => log[x].key = k
                        /\ \A i \in 1..v : log[i].key = k => i <= x
  BY VersionAtProperties
<1>3. PICK y \in 0..u : /\ y = VersionAt(log, u, k)
                        /\ y # 0 => log[y].key = k
                        /\ \A i \in 1..u : log[i].key = k => i <= y
  BY <1>1, VersionAtProperties
<1>4. x <= y
  <2>1. CASE x = 0
    BY <1>3, <2>1
  <2>2. CASE x # 0
    BY <1>1, <1>2, <1>3, <2>2
  <2> QED
    BY <2>1, <2>2
<1>5. y <= x
  <2>1. CASE y = 0
    BY <1>2, <2>1
  <2>2. CASE y # 0
    BY <1>1, <1>2, <1>3, <2>2
  <2> QED
    BY <2>1, <2>2
<1> QED
  BY <1>2, <1>3, <1>4, <1>5

\* Versions grow.
LEMMA VersionAtGrows ==
  ASSUME NEW log \in Seq(Commits), NEW v \in 0..Len(log), NEW u \in 0..v, NEW k
  PROVE  VersionAt(log, u, k) <= VersionAt(log, v, k)
<1>1. v \in Nat /\ u \in 0..Len(log) /\ Len(log) \in Nat
  BY LenProperties
<1>2. PICK y \in 0..u : /\ y = VersionAt(log, u, k)
                        /\ y # 0 => log[y].key = k
  BY <1>1, VersionAtProperties
<1>3. VersionAt(log, v, k) \in 0..v /\ \A i \in 1..v : log[i].key = k => i <= VersionAt(log, v, k)
  BY VersionAtProperties
<1> QED
  BY <1>1, <1>2, <1>3

\* The documents that changed are finitely many, and the list of them has each.
LEMMA ListOfChanged ==
  ASSUME NEW log \in Seq(Commits), NEW v \in 0..Len(log), NEW u \in Nat
  PROVE  LET changed == {k \in Keys : VersionAt(log, v, k) > u}
         IN  /\ SetToSeq(changed) \in Seq(Keys)
             /\ \A i \in 1..Len(SetToSeq(changed)) : SetToSeq(changed)[i] \in changed
             /\ \A k \in changed : \E i \in 1..Len(SetToSeq(changed)) :
                  SetToSeq(changed)[i] = k
<1>1. PICK S : S = {k \in Keys : VersionAt(log, v, k) > u}
  OBVIOUS
<1>2. v \in Nat
  BY LenProperties
<1>3. \A k \in S : VersionAt(log, v, k) \in 1..v /\ log[VersionAt(log, v, k)].key = k
  BY <1>1, <1>2, VersionAtProperties
<1>4. PICK f : f = [k \in S |-> VersionAt(log, v, k)]
  OBVIOUS
<1>5. f \in Injection(S, 1..v)
  <2>1. f \in [S -> 1..v]
    BY <1>3, <1>4
  <2>2. \A a, b \in S : f[a] = f[b] => a = b
    BY <1>3, <1>4
  <2> QED
    BY <2>1, <2>2 DEF Injection, IsInjective
<1>6. IsFiniteSet(S)
  <2>1. IsFiniteSet(1..v)
    BY <1>2, FS_Interval
  <2> QED
    BY <1>5, <2>1, FS_Injection
<1>7. PICK n \in Nat : n = Cardinality(S) /\ ExistsBijection(1..n, S)
  BY <1>6, FS_CardinalityType
<1>8. PICK q : q = SetToSeq(S)
  OBVIOUS
<1>9. q \in [1..n -> S] /\ IsInjective(q)
  <2>1. \E g \in [1..n -> S] : IsInjective(g)
    BY <1>7 DEF ExistsBijection, Bijection, Injection
  <2>2. q = CHOOSE g \in [1..n -> S] : IsInjective(g)
    BY <1>7, <1>8 DEF SetToSeq
  <2> QED
    BY <2>1, <2>2
<1>10. q \in Injection(1..n, S)
  BY <1>9 DEF Injection
<1>11. IsFiniteSet(1..n) /\ Cardinality(1..n) = n
  BY FS_Interval
<1>12. q \in Surjection(1..n, S)
  BY <1>6, <1>7, <1>10, <1>11, FS_Injection
<1>13. \A k \in S : \E i \in 1..n : q[i] = k
  BY <1>12 DEF Surjection
<1>14. q \in [1..n -> Keys]
  BY <1>1, <1>9
<1>15. q \in Seq(Keys) /\ Len(q) = n
  BY <1>14, FunctionIsSeq
<1>16. \A i \in 1..n : q[i] \in S
  BY <1>9
<1> QED
  BY <1>1, <1>8, <1>13, <1>15, <1>16, Zenon

-----------------------------------------------------------------------------
(* The view and the online state *)

\* A step of the client that tells at most the listener something: of the
\* view it may take back that it is current, and what is shown is what was
\* shown before or what the view holds.
Quiet(c, d) ==
  /\ d \in Client
  /\ ListenerOf(d) = ListenerOf(c)
  /\ d.view.docs = c.view.docs
  /\ d.view.mutated = c.view.mutated
  /\ d.view.current => c.view.current
  /\ d.shown = c.shown \/ (d.listening /\ d.shown = Contents(d.view))

LEMMA ListenerType ==
  ASSUME NEW c \in Client
  PROVE  ListenerOf(c) \in Listener
BY DEF ListenerOf, Listener, Client, View

LEMMA SameListener ==
  ASSUME NEW c \in Client, NEW d \in Client
  PROVE  ListenerOf(d) = ListenerOf(c) <=>
           /\ d.listening = c.listening /\ d.token = c.token
           /\ d.stream = c.stream /\ d.view.synced = c.view.synced
           /\ d.agg = c.agg
BY DEF ListenerOf

LEMMA ContentsType ==
  ASSUME NEW v \in View
  PROVE  Contents(v) \in [Keys -> Nat]
BY DEF Contents, View, Doc

LEMMA QuietTransitive ==
  ASSUME NEW c, NEW d, NEW e, Quiet(c, d), Quiet(d, e)
  PROVE  Quiet(c, e)
<1>1. d.view.docs = e.view.docs /\ d.listening = e.listening
  BY DEF Quiet, ListenerOf
<1>2. Contents(d.view) = Contents(e.view)
  BY <1>1 DEF Contents
<1> QED
  BY <1>1, <1>2 DEF Quiet

LEMMA OnViewSnapshotQuiet ==
  ASSUME NEW c \in Client, c.listening, NEW old
  PROVE  /\ Quiet(c, OnViewSnapshot(c, old))
         /\ OnViewSnapshot(c, old).view = c.view
<1>1. OnViewSnapshot(c, old) = c \/ OnViewSnapshot(c, old) = Raise(c)
  BY DEF OnViewSnapshot
<1>2. Contents(c.view) \in [Keys -> Nat]
  BY ContentsType DEF Client
<1>3. PICK r : r = Raise(c)
  OBVIOUS
<1>4. /\ r \in Client
      /\ r.view = c.view /\ r.shown = Contents(c.view)
      /\ r.listening = c.listening /\ r.token = c.token /\ r.stream = c.stream
      /\ r.agg = c.agg
  BY <1>2, <1>3 DEF Raise, Client
<1>5. Quiet(c, r)
  BY <1>4 DEF Quiet, ListenerOf
<1>6. Quiet(c, c)
  BY DEF Quiet
<1> QED
  BY <1>1, <1>3, <1>4, <1>5, <1>6

\* The view after new documents and a target change.
Shows(view, v, D, new, change) ==
  /\ view \in View
  /\ \A k \in Keys : view.docs[k] =
       IF k \in D /\ Changes(v, k, new[k]) THEN new[k] ELSE v.docs[k]
  /\ \A k \in Keys : k \in view.mutated <=>
       IF k \in D /\ Changes(v, k, new[k]) THEN new[k].state = "local"
       ELSE k \in v.mutated
  /\ view.synced = IF change.any
                   THEN (v.synced \cup change.added) \ change.removed
                   ELSE v.synced
  /\ view.current = IF change.any THEN change.current ELSE v.current

LEMMA NextViewShows ==
  ASSUME NEW v \in View, NEW D \in SUBSET Keys, NEW new \in [D -> Doc],
         NEW change \in Change
  PROVE  Shows(NextView(v, new, change), v, D, new, change)
<1>1. DOMAIN new = D
  OBVIOUS
<1>2. PICK taken : taken = {k \in D : Changes(v, k, new[k])}
  OBVIOUS
<1>3. PICK local : local = {k \in taken : new[k].state = "local"}
  OBVIOUS
<1>4. PICK docs : docs = [k \in Keys |-> IF k \in taken THEN new[k] ELSE v.docs[k]]
  OBVIOUS
<1>5. docs \in [Keys -> Doc]
  BY <1>2, <1>4 DEF View
<1>6. PICK changed : changed = [v EXCEPT !.docs = docs, !.mutated = (@ \ taken) \cup local]
  OBVIOUS
<1>7. /\ changed \in View /\ changed.docs = docs
      /\ changed.mutated = (v.mutated \ taken) \cup local
      /\ changed.synced = v.synced /\ changed.current = v.current
  BY <1>2, <1>3, <1>5, <1>6, ZenonT(60) DEF View
<1>8. PICK next : next = ApplyTargetChange(changed, change)
  OBVIOUS
<1>9. /\ next \in View /\ next.docs = docs
      /\ next.mutated = (v.mutated \ taken) \cup local
      /\ next.synced = IF change.any
                       THEN (v.synced \cup change.added) \ change.removed
                       ELSE v.synced
      /\ next.current = IF change.any THEN change.current ELSE v.current
  <2>1. CASE ~change.any
    BY <1>7, <1>8, <2>1 DEF ApplyTargetChange
  <2>2. CASE change.any
    <3>1. next = [changed EXCEPT !.synced  = (@ \cup change.added) \ change.removed,
                                 !.current = change.current]
      BY <1>8, <2>2 DEF ApplyTargetChange
    <3> QED
      BY <1>7, <2>2, <3>1 DEF View, Change
  <2> QED
    BY <2>1, <2>2
<1>10. PICK last : last = [next EXCEPT !.syncState =
                             IF next.current /\ Limbo(next) = {} THEN "synced" ELSE "local"]
  OBVIOUS
<1>11. last = NextView(v, new, change)
  <2>1. changed = [v EXCEPT !.docs = [k \in Keys |-> IF k \in taken THEN new[k] ELSE @[k]],
                            !.mutated = (@ \ taken) \cup local]
    BY <1>4, <1>6 DEF View
  <2> QED
    BY <1>1, <1>2, <1>3, <1>8, <1>10, <2>1, ZenonT(60) DEF NextView
<1>12. /\ last \in View /\ last.docs = next.docs /\ last.mutated = next.mutated
       /\ last.synced = next.synced /\ last.current = next.current
  BY <1>9, <1>10 DEF View
<1>13. \A k \in Keys : last.docs[k] =
         IF k \in D /\ Changes(v, k, new[k]) THEN new[k] ELSE v.docs[k]
  BY <1>2, <1>4, <1>9, <1>12
<1>14. \A k \in Keys : k \in last.mutated <=>
         IF k \in D /\ Changes(v, k, new[k]) THEN new[k].state = "local"
         ELSE k \in v.mutated
  BY <1>2, <1>3, <1>9, <1>12
<1> QED
  BY <1>9, <1>11, <1>12, <1>13, <1>14 DEF Shows

\* What EmitNewSnapshots leaves alone.
LEMMA EmitProperties ==
  ASSUME NEW c \in Client, NEW D \in SUBSET Keys, NEW new \in [D -> Doc],
         NEW change \in Change
  PROVE  LET d == EmitNewSnapshots(c, new, change)
         IN  /\ d \in Client
             /\ d.listening = c.listening /\ d.token = c.token
             /\ d.stream = c.stream /\ d.agg = c.agg
             /\ ~c.listening => d = c
             /\ c.listening => /\ d.view = NextView(c.view, new, change)
                               /\ d.shown = c.shown \/ d.shown = Contents(d.view)
<1>1. CASE ~c.listening
  BY <1>1 DEF EmitNewSnapshots
<1>2. CASE c.listening
  <2>1. PICK b : b = [c EXCEPT !.view = NextView(@, new, change)]
    OBVIOUS
  <2>2. NextView(c.view, new, change) \in View
    <3>1. c.view \in View
      BY DEF Client
    <3> QED
      BY <3>1, NextViewShows DEF Shows
  <2>3. /\ b \in Client /\ b.view = NextView(c.view, new, change)
        /\ b.listening = c.listening /\ b.token = c.token
        /\ b.stream = c.stream /\ b.agg = c.agg /\ b.shown = c.shown
    BY <2>1, <2>2 DEF Client
  <2>4. EmitNewSnapshots(c, new, change) = OnViewSnapshot(b, c.view)
    BY <1>2, <2>1 DEF EmitNewSnapshots
  <2>5. PICK d : d = OnViewSnapshot(b, c.view)
    OBVIOUS
  <2>6. Quiet(b, d) /\ d.view = b.view
    BY <1>2, <2>3, <2>5, OnViewSnapshotQuiet
  <2>7. /\ d \in Client /\ d.listening = b.listening /\ d.token = b.token
        /\ d.stream = b.stream /\ d.agg = b.agg
        /\ d.shown = b.shown \/ d.shown = Contents(d.view)
    BY <2>6 DEF Quiet, ListenerOf
  <2> QED
    BY <1>2, <2>3, <2>4, <2>5, <2>6, <2>7
<1> QED
  BY <1>1, <1>2

\* Without new documents the view stays as it is.
LEMMA NothingNew ==
  ASSUME NEW v \in View
  PROVE  /\ NextView(v, NoDocs, NoChange) \in View
         /\ NextView(v, NoDocs, NoChange).docs = v.docs
         /\ NextView(v, NoDocs, NoChange).mutated = v.mutated
         /\ NextView(v, NoDocs, NoChange).synced = v.synced
         /\ NextView(v, NoDocs, NoChange).current = v.current
<1>1. /\ {} \in SUBSET Keys /\ NoDocs \in [{} -> Doc]
      /\ NoChange \in Change /\ ~NoChange.any
  BY DEF NoDocs, NoChange, Change
<1>2. PICK next : next = NextView(v, NoDocs, NoChange)
  OBVIOUS
<1>3. PICK D \in SUBSET Keys : D = {}
  OBVIOUS
<1>4. PICK new \in [D -> Doc] : new = NoDocs
  BY <1>1, <1>3
<1>5. Shows(next, v, D, new, NoChange)
  BY <1>1, <1>2, <1>4, NextViewShows
<1>6. next.docs = v.docs /\ next.mutated = v.mutated
  BY <1>3, <1>5 DEF View, Shows
<1> QED
  BY <1>1, <1>2, <1>5, <1>6 DEF Shows

OnlineStates == {"Unknown", "Online", "Offline"}

LEMMA SetAndBroadcastQuiet ==
  ASSUME NEW c \in Client, NEW state \in OnlineStates
  PROVE  Quiet(c, SetAndBroadcast(c, state))
<1>1. CASE state = c.online
  BY <1>1 DEF SetAndBroadcast, Quiet
<1>2. CASE state # c.online
  <2>1. PICK told : told = [c EXCEPT !.online = state]
    OBVIOUS
  <2>2. /\ told \in Client /\ told.view = c.view /\ told.listening = c.listening
        /\ told.shown = c.shown /\ ListenerOf(told) = ListenerOf(c)
    BY <2>1 DEF Client, OnlineStates, ListenerOf
  <2>3. Quiet(c, told)
    BY <2>2 DEF Quiet
  <2>4. CASE ~c.listening
    BY <1>2, <2>1, <2>3, <2>4 DEF SetAndBroadcast
  <2>5. CASE c.listening /\ ~(state = "Offline" /\ c.view.current)
    <3>1. SetAndBroadcast(c, state) = OnViewSnapshot(told, c.view)
      BY <1>2, <2>1, <2>5 DEF SetAndBroadcast
    <3>2. Quiet(told, OnViewSnapshot(told, c.view))
      BY <2>2, <2>5, OnViewSnapshotQuiet
    <3> QED
      BY <2>3, <3>1, <3>2, QuietTransitive
  <2>6. CASE c.listening /\ state = "Offline" /\ c.view.current
    <3>1. PICK b : b = [told EXCEPT !.view.current = FALSE]
      OBVIOUS
    <3>2. PICK w : w = [c.view EXCEPT !.current = FALSE]
      OBVIOUS
    <3>3. /\ w \in View /\ w.docs = c.view.docs /\ w.mutated = c.view.mutated
          /\ w.synced = c.view.synced /\ ~w.current
      BY <3>2 DEF Client, View
    <3>4. /\ b \in Client /\ b.view = w /\ b.listening = c.listening
          /\ b.token = c.token /\ b.stream = c.stream /\ b.agg = c.agg
          /\ b.shown = c.shown
      <4>1. b = [told EXCEPT !.view = w]
        BY <2>2, <3>1, <3>2 DEF Client
      <4> QED
        BY <2>1, <2>2, <3>3, <4>1 DEF Client
    <3>5. NoDocs \in [{} -> Doc] /\ NoChange \in Change /\ ~NoChange.any
      BY DEF NoDocs, NoChange, Change
    <3>6. PICK d : d = EmitNewSnapshots(b, NoDocs, NoChange)
      OBVIOUS
    <3>7. d = SetAndBroadcast(c, state)
      BY <1>2, <2>1, <2>6, <3>1, <3>6 DEF SetAndBroadcast
    <3>8. PICK none \in SUBSET Keys : none = {}
      OBVIOUS
    <3>9. /\ d \in Client
          /\ d.listening = b.listening /\ d.token = b.token
          /\ d.stream = b.stream /\ d.agg = b.agg
          /\ d.view = NextView(w, NoDocs, NoChange)
          /\ d.shown = b.shown \/ d.shown = Contents(d.view)
      BY <2>6, <3>4, <3>5, <3>6, <3>8, EmitProperties, ZenonT(60)
    <3>13. /\ d.view.docs = w.docs /\ d.view.mutated = w.mutated
           /\ d.view.synced = w.synced /\ ~d.view.current
      BY <3>3, <3>9, NothingNew
    <3>14. /\ d.view.docs = c.view.docs /\ d.view.mutated = c.view.mutated
           /\ d.view.synced = c.view.synced /\ ~d.view.current
      BY <3>3, <3>13
    <3>15. /\ d \in Client /\ d.listening /\ d.listening = c.listening
           /\ d.token = c.token /\ d.stream = c.stream /\ d.agg = c.agg
      BY <2>6, <3>4, <3>9
    <3>16. ListenerOf(d) = ListenerOf(c)
      BY <3>14, <3>15 DEF ListenerOf
    <3>17. d.shown = c.shown \/ d.shown = Contents(d.view)
      BY <3>4, <3>9
    <3>18. Quiet(c, d)
      BY <3>14, <3>15, <3>16, <3>17 DEF Quiet
    <3> QED
      BY <3>7, <3>18
  <2> QED
    BY <2>4, <2>5, <2>6
<1> QED
  BY <1>1, <1>2

LEMMA QuietForgets ==
  ASSUME NEW c \in Client, NEW failed \in BOOLEAN, NEW timer \in BOOLEAN
  PROVE  Quiet(c, [c EXCEPT !.failed = failed, !.timer = timer])
<1>1. PICK d : d = [c EXCEPT !.failed = failed, !.timer = timer]
  OBVIOUS
<1>2. /\ d \in Client /\ d.view = c.view /\ d.listening = c.listening
      /\ d.token = c.token /\ d.stream = c.stream /\ d.agg = c.agg
      /\ d.shown = c.shown
  BY <1>1 DEF Client
<1> QED
  BY <1>1, <1>2 DEF Quiet, ListenerOf

LEMMA UpdateStateQuiet ==
  ASSUME NEW c \in Client, NEW state \in OnlineStates
  PROVE  Quiet(c, UpdateState(c, state))
<1>1. PICK b : b = [c EXCEPT !.failed = FALSE, !.timer = FALSE]
  OBVIOUS
<1>2. Quiet(c, b)
  BY <1>1, QuietForgets, ZenonT(60)
<1>3. b = [c EXCEPT !.timer = FALSE, !.failed = FALSE]
  BY <1>1 DEF Client
<1>4. UpdateState(c, state) = SetAndBroadcast(b, state)
  BY <1>3 DEF UpdateState
<1>5. b \in Client
  BY <1>2 DEF Quiet
<1>6. Quiet(b, SetAndBroadcast(b, state))
  BY <1>5, SetAndBroadcastQuiet
<1> QED
  BY <1>2, <1>4, <1>6, QuietTransitive

LEMMA HandleWatchStreamFailureQuiet ==
  ASSUME NEW c \in Client
  PROVE  Quiet(c, HandleWatchStreamFailure(c))
<1>1. CASE c.online = "Online"
  BY <1>1, SetAndBroadcastQuiet DEF HandleWatchStreamFailure, OnlineStates
<1>2. CASE c.online # "Online"
  <2>1. PICK b : b = [c EXCEPT !.failed = TRUE, !.timer = FALSE]
    OBVIOUS
  <2>2. Quiet(c, b)
    BY <2>1, QuietForgets, ZenonT(60)
  <2>3. HandleWatchStreamFailure(c) = SetAndBroadcast(b, "Offline")
    BY <1>2, <2>1 DEF HandleWatchStreamFailure
  <2>4. b \in Client
    BY <2>2 DEF Quiet
  <2>5. Quiet(b, SetAndBroadcast(b, "Offline"))
    BY <2>4, SetAndBroadcastQuiet DEF OnlineStates
  <2> QED
    BY <2>2, <2>3, <2>5, QuietTransitive
<1> QED
  BY <1>1, <1>2

LEMMA HandleWatchStreamStartQuiet ==
  ASSUME NEW c \in Client
  PROVE  Quiet(c, HandleWatchStreamStart(c))
<1>1. CASE c.failed
  BY <1>1 DEF HandleWatchStreamStart, Quiet
<1>2. CASE ~c.failed
  <2>1. PICK b : b = SetAndBroadcast(c, "Unknown")
    OBVIOUS
  <2>2. Quiet(c, b) /\ b \in Client
    BY <2>1, SetAndBroadcastQuiet DEF OnlineStates, Quiet
  <2>3. HandleWatchStreamStart(c) = [b EXCEPT !.timer = TRUE]
    BY <1>2, <2>1 DEF HandleWatchStreamStart
  <2>4. [b EXCEPT !.timer = TRUE] = [b EXCEPT !.failed = b.failed, !.timer = TRUE]
    BY <2>2 DEF Client
  <2>5. b.failed \in BOOLEAN
    BY <2>2 DEF Client
  <2>6. Quiet(b, [b EXCEPT !.timer = TRUE])
    BY <2>2, <2>4, <2>5, QuietForgets, ZenonT(60)
  <2> QED
    BY <2>2, <2>3, <2>6, QuietTransitive
<1> QED
  BY <1>1, <1>2

LEMMA NewAggregatorType == NewAggregator \in Aggregator
BY DEF NewAggregator, NoTargetState, Aggregator, Target

\* A stream that is closed or started: the listener is the same but for it.
Restarted(c, d, stream, agg) ==
  /\ d \in Client
  /\ d.listening = c.listening /\ d.token = c.token
  /\ d.view.synced = c.view.synced
  /\ d.stream = stream /\ d.agg = agg
  /\ d.view.docs = c.view.docs
  /\ d.view.mutated = c.view.mutated
  /\ d.view.current => c.view.current
  /\ d.shown = c.shown \/ (d.listening /\ d.shown = Contents(d.view))

LEMMA QuietRestarted ==
  ASSUME NEW b, NEW c, NEW d, NEW stream, NEW agg,
         Restarted(b, c, stream, agg), Quiet(c, d)
  PROVE  Restarted(b, d, stream, agg)
<1>1. /\ d.listening = c.listening /\ d.token = c.token
      /\ d.stream = c.stream /\ d.view.synced = c.view.synced
      /\ d.agg = c.agg /\ d.view.docs = c.view.docs
  BY DEF Quiet, ListenerOf
<1>2. Contents(d.view) = Contents(c.view)
  BY <1>1 DEF Contents
<1> QED
  BY <1>1, <1>2 DEF Restarted, Quiet

LEMMA RestartedTwice ==
  ASSUME NEW b, NEW c, NEW d, NEW stream, NEW agg, NEW old, NEW was,
         Restarted(b, c, old, was), Restarted(c, d, stream, agg)
  PROVE  Restarted(b, d, stream, agg)
<1>1. Contents(d.view) = Contents(c.view)
  BY DEF Restarted, Contents
<1> QED
  BY <1>1 DEF Restarted

LEMMA StartWatchStreamRestarts ==
  ASSUME NEW c \in Client
  PROVE  Restarted(c, StartWatchStream(c), "starting", NewAggregator)
<1>1. PICK b : b = [c EXCEPT !.agg = NewAggregator, !.stream = "starting"]
  OBVIOUS
<1>2. /\ b \in Client /\ b.listening = c.listening /\ b.token = c.token
      /\ b.view = c.view /\ b.shown = c.shown
      /\ b.stream = "starting" /\ b.agg = NewAggregator
  BY <1>1, NewAggregatorType DEF Client
<1>3. Restarted(c, b, "starting", NewAggregator)
  BY <1>2 DEF Restarted
<1>4. Quiet(b, HandleWatchStreamStart(b))
  BY <1>2, HandleWatchStreamStartQuiet
<1>5. StartWatchStream(c) = HandleWatchStreamStart(b)
  BY <1>1 DEF StartWatchStream
<1> QED
  BY <1>3, <1>4, <1>5, QuietRestarted

LEMMA CloseRestarts ==
  ASSUME NEW c \in Client
  PROVE  Restarted(c, Close(c), "off", c.agg)
<1>1. PICK b : b = [c EXCEPT !.stream = "off", !.idle = FALSE]
  OBVIOUS
<1>2. /\ b \in Client /\ b.listening = c.listening /\ b.token = c.token
      /\ b.view = c.view /\ b.shown = c.shown
      /\ b.stream = "off" /\ b.agg = c.agg
  BY <1>1 DEF Client
<1> QED
  BY <1>1, <1>2 DEF Restarted, Close

\* The idle timer and the end of a listener leave the stream off.
LEMMA StopRestarts ==
  ASSUME NEW c \in Client
  PROVE  Restarted(c, UpdateState(Close(c), "Unknown"), "off", c.agg)
<1>1. PICK b : b = Close(c)
  OBVIOUS
<1>2. Restarted(c, b, "off", c.agg) /\ b \in Client
  BY <1>1, CloseRestarts DEF Restarted
<1>3. Quiet(b, UpdateState(b, "Unknown"))
  BY <1>2, UpdateStateQuiet DEF OnlineStates
<1> QED
  BY <1>1, <1>2, <1>3, QuietRestarted

LEMMA OnWatchStreamCloseRestarts ==
  ASSUME NEW c \in Client
  PROVE  \/ Restarted(c, OnWatchStreamClose(c), "starting", NewAggregator)
         \/ Restarted(c, OnWatchStreamClose(c), "off", c.agg)
<1>1. CASE ~c.listening
  BY <1>1, StopRestarts DEF OnWatchStreamClose
<1>2. CASE c.listening
  <2>1. PICK b : b = Close(c)
    OBVIOUS
  <2>2. Restarted(c, b, "off", c.agg) /\ b \in Client
    BY <2>1, CloseRestarts DEF Restarted
  <2>3. PICK d : d = HandleWatchStreamFailure(b)
    OBVIOUS
  <2>4. Quiet(b, d)
    BY <2>2, <2>3, HandleWatchStreamFailureQuiet
  <2>5. Restarted(c, d, "off", c.agg) /\ d \in Client
    BY <2>2, <2>4, QuietRestarted DEF Quiet
  <2>6. Restarted(d, StartWatchStream(d), "starting", NewAggregator)
    BY <2>5, StartWatchStreamRestarts
  <2>7. OnWatchStreamClose(c) = StartWatchStream(d)
    BY <1>2, <2>1, <2>3 DEF OnWatchStreamClose
  <2> QED
    BY <2>5, <2>6, <2>7, RestartedTwice
<1> QED
  BY <1>1, <1>2

-----------------------------------------------------------------------------
(* The invariant of the stream *)

\* While a stream starts nothing is gathered; one that is not open carries
\* nothing; an open one owes the answers the aggregator counts.
StreamOK(h, w) ==
  /\ h.stream = "starting" => h.agg = NewAggregator
  /\ h.stream # "open" => w = NoWire
  /\ h.stream = "open" =>
       h.agg.target.outstanding = Len(w.requests) + Cardinality(Answers(w.responses))

\* Tokens are versions that were stored, and all versions are commits.
Bounds(h, d, w, log) ==
  /\ d.token <= d.lastRemote
  /\ h.token <= d.lastRemote
  /\ d.lastRemote <= Len(log)
  /\ w.upTo <= Len(log)
  /\ \A i \in 1..Len(w.requests) : w.requests[i].token <= Len(log)
  /\ \A i \in 1..Len(w.responses) : w.responses[i].version <= Len(log)

\* What is gathered for the listener is pending, and changes a document only
\* that is in the result the disk has.
GatherOK(h, d) ==
  /\ h.listening => h.synced = d.keys
  /\ ~h.agg.target.pending => \A k \in Keys : h.agg.target.changes[k] = "none"
  /\ IsActive(h) => \A k \in Keys : h.agg.target.changes[k] = "Modified" => k \in h.synced

\* The token of the aggregator is not ahead of the disk, but for the version
\* that comes next.
TokenTold(h, d, w) ==
  h.stream = "open" =>
    \/ h.agg.target.token <= d.lastRemote
    \/ /\ w.responses # <<>>
       /\ w.responses[1].type = "snapshot"
       /\ w.responses[1].version = h.agg.target.token

\* "current" comes right before its version, a reset right after its answer.
RoundsOK(s) ==
  /\ \A q \in 1..Len(s) : s[q].type = "current" =>
       /\ q + 1 \in 1..Len(s)
       /\ s[q + 1].type = "snapshot"
       /\ s[q + 1].version = s[q].version
  /\ \A r \in 1..Len(s) : s[r].type = "reset" => r = 1 \/ r - 1 \in Answers(s)

\* A response that no answer follows: the target will be active for it.
Fresh(s, p) == \A q \in Answers(s) : q < p

NoReset(s) == \A r \in 1..Len(s) : Fresh(s, r) => s[r].type # "reset"

FreshDoc(s, q, k) ==
  q \in 1..Len(s) /\ Fresh(s, q) /\ s[q].type = "document" /\ s[q].key = k

FreshSnapshot(s, p) ==
  p \in 1..Len(s) /\ Fresh(s, p) /\ s[p].type = "snapshot"

\* Version v of document k, or a later one, is on disk, is gathered, or is on
\* its way before response p.
Held(d, k, v)  == k \in d.keys /\ d.cache[k].version >= v
Taken(g, k)    == g.target.changes[k] \in {"Added", "Modified"}
Gathered(g, k, v) == Taken(g, k) /\ g.updates[k] >= v
Kept(h, d, k, v) ==
  Held(d, k, v) /\ (IsActive(h) => h.agg.target.changes[k] # "Removed")
Base(h, d, k, v) ==
  Kept(h, d, k, v) \/ (IsActive(h) /\ Gathered(h.agg, k, v))
Coming(s, k, v, p) ==
  \E q \in 1..Len(s) : q < p /\ FreshDoc(s, q, k) /\ s[q].version >= v
Reached(h, d, s, k, v, p) ==
  (NoReset(s) /\ Base(h, d, k, v)) \/ Coming(s, k, v, p)

Complete(h, d, log, s, v, p) ==
  \A k \in Keys :
    VersionAt(log, v, k) # 0 => Reached(h, d, s, k, VersionAt(log, v, k), p)

\* The listener's own stream, with nothing left to ask.
Settled(h, w) == h.listening /\ h.stream = "open" /\ w.requests = <<>>

\* The last request is the listener's.
AsksLast(h, w) ==
  h.listening /\ h.stream = "open" /\ w.requests # <<>> =>
    w.requests[Len(w.requests)] = WatchRequest(h)

\* A version the stream is complete at is reached when it arrives, and so is
\* what the server has sent last.
StreamCovers(h, d, w, log) ==
  Settled(h, w) =>
    /\ \A p \in 1..Len(w.responses) : FreshSnapshot(w.responses, p) =>
         Complete(h, d, log, w.responses, w.responses[p].version, p)
    /\ Complete(h, d, log, w.responses, w.upTo, Len(w.responses) + 1)

\* The versions of a document come in order.
InOrder(h, w) ==
  Settled(h, w) =>
    \A k \in Keys :
      /\ \A q \in 1..Len(w.responses) : FreshDoc(w.responses, q, k) =>
           /\ w.responses[q].version <= w.upTo
           /\ IsActive(h) /\ Taken(h.agg, k) =>
                h.agg.updates[k] <= w.responses[q].version
      /\ \A q, r \in 1..Len(w.responses) :
           r < q /\ FreshDoc(w.responses, r, k) /\ FreshDoc(w.responses, q, k) =>
             w.responses[r].version <= w.responses[q].version
      /\ IsActive(h) /\ Taken(h.agg, k) => h.agg.updates[k] <= w.upTo

DiskCovers(d, log, v) ==
  \A k \in Keys : VersionAt(log, v, k) # 0 => Held(d, k, VersionAt(log, v, k))

TokensOK(h, d, log) ==
  /\ DiskCovers(d, log, d.token)
  /\ h.listening => DiskCovers(d, log, h.token)

StreamInv(h, d, w, log) ==
  /\ StreamOK(h, w)
  /\ Bounds(h, d, w, log)
  /\ GatherOK(h, d)
  /\ TokenTold(h, d, w)
  /\ RoundsOK(w.responses)
  /\ AsksLast(h, w)
  /\ StreamCovers(h, d, w, log)
  /\ InOrder(h, w)
  /\ TokensOK(h, d, log)

\* A server and a client with a log.
LEMMA WireType ==
  ASSUME NEW w \in Wire
  PROVE  /\ w.requests \in Seq(Requests) /\ w.responses \in Seq(Responses)
         /\ w.upTo \in Nat /\ w.serving \in BOOLEAN /\ w.current \in BOOLEAN
         /\ Len(w.requests) \in Nat /\ Len(w.responses) \in Nat
         /\ w.requests = <<>> <=> Len(w.requests) = 0
         /\ w.responses = <<>> <=> Len(w.responses) = 0
<1>1. /\ w.requests \in Seq(Requests) /\ w.responses \in Seq(Responses)
      /\ w.upTo \in Nat /\ w.serving \in BOOLEAN /\ w.current \in BOOLEAN
  BY DEF Wire
<1>2. Len(w.requests) \in Nat /\ Len(w.responses) \in Nat
  BY <1>1, LenProperties
<1>3. w.requests = <<>> <=> Len(w.requests) = 0
  BY <1>1, EmptySeq
<1>4. w.responses = <<>> <=> Len(w.responses) = 0
  BY <1>1, EmptySeq
<1> QED
  BY <1>1, <1>2, <1>3, <1>4

LEMMA NoWireType ==
  /\ NoWire \in Wire /\ NoWire.requests = <<>> /\ NoWire.responses = <<>>
  /\ NoWire.upTo = 0 /\ NoWire.serving = FALSE
  /\ Len(NoWire.requests) = 0 /\ Len(NoWire.responses) = 0
BY DEF NoWire, Wire

LEMMA ListenerFields ==
  ASSUME NEW h \in Listener
  PROVE  /\ h.listening \in BOOLEAN /\ h.token \in Nat
         /\ h.stream \in {"off", "starting", "open"}
         /\ h.synced \in SUBSET Keys /\ h.agg \in Aggregator
         /\ h.agg.target \in Target /\ h.agg.updates \in [Keys -> Nat]
         /\ h.agg.target.outstanding \in Int /\ h.agg.target.token \in Nat
         /\ h.agg.target.pending \in BOOLEAN
         /\ h.agg.target.changes \in [Keys -> {"none", "Added", "Modified", "Removed"}]
BY DEF Listener, Aggregator, Target

\* An active target has had all its answers.
LEMMA ActiveIsFresh ==
  ASSUME NEW h \in Listener, NEW w \in Wire, StreamOK(h, w), h.stream = "open"
  PROVE  /\ h.agg.target.outstanding \in Nat
         /\ IsActive(h) => /\ w.requests = <<>> /\ Answers(w.responses) = {}
                           /\ \A p : Fresh(w.responses, p)
         /\ Settled(h, w) /\ Fresh(w.responses, 1) => IsActive(h)
<1>1. h.agg.target.outstanding = Len(w.requests) + Cardinality(Answers(w.responses))
  BY DEF StreamOK
<1>2. /\ Len(w.requests) \in Nat /\ w.requests = <<>> <=> Len(w.requests) = 0
      /\ w.responses \in Seq(Responses)
  BY WireType
<1>3. /\ Cardinality(Answers(w.responses)) \in Nat
      /\ Cardinality(Answers(w.responses)) = 0 <=> Answers(w.responses) = {}
      /\ Answers(w.responses) = {i \in 1..Len(w.responses) :
                                   w.responses[i].type \in {"added", "removed"}}
      /\ Len(w.responses) \in Nat
  BY <1>2, AnswersFinite
<1>4. h.agg.target.outstanding \in Nat
  BY <1>1, <1>2, <1>3
<1>5. ASSUME IsActive(h)
      PROVE  /\ w.requests = <<>> /\ Answers(w.responses) = {}
             /\ \A p : Fresh(w.responses, p)
  <2>1. h.agg.target.outstanding = 0
    BY <1>5 DEF IsActive
  <2>2. Len(w.requests) = 0 /\ Cardinality(Answers(w.responses)) = 0
    BY <1>1, <1>2, <1>3, <2>1
  <2> QED
    BY <1>2, <1>3, <2>2 DEF Fresh
<1>6. ASSUME Settled(h, w), Fresh(w.responses, 1)
      PROVE  IsActive(h)
  <2>1. \A q \in Answers(w.responses) : q < 1 /\ q \in 1..Len(w.responses)
    BY <1>3, <1>6 DEF Fresh
  <2>2. Answers(w.responses) = {}
    BY <1>3, <2>1
  <2>3. Len(w.requests) = 0
    BY <1>2, <1>6 DEF Settled
  <2>4. h.agg.target.outstanding = 0
    BY <1>1, <1>3, <2>2, <2>3
  <2> QED
    BY <1>6, <2>4 DEF IsActive, Settled
<1> QED
  BY <1>4, <1>5, <1>6

-----------------------------------------------------------------------------
(* One response is taken off the stream *)

HeadStep(h, h2, w, w2) ==
  /\ h.stream = "open" /\ h2.stream = "open"
  /\ h2 \in Listener /\ w2 \in Wire
  /\ h2.listening = h.listening
  /\ w.responses # <<>>
  /\ w2.responses = Tail(w.responses)
  /\ w2.requests = w.requests
  /\ w2.upTo = w.upTo

\* Positions move by one.
LEMMA HeadFresh ==
  ASSUME NEW s \in Seq(Responses), s # <<>>
  PROVE  /\ \A p \in Nat : p >= 1 => (Fresh(Tail(s), p) <=> Fresh(s, p + 1))
         /\ \A p \in 1..(Len(s) - 1), k \in Keys :
              FreshDoc(Tail(s), p, k) <=> FreshDoc(s, p + 1, k)
         /\ \A p \in 1..(Len(s) - 1) : FreshSnapshot(Tail(s), p) <=> FreshSnapshot(s, p + 1)
         /\ NoReset(s) => NoReset(Tail(s))
<1>0. PICK t : t = Tail(s)
  OBVIOUS
<1>1. /\ t \in Seq(Responses) /\ Len(s) \in Nat /\ 1 <= Len(s) /\ Len(t) = Len(s) - 1
      /\ \A i \in 1..(Len(s) - 1) : t[i] = s[i + 1]
      /\ Answers(t) = {i \in 1..(Len(s) - 1) : i + 1 \in Answers(s)}
  BY <1>0, TailAnswers
<1>2. Answers(s) \subseteq 1..Len(s)
  BY AnswersFinite
<1>3. ASSUME NEW p \in Nat, p >= 1
      PROVE  Fresh(t, p) <=> Fresh(s, p + 1)
  <2>1. ASSUME Fresh(t, p), NEW q \in Answers(s) PROVE q < p + 1
    <3>1. CASE q = 1
      BY <1>3, <3>1
    <3>2. CASE q # 1
      <4>1. q - 1 \in 1..(Len(s) - 1) /\ (q - 1) + 1 = q
        BY <1>1, <1>2, <3>2
      <4>2. q - 1 \in Answers(t)
        BY <1>1, <4>1
      <4>3. q - 1 < p
        BY <2>1, <4>2 DEF Fresh
      <4> QED
        BY <1>2, <4>3
    <3> QED
      BY <3>1, <3>2
  <2>2. ASSUME Fresh(s, p + 1), NEW q \in Answers(t) PROVE q < p
    <3>1. q \in 1..(Len(s) - 1) /\ q + 1 \in Answers(s)
      BY <1>1
    <3>2. q + 1 < p + 1
      BY <2>2, <3>1 DEF Fresh
    <3> QED
      BY <3>1, <3>2
  <2> QED
    BY <2>1, <2>2 DEF Fresh
<1>4. \A p \in 1..(Len(s) - 1) : /\ p \in Nat /\ p >= 1
                                 /\ p \in 1..Len(t) /\ p + 1 \in 1..Len(s)
                                 /\ t[p] = s[p + 1]
  BY <1>1
<1>5. \A p \in 1..(Len(s) - 1) : Fresh(t, p) <=> Fresh(s, p + 1)
  BY <1>3, <1>4
<1>6. \A p \in 1..(Len(s) - 1), k \in Keys : FreshDoc(t, p, k) <=> FreshDoc(s, p + 1, k)
  BY <1>4, <1>5 DEF FreshDoc
<1>7. \A p \in 1..(Len(s) - 1) : FreshSnapshot(t, p) <=> FreshSnapshot(s, p + 1)
  BY <1>4, <1>5 DEF FreshSnapshot
<1>8. NoReset(s) => NoReset(t)
  BY <1>1, <1>4, <1>5 DEF NoReset
<1> QED
  BY <1>0, <1>3, <1>6, <1>7, <1>8

LEMMA HeadStreamOK ==
  ASSUME NEW h \in Listener, NEW h2, NEW w \in Wire, NEW w2,
         HeadStep(h, h2, w, w2), StreamOK(h, w),
         h2.agg.target.outstanding =
           IF w.responses[1].type \in {"added", "removed"}
           THEN h.agg.target.outstanding - 1 ELSE h.agg.target.outstanding
  PROVE  StreamOK(h2, w2)
<1>1. /\ w.responses \in Seq(Responses) /\ w.responses # <<>>
      /\ Len(w.requests) \in Nat /\ Len(w.responses) \in Nat
  BY WireType DEF HeadStep
<1>2. /\ Answers(w.responses) = {i \in 1..Len(w.responses) :
                                   w.responses[i].type \in {"added", "removed"}}
      /\ Cardinality(Answers(w.responses)) \in Nat
      /\ 1 <= Len(w.responses)
      /\ Cardinality(Answers(Tail(w.responses))) =
           IF 1 \in Answers(w.responses) THEN Cardinality(Answers(w.responses)) - 1
           ELSE Cardinality(Answers(w.responses))
  BY <1>1, AnswersFinite, TailAnswers
<1>3. 1 \in Answers(w.responses) <=> w.responses[1].type \in {"added", "removed"}
  BY <1>1, <1>2
<1>4. h.agg.target.outstanding = Len(w.requests) + Cardinality(Answers(w.responses))
  BY DEF StreamOK, HeadStep
<1>5. h2.agg.target.outstanding =
        Len(w.requests) + Cardinality(Answers(Tail(w.responses)))
  BY <1>1, <1>2, <1>3, <1>4
<1> QED
  BY <1>5 DEF StreamOK, HeadStep

LEMMA HeadRounds ==
  ASSUME NEW s \in Seq(Responses), s # <<>>, RoundsOK(s)
  PROVE  RoundsOK(Tail(s))
<1>0. PICK t : t = Tail(s)
  OBVIOUS
<1>1. /\ Len(s) \in Nat /\ 1 <= Len(s) /\ Len(t) = Len(s) - 1
      /\ \A i \in 1..(Len(s) - 1) : t[i] = s[i + 1]
      /\ Answers(t) = {i \in 1..(Len(s) - 1) : i + 1 \in Answers(s)}
  BY <1>0, TailAnswers
<1>2. ASSUME NEW q \in 1..Len(t), t[q].type = "current"
      PROVE  q + 1 \in 1..Len(t) /\ t[q + 1].type = "snapshot"
             /\ t[q + 1].version = t[q].version
  <2>1. q + 1 \in 1..Len(s) /\ t[q] = s[q + 1] /\ q \in Nat
    BY <1>1
  <2>2. /\ (q + 1) + 1 \in 1..Len(s) /\ s[(q + 1) + 1].type = "snapshot"
        /\ s[(q + 1) + 1].version = s[q + 1].version
    BY <1>2, <2>1 DEF RoundsOK
  <2>3. q + 1 \in 1..(Len(s) - 1)
    BY <1>1, <2>1, <2>2
  <2>4. t[q + 1] = s[(q + 1) + 1]
    BY <1>1, <2>3
  <2> QED
    BY <1>1, <2>1, <2>2, <2>3, <2>4
<1>3. ASSUME NEW r \in 1..Len(t), t[r].type = "reset"
      PROVE  r = 1 \/ r - 1 \in Answers(t)
  <2>1. r + 1 \in 1..Len(s) /\ t[r] = s[r + 1] /\ r \in Nat /\ r >= 1
    BY <1>1
  <2>2. (r + 1) - 1 \in Answers(s)
    BY <1>3, <2>1 DEF RoundsOK
  <2>3. CASE r # 1
    <3>1. r - 1 \in 1..(Len(s) - 1) /\ (r - 1) + 1 = (r + 1) - 1
      BY <1>1, <2>1, <2>3
    <3> QED
      BY <1>1, <2>2, <3>1
  <2> QED
    BY <2>3
<1> QED
  BY <1>0, <1>2, <1>3 DEF RoundsOK

\* A version is reached when what arrives is kept.
LEMMA HeadReached ==
  ASSUME NEW s \in Seq(Responses), s # <<>>, NEW h, NEW h2, NEW d, NEW d2,
         NEW k \in Keys, NEW v \in Nat, NEW p \in Nat,
         NoReset(s) /\ Base(h, d, k, v) => Base(h2, d2, k, v),
         FreshDoc(s, 1, k) /\ s[1].version >= v =>
           NoReset(Tail(s)) /\ Base(h2, d2, k, v),
         Reached(h, d, s, k, v, p + 1)
  PROVE  Reached(h2, d2, Tail(s), k, v, p)
<1>1. CASE NoReset(s) /\ Base(h, d, k, v)
  BY <1>1, HeadFresh DEF Reached
<1>2. CASE Coming(s, k, v, p + 1)
  <2>1. PICK q \in 1..Len(s) : q < p + 1 /\ FreshDoc(s, q, k) /\ s[q].version >= v
    BY <1>2 DEF Coming
  <2>2. CASE q = 1
    BY <2>1, <2>2 DEF Reached
  <2>3. CASE q # 1
    <3>1. /\ Len(s) \in Nat /\ Len(Tail(s)) = Len(s) - 1
          /\ \A i \in 1..(Len(s) - 1) : Tail(s)[i] = s[i + 1]
      BY TailAnswers
    <3>2. PICK i \in 1..(Len(s) - 1) : i + 1 = q
      BY <2>1, <2>3, <3>1
    <3>3. FreshDoc(Tail(s), i, k) /\ Tail(s)[i] = s[q] /\ i < p
      BY <2>1, <3>1, <3>2, HeadFresh
    <3>4. Coming(Tail(s), k, v, p)
      BY <2>1, <3>1, <3>3 DEF Coming
    <3> QED
      BY <3>4 DEF Reached
  <2> QED
    BY <2>2, <2>3
<1> QED
  BY <1>1, <1>2 DEF Reached

Keeps(h, h2, d, d2, s) ==
  \A k \in Keys, v \in Nat :
    /\ NoReset(s) /\ Base(h, d, k, v) => Base(h2, d2, k, v)
    /\ FreshDoc(s, 1, k) /\ s[1].version >= v => NoReset(Tail(s)) /\ Base(h2, d2, k, v)

LEMMA HeadComplete ==
  ASSUME NEW s \in Seq(Responses), s # <<>>, NEW h, NEW h2, NEW d, NEW d2,
         NEW log \in Seq(Commits), NEW v \in 0..Len(log), NEW p \in Nat,
         Keeps(h, h2, d, d2, s), Complete(h, d, log, s, v, p + 1)
  PROVE  Complete(h2, d2, log, Tail(s), v, p)
<1>1. ASSUME NEW k \in Keys, VersionAt(log, v, k) # 0
      PROVE  Reached(h2, d2, Tail(s), k, VersionAt(log, v, k), p)
  <2>1. VersionAt(log, v, k) \in 0..v
    BY VersionAtProperties
  <2>2. PICK ver \in Nat : ver = VersionAt(log, v, k)
    BY <2>1
  <2>3. Reached(h, d, s, k, ver, p + 1)
    BY <1>1, <2>2 DEF Complete
  <2>4. /\ NoReset(s) /\ Base(h, d, k, ver) => Base(h2, d2, k, ver)
        /\ FreshDoc(s, 1, k) /\ s[1].version >= ver =>
             NoReset(Tail(s)) /\ Base(h2, d2, k, ver)
    BY DEF Keeps
  <2>5. Reached(h2, d2, Tail(s), k, ver, p)
    BY <2>3, <2>4, HeadReached
  <2> QED
    BY <2>2, <2>5
<1> QED
  BY <1>1 DEF Complete

LEMMA HeadCovers ==
  ASSUME NEW h \in Listener, NEW h2, NEW w \in Wire, NEW w2, NEW d, NEW d2,
         NEW log \in Seq(Commits),
         HeadStep(h, h2, w, w2), Bounds(h, d, w, log), StreamCovers(h, d, w, log),
         Settled(h, w) => Keeps(h, h2, d, d2, w.responses)
  PROVE  StreamCovers(h2, d2, w2, log)
<1> SUFFICES ASSUME Settled(h2, w2)
             PROVE  /\ \A p \in 1..Len(w2.responses) : FreshSnapshot(w2.responses, p) =>
                         Complete(h2, d2, log, w2.responses, w2.responses[p].version, p)
                    /\ Complete(h2, d2, log, w2.responses, w2.upTo, Len(w2.responses) + 1)
  BY DEF StreamCovers
<1>1. Settled(h, w) /\ w2.responses = Tail(w.responses) /\ w2.upTo = w.upTo
  BY DEF Settled, HeadStep
<1>2. PICK s \in Seq(Responses) : s = w.responses /\ s # <<>>
  BY WireType DEF HeadStep
<1>3. /\ Len(s) \in Nat /\ 1 <= Len(s) /\ Len(Tail(s)) = Len(s) - 1
      /\ \A i \in 1..(Len(s) - 1) : Tail(s)[i] = s[i + 1]
      /\ Tail(s) \in Seq(Responses)
  BY <1>2, TailAnswers
<1>4. Keeps(h, h2, d, d2, s)
  BY <1>1, <1>2
<1>5. /\ \A p \in 1..Len(s) : FreshSnapshot(s, p) => Complete(h, d, log, s, s[p].version, p)
      /\ Complete(h, d, log, s, w.upTo, Len(s) + 1)
  BY <1>1, <1>2 DEF StreamCovers
<1>6. Len(log) \in Nat /\ w.upTo \in Nat
  BY LenProperties, WireType
<1>7. ASSUME NEW p \in 1..Len(Tail(s)), FreshSnapshot(Tail(s), p)
      PROVE  Complete(h2, d2, log, Tail(s), Tail(s)[p].version, p)
  <2>1. p \in 1..(Len(s) - 1) /\ p + 1 \in 1..Len(s) /\ Tail(s)[p] = s[p + 1] /\ p \in Nat
    BY <1>3
  <2>2. FreshSnapshot(s, p + 1)
    BY <1>2, <1>7, <2>1, HeadFresh
  <2>3. s[p + 1].version <= Len(log)
    BY <1>2, <2>1 DEF Bounds
  <2>4. s[p + 1].version \in Nat
    <3>1. s[p + 1] \in Responses
      BY <2>1, ElementOfSeq
    <3> QED
      BY <3>1 DEF Responses, Messages, Documents
  <2>5. s[p + 1].version \in 0..Len(log)
    BY <1>6, <2>3, <2>4
  <2>6. Complete(h, d, log, s, s[p + 1].version, p + 1)
    BY <1>5, <2>1, <2>2
  <2>7. Complete(h2, d2, log, Tail(s), s[p + 1].version, p)
    BY <1>2, <1>4, <2>1, <2>5, <2>6, HeadComplete
  <2> QED
    BY <2>1, <2>7
<1>8. Complete(h2, d2, log, Tail(s), w.upTo, Len(Tail(s)) + 1)
  <2>1. w.upTo \in 0..Len(log)
    BY <1>6 DEF Bounds
  <2>2. Len(s) \in Nat /\ Complete(h, d, log, s, w.upTo, Len(s) + 1)
    BY <1>3, <1>5
  <2>3. Complete(h2, d2, log, Tail(s), w.upTo, Len(s))
    BY <1>2, <1>4, <2>1, <2>2, HeadComplete
  <2>4. Len(Tail(s)) + 1 = Len(s)
    BY <1>3
  <2> QED
    BY <2>3, <2>4
<1> QED
  BY <1>1, <1>2, <1>7, <1>8

\* What is gathered after the step was gathered before, or has just arrived.
Follows(h, h2, s) ==
  \A k \in Keys :
    IsActive(h2) /\ Taken(h2.agg, k) =>
      \/ /\ IsActive(h) /\ Taken(h.agg, k)
         /\ h2.agg.updates[k] = h.agg.updates[k]
      \/ FreshDoc(s, 1, k) /\ h2.agg.updates[k] = s[1].version

LEMMA HeadInOrder ==
  ASSUME NEW h \in Listener, NEW h2, NEW w \in Wire, NEW w2,
         HeadStep(h, h2, w, w2), InOrder(h, w),
         Settled(h, w) => Follows(h, h2, w.responses)
  PROVE  InOrder(h2, w2)
<1> SUFFICES ASSUME Settled(h2, w2), NEW k \in Keys
             PROVE
      /\ \A q \in 1..Len(w2.responses) : FreshDoc(w2.responses, q, k) =>
           /\ w2.responses[q].version <= w2.upTo
           /\ IsActive(h2) /\ Taken(h2.agg, k) =>
                h2.agg.updates[k] <= w2.responses[q].version
      /\ \A q, r \in 1..Len(w2.responses) :
           r < q /\ FreshDoc(w2.responses, r, k) /\ FreshDoc(w2.responses, q, k) =>
             w2.responses[r].version <= w2.responses[q].version
      /\ IsActive(h2) /\ Taken(h2.agg, k) => h2.agg.updates[k] <= w2.upTo
  BY DEF InOrder
<1>1. Settled(h, w) /\ w2.responses = Tail(w.responses) /\ w2.upTo = w.upTo
  BY DEF Settled, HeadStep
<1>2. PICK s \in Seq(Responses) : s = w.responses /\ s # <<>>
  BY WireType DEF HeadStep
<1>3. /\ Len(s) \in Nat /\ 1 <= Len(s) /\ Len(Tail(s)) = Len(s) - 1
      /\ \A i \in 1..(Len(s) - 1) : Tail(s)[i] = s[i + 1]
  BY <1>2, TailAnswers
<1>4. /\ \A q \in 1..Len(s) : FreshDoc(s, q, k) =>
           /\ s[q].version <= w.upTo
           /\ IsActive(h) /\ Taken(h.agg, k) => h.agg.updates[k] <= s[q].version
      /\ \A q, r \in 1..Len(s) : r < q /\ FreshDoc(s, r, k) /\ FreshDoc(s, q, k) =>
           s[r].version <= s[q].version
      /\ IsActive(h) /\ Taken(h.agg, k) => h.agg.updates[k] <= w.upTo
  BY <1>1, <1>2 DEF InOrder
<1>5. IsActive(h2) /\ Taken(h2.agg, k) =>
        \/ /\ IsActive(h) /\ Taken(h.agg, k)
           /\ h2.agg.updates[k] = h.agg.updates[k]
        \/ FreshDoc(s, 1, k) /\ h2.agg.updates[k] = s[1].version
  BY <1>1, <1>2 DEF Follows
<1>6. 1 \in 1..Len(s)
  BY <1>3
<1>7. ASSUME NEW q \in 1..Len(Tail(s)), FreshDoc(Tail(s), q, k)
      PROVE  /\ q + 1 \in 1..Len(s) /\ 1 < q + 1 /\ FreshDoc(s, q + 1, k)
             /\ Tail(s)[q] = s[q + 1]
  <2>1. q \in 1..(Len(s) - 1) /\ q + 1 \in 1..Len(s) /\ 1 < q + 1 /\ Tail(s)[q] = s[q + 1]
    BY <1>3
  <2> QED
    BY <1>2, <1>7, <2>1, HeadFresh
<1>8. ASSUME NEW q \in 1..Len(Tail(s)), FreshDoc(Tail(s), q, k)
      PROVE  /\ Tail(s)[q].version <= w.upTo
             /\ IsActive(h2) /\ Taken(h2.agg, k) =>
                  h2.agg.updates[k] <= Tail(s)[q].version
  <2>1. /\ q + 1 \in 1..Len(s) /\ 1 < q + 1 /\ FreshDoc(s, q + 1, k)
        /\ Tail(s)[q] = s[q + 1]
    BY <1>7, <1>8
  <2> QED
    BY <1>4, <1>5, <1>6, <2>1
<1>9. ASSUME NEW q \in 1..Len(Tail(s)), NEW r \in 1..Len(Tail(s)), r < q,
             FreshDoc(Tail(s), r, k), FreshDoc(Tail(s), q, k)
      PROVE  Tail(s)[r].version <= Tail(s)[q].version
  <2>1. q + 1 \in 1..Len(s) /\ FreshDoc(s, q + 1, k) /\ Tail(s)[q] = s[q + 1]
    BY <1>7, <1>9
  <2>2. r + 1 \in 1..Len(s) /\ FreshDoc(s, r + 1, k) /\ Tail(s)[r] = s[r + 1]
    BY <1>7, <1>9
  <2>3. r + 1 < q + 1
    BY <1>9
  <2> QED
    BY <1>4, <2>1, <2>2, <2>3
<1>10. IsActive(h2) /\ Taken(h2.agg, k) => h2.agg.updates[k] <= w.upTo
  BY <1>4, <1>5, <1>6
<1> QED
  BY <1>1, <1>2, <1>8, <1>9, <1>10

LEMMA HeadBounds ==
  ASSUME NEW h, NEW h2, NEW w \in Wire, NEW w2, NEW d, NEW d2, NEW log,
         HeadStep(h, h2, w, w2), Bounds(h, d, w, log),
         d2.token <= d2.lastRemote, h2.token <= d2.lastRemote, d2.lastRemote <= Len(log)
  PROVE  Bounds(h2, d2, w2, log)
<1>1. PICK s \in Seq(Responses) : s = w.responses /\ s # <<>>
  BY WireType DEF HeadStep
<1>2. /\ Len(s) \in Nat /\ 1 <= Len(s) /\ Len(Tail(s)) = Len(s) - 1
      /\ \A i \in 1..(Len(s) - 1) : Tail(s)[i] = s[i + 1]
  BY <1>1, TailAnswers
<1>3. \A i \in 1..Len(Tail(s)) : Tail(s)[i].version <= Len(log)
  <2> SUFFICES ASSUME NEW i \in 1..Len(Tail(s)) PROVE Tail(s)[i].version <= Len(log)
    OBVIOUS
  <2>1. i + 1 \in 1..Len(s) /\ Tail(s)[i] = s[i + 1]
    BY <1>2
  <2> QED
    BY <1>1, <2>1 DEF Bounds
<1> QED
  BY <1>1, <1>3 DEF Bounds, HeadStep

\* What one response needs to preserve the invariant.
LEMMA HeadInv ==
  ASSUME NEW h \in Listener, NEW h2, NEW w \in Wire, NEW w2, NEW d, NEW d2,
         NEW log \in Seq(Commits),
         HeadStep(h, h2, w, w2), StreamInv(h, d, w, log),
         h2.agg.target.outstanding =
           IF w.responses[1].type \in {"added", "removed"}
           THEN h.agg.target.outstanding - 1 ELSE h.agg.target.outstanding,
         d2.token <= d2.lastRemote, h2.token <= d2.lastRemote, d2.lastRemote <= Len(log),
         GatherOK(h2, d2), TokenTold(h2, d2, w2), TokensOK(h2, d2, log),
         h2.token = h.token \/ w.requests = <<>>,
         Settled(h, w) => Keeps(h, h2, d, d2, w.responses),
         Settled(h, w) => Follows(h, h2, w.responses)
  PROVE  StreamInv(h2, d2, w2, log)
<1>1. StreamOK(h2, w2)
  BY HeadStreamOK DEF StreamInv
<1>2. Bounds(h2, d2, w2, log)
  BY HeadBounds DEF StreamInv
<1>3. RoundsOK(w2.responses)
  BY HeadRounds, WireType DEF StreamInv, HeadStep
<1>4. AsksLast(h2, w2)
  BY DEF StreamInv, AsksLast, HeadStep, WatchRequest
<1>5. StreamCovers(h2, d2, w2, log)
  BY HeadCovers DEF StreamInv
<1>6. InOrder(h2, w2)
  BY HeadInOrder DEF StreamInv
<1> QED
  BY <1>1, <1>2, <1>3, <1>4, <1>5, <1>6 DEF StreamInv

\* The rest of the listener and the disk stay as they are.
LEMMA HeadSame ==
  ASSUME NEW h, NEW h2, NEW w, NEW d, NEW log,
         StreamInv(h, d, w, log), h2.listening = h.listening, h2.token = h.token
  PROVE  /\ d.token <= d.lastRemote /\ h2.token <= d.lastRemote
         /\ d.lastRemote <= Len(log) /\ TokensOK(h2, d, log)
BY DEF StreamInv, Bounds, TokensOK

\* An answer.
Answered(g, g2) ==
  /\ g2.target.outstanding = g.target.outstanding - 1
  /\ g2.updates = g.updates
  /\ g2.target.token \in {0, g.target.token}
  /\ IF g2.target.outstanding = 0
     THEN \A k \in Keys : g2.target.changes[k] = "none"
     ELSE g2.target.changes = g.target.changes /\ g2.target.pending = g.target.pending

LEMMA AnswerStep ==
  ASSUME NEW h \in Listener, NEW h2, NEW w \in Wire, NEW w2, NEW d \in Disk,
         NEW log \in Seq(Commits),
         HeadStep(h, h2, w, w2), StreamInv(h, d, w, log),
         w.responses[1].type \in {"added", "removed"},
         h2.token = h.token, h2.synced = h.synced, Answered(h.agg, h2.agg)
  PROVE  StreamInv(h2, d, w2, log)
<1>1. /\ StreamOK(h, w) /\ GatherOK(h, d) /\ TokenTold(h, d, w) /\ h.stream = "open"
      /\ h2.listening = h.listening /\ h2.stream = h.stream
  BY DEF StreamInv, HeadStep
<1>2. PICK s \in Seq(Responses) : s = w.responses /\ s # <<>>
  BY WireType DEF HeadStep
<1>3. 1 \in Answers(s)
  BY <1>2, AnswersFinite, TailAnswers
<1>4. ~IsActive(h)
  BY <1>1, <1>2, <1>3, ActiveIsFresh
<1>5. IsActive(h2) => \A k \in Keys : h2.agg.target.changes[k] = "none"
  BY DEF IsActive, Answered
<1>6. GatherOK(h2, d)
  BY <1>1, <1>5 DEF GatherOK, Answered, HeadStep
<1>7. TokenTold(h2, d, w2)
  <2>1. h.agg.target.token <= d.lastRemote
    BY <1>1, <1>2 DEF TokenTold
  <2>2. 0 <= d.lastRemote
    BY DEF Disk
  <2>3. h2.agg.target.token <= d.lastRemote
    BY <2>1, <2>2 DEF Answered
  <2> QED
    BY <2>3 DEF TokenTold
<1>8. Keeps(h, h2, d, d, s)
  <2> SUFFICES ASSUME NEW k \in Keys, NEW v \in Nat
               PROVE  /\ Base(h, d, k, v) => Base(h2, d, k, v)
                      /\ ~FreshDoc(s, 1, k)
    BY DEF Keeps
  <2>1. ~FreshDoc(s, 1, k)
    BY <1>2 DEF FreshDoc
  <2>2. Base(h, d, k, v) => Held(d, k, v)
    BY <1>4 DEF Base, Kept
  <2>3. Held(d, k, v) => Base(h2, d, k, v)
    BY <1>5 DEF Base, Kept
  <2> QED
    BY <2>1, <2>2, <2>3
<1>9. Follows(h, h2, s)
  BY <1>5 DEF Follows, Taken
<1>10. h2.agg.target.outstanding = h.agg.target.outstanding - 1
  BY DEF Answered
<1>11. /\ d.token <= d.lastRemote /\ h2.token <= d.lastRemote
       /\ d.lastRemote <= Len(log) /\ TokensOK(h2, d, log)
  BY <1>1, HeadSame
<1> QED
  BY <1>2, <1>6, <1>7, <1>8, <1>9, <1>10, <1>11, HeadInv

\* "current", and a version that is held back.
Told(g, g2, v) ==
  /\ g2.target.outstanding = g.target.outstanding
  /\ g2.target.changes = g.target.changes
  /\ g2.target.pending = g.target.pending \/ g2.target.pending
  /\ g2.target.token \in {v, g.target.token}
  /\ g2.updates = g.updates

LEMMA ToldStep ==
  ASSUME NEW h \in Listener, NEW h2, NEW w \in Wire, NEW w2, NEW d \in Disk,
         NEW log \in Seq(Commits),
         HeadStep(h, h2, w, w2), StreamInv(h, d, w, log),
         h2.token = h.token, h2.synced = h.synced,
         Told(h.agg, h2.agg, w.responses[1].version),
         \/ w.responses[1].type = "current"
         \/ /\ w.responses[1].type = "snapshot"
            /\ w.responses[1].version < d.lastRemote
  PROVE  StreamInv(h2, d, w2, log)
<1>1. /\ StreamOK(h, w) /\ GatherOK(h, d) /\ TokenTold(h, d, w) /\ h.stream = "open"
      /\ RoundsOK(w.responses)
      /\ h2.listening = h.listening /\ h2.stream = h.stream
  BY DEF StreamInv, HeadStep
<1>2. PICK s \in Seq(Responses) : s = w.responses /\ s # <<>>
  BY WireType DEF HeadStep
<1>3. IsActive(h2) <=> IsActive(h)
  BY <1>1 DEF IsActive, Told
<1>4. h2.agg.target.changes = h.agg.target.changes /\ h2.agg.updates = h.agg.updates
  BY DEF Told
<1>5. GatherOK(h2, d)
  BY <1>1, <1>3 DEF GatherOK, Told, HeadStep
<1>6. TokenTold(h2, d, w2)
  <2>1. CASE s[1].type = "current"
    <3>1. h.agg.target.token <= d.lastRemote
      BY <1>1, <1>2, <2>1 DEF TokenTold
    <3>2. /\ 1 \in 1..Len(s) /\ Len(s) \in Nat
          /\ \A i \in 1..(Len(s) - 1) : Tail(s)[i] = s[i + 1]
          /\ Len(Tail(s)) = Len(s) - 1 /\ Tail(s) \in Seq(Responses)
      BY <1>2, TailAnswers
    <3>3. /\ 1 + 1 \in 1..Len(s) /\ s[1 + 1].type = "snapshot"
          /\ s[1 + 1].version = s[1].version
      BY <1>1, <1>2, <2>1, <3>2 DEF RoundsOK
    <3>4. Tail(s)[1] = s[1 + 1] /\ Tail(s) # <<>>
      <4>1. 1 \in 1..(Len(s) - 1)
        BY <3>2, <3>3
      <4> QED
        BY <3>2, <4>1, EmptySeq, SMTT(60)
    <3>5. h2.agg.target.token <= d.lastRemote \/ h2.agg.target.token = s[1].version
      BY <1>2, <3>1 DEF Told
    <3> QED
      BY <1>2, <3>3, <3>4, <3>5 DEF TokenTold, HeadStep
  <2>2. CASE s[1].type # "current"
    <3>1. s[1].version < d.lastRemote
      BY <1>2, <2>2
    <3>2. s[1] \in Responses
      BY <1>2, TailAnswers
    <3>3. s[1].version \in Nat /\ d.lastRemote \in Nat
      BY <3>2 DEF Responses, Messages, Documents, Disk
    <3>4. h.agg.target.token <= d.lastRemote
      BY <1>1, <1>2, <3>1, <3>3 DEF TokenTold
    <3>5. h2.agg.target.token <= d.lastRemote
      BY <1>2, <3>1, <3>3, <3>4 DEF Told
    <3> QED
      BY <3>5 DEF TokenTold
  <2> QED
    BY <2>1, <2>2
<1>7. ~\E k \in Keys : FreshDoc(s, 1, k)
  BY <1>2 DEF FreshDoc
<1>8. Keeps(h, h2, d, d, s)
  BY <1>3, <1>4, <1>7 DEF Keeps, Base, Kept, Gathered, Taken
<1>9. Follows(h, h2, s)
  BY <1>3, <1>4 DEF Follows, Taken
<1>10. h2.agg.target.outstanding = h.agg.target.outstanding
  BY DEF Told
<1>11. /\ d.token <= d.lastRemote /\ h2.token <= d.lastRemote
       /\ d.lastRemote <= Len(log) /\ TokensOK(h2, d, log)
  BY <1>1, HeadSame
<1> QED
  BY <1>2, <1>5, <1>6, <1>8, <1>9, <1>10, <1>11, HeadInv

\* A reset takes every document out of an active target.
ResetGathered(h, g, g2) ==
  IF ~IsActive(h) THEN g2 = g
  ELSE /\ g2.target.outstanding = g.target.outstanding
       /\ g2.target.token = 0
       /\ g2.target.pending
       /\ \A k \in Keys : g2.target.changes[k] \in {"Removed", "none"}

LEMMA ResetStep ==
  ASSUME NEW h \in Listener, NEW h2, NEW w \in Wire, NEW w2, NEW d \in Disk,
         NEW log \in Seq(Commits),
         HeadStep(h, h2, w, w2), StreamInv(h, d, w, log),
         w.responses[1].type = "reset",
         h2.token = h.token, h2.synced = h.synced,
         ResetGathered(h, h.agg, h2.agg)
  PROVE  StreamInv(h2, d, w2, log)
<1>1. /\ StreamOK(h, w) /\ GatherOK(h, d) /\ TokenTold(h, d, w) /\ h.stream = "open"
      /\ h2.listening = h.listening /\ h2.stream = h.stream
  BY DEF StreamInv, HeadStep
<1>2. PICK s \in Seq(Responses) : s = w.responses /\ s # <<>>
  BY WireType DEF HeadStep
<1>3. 1 \in 1..Len(s)
  BY <1>2, TailAnswers
<1>4. h2.agg.target.outstanding = h.agg.target.outstanding
  BY DEF ResetGathered
<1>5. IsActive(h2) <=> IsActive(h)
  BY <1>1, <1>4 DEF IsActive
<1>6. h.agg.target.token <= d.lastRemote
  BY <1>1, <1>2 DEF TokenTold
<1>7. TokenTold(h2, d, w2)
  <2>1. 0 <= d.lastRemote
    BY DEF Disk
  <2> QED
    BY <1>6, <2>1 DEF TokenTold, ResetGathered
<1>8. /\ d.token <= d.lastRemote /\ h2.token <= d.lastRemote
      /\ d.lastRemote <= Len(log) /\ TokensOK(h2, d, log)
  BY <1>1, HeadSame
<1>9. CASE ~IsActive(h)
  <2>1. h2.agg = h.agg
    BY <1>9 DEF ResetGathered
  <2>2. GatherOK(h2, d)
    BY <1>1, <1>5, <2>1 DEF GatherOK
  <2>3. Keeps(h, h2, d, d, s)
    BY <1>2, <1>5, <2>1 DEF Keeps, Base, Kept, Gathered, Taken, FreshDoc
  <2>4. Follows(h, h2, s)
    BY <1>5, <1>9 DEF Follows
  <2> QED
    BY <1>2, <1>4, <1>7, <1>8, <2>2, <2>3, <2>4, HeadInv
<1>10. CASE IsActive(h)
  <2>1. /\ \A k \in Keys : h2.agg.target.changes[k] \in {"Removed", "none"}
        /\ h2.agg.target.pending
    BY <1>10 DEF ResetGathered
  <2>2. GatherOK(h2, d)
    BY <1>1, <2>1 DEF GatherOK
  <2>3. ~NoReset(s)
    <3>1. Fresh(s, 1)
      BY <1>1, <1>2, <1>10, ActiveIsFresh
    <3> QED
      BY <1>2, <1>3, <3>1 DEF NoReset
  <2>4. Keeps(h, h2, d, d, s)
    BY <1>2, <2>3 DEF Keeps, FreshDoc
  <2>5. Follows(h, h2, s)
    BY <2>1 DEF Follows, Taken
  <2> QED
    BY <1>2, <1>4, <1>7, <1>8, <2>2, <2>4, <2>5, HeadInv
<1> QED
  BY <1>9, <1>10

\* A document enters an active target.
DocumentGathered(h, g, g2, k, v) ==
  IF ~IsActive(h) THEN g2 = g
  ELSE /\ g2.target.outstanding = g.target.outstanding
       /\ g2.target.token = g.target.token
       /\ g2.target.pending
       /\ g2.target.changes[k] = IF k \in h.synced THEN "Modified" ELSE "Added"
       /\ g2.updates[k] = v
       /\ \A j \in Keys \ {k} : /\ g2.target.changes[j] = g.target.changes[j]
                                /\ g2.updates[j] = g.updates[j]

LEMMA DocumentStep ==
  ASSUME NEW h \in Listener, NEW h2, NEW w \in Wire, NEW w2, NEW d \in Disk,
         NEW log \in Seq(Commits),
         HeadStep(h, h2, w, w2), StreamInv(h, d, w, log),
         w.responses[1].type = "document", w.responses[1].key \in Keys,
         h2.token = h.token, h2.synced = h.synced,
         DocumentGathered(h, h.agg, h2.agg, w.responses[1].key, w.responses[1].version)
  PROVE  StreamInv(h2, d, w2, log)
<1>1. /\ StreamOK(h, w) /\ GatherOK(h, d) /\ TokenTold(h, d, w) /\ h.stream = "open"
      /\ RoundsOK(w.responses) /\ InOrder(h, w)
      /\ h2.listening = h.listening /\ h2.stream = h.stream
  BY DEF StreamInv, HeadStep
<1>2. PICK s \in Seq(Responses) : s = w.responses /\ s # <<>>
  BY WireType DEF HeadStep
<1>3. 1 \in 1..Len(s)
  BY <1>2, TailAnswers
<1>4. h2.agg.target.outstanding = h.agg.target.outstanding
  BY DEF DocumentGathered
<1>5. IsActive(h2) <=> IsActive(h)
  BY <1>1, <1>4 DEF IsActive
<1>6. h2.agg.target.token = h.agg.target.token
  BY DEF DocumentGathered
<1>7. TokenTold(h2, d, w2)
  BY <1>1, <1>2, <1>6 DEF TokenTold
<1>8. /\ d.token <= d.lastRemote /\ h2.token <= d.lastRemote
      /\ d.lastRemote <= Len(log) /\ TokensOK(h2, d, log)
  BY <1>1, HeadSame
<1>9. CASE ~IsActive(h)
  <2>1. h2.agg = h.agg
    BY <1>9 DEF DocumentGathered
  <2>2. GatherOK(h2, d)
    BY <1>1, <1>5, <2>1 DEF GatherOK
  <2>3. ASSUME Settled(h, w)
        PROVE  Keeps(h, h2, d, d, s)
    <3>1. ~Fresh(s, 1)
      BY <1>1, <1>2, <1>9, <2>3, ActiveIsFresh
    <3>2. \A k \in Keys : ~FreshDoc(s, 1, k)
      BY <3>1 DEF FreshDoc
    <3> QED
      BY <1>5, <2>1, <3>2 DEF Keeps, Base, Kept, Gathered, Taken
  <2>4. Follows(h, h2, s)
    BY <1>5, <1>9 DEF Follows
  <2> QED
    BY <1>2, <1>4, <1>7, <1>8, <2>2, <2>3, <2>4, HeadInv
<1>10. CASE IsActive(h)
  <2> DEFINE j == s[1].key
             u == s[1].version
  <2>1. /\ h2.agg.target.pending
        /\ h2.agg.target.changes[j] = IF j \in h.synced THEN "Modified" ELSE "Added"
        /\ h2.agg.updates[j] = u
        /\ \A k \in Keys \ {j} : /\ h2.agg.target.changes[k] = h.agg.target.changes[k]
                                 /\ h2.agg.updates[k] = h.agg.updates[k]
        /\ j \in Keys
    BY <1>2, <1>10 DEF DocumentGathered
  <2>2. Answers(s) = {} /\ Fresh(s, 1) /\ w.requests = <<>> /\ Settled(h, w)
    BY <1>1, <1>2, <1>10, ActiveIsFresh DEF Settled, IsActive
  <2>3. FreshDoc(s, 1, j)
    BY <1>2, <1>3, <2>2 DEF FreshDoc
  <2>4. \A k \in Keys : FreshDoc(s, 1, k) => k = j
    BY DEF FreshDoc
  <2>5. s[1] \in Responses /\ u \in Nat
    <3>1. s[1] \in Responses
      BY <1>2, TailAnswers
    <3> QED
      BY <3>1 DEF Responses, Messages, Documents
  <2>6. Taken(h.agg, j) => h.agg.updates[j] <= u
    BY <1>1, <1>2, <1>3, <1>10, <2>1, <2>2, <2>3 DEF InOrder
  <2> HIDE DEF j, u
  <2>7. GatherOK(h2, d)
    <3>1. ASSUME NEW k \in Keys, h2.agg.target.changes[k] = "Modified"
          PROVE  k \in h2.synced
      <4>1. CASE k = j
        BY <2>1, <3>1, <4>1
      <4>2. CASE k # j
        BY <1>1, <1>10, <2>1, <3>1, <4>2 DEF GatherOK
      <4> QED
        BY <4>1, <4>2
    <3> QED
      BY <1>1, <2>1, <3>1 DEF GatherOK
  <2>8. NoReset(Tail(s))
    <3>1. \A r \in 1..Len(s) : s[r].type = "reset" => r = 1
      BY <1>1, <1>2, <2>2 DEF RoundsOK
    <3>2. /\ Len(s) \in Nat /\ Len(Tail(s)) = Len(s) - 1
          /\ \A i \in 1..(Len(s) - 1) : Tail(s)[i] = s[i + 1]
      BY <1>2, TailAnswers
    <3>3. \A r \in 1..Len(Tail(s)) : Tail(s)[r].type # "reset"
      <4> SUFFICES ASSUME NEW r \in 1..Len(Tail(s)) PROVE Tail(s)[r].type # "reset"
        OBVIOUS
      <4>1. r + 1 \in 1..Len(s) /\ r + 1 # 1 /\ Tail(s)[r] = s[r + 1]
        BY <3>2
      <4> QED
        BY <3>1, <4>1
    <3> QED
      BY <3>3 DEF NoReset
  <2>9. ASSUME NEW k \in Keys, NEW v \in Nat, Base(h, d, k, v)
        PROVE  Base(h2, d, k, v)
    <3>1. CASE k # j
      <4>1. /\ h2.agg.target.changes[k] = h.agg.target.changes[k]
            /\ h2.agg.updates[k] = h.agg.updates[k]
        BY <2>1, <3>1
      <4> QED
        BY <1>5, <2>9, <4>1 DEF Base, Kept, Gathered, Taken
    <3>2. CASE k = j
      <4>1. h2.agg.target.changes[j] \in {"Added", "Modified"}
        BY <2>1
      <4>2. CASE Kept(h, d, k, v)
        BY <3>2, <4>1, <4>2 DEF Kept, Base
      <4>3. CASE Gathered(h.agg, k, v)
        <5>1. h.agg.updates[j] \in Nat /\ h.agg.updates[j] >= v /\ h.agg.updates[j] <= u
          BY <2>1, <2>6, <3>2, <4>3, ListenerFields DEF Gathered
        <5>2. h2.agg.updates[j] >= v
          BY <2>1, <2>5, <5>1
        <5> QED
          BY <1>5, <1>10, <3>2, <4>1, <5>2 DEF Base, Gathered, Taken
      <4> QED
        BY <2>9, <4>2, <4>3 DEF Base
    <3> QED
      BY <3>1, <3>2
  <2>10. ASSUME NEW k \in Keys, NEW v \in Nat, FreshDoc(s, 1, k), s[1].version >= v
         PROVE  Base(h2, d, k, v)
    <3>1. k = j /\ u >= v
      BY <2>4, <2>10 DEF u
    <3>2. h2.agg.target.changes[j] \in {"Added", "Modified"} /\ h2.agg.updates[j] = u
      BY <2>1
    <3> QED
      BY <1>5, <1>10, <3>1, <3>2 DEF Base, Gathered, Taken
  <2>11. Keeps(h, h2, d, d, s)
    BY <2>8, <2>9, <2>10 DEF Keeps
  <2>12. Follows(h, h2, s)
    <3> SUFFICES ASSUME NEW k \in Keys, Taken(h2.agg, k)
                 PROVE  \/ /\ IsActive(h) /\ Taken(h.agg, k)
                           /\ h2.agg.updates[k] = h.agg.updates[k]
                        \/ FreshDoc(s, 1, k) /\ h2.agg.updates[k] = s[1].version
      BY DEF Follows
    <3>1. CASE k = j
      BY <2>1, <2>3, <3>1 DEF u
    <3>2. CASE k # j
      BY <1>10, <2>1, <3>2 DEF Taken
    <3> QED
      BY <3>1, <3>2
  <2> QED
    BY <1>2, <1>4, <1>7, <1>8, <2>7, <2>11, <2>12, HeadInv
<1> QED
  BY <1>9, <1>10

\* A token that is smaller claims less.
LEMMA DiskCoversLess ==
  ASSUME NEW d \in Disk, NEW log \in Seq(Commits),
         NEW v \in 0..Len(log), NEW u \in 0..v, DiskCovers(d, log, v)
  PROVE  DiskCovers(d, log, u)
<1> SUFFICES ASSUME NEW k \in Keys, VersionAt(log, u, k) # 0
             PROVE  Held(d, k, VersionAt(log, u, k))
  BY DEF DiskCovers
<1>1. Len(log) \in Nat /\ v \in Nat /\ u \in 0..Len(log)
  BY LenProperties
<1>2. PICK x \in 0..u : x = VersionAt(log, u, k)
  BY <1>1, VersionAtProperties
<1>3. PICK y \in 0..v : y = VersionAt(log, v, k)
  BY VersionAtProperties
<1>4. x <= y
  BY <1>2, <1>3, VersionAtGrows
<1>5. y # 0
  BY <1>2, <1>4
<1>6. Held(d, k, y)
  BY <1>3, <1>5 DEF DiskCovers
<1>7. d.cache[k].version \in Nat
  BY DEF Disk, Cached
<1>8. Held(d, k, x)
  BY <1>4, <1>6, <1>7 DEF Held
<1> QED
  BY <1>2, <1>8

\* A disk that keeps its documents or takes later ones covers what it covered.
CacheGrows(d, d2) == \A k \in Keys : d.cache[k].version <= d2.cache[k].version

LEMMA HeldLonger ==
  ASSUME NEW d \in Disk, NEW d2 \in Disk, CacheGrows(d, d2), d2.keys = d.keys,
         NEW k \in Keys, NEW v \in Nat, Held(d, k, v)
  PROVE  Held(d2, k, v)
<1>1. d.cache[k].version \in Nat /\ d2.cache[k].version \in Nat
  BY DEF Disk, Cached
<1> QED
  BY <1>1 DEF Held, CacheGrows

LEMMA DiskCoversLonger ==
  ASSUME NEW d \in Disk, NEW d2 \in Disk, CacheGrows(d, d2), d2.keys = d.keys,
         NEW log \in Seq(Commits), NEW v \in 0..Len(log), DiskCovers(d, log, v)
  PROVE  DiskCovers(d2, log, v)
<1>1. ASSUME NEW k \in Keys, VersionAt(log, v, k) # 0
      PROVE  Held(d2, k, VersionAt(log, v, k))
  <2>1. VersionAt(log, v, k) \in 0..v
    BY VersionAtProperties
  <2>2. PICK x \in Nat : x = VersionAt(log, v, k)
    BY <2>1
  <2>3. Held(d, k, x)
    BY <1>1, <2>2 DEF DiskCovers
  <2>4. Held(d2, k, x)
    BY <2>3, HeldLonger
  <2> QED
    BY <2>2, <2>4
<1> QED
  BY <1>1 DEF DiskCovers

\* A version that is raised: the disk takes what was gathered, and the result
\* of an active target changes.
Raised(h, h2, d, d2, v) ==
  /\ CacheGrows(d, d2)
  /\ \A k \in Keys : h.agg.updates[k] <= d2.cache[k].version
  /\ d2.lastRemote = v
  /\ h2.agg.target.outstanding = h.agg.target.outstanding
  /\ IF IsActive(h)
     THEN /\ d2.keys = (d.keys \cup {k \in Keys : h.agg.target.changes[k] = "Added"})
                         \ {k \in Keys : h.agg.target.changes[k] = "Removed"}
          /\ \A k \in Keys : h2.agg.target.changes[k] = "none"
          /\ h2.synced = d2.keys
          /\ h2.agg.target.token \in {v, h.agg.target.token}
          /\ h2.token \in {h.token, h2.agg.target.token}
          /\ d2.token \in {d.token, h2.agg.target.token}
     ELSE /\ d2.keys = d.keys /\ d2.token = d.token
          /\ h2.token = h.token /\ h2.synced = h.synced
          /\ h2.agg.target = h.agg.target

\* What is on disk or gathered is on disk afterwards.
LEMMA RaisedHolds ==
  ASSUME NEW h \in Listener, NEW h2, NEW d \in Disk, NEW d2 \in Disk, NEW v,
         Raised(h, h2, d, d2, v), GatherOK(h, d), IsActive(h),
         NEW k \in Keys, NEW ver \in Nat, Base(h, d, k, ver)
  PROVE  Held(d2, k, ver)
<1>1. /\ d.cache[k].version \in Nat /\ d2.cache[k].version \in Nat
      /\ h.agg.updates[k] \in Nat
      /\ d.cache[k].version <= d2.cache[k].version
      /\ h.agg.updates[k] <= d2.cache[k].version
  BY ListenerFields DEF Disk, Cached, Raised, CacheGrows
<1>2. k \in d2.keys <=>
        /\ k \in d.keys \/ h.agg.target.changes[k] = "Added"
        /\ h.agg.target.changes[k] # "Removed"
  BY DEF Raised
<1>3. CASE Kept(h, d, k, ver)
  BY <1>1, <1>2, <1>3 DEF Kept, Held
<1>4. CASE Gathered(h.agg, k, ver)
  <2>1. k \in d2.keys
    <3>1. h.listening
      BY DEF IsActive
    <3>2. h.agg.target.changes[k] = "Modified" => k \in d.keys
      BY <3>1 DEF GatherOK
    <3> QED
      BY <1>2, <1>4, <3>2 DEF Gathered, Taken
  <2>2. d2.cache[k].version >= ver
    BY <1>1, <1>4 DEF Gathered
  <2> QED
    BY <2>1, <2>2 DEF Held
<1> QED
  BY <1>3, <1>4 DEF Base

\* What the disk covers when an active target is raised.
LEMMA RaisedCovers ==
  ASSUME NEW h \in Listener, NEW h2, NEW w \in Wire, NEW d \in Disk, NEW d2 \in Disk,
         NEW log \in Seq(Commits), StreamInv(h, d, w, log), h.stream = "open",
         IsActive(h), w.responses # <<>>, w.responses[1].type = "snapshot",
         Raised(h, h2, d, d2, w.responses[1].version)
  PROVE  /\ w.responses[1].version \in 0..Len(log)
         /\ DiskCovers(d2, log, w.responses[1].version)
<1>1. PICK s \in Seq(Responses) : s = w.responses /\ s # <<>>
  BY WireType
<1>2. 1 \in 1..Len(s) /\ s[1] \in Responses /\ Len(log) \in Nat
  BY <1>1, TailAnswers, LenProperties
<1>3. PICK v \in Nat : v = s[1].version
  BY <1>2 DEF Responses, Messages, Documents
<1>4. v \in 0..Len(log)
  BY <1>1, <1>2, <1>3 DEF StreamInv, Bounds
<1>5. StreamOK(h, w) /\ GatherOK(h, d) /\ StreamCovers(h, d, w, log)
  BY DEF StreamInv
<1>6. w.requests = <<>> /\ Fresh(s, 1) /\ Settled(h, w)
  BY <1>1, <1>5, ActiveIsFresh DEF Settled, IsActive
<1>7. FreshSnapshot(s, 1)
  BY <1>1, <1>2, <1>6 DEF FreshSnapshot
<1>8. Complete(h, d, log, s, v, 1)
  BY <1>1, <1>2, <1>3, <1>5, <1>6, <1>7 DEF StreamCovers
<1>9. ASSUME NEW k \in Keys, VersionAt(log, v, k) # 0
      PROVE  Held(d2, k, VersionAt(log, v, k))
  <2>1. PICK ver \in Nat : ver = VersionAt(log, v, k)
    <3>1. VersionAt(log, v, k) \in 0..v
      BY <1>4, VersionAtProperties
    <3> QED
      BY <3>1
  <2>2. Reached(h, d, s, k, ver, 1)
    BY <1>8, <1>9, <2>1 DEF Complete
  <2>3. ~Coming(s, k, ver, 1)
    <3>1. \A q \in 1..Len(s) : ~(q < 1)
      BY <1>1, TailAnswers
    <3> QED
      BY <3>1 DEF Coming
  <2>4. Base(h, d, k, ver)
    BY <2>2, <2>3 DEF Reached
  <2>5. Held(d2, k, ver)
    BY <1>5, <2>4, RaisedHolds
  <2> QED
    BY <2>1, <2>5
<1>10. DiskCovers(d2, log, v)
  BY <1>9 DEF DiskCovers
<1> QED
  BY <1>1, <1>3, <1>4, <1>10

LEMMA RaiseStep ==
  ASSUME NEW h \in Listener, NEW h2, NEW w \in Wire, NEW w2,
         NEW d \in Disk, NEW d2 \in Disk, NEW log \in Seq(Commits),
         HeadStep(h, h2, w, w2), StreamInv(h, d, w, log),
         w.responses[1].type = "snapshot", w.responses[1].version >= d.lastRemote,
         Raised(h, h2, d, d2, w.responses[1].version)
  PROVE  StreamInv(h2, d2, w2, log)
<1>1. /\ StreamOK(h, w) /\ GatherOK(h, d) /\ TokenTold(h, d, w) /\ h.stream = "open"
      /\ Bounds(h, d, w, log) /\ TokensOK(h, d, log)
      /\ h2.listening = h.listening /\ h2.stream = h.stream /\ h2 \in Listener
  BY DEF StreamInv, HeadStep
<1>2. PICK s \in Seq(Responses) : s = w.responses /\ s # <<>>
  BY WireType DEF HeadStep
<1>3. 1 \in 1..Len(s) /\ s[1] \in Responses /\ Len(log) \in Nat
  BY <1>2, TailAnswers, LenProperties
<1>4. PICK v \in Nat : v = s[1].version
  BY <1>3 DEF Responses, Messages, Documents
<1>5. v <= Len(log) /\ d.lastRemote <= v
  BY <1>1, <1>2, <1>3, <1>4 DEF Bounds
<1>6. Raised(h, h2, d, d2, v)
  BY <1>2, <1>4
<1>7. /\ d.lastRemote \in Nat /\ d.token \in Nat /\ d2.token \in Nat
      /\ h.token \in Nat /\ h.agg.target.token \in Nat
      /\ h2.token \in Nat /\ h2.agg.target.token \in Nat
  BY <1>1, ListenerFields DEF Disk
<1>8. h.agg.target.token <= v
  BY <1>1, <1>2, <1>4, <1>5, <1>7 DEF TokenTold
<1>9. h.token <= v /\ d.token <= v
  BY <1>1, <1>5, <1>7 DEF Bounds
<1>10. h2.agg.target.outstanding = h.agg.target.outstanding /\ d2.lastRemote = v
  BY <1>6 DEF Raised
<1>11. IsActive(h2) <=> IsActive(h)
  BY <1>1, <1>10 DEF IsActive
<1>12. ~\E k \in Keys : FreshDoc(s, 1, k)
  BY <1>2 DEF FreshDoc
<1>13. CASE IsActive(h)
  <2>1. /\ \A k \in Keys : h2.agg.target.changes[k] = "none"
        /\ h2.synced = d2.keys
        /\ h2.agg.target.token \in {v, h.agg.target.token}
        /\ h2.token \in {h.token, h2.agg.target.token}
        /\ d2.token \in {d.token, h2.agg.target.token}
    BY <1>6, <1>13 DEF Raised
  <2>2. h2.agg.target.token <= v
    BY <1>7, <1>8, <2>1
  <2>3. h2.token <= v /\ d2.token <= v
    BY <1>9, <2>1, <2>2
  <2>4. v \in 0..Len(log) /\ DiskCovers(d2, log, v)
    BY <1>1, <1>2, <1>4, <1>6, <1>13, RaisedCovers
  <2>5. TokensOK(h2, d2, log)
    <3>1. h2.token \in 0..v /\ d2.token \in 0..v
      BY <1>7, <2>3
    <3> QED
      BY <2>4, <3>1, DiskCoversLess DEF TokensOK
  <2>6. TokenTold(h2, d2, w2)
    BY <1>10, <2>2 DEF TokenTold
  <2>7. GatherOK(h2, d2)
    BY <2>1 DEF GatherOK
  <2>8. Keeps(h, h2, d, d2, s)
    <3> SUFFICES ASSUME NEW k \in Keys, NEW ver \in Nat, Base(h, d, k, ver)
                 PROVE  Base(h2, d2, k, ver)
      BY <1>12 DEF Keeps
    <3>1. Held(d2, k, ver)
      BY <1>1, <1>6, <1>13, RaisedHolds
    <3> QED
      BY <2>1, <3>1 DEF Base, Kept
  <2>9. Follows(h, h2, s)
    BY <2>1 DEF Follows, Taken
  <2>10. w.requests = <<>>
    BY <1>1, <1>13, ActiveIsFresh
  <2> QED
    BY <1>2, <1>5, <1>10, <2>3, <2>5, <2>6, <2>7, <2>8, <2>9, <2>10, HeadInv
<1>14. CASE ~IsActive(h)
  <2>1. /\ d2.keys = d.keys /\ d2.token = d.token
        /\ h2.token = h.token /\ h2.synced = h.synced
        /\ h2.agg.target = h.agg.target /\ CacheGrows(d, d2)
    BY <1>6, <1>14 DEF Raised
  <2>2. TokensOK(h2, d2, log)
    <3>1. h.token \in 0..Len(log) /\ d.token \in 0..Len(log)
      BY <1>3, <1>5, <1>7, <1>9
    <3>2. DiskCovers(d2, log, d.token)
      BY <1>1, <2>1, <3>1, DiskCoversLonger DEF TokensOK
    <3>3. h.listening => DiskCovers(d2, log, h.token)
      BY <1>1, <2>1, <3>1, DiskCoversLonger DEF TokensOK
    <3> QED
      BY <1>1, <2>1, <3>2, <3>3 DEF TokensOK
  <2>3. TokenTold(h2, d2, w2)
    BY <1>8, <1>10, <2>1 DEF TokenTold
  <2>4. GatherOK(h2, d2)
    BY <1>1, <1>11, <1>14, <2>1 DEF GatherOK
  <2>5. Keeps(h, h2, d, d2, s)
    <3> SUFFICES ASSUME NEW k \in Keys, NEW ver \in Nat, Base(h, d, k, ver)
                 PROVE  Base(h2, d2, k, ver)
      BY <1>12 DEF Keeps
    <3>1. Held(d, k, ver)
      BY <1>14 DEF Base, Kept
    <3>2. Held(d2, k, ver)
      BY <2>1, <3>1, HeldLonger
    <3> QED
      BY <1>11, <1>14, <3>2 DEF Base, Kept
  <2>6. Follows(h, h2, s)
    BY <1>11, <1>14 DEF Follows
  <2> QED
    BY <1>2, <1>5, <1>9, <1>10, <2>1, <2>2, <2>3, <2>4, <2>5, <2>6, HeadInv
<1> QED
  BY <1>13, <1>14

-----------------------------------------------------------------------------
(* The other steps of the stream *)

\* A stream that is not open.
LEMMA ShutInv ==
  ASSUME NEW h2, NEW d, NEW log \in Seq(Commits),
         d.token <= d.lastRemote, h2.token <= d.lastRemote, d.lastRemote <= Len(log),
         h2.stream # "open", h2.stream = "starting" => h2.agg = NewAggregator,
         GatherOK(h2, d), TokensOK(h2, d, log)
  PROVE  StreamInv(h2, d, NoWire, log)
<1>1. /\ NoWire.requests = <<>> /\ NoWire.responses = <<>> /\ NoWire.upTo = 0
      /\ Len(NoWire.requests) = 0 /\ Len(NoWire.responses) = 0 /\ Len(log) \in Nat
  BY NoWireType, LenProperties
<1>2. StreamOK(h2, NoWire)
  BY DEF StreamOK
<1>3. Bounds(h2, d, NoWire, log)
  BY <1>1 DEF Bounds
<1>4. TokenTold(h2, d, NoWire)
  BY DEF TokenTold
<1>5. RoundsOK(NoWire.responses)
  BY <1>1 DEF RoundsOK
<1>6. AsksLast(h2, NoWire) /\ StreamCovers(h2, d, NoWire, log) /\ InOrder(h2, NoWire)
  BY DEF AsksLast, StreamCovers, InOrder, Settled
<1> QED
  BY <1>2, <1>3, <1>4, <1>5, <1>6 DEF StreamInv

LEMMA NothingGathered ==
  /\ NewAggregator.target.outstanding = 0
  /\ \A k \in Keys : NewAggregator.target.changes[k] = "none"
  /\ NewAggregator.target.token = 0
BY DEF NewAggregator, NoTargetState

\* The stream closes or starts again.
LEMMA RestartStep ==
  ASSUME NEW h \in Listener, NEW h2 \in Listener, NEW w, NEW d \in Disk,
         NEW log \in Seq(Commits), StreamInv(h, d, w, log),
         h2.listening = h.listening, h2.token = h.token, h2.synced = h.synced,
         \/ h2.stream = "starting" /\ h2.agg = NewAggregator
         \/ h2.stream = "off" /\ h2.agg = h.agg
  PROVE  StreamInv(h2, d, NoWire, log)
<1>1. /\ d.token <= d.lastRemote /\ h2.token <= d.lastRemote
      /\ d.lastRemote <= Len(log) /\ TokensOK(h2, d, log)
  BY HeadSame
<1>2. GatherOK(h2, d)
  BY NothingGathered DEF StreamInv, GatherOK, IsActive
<1> QED
  BY <1>1, <1>2, ShutInv

\* A request is sent on the open stream.
LEMMA AskStep ==
  ASSUME NEW h \in Listener, NEW h2 \in Listener, NEW w \in Wire, NEW w2 \in Wire,
         NEW d \in Disk, NEW d2 \in Disk, NEW log \in Seq(Commits),
         NEW r \in Requests, StreamInv(h, d, w, log),
         h.stream = "open", h2.stream = "open",
         h2.agg.target.outstanding = h.agg.target.outstanding + 1,
         h2.agg.target.changes = h.agg.target.changes,
         h2.agg.target.pending = h.agg.target.pending,
         h2.agg.target.token = h.agg.target.token,
         w2.requests = Append(w.requests, r), w2.responses = w.responses,
         w2.upTo = w.upTo,
         h2.listening => r = WatchRequest(h2) /\ h2.synced = d2.keys,
         d2.lastRemote = d.lastRemote, d2.token <= d.lastRemote,
         h2.token <= d.lastRemote, r.token <= d.lastRemote, TokensOK(h2, d2, log)
  PROVE  StreamInv(h2, d2, w2, log)
<1>1. /\ StreamOK(h, w) /\ Bounds(h, d, w, log) /\ GatherOK(h, d)
      /\ TokenTold(h, d, w) /\ RoundsOK(w.responses)
  BY DEF StreamInv
<1>2. /\ w.requests \in Seq(Requests) /\ Len(w.requests) \in Nat /\ Len(log) \in Nat
      /\ d.lastRemote \in Nat /\ r.token \in Nat
  BY WireType, LenProperties DEF Disk, Requests
<1>3. /\ Len(w2.requests) = Len(w.requests) + 1
      /\ \A i \in 1..Len(w.requests) : w2.requests[i] = w.requests[i]
      /\ w2.requests[Len(w.requests) + 1] = r
      /\ w2.requests # <<>>
  <2>1. PICK t : t = Append(w.requests, r)
    OBVIOUS
  <2>2. /\ t \in Seq(Requests) /\ Len(t) = Len(w.requests) + 1
        /\ \A i \in 1..Len(w.requests) : t[i] = w.requests[i]
        /\ t[Len(w.requests) + 1] = r
    BY <1>2, <2>1, AppendProperties
  <2>3. t # <<>>
    BY <1>2, <2>2, EmptySeq
  <2> QED
    BY <2>1, <2>2, <2>3
<1>4. Cardinality(Answers(w.responses)) \in Nat
  BY WireType, AnswersFinite
<1>5. StreamOK(h2, w2)
  <2>1. h.agg.target.outstanding = Len(w.requests) + Cardinality(Answers(w.responses))
    BY <1>1 DEF StreamOK
  <2>2. Len(w2.requests) = Len(w.requests) + 1
    BY <1>3
  <2>3. h2.agg.target.outstanding = Len(w2.requests) + Cardinality(Answers(w2.responses))
    BY <1>2, <1>4, <2>1, <2>2
  <2> QED
    BY <2>3 DEF StreamOK
<1>6. Bounds(h2, d2, w2, log)
  <2>1. \A i \in 1..Len(w2.requests) : w2.requests[i].token <= Len(log)
    <3> SUFFICES ASSUME NEW i \in 1..Len(w2.requests)
                 PROVE  w2.requests[i].token <= Len(log)
      OBVIOUS
    <3>1. CASE i \in 1..Len(w.requests)
      BY <1>1, <1>3, <3>1 DEF Bounds
    <3>2. CASE i = Len(w.requests) + 1
      <4>1. r.token <= Len(log)
        BY <1>1, <1>2 DEF Bounds
      <4> QED
        BY <1>3, <3>2, <4>1
    <3> QED
      BY <1>2, <1>3, <3>1, <3>2
  <2> QED
    BY <1>1, <2>1 DEF Bounds
<1>7. ~IsActive(h2)
  <2>1. h.agg.target.outstanding \in Nat
    BY <1>1, ActiveIsFresh
  <2> QED
    BY <2>1 DEF IsActive
<1>8. GatherOK(h2, d2)
  BY <1>1, <1>7 DEF GatherOK
<1>9. TokenTold(h2, d2, w2)
  BY <1>1 DEF TokenTold
<1>10. AsksLast(h2, w2)
  BY <1>3 DEF AsksLast
<1>11. StreamCovers(h2, d2, w2, log) /\ InOrder(h2, w2)
  BY <1>3 DEF StreamCovers, InOrder, Settled
<1> QED
  BY <1>1, <1>5, <1>6, <1>8, <1>9, <1>10, <1>11 DEF StreamInv

\* The stream opens and asks for the listener's target, if there is one.
LEMMA OpenStep ==
  ASSUME NEW h \in Listener, NEW h2 \in Listener, NEW w \in Wire, NEW w2 \in Wire,
         NEW d \in Disk, NEW log \in Seq(Commits), StreamInv(h, d, w, log),
         h.stream = "starting", h2.stream = "open",
         h2.listening = h.listening, h2.token = h.token, h2.synced = h.synced,
         h2.agg.target.outstanding = (IF h.listening THEN 1 ELSE 0),
         h2.agg.target.changes = h.agg.target.changes,
         h2.agg.target.pending = h.agg.target.pending,
         h2.agg.target.token = h.agg.target.token,
         w2.requests = (IF h.listening THEN <<WatchRequest(h)>> ELSE <<>>),
         w2.responses = <<>>, w2.upTo = 0
  PROVE  StreamInv(h2, d, w2, log)
<1>1. StreamOK(h, w) /\ GatherOK(h, d) /\ h.agg = NewAggregator
  BY DEF StreamInv, StreamOK
<1>2. /\ d.token <= d.lastRemote /\ h2.token <= d.lastRemote
      /\ d.lastRemote <= Len(log) /\ TokensOK(h2, d, log)
  BY HeadSame
<1>3. /\ Len(w2.requests) = IF h.listening THEN 1 ELSE 0
      /\ \A i \in 1..Len(w2.requests) : w2.requests[i] = WatchRequest(h)
      /\ Len(w2.responses) = 0 /\ Answers(w2.responses) = {}
  BY DEF Answers
<1>4. StreamOK(h2, w2)
  <2>1. Cardinality(Answers(w2.responses)) = 0
    BY <1>3, FS_EmptySet
  <2> QED
    BY <1>3, <2>1 DEF StreamOK
<1>5. /\ Len(log) \in Nat /\ h.token \in Nat /\ d.lastRemote \in Nat
      /\ WatchRequest(h).token = h.token
  BY LenProperties, ListenerFields DEF Disk, WatchRequest
<1>6. Bounds(h2, d, w2, log)
  BY <1>2, <1>3, <1>5 DEF Bounds
<1>7. ~IsActive(h2) /\ GatherOK(h2, d)
  BY <1>1 DEF GatherOK, IsActive
<1>8. TokenTold(h2, d, w2)
  BY <1>1, <1>5, NothingGathered DEF TokenTold
<1>9. RoundsOK(w2.responses)
  BY <1>3 DEF RoundsOK
<1>10. AsksLast(h2, w2)
  BY <1>3 DEF AsksLast, WatchRequest
<1>11. StreamCovers(h2, d, w2, log) /\ InOrder(h2, w2)
  BY DEF StreamCovers, InOrder, Settled
<1> QED
  BY <1>2, <1>4, <1>6, <1>7, <1>8, <1>9, <1>10, <1>11 DEF StreamInv

\* The server commits a write.
LEMMA CompleteLonger ==
  ASSUME NEW h, NEW d, NEW log \in Seq(Commits), NEW e \in Commits, NEW s,
         NEW v \in 0..Len(log), NEW p, Complete(h, d, log, s, v, p)
  PROVE  Complete(h, d, Append(log, e), s, v, p)
<1> SUFFICES ASSUME NEW k \in Keys, VersionAt(Append(log, e), v, k) # 0
             PROVE  Reached(h, d, s, k, VersionAt(Append(log, e), v, k), p)
  BY DEF Complete
<1>1. VersionAt(Append(log, e), v, k) = VersionAt(log, v, k)
  BY VersionAtLonger
<1> QED
  BY <1>1 DEF Complete

LEMMA DiskCoversLater ==
  ASSUME NEW d, NEW log \in Seq(Commits), NEW e \in Commits,
         NEW v \in 0..Len(log), DiskCovers(d, log, v)
  PROVE  DiskCovers(d, Append(log, e), v)
<1> SUFFICES ASSUME NEW k \in Keys, VersionAt(Append(log, e), v, k) # 0
             PROVE  Held(d, k, VersionAt(Append(log, e), v, k))
  BY DEF DiskCovers
<1>1. VersionAt(Append(log, e), v, k) = VersionAt(log, v, k)
  BY VersionAtLonger
<1> QED
  BY <1>1 DEF DiskCovers

LEMMA CommitStep ==
  ASSUME NEW h \in Listener, NEW w \in Wire, NEW d \in Disk,
         NEW log \in Seq(Commits), NEW e \in Commits, StreamInv(h, d, w, log)
  PROVE  StreamInv(h, d, w, Append(log, e))
<1>1. PICK longer \in Seq(Commits) : longer = Append(log, e)
  BY AppendProperties
<1>2. Len(longer) = Len(log) + 1 /\ Len(log) \in Nat
  BY <1>1, AppendProperties, LenProperties
<1>3. /\ Bounds(h, d, w, log) /\ StreamCovers(h, d, w, log) /\ TokensOK(h, d, log)
  BY DEF StreamInv
<1>4. /\ w.responses \in Seq(Responses) /\ w.upTo \in Nat
      /\ \A i \in 1..Len(w.responses) : w.responses[i].version \in Nat
      /\ w.requests \in Seq(Requests)
      /\ \A i \in 1..Len(w.requests) : w.requests[i].token \in Nat
  <2>1. \A i \in 1..Len(w.responses) : w.responses[i] \in Responses
    BY WireType, ElementOfSeq
  <2>2. \A i \in 1..Len(w.requests) : w.requests[i] \in Requests
    BY WireType, ElementOfSeq
  <2> QED
    BY <2>1, <2>2, WireType DEF Responses, Messages, Documents, Requests
<1>5. d.token \in Nat /\ d.lastRemote \in Nat /\ h.token \in Nat
  BY ListenerFields DEF Disk
<1>6. Bounds(h, d, w, longer)
  BY <1>2, <1>3, <1>4, <1>5, SMTT(60) DEF Bounds
<1>7. TokensOK(h, d, longer)
  <2>1. d.token \in 0..Len(log) /\ h.token \in 0..Len(log)
    BY <1>2, <1>3, <1>5 DEF Bounds
  <2> QED
    BY <1>1, <1>3, <2>1, DiskCoversLater DEF TokensOK
<1>8. StreamCovers(h, d, w, longer)
  <2> SUFFICES ASSUME Settled(h, w)
               PROVE  /\ \A p \in 1..Len(w.responses) : FreshSnapshot(w.responses, p) =>
                           Complete(h, d, longer, w.responses, w.responses[p].version, p)
                      /\ Complete(h, d, longer, w.responses, w.upTo, Len(w.responses) + 1)
    BY DEF StreamCovers
  <2>1. ASSUME NEW p \in 1..Len(w.responses), FreshSnapshot(w.responses, p)
        PROVE  Complete(h, d, longer, w.responses, w.responses[p].version, p)
    <3>1. w.responses[p].version \in 0..Len(log)
      BY <1>2, <1>3, <1>4, SMTT(60) DEF Bounds
    <3>2. Complete(h, d, log, w.responses, w.responses[p].version, p)
      BY <1>3, <2>1 DEF StreamCovers
    <3> QED
      BY <1>1, <3>1, <3>2, CompleteLonger
  <2>2. Complete(h, d, longer, w.responses, w.upTo, Len(w.responses) + 1)
    <3>1. w.upTo \in 0..Len(log)
      BY <1>2, <1>3, <1>4 DEF Bounds
    <3>2. Complete(h, d, log, w.responses, w.upTo, Len(w.responses) + 1)
      BY <1>3 DEF StreamCovers
    <3> QED
      BY <1>1, <3>1, <3>2, CompleteLonger
  <2> QED
    BY <2>1, <2>2
<1>9. StreamInv(h, d, w, longer)
  BY <1>6, <1>7, <1>8 DEF StreamInv
<1> QED
  BY <1>1, <1>9

\* The cache takes a document that the device wrote.
LEMMA CacheStep ==
  ASSUME NEW h \in Listener, NEW w \in Wire, NEW d \in Disk, NEW d2 \in Disk,
         NEW log \in Seq(Commits), StreamInv(h, d, w, log),
         CacheGrows(d, d2), d2.keys = d.keys, d2.token = d.token,
         d2.lastRemote = d.lastRemote
  PROVE  StreamInv(h, d2, w, log)
<1>1. /\ Bounds(h, d, w, log) /\ StreamCovers(h, d, w, log) /\ TokensOK(h, d, log)
      /\ GatherOK(h, d) /\ TokenTold(h, d, w)
  BY DEF StreamInv
<1>2. Bounds(h, d2, w, log) /\ GatherOK(h, d2) /\ TokenTold(h, d2, w)
  BY <1>1 DEF Bounds, GatherOK, TokenTold
<1>3. Len(log) \in Nat /\ d.token \in 0..Len(log) /\ h.token \in 0..Len(log)
  <2>1. /\ Len(log) \in Nat /\ d.token \in Nat /\ d.lastRemote \in Nat /\ h.token \in Nat
    BY LenProperties, ListenerFields DEF Disk
  <2> QED
    BY <1>1, <2>1 DEF Bounds
<1>4. TokensOK(h, d2, log)
  BY <1>1, <1>3, DiskCoversLonger DEF TokensOK
<1>5. ASSUME NEW s, NEW v \in 0..Len(log), NEW p, Complete(h, d, log, s, v, p)
      PROVE  Complete(h, d2, log, s, v, p)
  <2> SUFFICES ASSUME NEW k \in Keys, VersionAt(log, v, k) # 0
               PROVE  Reached(h, d2, s, k, VersionAt(log, v, k), p)
    BY DEF Complete
  <2>1. PICK ver \in Nat : ver = VersionAt(log, v, k)
    <3>1. VersionAt(log, v, k) \in 0..v
      BY VersionAtProperties
    <3> QED
      BY <3>1
  <2>2. Reached(h, d, s, k, ver, p)
    BY <1>5, <2>1 DEF Complete
  <2>3. Held(d, k, ver) => Held(d2, k, ver)
    BY HeldLonger
  <2>4. Base(h, d, k, ver) => Base(h, d2, k, ver)
    BY <2>3 DEF Base, Kept
  <2> QED
    BY <2>1, <2>2, <2>4 DEF Reached
<1>6. StreamCovers(h, d2, w, log)
  <2>1. w.upTo \in 0..Len(log)
    BY <1>1, <1>3, WireType DEF Bounds
  <2>2. \A p \in 1..Len(w.responses) : w.responses[p].version \in 0..Len(log)
    <3>1. \A i \in 1..Len(w.responses) : w.responses[i] \in Responses
      BY WireType, ElementOfSeq
    <3> QED
      BY <1>1, <1>3, <3>1 DEF Responses, Messages, Documents, Bounds
  <2> QED
    BY <1>1, <1>5, <2>1, <2>2 DEF StreamCovers
<1> QED
  BY <1>2, <1>4, <1>6 DEF StreamInv


\* The server answers the first request.
Answer(w, more, upTo) ==
  LET r == w.requests[1]
  IN  \/ r.listen /\ more = <<Message("added", 0)>> /\ upTo = r.token
      \/ r.listen /\ more = <<Message("added", 0), Message("reset", 0)>> /\ upTo = 0
      \/ ~r.listen /\ more = <<Message("removed", 0)>> /\ upTo = w.upTo

AnsweredWith(w, w2, more) ==
  /\ w2.requests = Tail(w.requests)
  /\ w2.responses = w.responses \o more

\* An answer, perhaps with a reset after it.
LEMMA AnswerAlone ==
  ASSUME NEW w, NEW more, NEW upTo, Answer(w, more, upTo)
  PROVE  /\ more \in Seq(Responses) /\ Len(more) \in {1, 2}
         /\ Answers(more) = {1}
         /\ Len(more) = 2 => more[2].type = "reset" /\ w.requests[1].listen /\ upTo = 0
         /\ Len(more) = 1 /\ w.requests[1].listen => upTo = w.requests[1].token
         /\ \A i \in 1..Len(more) : /\ more[i].version = 0
                                    /\ more[i].type \in {"added", "removed", "reset"}
<1>1. \A type \in {"added", "removed", "reset"} : Message(type, 0) \in Responses
  BY DEF Message, Responses, Messages
<1>2. CASE w.requests[1].listen /\ more = <<Message("added", 0)>> /\ upTo = w.requests[1].token
  BY <1>1, <1>2 DEF Message, Answers
<1>3. CASE /\ w.requests[1].listen /\ upTo = 0
           /\ more = <<Message("added", 0), Message("reset", 0)>>
  BY <1>1, <1>3 DEF Message, Answers
<1>4. CASE ~w.requests[1].listen /\ more = <<Message("removed", 0)>>
  BY <1>1, <1>4 DEF Message, Answers
<1> QED
  BY <1>2, <1>3, <1>4 DEF Answer

\* Positions after one or two more.
LEMMA TwoMore ==
  ASSUME NEW n \in Nat, NEW m \in {1, 2}, NEW i \in 1..(n + m)
  PROVE  /\ i \in 1..n \/ i = n + 1 \/ (i = n + 2 /\ m = 2)
         /\ 1 \in 1..m /\ (m = 2 => 2 \in 1..m)
OBVIOUS

LEMMA ServeStep ==
  ASSUME NEW h \in Listener, NEW w \in Wire, NEW w2 \in Wire, NEW d \in Disk,
         NEW log \in Seq(Commits), StreamInv(h, d, w, log),
         w.requests # <<>>, NEW more, Answer(w, more, w2.upTo),
         AnsweredWith(w, w2, more)
  PROVE  StreamInv(h, d, w2, log)
<1>1. /\ StreamOK(h, w) /\ Bounds(h, d, w, log) /\ GatherOK(h, d) /\ AsksLast(h, w)
      /\ TokenTold(h, d, w) /\ RoundsOK(w.responses) /\ TokensOK(h, d, log)
  BY DEF StreamInv
<1>2. PICK s \in Seq(Responses) : s = w.responses
  BY WireType
<1>3. PICK asked \in Seq(Requests) : asked = w.requests /\ asked # <<>>
  BY WireType
<1>4. /\ more \in Seq(Responses) /\ Len(more) \in {1, 2} /\ Answers(more) = {1}
      /\ Len(more) = 2 => more[2].type = "reset" /\ asked[1].listen /\ w2.upTo = 0
      /\ Len(more) = 1 /\ asked[1].listen => w2.upTo = asked[1].token
      /\ \A i \in 1..Len(more) : /\ more[i].version = 0
                                 /\ more[i].type \in {"added", "removed", "reset"}
  <2> HIDE DEF Answer
  <2> QED
    BY <1>3, AnswerAlone, SMTT(60)
<1>5. h.stream = "open"
  BY <1>1, NoWireType DEF StreamOK
<1>6. PICK t : t = s \o more
  OBVIOUS
<1>7. /\ t \in Seq(Responses) /\ Len(s) \in Nat /\ Len(t) = Len(s) + Len(more)
      /\ \A i \in 1..Len(s) : t[i] = s[i]
      /\ \A i \in 1..Len(more) : t[Len(s) + i] = more[i]
      /\ Answers(t) = Answers(s) \cup {Len(s) + 1}
      /\ Cardinality(Answers(t)) = Cardinality(Answers(s)) + 1
      /\ w2.responses = t
  BY <1>2, <1>4, <1>6, MoreAnswers, OneAnswer, SMTT(60) DEF AnsweredWith
<1>8. /\ Len(asked) \in Nat /\ 1 <= Len(asked)
      /\ w2.requests \in Seq(Requests) /\ Len(w2.requests) = Len(asked) - 1
      /\ \A i \in 1..(Len(asked) - 1) : w2.requests[i] = asked[i + 1]
      /\ \A i \in 1..Len(asked) : asked[i].token \in Nat /\ asked[i].token <= Len(log)
  <2>1. Len(asked) \in Nat /\ 1 <= Len(asked)
    BY <1>3, EmptySeq
  <2>2. PICK rest : rest = Tail(asked)
    OBVIOUS
  <2>3. /\ rest \in Seq(Requests) /\ Len(rest) = Len(asked) - 1
        /\ \A i \in 1..Len(rest) : rest[i] = asked[i + 1]
    BY <1>3, <2>2, HeadTailProperties
  <2>4. \A i \in 1..Len(asked) : asked[i].token \in Nat
    <3>1. \A i \in 1..Len(asked) : asked[i] \in Requests
      BY ElementOfSeq
    <3> QED
      BY <3>1 DEF Requests
  <2>5. \A i \in 1..Len(asked) : asked[i].token <= Len(log)
    BY <1>1, <1>3 DEF Bounds
  <2> QED
    BY <1>3, <2>1, <2>2, <2>3, <2>4, <2>5 DEF AnsweredWith
<1>9. ASSUME NEW i \in 1..Len(t)
      PROVE  \/ i \in 1..Len(s) /\ t[i] = s[i]
             \/ i = Len(s) + 1 /\ t[i] = more[1] /\ 1 \in 1..Len(more)
             \/ i = Len(s) + 2 /\ t[i] = more[2] /\ 2 \in 1..Len(more) /\ Len(more) = 2
  <2>0. Len(s) \in Nat /\ Len(t) = Len(s) + Len(more) /\ Len(more) \in {1, 2}
    BY <1>4, <1>7
  <2>1. i \in 1..Len(s) \/ i = Len(s) + 1 \/ (i = Len(s) + 2 /\ Len(more) = 2)
    BY <2>0, TwoMore
  <2>2. 1 \in 1..Len(more) /\ (Len(more) = 2 => 2 \in 1..Len(more))
    BY <2>0, TwoMore
  <2> QED
    BY <1>7, <2>1, <2>2
<1>10. StreamOK(h, w2)
  <2>1. h.agg.target.outstanding = Len(asked) + Cardinality(Answers(s))
    BY <1>1, <1>2, <1>3, <1>5 DEF StreamOK
  <2>2. Cardinality(Answers(s)) \in Nat
    BY AnswersFinite
  <2>3. /\ Len(asked) \in Nat /\ Len(w2.requests) = Len(asked) - 1
        /\ Cardinality(Answers(w2.responses)) = Cardinality(Answers(s)) + 1
    BY <1>7, <1>8
  <2>4. h.agg.target.outstanding = Len(w2.requests) + Cardinality(Answers(w2.responses))
    BY <2>1, <2>2, <2>3
  <2> QED
    BY <1>5, <2>4 DEF StreamOK
<1>11. Len(log) \in Nat /\ w.upTo <= Len(log) /\ asked[1].token <= Len(log)
       /\ asked[1].token \in Nat
  BY <1>1, <1>8, LenProperties DEF Bounds
<1>12. Bounds(h, d, w2, log)
  <2>1. w2.upTo <= Len(log)
    BY <1>3, <1>11 DEF Answer
  <2>2. \A i \in 1..Len(t) : t[i].version <= Len(log)
    <3> SUFFICES ASSUME NEW i \in 1..Len(t) PROVE t[i].version <= Len(log)
      OBVIOUS
    <3>1. CASE i \in 1..Len(s) /\ t[i] = s[i]
      BY <1>1, <1>2, <3>1 DEF Bounds
    <3>2. CASE ~(i \in 1..Len(s) /\ t[i] = s[i])
      <4>1. t[i].version = 0
        BY <1>4, <1>9, <3>2, SMTT(60)
      <4> QED
        BY <1>11, <4>1
    <3> QED
      BY <3>1, <3>2
  <2>3. \A i \in 1..Len(w2.requests) : w2.requests[i].token <= Len(log)
    <3> SUFFICES ASSUME NEW i \in 1..Len(w2.requests)
                 PROVE  w2.requests[i].token <= Len(log)
      OBVIOUS
    <3>1. i + 1 \in 1..Len(asked) /\ w2.requests[i] = asked[i + 1]
      BY <1>8
    <3> QED
      BY <1>8, <3>1
  <2> QED
    BY <1>1, <1>7, <2>1, <2>2, <2>3 DEF Bounds
<1>13. TokenTold(h, d, w2)
  <2>1. CASE s = <<>>
    BY <1>1, <1>2, <2>1 DEF TokenTold
  <2>2. CASE s # <<>>
    <3>1. 1 \in 1..Len(s) /\ t # <<>>
      BY <1>4, <1>7, <2>2, EmptySeq
    <3>2. t[1] = s[1]
      BY <1>7, <3>1
    <3> QED
      BY <1>1, <1>2, <1>7, <3>1, <3>2 DEF TokenTold
  <2> QED
    BY <2>1, <2>2
<1>14. RoundsOK(t)
  <2>1. ASSUME NEW q \in 1..Len(t), t[q].type = "current"
        PROVE  /\ q + 1 \in 1..Len(t) /\ t[q + 1].type = "snapshot"
               /\ t[q + 1].version = t[q].version
    <3>1. q \in 1..Len(s) /\ t[q] = s[q]
      BY <1>4, <1>9, <2>1
    <3>2. /\ q + 1 \in 1..Len(s) /\ s[q + 1].type = "snapshot"
          /\ s[q + 1].version = s[q].version
      BY <1>1, <1>2, <2>1, <3>1 DEF RoundsOK
    <3>3. q + 1 \in 1..Len(t)
      BY <1>4, <1>7, <3>2
    <3> QED
      BY <1>7, <3>1, <3>2, <3>3
  <2>2. ASSUME NEW r \in 1..Len(t), t[r].type = "reset"
        PROVE  r = 1 \/ r - 1 \in Answers(t)
    <3>1. CASE r \in 1..Len(s) /\ t[r] = s[r]
      BY <1>1, <1>2, <1>7, <2>2, <3>1 DEF RoundsOK
    <3>2. CASE r = Len(s) + 2
      BY <1>7, <3>2
    <3>3. CASE r = Len(s) + 1 /\ t[r] = more[1]
      <4>1. 1 \in Answers(more)
        BY <1>4
      <4>2. more[1].type \in {"added", "removed"}
        BY <4>1 DEF Answers
      <4> QED
        BY <2>2, <3>3, <4>2
    <3> QED
      BY <1>9, <3>1, <3>2, <3>3
  <2> QED
    BY <2>1, <2>2 DEF RoundsOK
<1>15. AsksLast(h, w2)
  <2> SUFFICES ASSUME h.listening, w2.requests # <<>>
               PROVE  w2.requests[Len(w2.requests)] = WatchRequest(h)
    BY DEF AsksLast
  <2>1. asked[Len(asked)] = WatchRequest(h)
    BY <1>1, <1>3, <1>5 DEF AsksLast
  <2>2. Len(w2.requests) \in 1..(Len(asked) - 1)
    BY <1>8, EmptySeq
  <2>3. w2.requests[Len(w2.requests)] = asked[Len(w2.requests) + 1]
    BY <1>8, <2>2
  <2>4. Len(w2.requests) + 1 = Len(asked)
    BY <1>8
  <2> QED
    BY <2>1, <2>3, <2>4
<1>16. ~IsActive(h)
  BY <1>1, <1>5, ActiveIsFresh
<1>17. ASSUME NEW p \in 1..Len(t), Fresh(t, p)
       PROVE  t[p].type = "reset" /\ Len(more) = 2
  <2>1. Len(s) + 1 \in Answers(t)
    BY <1>7
  <2>2. Len(s) + 1 < p
    BY <1>17, <2>1 DEF Fresh
  <2>3. ~(p \in 1..Len(s)) /\ p # Len(s) + 1
    BY <1>7, <2>2
  <2>4. t[p] = more[2] /\ Len(more) = 2
    BY <1>9, <2>3
  <2> QED
    BY <1>4, <2>4
<1>18. StreamCovers(h, d, w2, log)
  <2> SUFFICES ASSUME Settled(h, w2)
               PROVE  Complete(h, d, log, t, w2.upTo, Len(t) + 1)
    BY <1>7, <1>17 DEF StreamCovers, FreshSnapshot
  <2>1. Len(asked) = 1 /\ h.listening
    <3>1. Len(w2.requests) = 0
      BY EmptySeq DEF Settled
    <3> QED
      BY <1>8, <3>1 DEF Settled
  <2>2. asked[1] = WatchRequest(h)
    BY <1>1, <1>3, <1>5, <2>1 DEF AsksLast
  <2>3. asked[1].listen /\ asked[1].token = h.token
    BY <2>2 DEF WatchRequest
  <2>4. CASE Len(more) = 2
    <3>1. w2.upTo = 0
      <4>1. Len(more) = 2 => w2.upTo = 0
        BY <1>4
      <4> QED
        BY <2>4, <4>1
    <3>2. ASSUME NEW k \in Keys PROVE VersionAt(log, 0, k) = 0
      <4>1. 0 \in 0..Len(log)
        BY <1>11
      <4>2. VersionAt(log, 0, k) \in 0..0
        BY <4>1, VersionAtProperties
      <4> QED
        BY <4>2
    <3> QED
      BY <3>1, <3>2 DEF Complete
  <2>5. CASE Len(more) = 1
    <3>1. w2.upTo = h.token
      BY <1>4, <2>3, <2>5
    <3>2. NoReset(t)
      BY <1>17, <2>5 DEF NoReset
    <3>3. DiskCovers(d, log, h.token)
      BY <1>1, <2>1 DEF TokensOK
    <3>4. ASSUME NEW k \in Keys, VersionAt(log, h.token, k) # 0
          PROVE  Base(h, d, k, VersionAt(log, h.token, k))
      BY <1>16, <3>3, <3>4 DEF DiskCovers, Base, Kept
    <3> QED
      BY <3>1, <3>2, <3>4 DEF Complete, Reached
  <2> QED
    BY <1>4, <2>4, <2>5
<1>19. InOrder(h, w2)
  <2>1. \A q, k : ~FreshDoc(t, q, k)
    BY <1>17 DEF FreshDoc
  <2> QED
    BY <1>7, <1>16, <2>1 DEF InOrder
<1> QED
  BY <1>1, <1>7, <1>10, <1>12, <1>13, <1>14, <1>15, <1>18, <1>19 DEF StreamInv

\* A round: the documents that changed since version upTo, and the version it
\* is complete at.
Round(more, log, upTo, last) ==
  /\ more \in Seq(Responses)
  /\ Len(more) \in Nat /\ Len(more) >= 1
  /\ more[Len(more)].type = "snapshot"
  /\ \A i \in 1..Len(more) :
       /\ more[i].version <= last
       /\ more[i].type \in {"document", "current", "snapshot"}
       /\ more[i].type = "document" =>
            /\ more[i].key \in Keys
            /\ more[i].version = VersionAt(log, last, more[i].key)
            /\ more[i].version > upTo
       /\ more[i].type = "snapshot" => more[i].version = last /\ i = Len(more)
       /\ more[i].type = "current" =>
            /\ i + 1 \in 1..Len(more)
            /\ more[i + 1].type = "snapshot"
            /\ more[i + 1].version = more[i].version
  /\ \A k \in Keys : VersionAt(log, last, k) > upTo =>
       \E i \in 1..Len(more) :
         i < Len(more) /\ more[i].type = "document" /\ more[i].key = k

RoundSent(w, w2, more) ==
  w2.requests = w.requests /\ w2.responses = w.responses \o more

\* Responses after which no answer comes stay fresh behind more of them.
Behind(s, more, t) ==
  /\ t \in Seq(Responses) /\ Answers(t) = Answers(s)
  /\ Len(s) \in Nat /\ Len(more) \in Nat /\ Len(t) = Len(s) + Len(more)
  /\ \A i \in 1..Len(s) : i \in 1..Len(t) /\ t[i] = s[i]
  /\ \A i \in 1..Len(more) : Len(s) + i \in 1..Len(t) /\ t[Len(s) + i] = more[i]
  /\ \A i \in 1..Len(t) : i \in 1..Len(s) \/ \E j \in 1..Len(more) : i = Len(s) + j
  /\ \A p : Fresh(t, p) <=> Fresh(s, p)
  /\ \A p \in Nat : p > Len(s) => Fresh(t, p)
  /\ NoReset(s) => NoReset(t)

LEMMA RoundFresh ==
  ASSUME NEW s \in Seq(Responses), NEW more, NEW log, NEW upTo, NEW last,
         Round(more, log, upTo, last), NEW t, t = s \o more
  PROVE  Behind(s, more, t)
<1>0. /\ more \in Seq(Responses)
      /\ \A i \in 1..Len(more) : more[i].type \in {"document", "current", "snapshot"}
  BY DEF Round
<1>1. /\ t \in Seq(Responses) /\ Len(s) \in Nat /\ Len(more) \in Nat
      /\ Len(t) = Len(s) + Len(more)
      /\ \A i \in 1..Len(s) : t[i] = s[i]
      /\ \A i \in 1..Len(more) : t[Len(s) + i] = more[i]
  BY <1>0, MoreAnswers
<1>2. Answers(more) = {}
  BY <1>0, AnswersFinite
<1>3. Answers(t) = Answers(s)
  BY <1>0, <1>2, RoundAnswers
<1>4. \A p : Fresh(t, p) <=> Fresh(s, p)
  BY <1>3 DEF Fresh
<1>5. Answers(s) \subseteq 1..Len(s)
  BY AnswersFinite
<1>6. \A p \in Nat : p > Len(s) => Fresh(t, p)
  <2> SUFFICES ASSUME NEW p \in Nat, p > Len(s), NEW q \in Answers(s) PROVE q < p
    BY <1>3 DEF Fresh
  <2>1. q \in 1..Len(s)
    BY <1>5
  <2> QED
    BY <1>1, <2>1
<1>7. PICK n \in Nat, m \in Nat : n = Len(s) /\ m = Len(more) /\ Len(t) = n + m
  BY <1>1
<1>8. /\ \A i \in 1..n : i \in 1..(n + m)
      /\ \A i \in 1..m : n + i \in 1..(n + m)
      /\ \A i \in 1..(n + m) : i \in 1..n \/ \E j \in 1..m : i = n + j
  <2>1. ASSUME NEW i \in 1..(n + m), i \notin 1..n PROVE \E j \in 1..m : i = n + j
    <3>1. i - n \in 1..m /\ i = n + (i - n)
      BY <2>1
    <3> QED
      BY <3>1
  <2> QED
    BY <2>1
<1>9. ASSUME NoReset(s) PROVE NoReset(t)
  <2> SUFFICES ASSUME NEW r \in 1..Len(t), Fresh(t, r) PROVE t[r].type # "reset"
    BY DEF NoReset
  <2>1. CASE r \in 1..Len(s)
    BY <1>1, <1>4, <1>9, <2>1 DEF NoReset
  <2>2. CASE r \notin 1..Len(s)
    <3>1. PICK j \in 1..Len(more) : r = Len(s) + j
      BY <1>7, <1>8, <2>2
    <3> QED
      BY <1>0, <1>1, <3>1
  <2> QED
    BY <2>1, <2>2
<1> QED
  BY <1>1, <1>3, <1>4, <1>6, <1>7, <1>8, <1>9 DEF Behind

\* What was reached is reached.
LEMMA RoundReached ==
  ASSUME NEW s, NEW more, NEW t, Behind(s, more, t),
         NEW h, NEW d, NEW k \in Keys, NEW v \in Nat, NEW p \in Nat, NEW p2 \in Nat,
         p <= p2, Reached(h, d, s, k, v, p)
  PROVE  Reached(h, d, t, k, v, p2)
<1>1. /\ \A i \in 1..Len(s) : i \in 1..Len(t) /\ t[i] = s[i]
      /\ \A i : Fresh(t, i) <=> Fresh(s, i)
      /\ NoReset(s) => NoReset(t)
  BY DEF Behind
<1>2. CASE NoReset(s) /\ Base(h, d, k, v)
  BY <1>1, <1>2 DEF Reached
<1>3. CASE Coming(s, k, v, p)
  <2>1. PICK q \in 1..Len(s) : q < p /\ FreshDoc(s, q, k) /\ s[q].version >= v
    BY <1>3 DEF Coming
  <2>2. q \in 1..Len(t) /\ q < p2 /\ FreshDoc(t, q, k) /\ t[q].version >= v
    BY <1>1, <2>1 DEF FreshDoc
  <2> QED
    BY <2>2 DEF Coming, Reached
<1> QED
  BY <1>2, <1>3 DEF Reached

\* A version is reached behind the round that brings it.
LEMMA RoundComplete ==
  ASSUME NEW s, NEW more, NEW t, Behind(s, more, t),
         NEW h, NEW d, NEW log \in Seq(Commits),
         NEW last \in 0..Len(log), NEW upTo \in 0..last, Round(more, log, upTo, last),
         NEW p \in Nat, p >= Len(t),
         Complete(h, d, log, s, upTo, Len(s) + 1)
  PROVE  Complete(h, d, log, t, last, p)
<1>1. Len(more) \in Nat /\ Len(more) >= 1
  BY DEF Round
<1>2. /\ t \in Seq(Responses) /\ Len(s) \in Nat /\ Len(t) = Len(s) + Len(more)
      /\ \A i \in 1..Len(more) : Len(s) + i \in 1..Len(t) /\ t[Len(s) + i] = more[i]
      /\ \A q \in Nat : q > Len(s) => Fresh(t, q)
  BY DEF Behind
<1>3. Len(log) \in Nat
  BY LenProperties
<1>4. ASSUME NEW k \in Keys, VersionAt(log, last, k) # 0
      PROVE  Reached(h, d, t, k, VersionAt(log, last, k), p)
  <2>1. PICK x \in Nat : x = VersionAt(log, last, k)
    <3>1. VersionAt(log, last, k) \in 0..last
      BY VersionAtProperties
    <3> QED
      BY <3>1
  <2>2. CASE x <= upTo
    <3>1. VersionAt(log, upTo, k) = x
      BY <2>1, <2>2, VersionAtSame
    <3>2. Reached(h, d, s, k, x, Len(s) + 1)
      BY <1>4, <2>1, <3>1 DEF Complete
    <3>3. Len(s) + 1 \in Nat /\ Len(s) + 1 <= p
      BY <1>1, <1>2
    <3>4. Reached(h, d, t, k, x, p)
      BY <3>2, <3>3, RoundReached
    <3> QED
      BY <2>1, <3>4
  <2>3. CASE x > upTo
    <3>1. PICK i \in 1..Len(more) :
            i < Len(more) /\ more[i].type = "document" /\ more[i].key = k
      BY <2>1, <2>3 DEF Round
    <3>2. more[i].version = x
      BY <2>1, <3>1 DEF Round
    <3>3. PICK q \in 1..Len(t) : q = Len(s) + i /\ t[q] = more[i]
      BY <1>2
    <3>4. q \in Nat /\ q > Len(s) /\ q < p
      BY <1>1, <1>2, <3>1, <3>3
    <3>5. FreshDoc(t, q, k)
      BY <1>2, <3>1, <3>3, <3>4 DEF FreshDoc
    <3>6. Coming(t, k, x, p)
      BY <3>2, <3>3, <3>4, <3>5 DEF Coming
    <3> QED
      BY <2>1, <3>6 DEF Reached
  <2> QED
    BY <1>3, <2>1, <2>2, <2>3
<1> QED
  BY <1>4 DEF Complete

LEMMA RoundStep ==
  ASSUME NEW h \in Listener, NEW w \in Wire, NEW w2 \in Wire, NEW d \in Disk,
         NEW log \in Seq(Commits), StreamInv(h, d, w, log), w.serving,
         NEW last \in 0..Len(log), w.upTo <= last, w2.upTo = last,
         NEW more, Round(more, log, w.upTo, last), RoundSent(w, w2, more)
  PROVE  StreamInv(h, d, w2, log)
<1>1. /\ StreamOK(h, w) /\ Bounds(h, d, w, log) /\ GatherOK(h, d) /\ AsksLast(h, w)
      /\ TokenTold(h, d, w) /\ RoundsOK(w.responses) /\ TokensOK(h, d, log)
      /\ StreamCovers(h, d, w, log) /\ InOrder(h, w)
  BY DEF StreamInv
<1>2. PICK s \in Seq(Responses) : s = w.responses
  BY WireType
<1>3. PICK t : t = s \o more /\ t = w2.responses
  BY <1>2 DEF RoundSent
<1>4. Behind(s, more, t)
  BY <1>3, RoundFresh
<1>5. /\ t \in Seq(Responses) /\ Answers(t) = Answers(s)
      /\ Len(s) \in Nat /\ Len(more) \in Nat /\ Len(t) = Len(s) + Len(more)
      /\ \A i \in 1..Len(s) : i \in 1..Len(t) /\ t[i] = s[i]
      /\ \A i \in 1..Len(more) : Len(s) + i \in 1..Len(t) /\ t[Len(s) + i] = more[i]
      /\ \A i \in 1..Len(t) : i \in 1..Len(s) \/ \E j \in 1..Len(more) : i = Len(s) + j
      /\ \A p : Fresh(t, p) <=> Fresh(s, p)
  BY <1>4 DEF Behind
<1>6. h.stream = "open" /\ w2.requests = w.requests
  BY <1>1, NoWireType DEF StreamOK, RoundSent
<1>7. /\ w.upTo \in 0..last /\ Len(log) \in Nat
      /\ \A i \in 1..Len(t) : t[i].version \in Nat
      /\ \A i \in 1..Len(s) : s[i].version \in Nat
  <2>1. w.upTo \in Nat /\ Len(log) \in Nat
    BY WireType, LenProperties
  <2>2. \A i \in 1..Len(t) : t[i] \in Responses
    BY <1>5, ElementOfSeq
  <2>3. \A i \in 1..Len(s) : s[i] \in Responses
    BY ElementOfSeq
  <2> QED
    BY <2>1, <2>2, <2>3 DEF Responses, Messages, Documents
<1>8. StreamOK(h, w2)
  BY <1>1, <1>2, <1>3, <1>5, <1>6 DEF StreamOK
<1>9. Bounds(h, d, w2, log)
  <2>1. ASSUME NEW i \in 1..Len(t) PROVE t[i].version <= Len(log)
    <3>1. CASE i \in 1..Len(s)
      BY <1>1, <1>2, <1>5, <3>1 DEF Bounds
    <3>2. CASE i \notin 1..Len(s)
      <4>1. PICK j \in 1..Len(more) : i = Len(s) + j
        BY <1>5, <3>2
      <4>2. t[i].version <= last
        BY <1>5, <4>1 DEF Round
      <4> QED
        BY <1>7, <4>2
    <3> QED
      BY <3>1, <3>2
  <2>2. w2.upTo <= Len(log)
    BY <1>7
  <2> QED
    BY <1>1, <1>3, <1>6, <2>1, <2>2 DEF Bounds
<1>10. TokenTold(h, d, w2)
  <2>1. CASE s = <<>>
    BY <1>1, <1>2, <2>1 DEF TokenTold
  <2>2. CASE s # <<>>
    <3>1. 1 \in 1..Len(s)
      BY <1>5, <2>2, EmptySeq
    <3>2. 1 \in 1..Len(t) /\ t[1] = s[1]
      BY <1>5, <3>1
    <3>3. t # <<>>
      BY <1>5, <3>2, EmptySeq
    <3> QED
      BY <1>1, <1>2, <1>3, <3>2, <3>3 DEF TokenTold
  <2> QED
    BY <2>1, <2>2
<1>11. RoundsOK(t)
  <2>1. ASSUME NEW q \in 1..Len(t), t[q].type = "current"
        PROVE  /\ q + 1 \in 1..Len(t) /\ t[q + 1].type = "snapshot"
               /\ t[q + 1].version = t[q].version
    <3>1. CASE q \in 1..Len(s)
      <4>1. t[q] = s[q]
        BY <1>5, <3>1
      <4>2. /\ q + 1 \in 1..Len(s) /\ s[q + 1].type = "snapshot"
            /\ s[q + 1].version = s[q].version
        BY <1>1, <1>2, <2>1, <3>1, <4>1 DEF RoundsOK
      <4> QED
        BY <1>5, <4>1, <4>2
    <3>2. CASE q \notin 1..Len(s)
      <4>1. PICK j \in 1..Len(more) : q = Len(s) + j
        BY <1>5, <3>2
      <4>2. t[q] = more[j]
        BY <1>5, <4>1
      <4>3. /\ j + 1 \in 1..Len(more) /\ more[j + 1].type = "snapshot"
            /\ more[j + 1].version = more[j].version
        BY <2>1, <4>2 DEF Round
      <4>4. q + 1 = Len(s) + (j + 1)
        BY <1>5, <4>1
      <4>5. q + 1 \in 1..Len(t) /\ t[q + 1] = more[j + 1]
        BY <1>5, <4>3, <4>4
      <4> QED
        BY <4>2, <4>3, <4>5
    <3> QED
      BY <3>1, <3>2
  <2>2. ASSUME NEW r \in 1..Len(t), t[r].type = "reset"
        PROVE  r = 1 \/ r - 1 \in Answers(t)
    <3>1. CASE r \in 1..Len(s)
      BY <1>1, <1>2, <1>5, <2>2, <3>1 DEF RoundsOK
    <3>2. CASE r \notin 1..Len(s)
      <4>1. PICK j \in 1..Len(more) : r = Len(s) + j
        BY <1>5, <3>2
      <4>2. t[r].type \in {"document", "current", "snapshot"}
        BY <1>5, <4>1, ZenonT(60) DEF Round
      <4> QED
        BY <2>2, <4>2
    <3> QED
      BY <3>1, <3>2
  <2> QED
    BY <2>1, <2>2 DEF RoundsOK
<1>12. AsksLast(h, w2)
  BY <1>1, <1>6 DEF AsksLast
<1>13. StreamCovers(h, d, w2, log)
  <2> SUFFICES ASSUME Settled(h, w2)
               PROVE  /\ \A p \in 1..Len(t) : FreshSnapshot(t, p) =>
                           Complete(h, d, log, t, t[p].version, p)
                      /\ Complete(h, d, log, t, last, Len(t) + 1)
    BY <1>3 DEF StreamCovers
  <2>1. /\ \A p \in 1..Len(s) : FreshSnapshot(s, p) => Complete(h, d, log, s, s[p].version, p)
        /\ Complete(h, d, log, s, w.upTo, Len(s) + 1)
    BY <1>1, <1>2, <1>6 DEF StreamCovers, Settled
  <2>2. ASSUME NEW p \in Nat, p >= Len(t) PROVE Complete(h, d, log, t, last, p)
    BY <1>4, <1>7, <2>1, <2>2, RoundComplete
  <2>3. ASSUME NEW p \in 1..Len(t), FreshSnapshot(t, p)
        PROVE  Complete(h, d, log, t, t[p].version, p)
    <3>1. CASE p \in 1..Len(s)
      <4>1. t[p] = s[p] /\ FreshSnapshot(s, p)
        BY <1>5, <2>3, <3>1 DEF FreshSnapshot
      <4>2. Complete(h, d, log, s, s[p].version, p)
        BY <2>1, <3>1, <4>1
      <4>3. s[p].version \in 0..Len(log) /\ p \in Nat
        BY <1>1, <1>2, <1>7, <3>1 DEF Bounds
      <4>4. ASSUME NEW k \in Keys, VersionAt(log, s[p].version, k) # 0
            PROVE  Reached(h, d, t, k, VersionAt(log, s[p].version, k), p)
        <5>1. PICK x \in Nat : x = VersionAt(log, s[p].version, k)
          <6>1. VersionAt(log, s[p].version, k) \in 0..s[p].version
            BY <4>3, VersionAtProperties
          <6> QED
            BY <4>3, <6>1
        <5>2. Reached(h, d, s, k, x, p)
          BY <4>2, <4>4, <5>1 DEF Complete
        <5>3. Reached(h, d, t, k, x, p)
          <6>1. p \in Nat /\ p <= p
            BY <4>3
          <6> QED
            BY <1>4, <5>2, <6>1, RoundReached
        <5> QED
          BY <5>1, <5>3
      <4> QED
        BY <4>1, <4>4 DEF Complete
    <3>2. CASE p \notin 1..Len(s)
      <4>1. PICK j \in 1..Len(more) : p = Len(s) + j
        BY <1>5, <3>2
      <4>2. more[j].type = "snapshot" /\ t[p] = more[j]
        BY <1>5, <2>3, <4>1 DEF FreshSnapshot
      <4>3. t[p].version = last /\ j = Len(more)
        BY <4>2 DEF Round
      <4>4. p \in Nat /\ p >= Len(t)
        BY <1>5, <4>1, <4>3
      <4> QED
        BY <2>2, <4>3, <4>4
    <3> QED
      BY <3>1, <3>2
  <2>4. Len(t) + 1 \in Nat /\ Len(t) + 1 >= Len(t)
    BY <1>5
  <2> QED
    BY <2>2, <2>3, <2>4
<1>14. InOrder(h, w2)
  <2> SUFFICES ASSUME Settled(h, w2), NEW k \in Keys
               PROVE
      /\ \A q \in 1..Len(t) : FreshDoc(t, q, k) =>
           /\ t[q].version <= last
           /\ IsActive(h) /\ Taken(h.agg, k) => h.agg.updates[k] <= t[q].version
      /\ \A q, r \in 1..Len(t) :
           r < q /\ FreshDoc(t, r, k) /\ FreshDoc(t, q, k) => t[r].version <= t[q].version
      /\ IsActive(h) /\ Taken(h.agg, k) => h.agg.updates[k] <= last
    BY <1>3 DEF InOrder
  <2>1. /\ \A q \in 1..Len(s) : FreshDoc(s, q, k) =>
             /\ s[q].version <= w.upTo
             /\ IsActive(h) /\ Taken(h.agg, k) => h.agg.updates[k] <= s[q].version
        /\ \A q, r \in 1..Len(s) : r < q /\ FreshDoc(s, r, k) /\ FreshDoc(s, q, k) =>
             s[r].version <= s[q].version
        /\ IsActive(h) /\ Taken(h.agg, k) => h.agg.updates[k] <= w.upTo
    BY <1>1, <1>2, <1>6 DEF InOrder, Settled
  <2>2. h.agg.updates[k] \in Nat
    BY ListenerFields
  <2>3. ASSUME NEW q \in 1..Len(t), FreshDoc(t, q, k)
        PROVE  \/ q \in 1..Len(s) /\ FreshDoc(s, q, k) /\ t[q] = s[q]
               \/ /\ q > Len(s)
                  /\ t[q].version = VersionAt(log, last, k)
                  /\ t[q].version > w.upTo /\ t[q].version <= last
    <3>1. CASE q \in 1..Len(s)
      BY <1>5, <2>3, <3>1 DEF FreshDoc
    <3>2. CASE q \notin 1..Len(s)
      <4>1. PICK j \in 1..Len(more) : q = Len(s) + j
        BY <1>5, <3>2
      <4>2. t[q] = more[j] /\ more[j].type = "document" /\ more[j].key = k
        BY <1>5, <2>3, <4>1 DEF FreshDoc
      <4>3. /\ more[j].version = VersionAt(log, last, k)
            /\ more[j].version > w.upTo /\ more[j].version <= last
        BY <4>2 DEF Round
      <4>4. q > Len(s)
        BY <1>5, <4>1
      <4> QED
        BY <4>2, <4>3, <4>4
    <3> QED
      BY <3>1, <3>2
  <2>4. ASSUME NEW q \in 1..Len(t), FreshDoc(t, q, k)
        PROVE  /\ t[q].version <= last
               /\ IsActive(h) /\ Taken(h.agg, k) => h.agg.updates[k] <= t[q].version
    <3>1. t[q].version \in Nat
      BY <1>7
    <3> QED
      BY <1>7, <2>1, <2>2, <2>3, <2>4, <3>1, SMTT(60)
  <2>5. ASSUME NEW q \in 1..Len(t), NEW r \in 1..Len(t), r < q,
               FreshDoc(t, r, k), FreshDoc(t, q, k)
        PROVE  t[r].version <= t[q].version
    <3>1. t[q].version \in Nat /\ t[r].version \in Nat
      BY <1>7
    <3>2. CASE r \in 1..Len(s) /\ FreshDoc(s, r, k) /\ t[r] = s[r]
      <4>1. s[r].version <= w.upTo
        BY <2>1, <3>2
      <4>2. CASE q \in 1..Len(s) /\ FreshDoc(s, q, k) /\ t[q] = s[q]
        BY <2>1, <2>5, <3>2, <4>2
      <4>3. CASE t[q].version > w.upTo
        BY <1>7, <3>1, <3>2, <4>1, <4>3
      <4> QED
        BY <2>3, <2>5, <4>2, <4>3
    <3>3. CASE r > Len(s) /\ t[r].version = VersionAt(log, last, k)
      <4>1. ~(q \in 1..Len(s))
        BY <1>5, <2>5, <3>3
      <4>2. t[q].version = VersionAt(log, last, k)
        BY <2>3, <2>5, <4>1
      <4> QED
        BY <3>1, <3>3, <4>2
    <3> QED
      BY <2>3, <2>5, <3>2, <3>3
  <2>6. IsActive(h) /\ Taken(h.agg, k) => h.agg.updates[k] <= last
    BY <1>7, <2>1, <2>2
  <2> QED
    BY <2>4, <2>5, <2>6
<1> QED
  BY <1>1, <1>3, <1>8, <1>9, <1>10, <1>11, <1>12, <1>13, <1>14 DEF StreamInv

ListsChanged(changed, log, upTo, last) ==
  changed = SetToSeq({k \in Keys : VersionAt(log, last, k) > upTo})

RoundOf(round, changed, log, last) ==
  round = [i \in DOMAIN changed |->
             [type |-> "document", key |-> changed[i],
              version |-> VersionAt(log, last, changed[i])]]

\* The list of a round's documents.
DocumentsOf(round, log, upTo, last) ==
  /\ round \in Seq(Responses) /\ Len(round) \in Nat
  /\ \A i \in 1..Len(round) :
       /\ round[i].type = "document" /\ round[i].key \in Keys
       /\ round[i].version = VersionAt(log, last, round[i].key)
       /\ round[i].version > upTo /\ round[i].version <= last
  /\ \A k \in Keys : VersionAt(log, last, k) > upTo =>
       \E i \in 1..Len(round) : round[i].key = k

LEMMA DocumentsOfRound ==
  ASSUME NEW log \in Seq(Commits), NEW last \in 0..Len(log), NEW upTo \in Nat,
         NEW changed, ListsChanged(changed, log, upTo, last),
         NEW round, RoundOf(round, changed, log, last)
  PROVE  DocumentsOf(round, log, upTo, last)
<1>1. /\ changed \in Seq(Keys)
      /\ \A i \in 1..Len(changed) :
           changed[i] \in Keys /\ VersionAt(log, last, changed[i]) > upTo
      /\ \A k \in Keys : VersionAt(log, last, k) > upTo =>
           \E i \in 1..Len(changed) : changed[i] = k
  <2>1. PICK S : S = {k \in Keys : VersionAt(log, last, k) > upTo}
    OBVIOUS
  <2>2. /\ SetToSeq(S) \in Seq(Keys)
        /\ \A i \in 1..Len(SetToSeq(S)) : SetToSeq(S)[i] \in S
        /\ \A k \in S : \E i \in 1..Len(SetToSeq(S)) : SetToSeq(S)[i] = k
    BY <2>1, ListOfChanged, ZenonT(60)
  <2>3. changed = SetToSeq(S)
    BY <2>1 DEF ListsChanged
  <2> QED
    BY <2>1, <2>2, <2>3
<1>2. PICK n \in Nat : n = Len(changed) /\ DOMAIN changed = 1..n
  BY <1>1, LenProperties
<1>3. ASSUME NEW i \in 1..n
      PROVE  /\ round[i] \in Responses
             /\ round[i].type = "document" /\ round[i].key = changed[i]
             /\ round[i].version = VersionAt(log, last, changed[i])
             /\ round[i].version <= last
  <2>1. round[i] = [type |-> "document", key |-> changed[i],
                    version |-> VersionAt(log, last, changed[i])]
    BY <1>2 DEF RoundOf
  <2>2. changed[i] \in Keys /\ VersionAt(log, last, changed[i]) \in 0..last
    BY <1>1, <1>2, VersionAtProperties
  <2>3. last \in Nat
    BY LenProperties
  <2>4. PICK x \in Nat : x = VersionAt(log, last, changed[i]) /\ x <= last
    BY <2>2, <2>3
  <2>5. round[i] = [type |-> "document", key |-> changed[i], version |-> x]
    BY <2>1, <2>4
  <2> HIDE DEF VersionAt
  <2> QED
    BY <2>2, <2>4, <2>5 DEF Responses, Documents
<1>4. round \in [1..n -> Responses]
  <2>1. PICK f : f = [i \in 1..n |-> round[i]]
    OBVIOUS
  <2>2. f \in [1..n -> Responses]
    BY <1>3, <2>1
  <2>3. round = f
    BY <1>2, <2>1 DEF RoundOf
  <2> QED
    BY <2>2, <2>3
<1>5. round \in Seq(Responses) /\ Len(round) = n
  BY <1>4, FunctionIsSeq
<1>6. ASSUME NEW k \in Keys, VersionAt(log, last, k) > upTo
      PROVE  \E i \in 1..Len(round) : round[i].key = k
  <2>1. PICK i \in 1..n : changed[i] = k
    BY <1>1, <1>2, <1>6
  <2> QED
    BY <1>3, <1>5, <2>1
<1>7. \A i \in 1..Len(round) :
        /\ round[i].type = "document" /\ round[i].key \in Keys
        /\ round[i].version = VersionAt(log, last, round[i].key)
        /\ round[i].version > upTo /\ round[i].version <= last
  BY <1>1, <1>2, <1>3, <1>5
<1> QED
  BY <1>5, <1>6, <1>7, <1>2 DEF DocumentsOf

\* A sequence with more behind it.
Joined(s, more, t) ==
  /\ t \in Seq(Responses) /\ Len(t) = Len(s) + Len(more)
  /\ \A i \in 1..Len(s) : t[i] = s[i]
  /\ \A i \in 1..Len(more) : t[Len(s) + i] = more[i]

LEMMA Join ==
  ASSUME NEW s \in Seq(Responses), NEW more \in Seq(Responses)
  PROVE  Joined(s, more, s \o more)
BY MoreAnswers DEF Joined

LEMMA OneMessage ==
  ASSUME NEW type \in {"added", "removed", "current", "reset", "snapshot"},
         NEW version \in Nat
  PROVE  /\ <<Message(type, version)>> \in Seq(Responses)
         /\ Len(<<Message(type, version)>>) = 1
         /\ <<Message(type, version)>>[1] = Message(type, version)
         /\ Message(type, version).type = type
         /\ Message(type, version).version = version
<1>1. Message(type, version) \in Responses
  BY DEF Message, Responses, Messages
<1>2. Message(type, version).type = type /\ Message(type, version).version = version
  BY DEF Message
<1> QED
  BY <1>1, <1>2

\* Positions of a round: its documents, "current" perhaps, and its version.
LEMMA RoundPositions ==
  ASSUME NEW n \in Nat, NEW m \in {0, 1}
  PROVE  /\ \A i \in 1..(n + m + 1) :
              \/ i \in 1..n
              \/ m = 1 /\ i = n + 1 /\ i + 1 = n + m + 1 /\ i + 1 \in 1..(n + m + 1)
              \/ i = n + m + 1
         /\ \A i \in 1..n : i \in 1..(n + m) /\ i \in 1..(n + m + 1) /\ i < n + m + 1
         /\ m = 1 => n + 1 \in 1..(n + m) /\ 1 \in 1..m
         /\ n + m + 1 \in Nat /\ n + m + 1 >= 1
OBVIOUS

\* What the server sends of a round is one.
Closes(close, last) == close = <<>> \/ close = <<Message("current", last)>>

LEMMA ClosedRound ==
  ASSUME NEW log \in Seq(Commits), NEW last \in 0..Len(log), NEW upTo \in Nat,
         NEW round, DocumentsOf(round, log, upTo, last), NEW close, Closes(close, last)
  PROVE  Round(round \o close \o <<Message("snapshot", last)>>, log, upTo, last)
<1>1. PICK n \in Nat : n = Len(round) /\ round \in Seq(Responses)
  BY DEF DocumentsOf
<1>2. last \in Nat
  BY LenProperties
<1>3. PICK m \in {0, 1} :
        /\ close \in Seq(Responses) /\ Len(close) = m
        /\ m = 1 => close[1].type = "current" /\ close[1].version = last
  <2>1. CASE close = <<>>
    BY <2>1
  <2>2. CASE close = <<Message("current", last)>>
    <3>1. /\ close \in Seq(Responses) /\ Len(close) = 1
          /\ close[1].type = "current" /\ close[1].version = last
      BY <1>2, <2>2, OneMessage
    <3> QED
      BY <3>1
  <2> QED
    BY <2>1, <2>2 DEF Closes
<1>4. PICK end : end = <<Message("snapshot", last)>>
  OBVIOUS
<1>4a. /\ end \in Seq(Responses) /\ Len(end) = 1
       /\ end[1].type = "snapshot" /\ end[1].version = last
  BY <1>2, <1>4, OneMessage
<1>5. PICK front : front = round \o close /\ Joined(round, close, front)
  BY <1>1, <1>3, Join
<1>6. /\ front \in Seq(Responses) /\ Len(front) = n + m
      /\ \A i \in 1..n : front[i] = round[i]
      /\ \A i \in 1..m : front[n + i] = close[i]
  BY <1>1, <1>3, <1>5 DEF Joined
<1>7. PICK more : more = front \o end /\ Joined(front, end, more)
  BY <1>4, <1>4a, <1>6, Join
<1>8. 1 \in 1..Len(end)
  BY <1>4, <1>4a
<1>9. /\ more \in Seq(Responses) /\ Len(more) = n + m + 1
      /\ \A i \in 1..(n + m) : more[i] = front[i]
      /\ more[n + m + 1] = end[1]
  BY <1>4, <1>4a, <1>6, <1>7, <1>8 DEF Joined
<1>10. ASSUME NEW i \in 1..n
       PROVE  more[i] = round[i] /\ i < n + m + 1 /\ i \in 1..Len(more)
  BY <1>6, <1>9, RoundPositions
<1>11. m = 1 => more[n + 1].type = "current" /\ more[n + 1].version = last
  <2> SUFFICES ASSUME m = 1
               PROVE  more[n + 1].type = "current" /\ more[n + 1].version = last
    OBVIOUS
  <2>1. n + 1 \in 1..(n + m) /\ 1 \in 1..m
    BY RoundPositions
  <2> QED
    BY <1>3, <1>6, <1>9, <2>1
<1>12. more[n + m + 1].type = "snapshot" /\ more[n + m + 1].version = last
  BY <1>4, <1>4a, <1>9
<1>13. ASSUME NEW i \in 1..Len(more)
       PROVE
       /\ more[i].version <= last
       /\ more[i].type \in {"document", "current", "snapshot"}
       /\ more[i].type = "document" =>
            /\ more[i].key \in Keys
            /\ more[i].version = VersionAt(log, last, more[i].key)
            /\ more[i].version > upTo
       /\ more[i].type = "snapshot" => more[i].version = last /\ i = Len(more)
       /\ more[i].type = "current" =>
            /\ i + 1 \in 1..Len(more)
            /\ more[i + 1].type = "snapshot"
            /\ more[i + 1].version = more[i].version
  <2>1. CASE i \in 1..n
    <3>1. more[i] = round[i] /\ i \in 1..Len(round)
      BY <1>1, <1>10, <2>1
    <3>2. /\ round[i].type = "document" /\ round[i].key \in Keys
          /\ round[i].version = VersionAt(log, last, round[i].key)
          /\ round[i].version > upTo /\ round[i].version <= last
      BY <3>1 DEF DocumentsOf
    <3> QED
      BY <3>1, <3>2
  <2>2. CASE m = 1 /\ i = n + 1 /\ i + 1 = n + m + 1 /\ i + 1 \in 1..(n + m + 1)
    <3>1. more[i].type = "current" /\ more[i].version = last
      BY <1>11, <2>2
    <3>2. more[i + 1].type = "snapshot" /\ more[i + 1].version = last
      BY <1>12, <2>2
    <3> QED
      BY <1>2, <1>9, <2>2, <3>1, <3>2
  <2>3. CASE i = n + m + 1
    <3>1. more[i].type = "snapshot" /\ more[i].version = last /\ i = Len(more)
      BY <1>9, <1>12, <2>3
    <3> QED
      BY <1>2, <3>1
  <2> QED
    BY <1>9, <2>1, <2>2, <2>3, RoundPositions
<1>14. ASSUME NEW k \in Keys, VersionAt(log, last, k) > upTo
       PROVE  \E i \in 1..Len(more) :
                i < Len(more) /\ more[i].type = "document" /\ more[i].key = k
  <2>1. PICK i \in 1..n : round[i].key = k /\ round[i].type = "document"
    BY <1>1, <1>14 DEF DocumentsOf
  <2>2. i \in 1..Len(more) /\ i < Len(more) /\ more[i] = round[i]
    BY <1>9, <1>10
  <2> QED
    BY <2>1, <2>2
<1>15. Len(more) \in Nat /\ Len(more) >= 1 /\ more[Len(more)].type = "snapshot"
  BY <1>9, <1>12, RoundPositions
<1>16. Round(more, log, upTo, last)
  BY <1>9, <1>13, <1>14, <1>15 DEF Round
<1> QED
  BY <1>4, <1>4a, <1>5, <1>7, <1>16

-----------------------------------------------------------------------------
(* The handlers of the aggregator *)

\* A handler changes the aggregator of the client only.
Gathers(c, d, agg) ==
  /\ d \in Client /\ agg \in Aggregator
  /\ d.agg = agg
  /\ d.listening = c.listening /\ d.token = c.token /\ d.stream = c.stream
  /\ d.view = c.view /\ d.shown = c.shown

LEMMA AggregatorReplaced ==
  ASSUME NEW c \in Client, NEW agg \in Aggregator
  PROVE  Gathers(c, [c EXCEPT !.agg = agg], agg)
<1>1. PICK d : d = [c EXCEPT !.agg = agg]
  OBVIOUS
<1>2. /\ d \in Client /\ d.agg = agg
      /\ d.listening = c.listening /\ d.token = c.token /\ d.stream = c.stream
      /\ d.view = c.view /\ d.shown = c.shown
  BY <1>1 DEF Client
<1> QED
  BY <1>1, <1>2 DEF Gathers

LEMMA ClientFields ==
  ASSUME NEW c \in Client
  PROVE  /\ c.listening \in BOOLEAN /\ c.token \in Nat /\ c.view \in View
         /\ c.stream \in {"off", "starting", "open"}
         /\ c.shown \in [Keys -> Nat] /\ c.online \in OnlineStates
         /\ c.agg \in Aggregator /\ c.agg.target \in Target
         /\ c.agg.updates \in [Keys -> Nat]
         /\ c.agg.target.outstanding \in Int /\ c.agg.target.token \in Nat
         /\ c.agg.target.pending \in BOOLEAN /\ c.agg.target.current \in BOOLEAN
         /\ c.agg.target.changes \in [Keys -> {"none", "Added", "Modified", "Removed"}]
BY DEF Client, Aggregator, Target, OnlineStates

\* A target that takes the place of another.
LEMMA TargetReplaced ==
  ASSUME NEW c \in Client, NEW t \in Target
  PROVE  \E agg : /\ Gathers(c, [c EXCEPT !.agg.target = t], agg)
                  /\ agg.target = t /\ agg.updates = c.agg.updates
<1>1. PICK agg : agg = [c.agg EXCEPT !.target = t]
  OBVIOUS
<1>2. c.agg \in Aggregator
  BY ClientFields
<1>3. agg \in Aggregator /\ agg.target = t /\ agg.updates = c.agg.updates
  BY <1>1, <1>2 DEF Aggregator
<1>4. [c EXCEPT !.agg.target = t] = [c EXCEPT !.agg = agg]
  BY <1>1 DEF Client
<1> QED
  BY <1>3, <1>4, AggregatorReplaced

LEMMA NoTargetStateType ==
  /\ NoTargetState \in Target
  /\ NoTargetState.outstanding = 0 /\ NoTargetState.token = 0
  /\ NoTargetState.pending /\ ~NoTargetState.current
  /\ \A k \in Keys : NoTargetState.changes[k] = "none"
  /\ NoTargetState.changes \in [Keys -> {"none", "Added", "Modified", "Removed"}]
BY DEF NoTargetState, Target

\* One answer less is outstanding.
LEMMA ResponseRecorded ==
  ASSUME NEW c \in Client, NEW t, t = [c.agg.target EXCEPT !.outstanding = @ - 1]
  PROVE  /\ RecordTargetResponse(c) = [c EXCEPT !.agg.target = t]
         /\ t \in Target /\ t.outstanding = c.agg.target.outstanding - 1
         /\ t.changes = c.agg.target.changes /\ t.token = c.agg.target.token
         /\ t.pending = c.agg.target.pending /\ t.current = c.agg.target.current
<1>1. c.agg.target \in Target
  BY ClientFields
<1>2. /\ t \in Target /\ t.outstanding = c.agg.target.outstanding - 1
      /\ t.changes = c.agg.target.changes /\ t.token = c.agg.target.token
      /\ t.pending = c.agg.target.pending /\ t.current = c.agg.target.current
  BY <1>1 DEF Target
<1>3. RecordTargetResponse(c) = [c EXCEPT !.agg.target = t]
  BY DEF RecordTargetResponse, Client, Aggregator
<1> QED
  BY <1>2, <1>3

LEMMA ClearedTarget ==
  ASSUME NEW t \in Target
  PROVE  /\ ClearPendingChanges(t) \in Target
         /\ ClearPendingChanges(t).outstanding = t.outstanding
         /\ ClearPendingChanges(t).token = t.token
         /\ ClearPendingChanges(t).current = t.current
         /\ ~ClearPendingChanges(t).pending
         /\ \A k \in Keys : ClearPendingChanges(t).changes[k] = "none"
<1>1. PICK none : none = NoTargetState.changes
  OBVIOUS
<1>2. /\ none \in [Keys -> {"none", "Added", "Modified", "Removed"}]
      /\ \A k \in Keys : none[k] = "none"
  BY <1>1, NoTargetStateType
<1>3. PICK u : u = [t EXCEPT !.pending = FALSE, !.changes = none]
  OBVIOUS
<1>4. /\ u \in Target /\ u.outstanding = t.outstanding /\ u.token = t.token
      /\ u.current = t.current /\ ~u.pending /\ u.changes = none
  BY <1>2, <1>3 DEF Target
<1>5. u = ClearPendingChanges(t)
  BY <1>1, <1>3 DEF ClearPendingChanges
<1> QED
  BY <1>2, <1>4, <1>5

LEMMA TargetAddedAnswers ==
  ASSUME NEW c \in Client
  PROVE  \E agg : Gathers(c, TargetAdded(c), agg) /\ Answered(c.agg, agg)
<1>1. PICK t : t = [c.agg.target EXCEPT !.outstanding = @ - 1]
  OBVIOUS
<1>2. /\ RecordTargetResponse(c) = [c EXCEPT !.agg.target = t]
      /\ t \in Target /\ t.outstanding = c.agg.target.outstanding - 1
      /\ t.changes = c.agg.target.changes /\ t.token = c.agg.target.token
      /\ t.pending = c.agg.target.pending
  BY <1>1, ResponseRecorded
<1>3. PICK b : b = [c EXCEPT !.agg.target = t]
  OBVIOUS
<1>4. PICK g : Gathers(c, b, g) /\ g.target = t /\ g.updates = c.agg.updates
  BY <1>2, <1>3, TargetReplaced
<1>5. b.agg.target = t /\ b \in Client /\ b.agg.updates = c.agg.updates
  BY <1>4 DEF Gathers
<1>6. CASE t.outstanding # 0
  <2>1. TargetAdded(c) = b
    BY <1>2, <1>3, <1>5, <1>6 DEF TargetAdded
  <2>2. Answered(c.agg, g)
    BY <1>2, <1>4, <1>6 DEF Answered
  <2> QED
    BY <1>4, <2>1, <2>2
<1>7. CASE t.outstanding = 0
  <2>1. PICK u : u = ClearPendingChanges(t)
    OBVIOUS
  <2>2. /\ u \in Target /\ u.outstanding = t.outstanding /\ u.token = t.token
        /\ \A k \in Keys : u.changes[k] = "none"
    BY <1>2, <2>1, ClearedTarget
  <2>3. TargetAdded(c) = [b EXCEPT !.agg.target = u]
    BY <1>2, <1>3, <1>5, <1>7, <2>1 DEF TargetAdded
  <2>4. PICK g2 : /\ Gathers(b, [b EXCEPT !.agg.target = u], g2)
                  /\ g2.target = u /\ g2.updates = b.agg.updates
    BY <1>5, <2>2, TargetReplaced
  <2>5. Gathers(c, TargetAdded(c), g2)
    BY <1>4, <2>3, <2>4 DEF Gathers
  <2>6. Answered(c.agg, g2)
    BY <1>2, <1>5, <1>7, <2>2, <2>4 DEF Answered
  <2> QED
    BY <2>5, <2>6
<1> QED
  BY <1>6, <1>7

LEMMA TargetRemovedAnswers ==
  ASSUME NEW c \in Client
  PROVE  \E agg : Gathers(c, TargetRemoved(c), agg) /\ Answered(c.agg, agg)
<1>1. PICK t : t = [c.agg.target EXCEPT !.outstanding = @ - 1]
  OBVIOUS
<1>2. /\ RecordTargetResponse(c) = [c EXCEPT !.agg.target = t]
      /\ t \in Target /\ t.outstanding = c.agg.target.outstanding - 1
      /\ t.changes = c.agg.target.changes /\ t.token = c.agg.target.token
      /\ t.pending = c.agg.target.pending
  BY <1>1, ResponseRecorded
<1>3. PICK b : b = [c EXCEPT !.agg.target = t]
  OBVIOUS
<1>4. PICK g : Gathers(c, b, g) /\ g.target = t /\ g.updates = c.agg.updates
  BY <1>2, <1>3, TargetReplaced
<1>5. b.agg.target = t /\ b \in Client /\ b.agg.updates = c.agg.updates
  BY <1>4 DEF Gathers
<1>6. CASE t.outstanding # 0
  <2>1. TargetRemoved(c) = b
    BY <1>2, <1>3, <1>5, <1>6 DEF TargetRemoved
  <2>2. Answered(c.agg, g)
    BY <1>2, <1>4, <1>6 DEF Answered
  <2> QED
    BY <1>4, <2>1, <2>2
<1>7. CASE t.outstanding = 0
  <2>1. PICK u : u = NoTargetState
    OBVIOUS
  <2>2. /\ u \in Target /\ u.outstanding = 0 /\ u.token = 0
        /\ \A k \in Keys : u.changes[k] = "none"
    BY <2>1, NoTargetStateType
  <2>3. TargetRemoved(c) = [b EXCEPT !.agg.target = u]
    BY <1>2, <1>3, <1>5, <1>7, <2>1 DEF TargetRemoved
  <2>4. PICK g2 : /\ Gathers(b, [b EXCEPT !.agg.target = u], g2)
                  /\ g2.target = u /\ g2.updates = b.agg.updates
    BY <1>5, <2>2, TargetReplaced
  <2>5. Gathers(c, TargetRemoved(c), g2)
    BY <1>4, <2>3, <2>4 DEF Gathers
  <2>6. Answered(c.agg, g2)
    BY <1>2, <1>5, <1>7, <2>2, <2>4 DEF Answered
  <2> QED
    BY <2>5, <2>6
<1> QED
  BY <1>6, <1>7

LEMMA ResumeTokenUpdated ==
  ASSUME NEW t \in Target, NEW v \in Nat
  PROVE  /\ UpdateResumeToken(t, v) \in Target
         /\ UpdateResumeToken(t, v).outstanding = t.outstanding
         /\ UpdateResumeToken(t, v).changes = t.changes
         /\ UpdateResumeToken(t, v).current = t.current
         /\ UpdateResumeToken(t, v).token = IF v = 0 THEN t.token ELSE v
         /\ t.pending => UpdateResumeToken(t, v).pending
<1>1. CASE v = 0
  BY <1>1 DEF UpdateResumeToken, Target
<1>2. CASE v # 0
  <2>1. PICK u : u = [t EXCEPT !.pending = TRUE, !.token = v]
    OBVIOUS
  <2>2. /\ u \in Target /\ u.outstanding = t.outstanding /\ u.changes = t.changes
        /\ u.current = t.current /\ u.token = v /\ u.pending
    BY <2>1 DEF Target
  <2>3. UpdateResumeToken(t, v) = u
    BY <1>2, <2>1 DEF UpdateResumeToken
  <2> QED
    BY <1>2, <2>2, <2>3
<1> QED
  BY <1>1, <1>2

LEMMA TargetNoChangeTold ==
  ASSUME NEW c \in Client, NEW v \in Nat
  PROVE  \E agg : /\ Gathers(c, TargetNoChange(c, v), agg) /\ Told(c.agg, agg, v)
                  /\ agg.target.current = c.agg.target.current
                  /\ IF IsActive(c) THEN c.agg.target.pending => agg.target.pending
                     ELSE agg = c.agg
<1>1. CASE ~IsActive(c)
  <2>1. TargetNoChange(c, v) = c
    BY <1>1 DEF TargetNoChange
  <2>2. Gathers(c, c, c.agg)
    BY ClientFields DEF Gathers
  <2>3. Told(c.agg, c.agg, v)
    BY ClientFields DEF Told
  <2> QED
    BY <1>1, <2>1, <2>2, <2>3
<1>2. CASE IsActive(c)
  <2>1. PICK u : u = UpdateResumeToken(c.agg.target, v)
    OBVIOUS
  <2>2. /\ u \in Target /\ u.outstanding = c.agg.target.outstanding
        /\ u.changes = c.agg.target.changes /\ u.current = c.agg.target.current
        /\ u.token = (IF v = 0 THEN c.agg.target.token ELSE v)
        /\ c.agg.target.pending => u.pending
    BY <2>1, ClientFields, ResumeTokenUpdated, ZenonT(60)
  <2>3. TargetNoChange(c, v) = [c EXCEPT !.agg.target = u]
    BY <1>2, <2>1 DEF TargetNoChange
  <2>4. PICK g : /\ Gathers(c, [c EXCEPT !.agg.target = u], g)
                 /\ g.target = u /\ g.updates = c.agg.updates
    BY <2>2, TargetReplaced
  <2>5. Told(c.agg, g, v)
    BY <2>2, <2>4, ClientFields DEF Told, Target
  <2> QED
    BY <1>2, <2>2, <2>3, <2>4, <2>5
<1> QED
  BY <1>1, <1>2

LEMMA TargetCurrentTold ==
  ASSUME NEW c \in Client, NEW v \in Nat
  PROVE  \E agg : Gathers(c, TargetCurrent(c, v), agg) /\ Told(c.agg, agg, v)
<1>1. CASE ~IsActive(c)
  <2>1. TargetCurrent(c, v) = c
    BY <1>1 DEF TargetCurrent
  <2>2. Gathers(c, c, c.agg)
    BY ClientFields DEF Gathers
  <2>3. Told(c.agg, c.agg, v)
    BY ClientFields DEF Told
  <2> QED
    BY <2>1, <2>2, <2>3
<1>2. CASE IsActive(c)
  <2>1. PICK t : t = [c.agg.target EXCEPT !.current = TRUE, !.pending = TRUE]
    OBVIOUS
  <2>2. /\ t \in Target /\ t.outstanding = c.agg.target.outstanding
        /\ t.changes = c.agg.target.changes /\ t.token = c.agg.target.token /\ t.pending
    BY <2>1, ClientFields DEF Target
  <2>3. PICK u : u = UpdateResumeToken(t, v)
    OBVIOUS
  <2>4. /\ u \in Target /\ u.outstanding = c.agg.target.outstanding
        /\ u.changes = c.agg.target.changes
        /\ u.token = (IF v = 0 THEN c.agg.target.token ELSE v)
        /\ u.pending
    BY <2>2, <2>3, ResumeTokenUpdated
  <2>5. TargetCurrent(c, v) = [c EXCEPT !.agg.target = u]
    BY <1>2, <2>1, <2>3 DEF TargetCurrent
  <2>6. PICK g : /\ Gathers(c, [c EXCEPT !.agg.target = u], g)
                 /\ g.target = u /\ g.updates = c.agg.updates
    BY <2>4, TargetReplaced
  <2>7. Told(c.agg, g, v)
    BY <2>4, <2>6, ClientFields DEF Told, Target
  <2> QED
    BY <2>5, <2>6, <2>7
<1> QED
  BY <1>1, <1>2

\* The target is changed once more.
LEMMA TargetReplacedAgain ==
  ASSUME NEW c \in Client, NEW d, NEW g, Gathers(c, d, g), g.updates = c.agg.updates,
         NEW t \in Target
  PROVE  \E agg : /\ Gathers(c, [d EXCEPT !.agg.target = t], agg)
                  /\ agg.target = t /\ agg.updates = c.agg.updates
<1>1. d \in Client /\ d.agg.updates = c.agg.updates
  BY DEF Gathers
<1>2. PICK agg : /\ Gathers(d, [d EXCEPT !.agg.target = t], agg)
                 /\ agg.target = t /\ agg.updates = c.agg.updates
  BY <1>1, TargetReplaced
<1>3. Gathers(c, [d EXCEPT !.agg.target = t], agg)
  BY <1>2 DEF Gathers
<1> QED
  BY <1>2, <1>3

LEMMA ResetTargetGathers ==
  ASSUME NEW c \in Client, IsActive(c)
  PROVE  \E agg : /\ Gathers(c, ResetTarget(c), agg)
                  /\ ResetGathered(c, c.agg, agg) /\ agg.updates = c.agg.updates
                  /\ ~agg.target.current
<1>1. PICK changes : changes = [k \in Keys |-> IF k \in c.view.synced THEN "Removed"
                                               ELSE "none"]
  OBVIOUS
<1>2. /\ changes \in [Keys -> {"none", "Added", "Modified", "Removed"}]
      /\ \A k \in Keys : changes[k] \in {"Removed", "none"}
  BY <1>1
<1>3. PICK t1 : t1 = [c.agg.target EXCEPT !.changes = changes]
  OBVIOUS
<1>4. /\ t1 \in Target /\ t1.outstanding = c.agg.target.outstanding
      /\ t1.changes = changes
  BY <1>2, <1>3, ClientFields DEF Target
<1>5. PICK c1 : c1 = [c EXCEPT !.agg.target.changes = changes]
  OBVIOUS
<1>6. PICK g1 : Gathers(c, c1, g1) /\ g1.target = t1 /\ g1.updates = c.agg.updates
  <2>1. c1 = [c EXCEPT !.agg.target = t1]
    BY <1>3, <1>5
  <2> QED
    BY <1>4, <2>1, TargetReplaced
<1>7. PICK t : t = [[[t1 EXCEPT !.current = FALSE] EXCEPT !.token = 0]
                     EXCEPT !.pending = TRUE]
  OBVIOUS
<1>8. /\ t \in Target /\ t.outstanding = c.agg.target.outstanding
      /\ t.changes = changes /\ t.token = 0 /\ t.pending /\ ~t.current
  BY <1>4, <1>7 DEF Target
<1>9. PICK t2 : t2 = [t1 EXCEPT !.current = FALSE]
  OBVIOUS
<1>10. PICK t3 : t3 = [t2 EXCEPT !.token = 0]
  OBVIOUS
<1>11. t2 \in Target /\ t3 \in Target /\ t = [t3 EXCEPT !.pending = TRUE]
  BY <1>4, <1>7, <1>9, <1>10 DEF Target
<1>12. PICK c2 : c2 = [c1 EXCEPT !.agg.target.current = FALSE]
  OBVIOUS
<1>13. PICK g2 : Gathers(c, c2, g2) /\ g2.target = t2 /\ g2.updates = c.agg.updates
  <2>1. c1.agg.target = t1
    BY <1>6 DEF Gathers
  <2>2. c2 = [c1 EXCEPT !.agg.target = t2]
    BY <1>9, <1>12, <2>1
  <2> QED
    BY <1>6, <1>11, <2>2, TargetReplacedAgain
<1>14. PICK c3 : c3 = [c2 EXCEPT !.agg.target.token = 0]
  OBVIOUS
<1>15. PICK g3 : Gathers(c, c3, g3) /\ g3.target = t3 /\ g3.updates = c.agg.updates
  <2>1. c2.agg.target = t2
    BY <1>13 DEF Gathers
  <2>2. c3 = [c2 EXCEPT !.agg.target = t3]
    BY <1>10, <1>14, <2>1
  <2> QED
    BY <1>11, <1>13, <2>2, TargetReplacedAgain
<1>16. PICK c4 : c4 = [c3 EXCEPT !.agg.target.pending = TRUE]
  OBVIOUS
<1>17. PICK g : Gathers(c, c4, g) /\ g.target = t /\ g.updates = c.agg.updates
  <2>1. c3.agg.target = t3
    BY <1>15 DEF Gathers
  <2>2. c4 = [c3 EXCEPT !.agg.target = t]
    BY <1>11, <1>16, <2>1
  <2> QED
    BY <1>8, <1>15, <2>2, TargetReplacedAgain
<1>18. ResetTarget(c) = c4
  BY <1>1, <1>5, <1>12, <1>14, <1>16 DEF ResetTarget
<1>19. ResetGathered(c, c.agg, g)
  BY <1>2, <1>8, <1>17 DEF ResetGathered
<1> QED
  BY <1>8, <1>17, <1>18, <1>19

LEMMA DocumentAdded ==
  ASSUME NEW c \in Client, NEW k \in Keys, NEW v \in Nat
  PROVE  \E agg : /\ Gathers(c, AddDocumentToTarget(c, k, v), agg)
                  /\ DocumentGathered(ListenerOf(c), c.agg, agg, k, v)
<1>1. IsActive(ListenerOf(c)) <=> IsActive(c)
  BY DEF IsActive, ListenerOf
<1>2. CASE ~IsActive(c)
  <2>1. AddDocumentToTarget(c, k, v) = c
    BY <1>2 DEF AddDocumentToTarget
  <2>2. Gathers(c, c, c.agg)
    BY ClientFields DEF Gathers
  <2> QED
    BY <1>1, <1>2, <2>1, <2>2 DEF DocumentGathered
<1>3. CASE IsActive(c)
  <2>1. PICK change \in {"Added", "Modified"} :
          change = IF k \in c.view.synced THEN "Modified" ELSE "Added"
    OBVIOUS
  <2>2. PICK changes : changes = [c.agg.target.changes EXCEPT ![k] = change]
    OBVIOUS
  <2>3. /\ changes \in [Keys -> {"none", "Added", "Modified", "Removed"}]
        /\ changes[k] = change
        /\ \A j \in Keys \ {k} : changes[j] = c.agg.target.changes[j]
    BY <2>1, <2>2, ClientFields
  <2>4. PICK t1 : t1 = [c.agg.target EXCEPT !.pending = TRUE]
    OBVIOUS
  <2>5. /\ t1 \in Target /\ t1.outstanding = c.agg.target.outstanding
        /\ t1.changes = c.agg.target.changes /\ t1.token = c.agg.target.token /\ t1.pending
    BY <2>4, ClientFields DEF Target
  <2>6. PICK t : t = [t1 EXCEPT !.changes = changes]
    OBVIOUS
  <2>7. /\ t \in Target /\ t.outstanding = c.agg.target.outstanding
        /\ t.changes = changes /\ t.token = c.agg.target.token /\ t.pending
    BY <2>3, <2>5, <2>6 DEF Target
  <2>8. PICK c1 : c1 = [c EXCEPT !.agg.target.pending = TRUE]
    OBVIOUS
  <2>9. PICK g1 : Gathers(c, c1, g1) /\ g1.target = t1 /\ g1.updates = c.agg.updates
    <3>1. c1 = [c EXCEPT !.agg.target = t1]
      BY <2>4, <2>8
    <3> QED
      BY <2>5, <3>1, TargetReplaced
  <2>10. PICK c2 : c2 = [c1 EXCEPT !.agg.target.changes[k] = change]
    OBVIOUS
  <2>11. PICK g2 : Gathers(c, c2, g2) /\ g2.target = t /\ g2.updates = c.agg.updates
    <3>1. c1.agg.target = t1
      BY <2>9 DEF Gathers
    <3>2. c2 = [c1 EXCEPT !.agg.target.changes = changes]
      BY <2>2, <2>5, <2>10, <3>1
    <3>3. c2 = [c1 EXCEPT !.agg.target = t]
      BY <2>6, <3>1, <3>2
    <3> QED
      BY <2>7, <2>9, <3>3, TargetReplacedAgain
  <2>13. PICK updates : updates = [c.agg.updates EXCEPT ![k] = v]
    OBVIOUS
  <2>14. /\ updates \in [Keys -> Nat] /\ updates[k] = v
         /\ \A j \in Keys \ {k} : updates[j] = c.agg.updates[j]
    BY <2>13, ClientFields
  <2>15. c2 \in Client /\ c2.agg = g2 /\ g2 \in Aggregator
    BY <2>11 DEF Gathers
  <2>16. PICK agg : agg = [g2 EXCEPT !.updates = updates]
    OBVIOUS
  <2>17. agg \in Aggregator /\ agg.target = t /\ agg.updates = updates
    BY <2>11, <2>14, <2>15, <2>16 DEF Aggregator
  <2>18. AddDocumentToTarget(c, k, v) = [c2 EXCEPT !.agg.updates[k] = v]
    BY <1>3, <2>1, <2>8, <2>10 DEF AddDocumentToTarget
  <2>19. [c2 EXCEPT !.agg.updates[k] = v] = [c2 EXCEPT !.agg = agg]
    BY <2>11, <2>13, <2>15, <2>16
  <2>20. Gathers(c2, AddDocumentToTarget(c, k, v), agg)
    BY <2>15, <2>17, <2>18, <2>19, AggregatorReplaced
  <2>21. Gathers(c, AddDocumentToTarget(c, k, v), agg)
    BY <2>11, <2>20 DEF Gathers
  <2>12. DocumentGathered(ListenerOf(c), c.agg, agg, k, v)
    BY <1>1, <1>3, <2>1, <2>3, <2>7, <2>14, <2>17 DEF DocumentGathered, ListenerOf
  <2> QED
    BY <2>12, <2>21
<1> QED
  BY <1>2, <1>3

\* What is left of the aggregator when an event is made of it.
LEMMA EventTakenGathers ==
  ASSUME NEW c \in Client
  PROVE  \E agg : /\ Gathers(c, EventTaken(c), agg)
                  /\ agg.target.outstanding = c.agg.target.outstanding
                  /\ agg.target.token = c.agg.target.token
                  /\ agg.target.current = c.agg.target.current
                  /\ \A k \in Keys : agg.updates[k] = 0
                  /\ IF IsActive(c)
                     THEN \A k \in Keys : agg.target.changes[k] = "none"
                     ELSE agg.target = c.agg.target
<1>1. PICK t : t = IF IsActive(c) THEN ClearPendingChanges(c.agg.target)
                   ELSE c.agg.target
  OBVIOUS
<1>2. /\ t \in Target /\ t.outstanding = c.agg.target.outstanding
      /\ t.token = c.agg.target.token /\ t.current = c.agg.target.current
      /\ IF IsActive(c) THEN \A k \in Keys : t.changes[k] = "none"
         ELSE t = c.agg.target
  <2>1. CASE IsActive(c)
    <3>1. t = ClearPendingChanges(c.agg.target)
      BY <1>1, <2>1
    <3> QED
      BY <2>1, <3>1, ClientFields, ClearedTarget
  <2>2. CASE ~IsActive(c)
    BY <1>1, <2>2, ClientFields
  <2> QED
    BY <2>1, <2>2
<1>3. PICK updates : updates = NewAggregator.updates
  OBVIOUS
<1>4. updates \in [Keys -> Nat] /\ \A k \in Keys : updates[k] = 0
  BY <1>3 DEF NewAggregator
<1>5. PICK agg : agg = [c.agg EXCEPT !.target = t, !.updates = updates]
  OBVIOUS
<1>6. agg \in Aggregator /\ agg.target = t /\ agg.updates = updates
  BY <1>2, <1>4, <1>5, ClientFields DEF Aggregator
<1>7. EventTaken(c) = [c EXCEPT !.agg = agg]
  BY <1>1, <1>3, <1>5, ClientFields DEF EventTaken, Client, Aggregator
<1>8. Gathers(c, EventTaken(c), agg)
  BY <1>6, <1>7, AggregatorReplaced
<1> QED
  BY <1>2, <1>4, <1>6, <1>8

LEMMA RequestRecorded ==
  ASSUME NEW c \in Client
  PROVE  \E agg : /\ Gathers(c, RecordPendingTargetRequest(c), agg)
                  /\ agg.target.outstanding = c.agg.target.outstanding + 1
                  /\ agg.target.changes = c.agg.target.changes
                  /\ agg.target.pending = c.agg.target.pending
                  /\ agg.target.token = c.agg.target.token
                  /\ agg.target.current = c.agg.target.current
                  /\ agg.updates = c.agg.updates
<1>1. PICK t : t = [c.agg.target EXCEPT !.outstanding = @ + 1]
  OBVIOUS
<1>2. /\ t \in Target /\ t.outstanding = c.agg.target.outstanding + 1
      /\ t.changes = c.agg.target.changes /\ t.pending = c.agg.target.pending
      /\ t.token = c.agg.target.token /\ t.current = c.agg.target.current
  BY <1>1, ClientFields DEF Target
<1>3. RecordPendingTargetRequest(c) = [c EXCEPT !.agg.target = t]
  BY <1>1 DEF RecordPendingTargetRequest, Client, Aggregator
<1>4. PICK g : /\ Gathers(c, [c EXCEPT !.agg.target = t], g)
               /\ g.target = t /\ g.updates = c.agg.updates
  BY <1>2, TargetReplaced
<1> QED
  BY <1>2, <1>3, <1>4

-----------------------------------------------------------------------------
(* The invariant of the specification *)

\* What is on disk, gathered or on its way of a document is a commit of it.
Made(log, k, v) == v \in 1..Len(log) /\ log[v].key = k

CacheMade(d, log) ==
  \A k \in Keys : d.cache[k].version # 0 => Made(log, k, d.cache[k].version)
UpdatesMade(h, log) ==
  \A k \in Keys : h.agg.updates[k] # 0 => Made(log, k, h.agg.updates[k])
SentMade(w, log) ==
  \A q \in 1..Len(w.responses) : w.responses[q].type = "document" =>
    Made(log, w.responses[q].key, w.responses[q].version)

MadeOK(h, d, w, log) == CacheMade(d, log) /\ UpdatesMade(h, log) /\ SentMade(w, log)

WatchInv ==
  /\ TypeOK
  /\ StreamInv(ListenerOf(client), disk, wire, commits)
  /\ MadeOK(ListenerOf(client), disk, wire, commits)

\* The newest of the device's writes that are not acknowledged.
GreatestOf(S) == CHOOSE i \in S : \A j \in S : j <= i

OwnWrites(stored, done, k) == {i \in (done + 1)..Len(stored) : stored[i] = k}

LEMMA LastOwn ==
  ASSUME NEW stored \in Seq(Keys), NEW done \in Nat, NEW k,
         OwnWrites(stored, done, k) # {}
  PROVE  /\ GreatestOf(OwnWrites(stored, done, k)) \in OwnWrites(stored, done, k)
         /\ \A j \in OwnWrites(stored, done, k) :
              j <= GreatestOf(OwnWrites(stored, done, k))
         /\ OwnWrites(stored, done, k) \subseteq 1..Len(stored)
<1>1. Len(stored) \in Nat
  BY LenProperties
<1>0. PICK own : own = OwnWrites(stored, done, k)
  OBVIOUS
<1>2. own \in SUBSET (1..Len(stored))
  BY <1>0, <1>1 DEF OwnWrites
<1>3. \E i \in own : \A j \in own : j <= i
  <2>1. PICK T \in SUBSET (1..Len(stored)) : T = own
    BY <1>2
  <2> QED
    BY <1>0, <1>1, <2>1, GreatestNumber
<1>4. GreatestOf(own) \in own /\ \A j \in own : j <= GreatestOf(own)
  BY <1>3 DEF GreatestOf
<1> QED
  BY <1>0, <1>2, <1>4

LEMMA ContentType ==
  ASSUME ConstantsAssumption, NEW log \in Seq(Commits), NEW v \in 1..Len(log)
  PROVE  Content(log, v) \in Nat
<1>1. log[v] \in Commits /\ v \in Nat
  BY ElementOfSeq, LenProperties
<1> QED
  BY <1>1 DEF Content, Commits, ConstantsAssumption

LEMMA LocalDocType ==
  ASSUME ConstantsAssumption, commits \in Seq(Commits),
         NEW cache \in [Keys -> Cached], NEW stored \in Seq(Keys), NEW done \in Nat,
         NEW k \in Keys,
         cache[k].version # 0 => Made(commits, k, cache[k].version)
  PROVE  LocalDoc(cache, stored, done, k) \in Doc
<1>1. PICK own : own = OwnWrites(stored, done, k)
  OBVIOUS
<1>2. CASE own # {}
  <2>1. PICK i : i = GreatestOf(own)
    OBVIOUS
  <2>2. i \in own /\ own \subseteq 1..Len(stored)
    BY <1>1, <1>2, <2>1, LastOwn
  <2>3. i \in Nat
    BY <2>2
  <2>4. LocalDoc(cache, stored, done, k) = [content |-> i, state |-> "local"]
    BY <1>1, <1>2, <2>1 DEF LocalDoc, OwnWrites, GreatestOf
  <2> QED
    BY <2>3, <2>4 DEF Doc
<1>3. CASE own = {} /\ cache[k].version = 0
  <2>1. LocalDoc(cache, stored, done, k) = NoDoc
    BY <1>1, <1>3 DEF LocalDoc, OwnWrites
  <2> QED
    BY <2>1 DEF NoDoc, Doc
<1>4. CASE own = {} /\ cache[k].version # 0
  <2>1. PICK content \in Nat : content = Content(commits, cache[k].version)
    BY <1>4, ContentType DEF Made
  <2>2. PICK state \in {"none", "local", "committed", "synced"} :
          state = IF cache[k].byAck THEN "committed" ELSE "synced"
    OBVIOUS
  <2>3. LocalDoc(cache, stored, done, k) = [content |-> content, state |-> state]
    BY <1>1, <1>4, <2>1, <2>2 DEF LocalDoc, OwnWrites
  <2> QED
    BY <2>3 DEF Doc
<1> QED
  BY <1>2, <1>3, <1>4

\* A message of the server is taken, and brings the client online.
TakenOff(w, w2) ==
  /\ w.responses # <<>>
  /\ w2 \in Wire
  /\ w2.responses = Tail(w.responses)
  /\ w2.requests = w.requests
  /\ w2.upTo = w.upTo

LEMMA ResponseTaken ==
  ASSUME TypeOK, NEW type, OnWatchStreamChange(type)
  PROVE  /\ TakenOff(wire, wire')
         /\ client.stream = "open"
         /\ wire.responses[1] = Head(wire.responses)
         /\ wire.responses[1].type = type
         /\ wire.responses[1] \in Responses
         /\ Version = wire.responses[1].version /\ Version \in Nat
         /\ 1 \in 1..Len(wire.responses)
<1>1. wire \in Wire /\ wire.responses # <<>>
  BY DEF TypeOK, OnWatchStreamChange
<1>2. wire.responses \in Seq(Responses)
  BY <1>1, WireType
<1>3. /\ Tail(wire.responses) \in Seq(Responses)
      /\ Head(wire.responses) = wire.responses[1] /\ wire.responses[1] \in Responses
      /\ Len(wire.responses) \in Nat /\ 1 <= Len(wire.responses)
  BY <1>1, <1>2, TailAnswers
<1>4. PICK t \in Seq(Responses) : t = Tail(wire.responses)
  BY <1>3
<1>5. wire' = [wire EXCEPT !.responses = t]
  BY <1>4 DEF OnWatchStreamChange
<1>6. /\ wire' \in Wire /\ wire'.responses = t /\ wire'.requests = wire.requests
      /\ wire'.upTo = wire.upTo
  BY <1>1, <1>5 DEF Wire
<1>7. TakenOff(wire, wire')
  BY <1>1, <1>4, <1>6 DEF TakenOff
<1>8. wire.responses[1].version \in Nat
  BY <1>3 DEF Responses, Messages, Documents
<1> QED
  BY <1>3, <1>7, <1>8 DEF OnWatchStreamChange, Version

LEMMA TakenIsHead ==
  ASSUME NEW h, NEW h2 \in Listener, NEW w, NEW w2, TakenOff(w, w2),
         h.stream = "open", h2.stream = "open", h2.listening = h.listening
  PROVE  HeadStep(h, h2, w, w2)
BY DEF HeadStep, TakenOff

LEMMA SentMadeTail ==
  ASSUME NEW w \in Wire, NEW w2, TakenOff(w, w2), NEW log, SentMade(w, log)
  PROVE  SentMade(w2, log)
<1>1. PICK s \in Seq(Responses) : s = w.responses /\ s # <<>>
  BY WireType DEF TakenOff
<1>2. /\ Len(s) \in Nat /\ 1 <= Len(s) /\ Len(Tail(s)) = Len(s) - 1
      /\ \A i \in 1..(Len(s) - 1) : Tail(s)[i] = s[i + 1]
  BY <1>1, TailAnswers
<1>3. ASSUME NEW i \in 1..Len(Tail(s)), Tail(s)[i].type = "document"
      PROVE  Made(log, Tail(s)[i].key, Tail(s)[i].version)
  <2>1. i + 1 \in 1..Len(s) /\ Tail(s)[i] = s[i + 1]
    BY <1>2
  <2> QED
    BY <1>1, <1>3, <2>1 DEF SentMade
<1> QED
  BY <1>1, <1>3 DEF SentMade, TakenOff

LEMMA OnlineQuiet ==
  ASSUME TypeOK
  PROVE  /\ Quiet(client, Online) /\ Online \in Client
         /\ ListenerOf(Online) = ListenerOf(client)
         /\ IsActive(Online) <=> IsActive(ListenerOf(client))
<1>1. Quiet(client, Online)
  BY UpdateStateQuiet DEF TypeOK, Online, OnlineStates
<1>2. ListenerOf(Online) = ListenerOf(client)
  BY <1>1 DEF Quiet
<1>3. Online.agg = client.agg /\ Online.listening = client.listening
  BY <1>2 DEF ListenerOf
<1> QED
  BY <1>1, <1>2, <1>3 DEF Quiet, IsActive, ListenerOf

\* A handler behind the news that the client is online.
LEMMA GathersListener ==
  ASSUME NEW b \in Client, NEW c, NEW d, NEW agg, Quiet(b, c), Gathers(c, d, agg)
  PROVE  /\ ListenerOf(d) \in Listener
         /\ ListenerOf(d).listening = ListenerOf(b).listening
         /\ ListenerOf(d).token = ListenerOf(b).token
         /\ ListenerOf(d).stream = ListenerOf(b).stream
         /\ ListenerOf(d).synced = ListenerOf(b).synced
         /\ ListenerOf(d).agg = agg /\ c.agg = ListenerOf(b).agg /\ d \in Client
<1>1. ListenerOf(c) = ListenerOf(b)
  BY DEF Quiet
<1>2. /\ c.listening = b.listening /\ c.token = b.token /\ c.stream = b.stream
      /\ c.view.synced = b.view.synced /\ c.agg = b.agg
  BY <1>1 DEF ListenerOf
<1>3. ListenerOf(d) \in Listener /\ d \in Client
  BY ListenerType DEF Gathers
<1> QED
  BY <1>2, <1>3 DEF Gathers, ListenerOf

-----------------------------------------------------------------------------
(* The messages of the server *)

LEMMA MessageTaken ==
  ASSUME WatchInv, NEW type, OnWatchStreamChange(type),
         client' \in Client, disk' \in Disk, CacheMade(disk', commits),
         UpdatesMade(ListenerOf(client'), commits),
         StreamInv(ListenerOf(client'), disk', wire', commits)
  PROVE  WatchInv'
<1>1. TypeOK /\ SentMade(wire, commits)
  BY DEF WatchInv, MadeOK
<1>2. TakenOff(wire, wire')
  BY <1>1, ResponseTaken
<1>3. UNCHANGED <<commits, writes, acked>>
  BY DEF OnWatchStreamChange
<1>4. TypeOK'
  BY <1>1, <1>2, <1>3 DEF TypeOK, TakenOff
<1>5. SentMade(wire', commits')
  BY <1>1, <1>2, <1>3, SentMadeTail DEF TypeOK
<1> QED
  BY <1>3, <1>4, <1>5 DEF WatchInv, MadeOK

\* The listener before a message and behind what the handler gathers.
Heard(c, agg) ==
  /\ Quiet(client, Online) /\ Online \in Client /\ Online.agg = client.agg
  /\ c \in Client
  /\ HeadStep(ListenerOf(client), ListenerOf(c), wire, wire')
  /\ ListenerOf(c).token = client.token
  /\ ListenerOf(c).synced = client.view.synced
  /\ ListenerOf(c).agg = agg

LEMMA MessageHeard ==
  ASSUME TypeOK, NEW type, OnWatchStreamChange(type), NEW c, NEW agg,
         Gathers(Online, c, agg)
  PROVE  Heard(c, agg)
<1>1. Quiet(client, Online) /\ Online \in Client /\ client \in Client
  BY OnlineQuiet DEF TypeOK
<1>2. TakenOff(wire, wire') /\ client.stream = "open"
  BY ResponseTaken
<1>3. /\ ListenerOf(c) \in Listener /\ c \in Client
      /\ ListenerOf(c).listening = ListenerOf(client).listening
      /\ ListenerOf(c).token = ListenerOf(client).token
      /\ ListenerOf(c).stream = ListenerOf(client).stream
      /\ ListenerOf(c).synced = ListenerOf(client).synced
      /\ ListenerOf(c).agg = agg /\ Online.agg = ListenerOf(client).agg
  BY <1>1, GathersListener
<1>4. /\ ListenerOf(client).stream = "open"
      /\ ListenerOf(client).token = client.token
      /\ ListenerOf(client).synced = client.view.synced
      /\ ListenerOf(client).agg = client.agg
  BY <1>2 DEF ListenerOf
<1>5. HeadStep(ListenerOf(client), ListenerOf(c), wire, wire')
  BY <1>2, <1>3, <1>4, TakenIsHead
<1> QED
  BY <1>1, <1>3, <1>4, <1>5 DEF Heard

LEMMA ListenerFieldsOf ==
  ASSUME NEW c \in Client
  PROVE  /\ ListenerOf(c) \in Listener
         /\ ListenerOf(c).listening = c.listening /\ ListenerOf(c).token = c.token
         /\ ListenerOf(c).stream = c.stream /\ ListenerOf(c).synced = c.view.synced
         /\ ListenerOf(c).agg = c.agg
         /\ IsActive(ListenerOf(c)) <=> IsActive(c)
BY ListenerType DEF ListenerOf, IsActive

\* An answer, "current" and a version that is held back.
LEMMA AnswerTaken ==
  ASSUME WatchInv, NEW type \in {"added", "removed"}, OnWatchStreamChange(type),
         NEW agg, Gathers(Online, client', agg), Answered(client.agg, agg), UNCHANGED disk
  PROVE  WatchInv'
<1>1. /\ TypeOK /\ StreamInv(ListenerOf(client), disk, wire, commits)
      /\ CacheMade(disk, commits) /\ UpdatesMade(ListenerOf(client), commits)
  BY DEF WatchInv, MadeOK
<1>2. Heard(client', agg)
  BY <1>1, MessageHeard
<1>3. wire.responses[1].type = type
  BY <1>1, ResponseTaken
<1>4. ListenerOf(client) \in Listener /\ ListenerOf(client).agg = client.agg
      /\ ListenerOf(client).token = client.token
      /\ ListenerOf(client).synced = client.view.synced
  BY <1>1, ListenerFieldsOf DEF TypeOK
<1>5. disk \in Disk /\ wire \in Wire /\ commits \in Seq(Commits)
  BY <1>1 DEF TypeOK
<1>6. StreamInv(ListenerOf(client'), disk, wire', commits)
  BY <1>1, <1>2, <1>3, <1>4, <1>5, AnswerStep DEF Heard
<1>7. UpdatesMade(ListenerOf(client'), commits)
  BY <1>1, <1>2, <1>4 DEF UpdatesMade, Heard, Answered
<1> QED
  BY <1>1, <1>2, <1>5, <1>6, <1>7, MessageTaken DEF Heard

LEMMA ToldTaken ==
  ASSUME WatchInv, NEW type, OnWatchStreamChange(type),
         type = "current" \/ (type = "snapshot" /\ Version < disk.lastRemote),
         NEW agg, Gathers(Online, client', agg), Told(client.agg, agg, Version),
         UNCHANGED disk
  PROVE  WatchInv'
<1>1. /\ TypeOK /\ StreamInv(ListenerOf(client), disk, wire, commits)
      /\ CacheMade(disk, commits) /\ UpdatesMade(ListenerOf(client), commits)
  BY DEF WatchInv, MadeOK
<1>2. Heard(client', agg)
  BY <1>1, MessageHeard
<1>3. wire.responses[1].type = type /\ Version = wire.responses[1].version
  BY <1>1, ResponseTaken
<1>4. ListenerOf(client) \in Listener /\ ListenerOf(client).agg = client.agg
      /\ ListenerOf(client).token = client.token
      /\ ListenerOf(client).synced = client.view.synced
  BY <1>1, ListenerFieldsOf DEF TypeOK
<1>5. disk \in Disk /\ wire \in Wire /\ commits \in Seq(Commits)
  BY <1>1 DEF TypeOK
<1>6. StreamInv(ListenerOf(client'), disk, wire', commits)
  BY <1>1, <1>2, <1>3, <1>4, <1>5, ToldStep DEF Heard
<1>7. UpdatesMade(ListenerOf(client'), commits)
  BY <1>1, <1>2, <1>4 DEF UpdatesMade, Heard, Told
<1> QED
  BY <1>1, <1>2, <1>5, <1>6, <1>7, MessageTaken DEF Heard

LEMMA ResetTaken ==
  ASSUME WatchInv, OnWatchStreamChange("reset"),
         client' = (IF IsActive(Online) THEN ResetTarget(Online) ELSE Online),
         UNCHANGED disk
  PROVE  WatchInv'
<1>1. /\ TypeOK /\ StreamInv(ListenerOf(client), disk, wire, commits)
      /\ CacheMade(disk, commits) /\ UpdatesMade(ListenerOf(client), commits)
  BY DEF WatchInv, MadeOK
<1>2. /\ Online \in Client /\ (IsActive(Online) <=> IsActive(ListenerOf(client)))
      /\ Quiet(client, Online)
  BY <1>1, OnlineQuiet
<1>3. /\ ListenerOf(client) \in Listener /\ ListenerOf(client).agg = client.agg
      /\ ListenerOf(client).token = client.token
      /\ ListenerOf(client).synced = client.view.synced
  BY <1>1, ListenerFieldsOf DEF TypeOK
<1>4. Online.agg = client.agg
  BY <1>2, <1>3, ListenerFieldsOf DEF Quiet
<1>5. PICK agg : /\ Gathers(Online, client', agg) /\ agg.updates = client.agg.updates
                 /\ ResetGathered(ListenerOf(client), client.agg, agg)
  <2>1. CASE IsActive(Online)
    <3>1. PICK g : /\ Gathers(Online, ResetTarget(Online), g)
                   /\ ResetGathered(Online, Online.agg, g)
                   /\ g.updates = Online.agg.updates
      BY <1>2, <2>1, ResetTargetGathers
    <3>2. ResetGathered(ListenerOf(client), client.agg, g)
      BY <1>2, <1>4, <2>1, <3>1 DEF ResetGathered
    <3> QED
      BY <1>4, <2>1, <3>1, <3>2
  <2>2. CASE ~IsActive(Online)
    <3>1. Gathers(Online, Online, Online.agg)
      BY <1>2, ClientFields DEF Gathers
    <3>2. ResetGathered(ListenerOf(client), client.agg, client.agg)
      BY <1>2, <2>2 DEF ResetGathered
    <3> QED
      BY <1>4, <2>2, <3>1, <3>2
  <2> QED
    BY <2>1, <2>2
<1>6. Heard(client', agg)
  BY <1>1, <1>5, MessageHeard
<1>7. wire.responses[1].type = "reset"
  BY <1>1, ResponseTaken
<1>8. disk \in Disk /\ wire \in Wire /\ commits \in Seq(Commits)
  BY <1>1 DEF TypeOK
<1>9. StreamInv(ListenerOf(client'), disk, wire', commits)
  BY <1>1, <1>3, <1>5, <1>6, <1>7, <1>8, ResetStep DEF Heard
<1>10. UpdatesMade(ListenerOf(client'), commits)
  BY <1>1, <1>3, <1>5, <1>6 DEF UpdatesMade, Heard
<1> QED
  BY <1>1, <1>6, <1>8, <1>9, <1>10, MessageTaken DEF Heard

LEMMA HandleTargetChangeInv ==
  ASSUME WatchInv, HandleTargetChange
  PROVE  WatchInv'
<1>1. /\ Online \in Client /\ Online.agg = client.agg /\ UNCHANGED disk
  <2>1. TypeOK /\ client \in Client
    BY DEF WatchInv, TypeOK
  <2>2. Online \in Client /\ ListenerOf(Online) = ListenerOf(client)
    BY <2>1, OnlineQuiet
  <2> QED
    BY <2>1, <2>2, ListenerFieldsOf DEF HandleTargetChange
<1>2. CASE OnWatchStreamChange("added") /\ client' = TargetAdded(Online)
  BY <1>1, <1>2, TargetAddedAnswers, AnswerTaken
<1>3. CASE OnWatchStreamChange("removed") /\ client' = TargetRemoved(Online)
  BY <1>1, <1>3, TargetRemovedAnswers, AnswerTaken
<1>4. CASE OnWatchStreamChange("current") /\ client' = TargetCurrent(Online, Version)
  <2>1. Version \in Nat
    BY <1>4, ResponseTaken DEF WatchInv
  <2> QED
    BY <1>1, <1>4, <2>1, TargetCurrentTold, ToldTaken
<1>5. CASE /\ OnWatchStreamChange("reset")
           /\ client' = IF IsActive(Online) THEN ResetTarget(Online) ELSE Online
  BY <1>1, <1>5, ResetTaken
<1> QED
  BY <1>2, <1>3, <1>4, <1>5 DEF HandleTargetChange

LEMMA HoldBackSnapshotInv ==
  ASSUME WatchInv, HoldBackSnapshot
  PROVE  WatchInv'
<1>1. TypeOK /\ OnWatchStreamChange("snapshot") /\ UNCHANGED disk
      /\ Version < disk.lastRemote /\ client' = TargetNoChange(Online, Version)
  BY DEF WatchInv, HoldBackSnapshot
<1>2. /\ Online \in Client /\ Online.agg = client.agg
  <2>1. Online \in Client /\ ListenerOf(Online) = ListenerOf(client) /\ client \in Client
    BY <1>1, OnlineQuiet DEF TypeOK
  <2> QED
    BY <2>1, ListenerFieldsOf
<1>3. Version \in Nat
  BY <1>1, ResponseTaken
<1>4. PICK agg : Gathers(Online, client', agg) /\ Told(client.agg, agg, Version)
  BY <1>1, <1>2, <1>3, TargetNoChangeTold
<1> QED
  BY <1>1, <1>4, ToldTaken

LEMMA HandleDocumentChangeInv ==
  ASSUME WatchInv, HandleDocumentChange
  PROVE  WatchInv'
<1>1. /\ TypeOK /\ StreamInv(ListenerOf(client), disk, wire, commits)
      /\ CacheMade(disk, commits) /\ UpdatesMade(ListenerOf(client), commits)
      /\ SentMade(wire, commits)
  BY DEF WatchInv, MadeOK
<1>2. /\ OnWatchStreamChange("document") /\ UNCHANGED disk
      /\ client' = AddDocumentToTarget(Online, Head(wire.responses).key, Version)
  BY DEF HandleDocumentChange
<1>3. /\ Online \in Client /\ ListenerOf(Online) = ListenerOf(client)
  BY <1>1, OnlineQuiet
<1>4. /\ ListenerOf(client) \in Listener /\ ListenerOf(client).agg = client.agg
      /\ ListenerOf(client).token = client.token
      /\ ListenerOf(client).synced = client.view.synced
      /\ Online.agg = client.agg
  BY <1>1, <1>3, ListenerFieldsOf DEF TypeOK
<1>5. /\ wire.responses[1].type = "document" /\ Version = wire.responses[1].version
      /\ Head(wire.responses) = wire.responses[1] /\ Version \in Nat
      /\ wire.responses[1] \in Responses /\ 1 \in 1..Len(wire.responses)
  BY <1>1, <1>2, ResponseTaken
<1>6. PICK k \in Keys : k = wire.responses[1].key
  BY <1>5 DEF Responses, Messages, Documents
<1>7. PICK agg : /\ Gathers(Online, client', agg)
                 /\ DocumentGathered(ListenerOf(client), client.agg, agg, k, Version)
  <2>1. client' = AddDocumentToTarget(Online, k, Version)
    BY <1>2, <1>5, <1>6
  <2> QED
    BY <1>3, <1>4, <1>5, <2>1, DocumentAdded
<1>8. Heard(client', agg)
  BY <1>1, <1>2, <1>7, MessageHeard
<1>9. disk \in Disk /\ wire \in Wire /\ commits \in Seq(Commits)
  BY <1>1 DEF TypeOK
<1>10. StreamInv(ListenerOf(client'), disk, wire', commits)
  BY <1>1, <1>4, <1>5, <1>6, <1>7, <1>8, <1>9, DocumentStep DEF Heard
<1>11. Made(commits, k, Version)
  BY <1>1, <1>5, <1>6 DEF SentMade
<1>12. UpdatesMade(ListenerOf(client'), commits)
  <2>1. ListenerOf(client').agg = agg
    BY <1>8 DEF Heard
  <2>2. CASE ~IsActive(ListenerOf(client))
    BY <1>1, <1>4, <1>7, <2>1, <2>2 DEF UpdatesMade, DocumentGathered
  <2>3. CASE IsActive(ListenerOf(client))
    <3>1. /\ agg.updates[k] = Version
          /\ \A j \in Keys \ {k} : agg.updates[j] = client.agg.updates[j]
      BY <1>7, <2>3 DEF DocumentGathered
    <3> QED
      BY <1>1, <1>4, <1>11, <2>1, <3>1 DEF UpdatesMade
  <2> QED
    BY <2>2, <2>3
<1> QED
  BY <1>1, <1>2, <1>8, <1>9, <1>10, <1>12, MessageTaken DEF Heard

-----------------------------------------------------------------------------
(* A version is raised *)

NewerOf(d, updates) ==
  {k \in Keys : updates[k] # 0 /\ IsNewer(d.cache[k], updates[k])}

CacheOf(d, updates) ==
  [k \in Keys |-> IF k \in NewerOf(d, updates)
                  THEN [version |-> updates[k], byAck |-> FALSE]
                  ELSE d.cache[k]]

\* The cache takes what is newer, and keeps what is not older.
LEMMA EventStored ==
  ASSUME NEW d \in Disk, NEW updates \in [Keys -> Nat]
  PROVE  /\ NewerOf(d, updates) \in SUBSET Keys
         /\ CacheOf(d, updates) \in [Keys -> Cached]
         /\ \A k \in Keys :
              /\ d.cache[k].version <= CacheOf(d, updates)[k].version
              /\ updates[k] <= CacheOf(d, updates)[k].version
              /\ CacheOf(d, updates)[k].version \in {d.cache[k].version, updates[k]}
<1>1. d.cache \in [Keys -> Cached]
  BY DEF Disk
<1>2. ASSUME NEW k \in Keys
      PROVE  /\ CacheOf(d, updates)[k] \in Cached
             /\ d.cache[k].version <= CacheOf(d, updates)[k].version
             /\ updates[k] <= CacheOf(d, updates)[k].version
             /\ CacheOf(d, updates)[k].version \in {d.cache[k].version, updates[k]}
  <2>1. d.cache[k] \in Cached /\ d.cache[k].version \in Nat /\ updates[k] \in Nat
    BY <1>1 DEF Cached
  <2>2. CASE k \in NewerOf(d, updates)
    <3>1. CacheOf(d, updates)[k] = [version |-> updates[k], byAck |-> FALSE]
      BY <2>2 DEF CacheOf
    <3>2. IsNewer(d.cache[k], updates[k])
      BY <2>2 DEF NewerOf
    <3> QED
      BY <2>1, <3>1, <3>2 DEF IsNewer, Cached
  <2>3. CASE k \notin NewerOf(d, updates)
    <3>1. CacheOf(d, updates)[k] = d.cache[k]
      BY <2>3 DEF CacheOf
    <3>2. updates[k] = 0 \/ ~IsNewer(d.cache[k], updates[k])
      BY <2>3 DEF NewerOf
    <3> QED
      BY <2>1, <3>1, <3>2 DEF IsNewer
  <2> QED
    BY <2>2, <2>3
<1>3. CacheOf(d, updates) \in [Keys -> Cached]
  <2>1. \A k \in Keys : CacheOf(d, updates)[k] \in Cached
    BY <1>2
  <2>2. CacheOf(d, updates) = [k \in Keys |-> CacheOf(d, updates)[k]]
    BY DEF CacheOf
  <2> QED
    BY <2>1, <2>2
<1>4. NewerOf(d, updates) \in SUBSET Keys
  BY DEF NewerOf
<1> QED
  BY <1>2, <1>3, <1>4

ChangedTo(g, change) == {k \in Keys : g.target.changes[k] = change}

LEMMA TargetChangeProperties ==
  ASSUME NEW c \in Client
  PROVE  /\ TargetChange(c) \in Change
         /\ TargetChange(c).any <=> IsActive(c) /\ c.agg.target.pending
         /\ IF TargetChange(c).any
            THEN /\ TargetChange(c).added = ChangedTo(c.agg, "Added")
                 /\ TargetChange(c).removed = ChangedTo(c.agg, "Removed")
                 /\ TargetChange(c).current = c.agg.target.current
            ELSE TargetChange(c).added = {} /\ TargetChange(c).removed = {}
<1>1. c.agg.target.current \in BOOLEAN /\ c.agg.target.pending \in BOOLEAN
  BY ClientFields
<1>2. CASE ~IsActive(c) \/ ~c.agg.target.pending
  BY <1>2 DEF TargetChange, NoChange, Change
<1>3. CASE IsActive(c) /\ c.agg.target.pending
  <2>1. PICK added : added = ChangedTo(c.agg, "Added")
    OBVIOUS
  <2>2. PICK removed : removed = ChangedTo(c.agg, "Removed")
    OBVIOUS
  <2>3. added \in SUBSET Keys /\ removed \in SUBSET Keys
    BY <2>1, <2>2 DEF ChangedTo
  <2>4. TargetChange(c) = [added |-> added, removed |-> removed,
                           current |-> c.agg.target.current, any |-> TRUE]
    BY <1>3, <2>1, <2>2 DEF TargetChange, ChangedTo
  <2> QED
    BY <1>1, <1>3, <2>1, <2>2, <2>3, <2>4 DEF Change
<1> QED
  BY <1>2, <1>3

\* The parts of the step: the message told, the event made of what was
\* gathered, and what the view gets of it.
RaiseParts(c, change, told, persisted) ==
  /\ c = TargetNoChange(Online, Version)
  /\ change = TargetChange(c)
  /\ told <=> (change.any /\ c.agg.target.token # 0)
  /\ told \in BOOLEAN /\ persisted \in BOOLEAN
  /\ persisted => told
  /\ told /\ (client.token = 0 \/ \E k \in Keys : c.agg.target.changes[k] # "none")
       => persisted
  /\ disk' = [cache      |-> CacheOf(disk, c.agg.updates),
              keys       |-> (disk.keys \cup change.added) \ change.removed,
              token      |-> IF persisted THEN c.agg.target.token ELSE disk.token,
              lastRemote |-> Version]
  /\ client' = EmitNewSnapshots(
                 [EventTaken(c) EXCEPT !.token =
                    IF told THEN c.agg.target.token ELSE @],
                 [k \in NewerOf(disk, c.agg.updates) |->
                    LocalDoc(CacheOf(disk, c.agg.updates), writes, acked, k)], change)

LEMMA RaiseHasParts ==
  ASSUME RaiseWatchSnapshot
  PROVE  /\ OnWatchStreamChange("snapshot") /\ Version >= disk.lastRemote
         /\ \E c, change, told, persisted : RaiseParts(c, change, told, persisted)
<1> DEFINE c == TargetNoChange(Online, Version)
           change == TargetChange(c)
           told == change.any /\ c.agg.target.token # 0
<1>1. PICK persisted \in BOOLEAN :
        /\ persisted => told
        /\ told /\ (client.token = 0 \/ \E k \in Keys : c.agg.target.changes[k] # "none")
             => persisted
        /\ disk' = [cache      |-> CacheOf(disk, c.agg.updates),
                    keys       |-> (disk.keys \cup change.added) \ change.removed,
                    token      |-> IF persisted THEN c.agg.target.token ELSE disk.token,
                    lastRemote |-> Version]
  BY Zenon DEF RaiseWatchSnapshot, CacheOf, NewerOf
<1>2. client' = EmitNewSnapshots(
                  [EventTaken(c) EXCEPT !.token =
                     IF told THEN c.agg.target.token ELSE @],
                  [k \in NewerOf(disk, c.agg.updates) |->
                     LocalDoc(CacheOf(disk, c.agg.updates), writes, acked, k)], change)
  BY Zenon DEF RaiseWatchSnapshot, CacheOf, NewerOf
<1>3. told \in BOOLEAN
  OBVIOUS
<1>4. RaiseParts(c, change, told, persisted)
  BY <1>1, <1>2, <1>3, Zenon DEF RaiseParts
<1>5. OnWatchStreamChange("snapshot") /\ Version >= disk.lastRemote
  BY DEF RaiseWatchSnapshot
<1> QED
  BY <1>4, <1>5, Zenon

\* What is gathered when the message is told, and what is left of it.
RaiseGathered(c, g, left) ==
  /\ c \in Client /\ g \in Aggregator /\ c.agg = g
  /\ c.listening = client.listening /\ c.stream = client.stream
  /\ c.token = client.token /\ c.view.synced = client.view.synced
  /\ c.view.docs = client.view.docs /\ c.view.mutated = client.view.mutated
  /\ c.view.current => client.view.current
  /\ c.shown = client.shown \/ (c.listening /\ c.shown = Contents(c.view))
  /\ Told(client.agg, g, Version)
  /\ g.updates = client.agg.updates
  /\ IsActive(c) <=> IsActive(client)
  /\ IsActive(client) /\ client.agg.target.pending => g.target.pending
  /\ ~IsActive(client) => g = client.agg
  /\ Gathers(c, EventTaken(c), left)
  /\ left.target.outstanding = g.target.outstanding
  /\ left.target.token = g.target.token
  /\ \A k \in Keys : left.updates[k] = 0
  /\ IF IsActive(c) THEN \A k \in Keys : left.target.changes[k] = "none"
     ELSE left.target = g.target

LEMMA RaiseGathers ==
  ASSUME TypeOK, OnWatchStreamChange("snapshot"), NEW c, c = TargetNoChange(Online, Version)
  PROVE  \E g, left : RaiseGathered(c, g, left)
<1>1. client \in Client /\ Online \in Client /\ Version \in Nat
      /\ ListenerOf(Online) = ListenerOf(client)
  BY OnlineQuiet, ResponseTaken DEF TypeOK
<1>2. /\ Online.agg = client.agg /\ Online.listening = client.listening
      /\ Online.stream = client.stream /\ Online.token = client.token
      /\ Online.view.synced = client.view.synced
  BY <1>1, SameListener
<1>10. /\ Online.view.docs = client.view.docs
       /\ Online.view.mutated = client.view.mutated
       /\ Online.view.current => client.view.current
       /\ \/ Online.shown = client.shown
          \/ Online.listening /\ Online.shown = Contents(Online.view)
  BY OnlineQuiet DEF Quiet
<1>3. IsActive(Online) <=> IsActive(client)
  BY <1>2 DEF IsActive
<1>4. PICK g : /\ Gathers(Online, c, g) /\ Told(Online.agg, g, Version)
               /\ IF IsActive(Online) THEN Online.agg.target.pending => g.target.pending
                  ELSE g = Online.agg
  BY <1>1, TargetNoChangeTold
<1>5. /\ c \in Client /\ g \in Aggregator /\ c.agg = g
      /\ c.listening = client.listening /\ c.stream = client.stream
      /\ c.token = client.token /\ c.view.synced = client.view.synced
  BY <1>2, <1>4 DEF Gathers
<1>11. /\ c.view.docs = client.view.docs /\ c.view.mutated = client.view.mutated
       /\ c.view.current => client.view.current
       /\ c.shown = client.shown \/ (c.listening /\ c.shown = Contents(c.view))
  <2>1. c.view = Online.view /\ c.shown = Online.shown /\ c.listening = Online.listening
    BY <1>4 DEF Gathers
  <2> QED
    BY <1>10, <2>1
<1>6. Told(client.agg, g, Version) /\ g.updates = client.agg.updates
      /\ g.target.outstanding = client.agg.target.outstanding
  BY <1>2, <1>4 DEF Told
<1>7. IsActive(c) <=> IsActive(client)
  BY <1>5, <1>6 DEF IsActive
<1>8. PICK left : /\ Gathers(c, EventTaken(c), left)
                  /\ left.target.outstanding = c.agg.target.outstanding
                  /\ left.target.token = c.agg.target.token
                  /\ \A k \in Keys : left.updates[k] = 0
                  /\ IF IsActive(c)
                     THEN \A k \in Keys : left.target.changes[k] = "none"
                     ELSE left.target = c.agg.target
  BY <1>5, EventTakenGathers
<1>9. RaiseGathered(c, g, left)
  BY <1>2, <1>3, <1>4, <1>5, <1>6, <1>7, <1>8, <1>11 DEF RaiseGathered
<1> QED
  BY <1>9

\* The documents of the event, as the view gets them.
LEMMA EventDocuments ==
  ASSUME ConstantsAssumption, TypeOK, CacheMade(disk, commits),
         UpdatesMade(ListenerOf(client), commits)
  PROVE  LET cache == CacheOf(disk, client.agg.updates)
             newer == NewerOf(disk, client.agg.updates)
         IN  /\ \A k \in Keys : cache[k].version # 0 => Made(commits, k, cache[k].version)
             /\ [k \in newer |-> LocalDoc(cache, writes, acked, k)] \in [newer -> Doc]
<1>1. /\ disk \in Disk /\ client \in Client /\ commits \in Seq(Commits)
      /\ writes \in Seq(Keys) /\ acked \in Nat
  BY DEF TypeOK
<1>2. client.agg.updates \in [Keys -> Nat] /\ ListenerOf(client).agg = client.agg
  BY <1>1, ClientFields, ListenerFieldsOf
<1> DEFINE cache == CacheOf(disk, client.agg.updates)
           newer == NewerOf(disk, client.agg.updates)
<1>3. /\ cache \in [Keys -> Cached] /\ newer \in SUBSET Keys
      /\ \A k \in Keys :
           cache[k].version \in {disk.cache[k].version, client.agg.updates[k]}
  BY <1>1, <1>2, EventStored
<1> HIDE DEF cache, newer
<1>4. \A k \in Keys : cache[k].version # 0 => Made(commits, k, cache[k].version)
  BY <1>2, <1>3 DEF CacheMade, UpdatesMade
<1>5. ASSUME NEW k \in newer PROVE LocalDoc(cache, writes, acked, k) \in Doc
  <2>1. k \in Keys
    BY <1>3
  <2> QED
    BY <1>1, <1>3, <1>4, <2>1, LocalDocType
<1>6. [k \in newer |-> LocalDoc(cache, writes, acked, k)] \in [newer -> Doc]
  BY <1>5
<1> QED
  BY <1>4, <1>6 DEF cache, newer

Emits(c, d, new, change) ==
  /\ d \in Client
  /\ d.listening = c.listening /\ d.token = c.token
  /\ d.stream = c.stream /\ d.agg = c.agg
  /\ ~c.listening => d = c
  /\ c.listening => /\ d.view = NextView(c.view, new, change)
                    /\ d.shown = c.shown \/ d.shown = Contents(d.view)

LEMMA EmitsSnapshot ==
  ASSUME NEW c \in Client, NEW D \in SUBSET Keys, NEW new \in [D -> Doc],
         NEW change \in Change
  PROVE  Emits(c, EmitNewSnapshots(c, new, change), new, change)
BY EmitProperties DEF Emits

\* The client when the event was emitted.
Emitted(e, c, D, new, change, token, left) ==
  /\ e \in Client
  /\ e.listening = client.listening /\ e.stream = client.stream
  /\ e.token = token /\ e.agg = left
  /\ e.view.synced = IF client.listening /\ change.any
                     THEN (client.view.synced \cup change.added) \ change.removed
                     ELSE client.view.synced
  /\ e.listening => Shows(e.view, c.view, D, new, change)
  /\ ~e.listening => (e.view.current => c.view.current)
  /\ e.shown = c.shown \/ (e.listening /\ e.shown = Contents(e.view))

LEMMA RaiseEmits ==
  ASSUME NEW c, NEW g, NEW left, RaiseGathered(c, g, left), NEW token \in Nat,
         NEW D \in SUBSET Keys, NEW new \in [D -> Doc], NEW change \in Change,
         NEW e, e = EmitNewSnapshots([EventTaken(c) EXCEPT !.token = token], new, change)
  PROVE  Emitted(e, c, D, new, change, token, left)
<1>1. /\ EventTaken(c) \in Client /\ EventTaken(c).agg = left
      /\ EventTaken(c).listening = client.listening
      /\ EventTaken(c).stream = client.stream
      /\ EventTaken(c).view.synced = client.view.synced
      /\ EventTaken(c).view = c.view /\ EventTaken(c).shown = c.shown
  BY DEF RaiseGathered, Gathers
<1>2. PICK b : b = [EventTaken(c) EXCEPT !.token = token]
  OBVIOUS
<1>3. /\ b \in Client /\ b.agg = left /\ b.listening = client.listening
      /\ b.stream = client.stream /\ b.view.synced = client.view.synced
      /\ b.token = token /\ b.view \in View
      /\ b.view = c.view /\ b.shown = c.shown
  BY <1>1, <1>2 DEF Client
<1>4. /\ e \in Client /\ e.listening = b.listening /\ e.token = b.token
      /\ e.stream = b.stream /\ e.agg = b.agg
      /\ ~b.listening => e = b
      /\ b.listening => /\ e.view = NextView(b.view, new, change)
                        /\ e.shown = b.shown \/ e.shown = Contents(e.view)
  <2>1. Emits(b, e, new, change)
    BY <1>2, <1>3, EmitsSnapshot
  <2> QED
    BY <2>1 DEF Emits
<1>5. Shows(NextView(b.view, new, change), b.view, D, new, change)
  BY <1>3, NextViewShows
<1>6. b.listening =>
        e.view.synced = IF change.any
                        THEN (b.view.synced \cup change.added) \ change.removed
                        ELSE b.view.synced
  BY <1>4, <1>5 DEF Shows
<1>7. e.listening => Shows(e.view, c.view, D, new, change)
  BY <1>3, <1>4, <1>5
<1>8. e.shown = c.shown \/ (e.listening /\ e.shown = Contents(e.view))
  BY <1>3, <1>4
<1>9. ~e.listening => (e.view.current => c.view.current)
  BY <1>3, <1>4
<1> QED
  BY <1>3, <1>4, <1>6, <1>7, <1>8, <1>9 DEF Emitted

LEMMA RaiseChanges ==
  ASSUME NEW c, NEW g, NEW left, RaiseGathered(c, g, left), client \in Client,
         GatherOK(ListenerOf(client), disk), NEW change, change = TargetChange(c)
  PROVE  /\ change \in Change
         /\ change.any => IsActive(client)
         /\ IsActive(client) =>
              /\ ChangedTo(client.agg, "Added") =
                   (IF change.any THEN change.added ELSE {})
              /\ ChangedTo(client.agg, "Removed") =
                   (IF change.any THEN change.removed ELSE {})
         /\ ~change.any => change.added = {} /\ change.removed = {}
<1>1. /\ change \in Change
      /\ change.any <=> IsActive(c) /\ g.target.pending
      /\ IF change.any
         THEN /\ change.added = ChangedTo(g, "Added")
              /\ change.removed = ChangedTo(g, "Removed")
         ELSE change.added = {} /\ change.removed = {}
  BY TargetChangeProperties DEF RaiseGathered
<1>2. /\ IsActive(c) <=> IsActive(client)
      /\ g.target.changes = client.agg.target.changes
      /\ IsActive(client) /\ client.agg.target.pending => g.target.pending
  BY DEF RaiseGathered, Told
<1>3. \A to : ChangedTo(g, to) = ChangedTo(client.agg, to)
  BY <1>2 DEF ChangedTo
<1>4. ASSUME IsActive(client), ~change.any
      PROVE  ChangedTo(client.agg, "Added") = {} /\ ChangedTo(client.agg, "Removed") = {}
  <2>1. ~client.agg.target.pending
    BY <1>1, <1>2, <1>4
  <2>2. \A k \in Keys : client.agg.target.changes[k] = "none"
    BY <2>1 DEF GatherOK, ListenerOf
  <2> QED
    BY <2>2 DEF ChangedTo
<1> QED
  BY <1>1, <1>2, <1>3, <1>4

\* The keys of the target on disk and in the view.
LEMMA RaiseKeys ==
  ASSUME NEW keys, NEW change \in Change, NEW added, NEW removed,
         added = (IF change.any THEN change.added ELSE {}),
         removed = (IF change.any THEN change.removed ELSE {}),
         ~change.any => change.added = {} /\ change.removed = {}
  PROVE  /\ (keys \cup change.added) \ change.removed = (keys \cup added) \ removed
         /\ (IF change.any THEN (keys \cup change.added) \ change.removed ELSE keys) =
              (keys \cup added) \ removed
<1>1. CASE change.any
  BY <1>1
<1>2. CASE ~change.any
  BY <1>2
<1> QED
  BY <1>1, <1>2

\* The listener and the disk when a version is raised, and what the view
\* gets.
RaisedTo(c, D, new, change) ==
  /\ RaiseWatchSnapshot /\ Version \in Nat /\ Version >= disk.lastRemote
  /\ wire.responses[1].type = "snapshot" /\ Version = wire.responses[1].version
  /\ Raised(ListenerOf(client), ListenerOf(client'), disk, disk', Version)
  /\ HeadStep(ListenerOf(client), ListenerOf(client'), wire, wire')
  /\ disk' \in Disk /\ client' \in Client
  /\ disk'.lastRemote = Version
  /\ disk'.cache = CacheOf(disk, client.agg.updates)
  /\ D = NewerOf(disk, client.agg.updates)
  /\ new = [k \in D |-> LocalDoc(CacheOf(disk, client.agg.updates), writes, acked, k)]
  /\ change \in Change /\ (change.any => IsActive(client))
  /\ c \in Client /\ c.listening = client.listening
  /\ c.view.docs = client.view.docs /\ c.view.mutated = client.view.mutated
  /\ c.view.current => client.view.current
  /\ c.shown = client.shown \/ (c.listening /\ c.shown = Contents(c.view))
  /\ client'.listening => Shows(client'.view, c.view, D, new, change)
  /\ ~client'.listening => (client'.view.current => c.view.current)
  /\ client'.shown = c.shown \/ (client'.listening /\ client'.shown = Contents(client'.view))
  /\ client'.listening = client.listening /\ client'.stream = client.stream
  /\ \A k \in Keys : client'.agg.updates[k] = 0

LEMMA RaiseEffects ==
  ASSUME ConstantsAssumption, WatchInv, RaiseWatchSnapshot
  PROVE  \E c, D, new, change : RaisedTo(c, D, new, change)
<1>1. /\ TypeOK /\ StreamInv(ListenerOf(client), disk, wire, commits)
      /\ CacheMade(disk, commits) /\ UpdatesMade(ListenerOf(client), commits)
  BY DEF WatchInv, MadeOK
<1>2. OnWatchStreamChange("snapshot") /\ Version >= disk.lastRemote
  BY RaiseHasParts
<1>3. PICK c, change, told, persisted : RaiseParts(c, change, told, persisted)
  BY RaiseHasParts
<1>4. PICK g, left : RaiseGathered(c, g, left)
  BY <1>1, <1>2, <1>3, RaiseGathers DEF RaiseParts
<1>5. /\ client \in Client /\ disk \in Disk /\ wire \in Wire
      /\ commits \in Seq(Commits) /\ disk.token \in Nat /\ disk.keys \in SUBSET Keys
      /\ client.token \in Nat
  BY <1>1, ClientFields DEF TypeOK, Disk
<1>6. /\ wire.responses[1].type = "snapshot" /\ Version = wire.responses[1].version
      /\ Version \in Nat
  BY <1>1, <1>2, ResponseTaken
<1>7. /\ c.agg = g /\ g.updates = client.agg.updates /\ g.target.token \in Nat
  BY <1>4, ClientFields DEF RaiseGathered
<1>8. /\ change \in Change
      /\ change.any => IsActive(client)
      /\ IsActive(client) =>
           /\ ChangedTo(client.agg, "Added") =
                (IF change.any THEN change.added ELSE {})
           /\ ChangedTo(client.agg, "Removed") =
                (IF change.any THEN change.removed ELSE {})
      /\ ~change.any => change.added = {} /\ change.removed = {}
  <2>1. change = TargetChange(c)
    BY <1>3 DEF RaiseParts
  <2>2. GatherOK(ListenerOf(client), disk)
    BY <1>1 DEF StreamInv
  <2> QED
    BY <1>4, <1>5, <2>1, <2>2, RaiseChanges
<1>9. PICK cache : /\ cache = CacheOf(disk, client.agg.updates)
                   /\ cache \in [Keys -> Cached]
                   /\ \A k \in Keys :
                        /\ disk.cache[k].version <= cache[k].version
                        /\ client.agg.updates[k] <= cache[k].version
                        /\ cache[k].version # 0 => Made(commits, k, cache[k].version)
  <2>1. client.agg.updates \in [Keys -> Nat]
    BY <1>5, ClientFields
  <2> QED
    BY <1>1, <1>5, <2>1, EventStored, EventDocuments
<1>10. told \in BOOLEAN /\ persisted \in BOOLEAN /\ (told => change.any)
       /\ (persisted => told)
  BY <1>3 DEF RaiseParts
<1>11. PICK token \in Nat : token = IF told THEN g.target.token ELSE client.token
  BY <1>5, <1>7, <1>10
<1>12. /\ disk' \in Disk /\ disk'.cache = cache /\ disk'.lastRemote = Version
       /\ disk'.keys = (disk.keys \cup change.added) \ change.removed
       /\ disk'.token = IF persisted THEN g.target.token ELSE disk.token
  <2>1. disk' = [cache |-> cache, keys |-> (disk.keys \cup change.added) \ change.removed,
                 token |-> IF persisted THEN g.target.token ELSE disk.token,
                 lastRemote |-> Version]
    BY <1>3, <1>7, <1>9 DEF RaiseParts
  <2>2. (disk.keys \cup change.added) \ change.removed \in SUBSET Keys
    BY <1>5, <1>8 DEF Change
  <2>3. (IF persisted THEN g.target.token ELSE disk.token) \in Nat
    BY <1>5, <1>7, <1>10
  <2> QED
    BY <1>6, <1>9, <2>1, <2>2, <2>3 DEF Disk
<1>23. PICK D : D = NewerOf(disk, client.agg.updates)
  OBVIOUS
<1>24. PICK new : new = [k \in D |-> LocalDoc(cache, writes, acked, k)]
  OBVIOUS
<1>13. Emitted(client', c, D, new, change, token, left)
  <2>3. D \in SUBSET Keys
    BY <1>23 DEF NewerOf
  <2>4. new \in [D -> Doc]
    BY <1>1, <1>9, <1>23, <1>24, EventDocuments
  <2>5. EventTaken(c).token = client.token
    BY <1>4 DEF RaiseGathered, Gathers
  <2>6. client' = EmitNewSnapshots([EventTaken(c) EXCEPT !.token = token], new, change)
    BY <1>3, <1>7, <1>9, <1>11, <1>23, <1>24, <2>5 DEF RaiseParts
  <2> QED
    BY <1>4, <1>8, <2>3, <2>4, <2>6, RaiseEmits
<1>14. PICK h : h = ListenerOf(client)
  OBVIOUS
<1>15. PICK h2 : h2 = ListenerOf(client')
  OBVIOUS
<1>16. /\ h \in Listener /\ h.listening = client.listening /\ h.token = client.token
       /\ h.stream = client.stream /\ h.synced = client.view.synced
       /\ h.agg = client.agg /\ (IsActive(h) <=> IsActive(client))
  BY <1>5, <1>14, ListenerFieldsOf
<1>17. /\ h2 \in Listener /\ h2.listening = client.listening /\ h2.token = token
       /\ h2.stream = client.stream /\ h2.agg = left
       /\ h2.synced = IF client.listening /\ change.any
                      THEN (client.view.synced \cup change.added) \ change.removed
                      ELSE client.view.synced
       /\ client' \in Client
  <2>1. client' \in Client
    BY <1>13 DEF Emitted
  <2> QED
    BY <1>13, <1>15, <2>1, ListenerFieldsOf DEF Emitted
<1>18. /\ Told(client.agg, g, Version) /\ (IsActive(c) <=> IsActive(client))
       /\ left.target.outstanding = client.agg.target.outstanding
       /\ left.target.token = g.target.token
       /\ \A k \in Keys : left.updates[k] = 0
       /\ IsActive(client) => \A k \in Keys : left.target.changes[k] = "none"
       /\ ~IsActive(client) => left.target = client.agg.target /\ g = client.agg
  BY <1>4 DEF RaiseGathered, Told
<1>19. Raised(h, h2, disk, disk', Version)
  <2>1. CacheGrows(disk, disk')
    BY <1>9, <1>12 DEF CacheGrows
  <2>2. \A k \in Keys : h.agg.updates[k] <= disk'.cache[k].version
    BY <1>9, <1>12, <1>16
  <2>3. CASE IsActive(h)
    <3>1. IsActive(client) /\ client.listening
      BY <1>16, <2>3 DEF IsActive
    <3>2. client.view.synced = disk.keys
      BY <1>1, <3>1 DEF StreamInv, GatherOK, ListenerOf
    <3>3. PICK added : added = ChangedTo(client.agg, "Added")
      OBVIOUS
    <3>4. PICK removed : removed = ChangedTo(client.agg, "Removed")
      OBVIOUS
    <3>5. disk'.keys = (disk.keys \cup added) \ removed /\ h2.synced = disk'.keys
      <4>1. /\ added = (IF change.any THEN change.added ELSE {})
            /\ removed = (IF change.any THEN change.removed ELSE {})
        BY <1>8, <3>1, <3>3, <3>4
      <4>2. /\ (disk.keys \cup change.added) \ change.removed
                 = (disk.keys \cup added) \ removed
            /\ (IF change.any THEN (disk.keys \cup change.added) \ change.removed
                ELSE disk.keys) = (disk.keys \cup added) \ removed
        BY <1>8, <4>1, RaiseKeys
      <4>3. h2.synced = IF change.any
                        THEN (disk.keys \cup change.added) \ change.removed
                        ELSE disk.keys
        BY <1>17, <3>1, <3>2
      <4> QED
        BY <1>12, <4>2, <4>3
    <3>6. disk'.keys = (disk.keys \cup {k \in Keys : h.agg.target.changes[k] = "Added"})
                         \ {k \in Keys : h.agg.target.changes[k] = "Removed"}
      BY <1>16, <3>3, <3>4, <3>5 DEF ChangedTo
    <3>7. left.target.token \in {Version, client.agg.target.token}
      BY <1>18 DEF Told
    <3>8. /\ h2.token \in {h.token, left.target.token}
          /\ disk'.token \in {disk.token, left.target.token}
      BY <1>11, <1>12, <1>16, <1>17, <1>18
    <3> QED
      BY <1>12, <1>16, <1>17, <1>18, <2>1, <2>2, <2>3, <3>1, <3>5, <3>6, <3>7, <3>8
      DEF Raised
  <2>4. CASE ~IsActive(h)
    <3>1. ~change.any /\ ~told /\ ~persisted
      BY <1>8, <1>10, <1>16, <2>4
    <3>2. /\ disk'.keys = disk.keys /\ disk'.token = disk.token
          /\ h2.token = h.token /\ h2.synced = h.synced
          /\ h2.agg.target = h.agg.target
      BY <1>8, <1>11, <1>12, <1>16, <1>17, <1>18, <2>4, <3>1
    <3> QED
      BY <1>12, <1>16, <1>17, <1>18, <2>1, <2>2, <2>4, <3>2 DEF Raised
  <2> QED
    BY <2>3, <2>4
<1>20. HeadStep(h, h2, wire, wire')
  <2>1. TakenOff(wire, wire') /\ client.stream = "open"
    BY <1>1, <1>2, ResponseTaken
  <2> QED
    BY <1>16, <1>17, <2>1, TakenIsHead
<1>21. /\ c \in Client /\ c.listening = client.listening
       /\ c.view.docs = client.view.docs /\ c.view.mutated = client.view.mutated
       /\ c.view.current => client.view.current
       /\ c.shown = client.shown \/ (c.listening /\ c.shown = Contents(c.view))
  BY <1>4 DEF RaiseGathered
<1>22. /\ client'.listening => Shows(client'.view, c.view, D, new, change)
       /\ ~client'.listening => (client'.view.current => c.view.current)
       /\ client'.shown = c.shown \/ (client'.listening /\ client'.shown = Contents(client'.view))
       /\ client'.listening = client.listening /\ client'.stream = client.stream
       /\ client'.agg = left
  BY <1>13 DEF Emitted
<1>25. RaisedTo(c, D, new, change)
  BY <1>2, <1>6, <1>8, <1>9, <1>12, <1>14, <1>15, <1>17, <1>18, <1>19, <1>20, <1>21, <1>22,
     <1>23, <1>24 DEF RaisedTo
<1> QED
  BY <1>25

LEMMA RaiseWatchSnapshotInv ==
  ASSUME ConstantsAssumption, WatchInv, RaiseWatchSnapshot
  PROVE  WatchInv'
<1>1. /\ TypeOK /\ StreamInv(ListenerOf(client), disk, wire, commits)
      /\ CacheMade(disk, commits) /\ UpdatesMade(ListenerOf(client), commits)
  BY DEF WatchInv, MadeOK
<1>2. /\ client \in Client /\ disk \in Disk /\ wire \in Wire /\ commits \in Seq(Commits)
      /\ ListenerOf(client) \in Listener
  BY <1>1, ListenerType DEF TypeOK
<1>3. PICK c, D, new, change : RaisedTo(c, D, new, change)
  BY RaiseEffects
<1>4. /\ OnWatchStreamChange("snapshot") /\ Version \in Nat /\ Version >= disk.lastRemote
      /\ wire.responses[1].type = "snapshot" /\ Version = wire.responses[1].version
      /\ Raised(ListenerOf(client), ListenerOf(client'), disk, disk', Version)
      /\ HeadStep(ListenerOf(client), ListenerOf(client'), wire, wire')
      /\ disk' \in Disk /\ client' \in Client
      /\ disk'.cache = CacheOf(disk, client.agg.updates)
      /\ \A k \in Keys : client'.agg.updates[k] = 0
  BY <1>3, RaiseHasParts DEF RaisedTo
<1>5. StreamInv(ListenerOf(client'), disk', wire', commits)
  BY <1>1, <1>2, <1>4, RaiseStep
<1>6. UpdatesMade(ListenerOf(client'), commits)
  <2>1. ListenerOf(client').agg = client'.agg
    BY <1>4, ListenerFieldsOf
  <2> QED
    BY <1>4, <2>1 DEF UpdatesMade
<1>7. CacheMade(disk', commits)
  <2>1. \A k \in Keys : CacheOf(disk, client.agg.updates)[k].version # 0 =>
          Made(commits, k, CacheOf(disk, client.agg.updates)[k].version)
    BY <1>1, EventDocuments
  <2> QED
    BY <1>4, <2>1 DEF CacheMade
<1> QED
  BY <1>4, <1>5, <1>6, <1>7, MessageTaken

-----------------------------------------------------------------------------
(* The stream *)

\* The stream closes or starts again: nothing is on its way any more.
LEMMA RestartedInv ==
  ASSUME WatchInv, NEW stream, NEW agg, Restarted(client, client', stream, agg),
         \/ stream = "starting" /\ agg = NewAggregator
         \/ stream = "off" /\ agg = client.agg,
         wire' = NoWire, UNCHANGED <<commits, writes, acked, disk>>
  PROVE  WatchInv'
<1>1. /\ TypeOK /\ StreamInv(ListenerOf(client), disk, wire, commits)
      /\ CacheMade(disk, commits) /\ UpdatesMade(ListenerOf(client), commits)
  BY DEF WatchInv, MadeOK
<1>2. /\ client \in Client /\ client' \in Client /\ disk \in Disk
      /\ commits \in Seq(Commits)
  BY <1>1 DEF TypeOK, Restarted
<1>3. PICK h : h = ListenerOf(client)
  OBVIOUS
<1>4. PICK h2 : h2 = ListenerOf(client')
  OBVIOUS
<1>5. /\ h \in Listener /\ h2 \in Listener
      /\ h2.listening = h.listening /\ h2.token = h.token /\ h2.synced = h.synced
      /\ h.agg = client.agg /\ h2.stream = stream /\ h2.agg = agg
  BY <1>2, <1>3, <1>4, ListenerFieldsOf DEF Restarted
<1>6. StreamInv(h2, disk, NoWire, commits)
  BY <1>1, <1>2, <1>3, <1>5, RestartStep
<1>7. UpdatesMade(h2, commits)
  <2>1. CASE agg = NewAggregator
    <3>1. \A k \in Keys : agg.updates[k] = 0
      BY <2>1 DEF NewAggregator
    <3> QED
      BY <1>5, <3>1 DEF UpdatesMade
  <2>2. CASE agg = client.agg
    BY <1>1, <1>3, <1>5, <2>2 DEF UpdatesMade
  <2> QED
    BY <2>1, <2>2
<1>8. SentMade(NoWire, commits) /\ NoWire \in Wire
  BY NoWireType DEF SentMade
<1>9. TypeOK'
  BY <1>1, <1>2, <1>8 DEF TypeOK
<1> QED
  BY <1>1, <1>4, <1>6, <1>7, <1>8, <1>9 DEF WatchInv, MadeOK

LEMMA BreakStreamInv ==
  ASSUME WatchInv, BreakStream
  PROVE  WatchInv'
<1>1. client \in Client
  BY DEF WatchInv, TypeOK
<1>2. /\ wire' = NoWire /\ UNCHANGED <<commits, writes, acked, disk>>
      /\ client' = OnWatchStreamClose(client)
  BY DEF BreakStream
<1> QED
  BY <1>1, <1>2, OnWatchStreamCloseRestarts, RestartedInv

LEMMA IdleTimeoutInv ==
  ASSUME WatchInv, IdleTimeout
  PROVE  WatchInv'
<1>1. client \in Client
  BY DEF WatchInv, TypeOK
<1>2. /\ wire' = NoWire /\ UNCHANGED <<commits, writes, acked, disk>>
      /\ client' = UpdateState(Close(client), "Unknown")
  BY DEF IdleTimeout
<1> QED
  BY <1>1, <1>2, StopRestarts, RestartedInv

LEMMA RestartNetworkInv ==
  ASSUME WatchInv, RestartNetwork
  PROVE  WatchInv'
<1>1. client \in Client
  BY DEF WatchInv, TypeOK
<1>2. PICK stopped : stopped = UpdateState(Close(client), "Unknown")
  OBVIOUS
<1>3. /\ wire' = NoWire /\ UNCHANGED <<commits, writes, acked, disk>>
      /\ client' = IF client.listening THEN StartWatchStream(stopped) ELSE stopped
  BY <1>2 DEF RestartNetwork
<1>4. Restarted(client, stopped, "off", client.agg) /\ stopped \in Client
  BY <1>1, <1>2, StopRestarts DEF Restarted
<1>5. CASE client.listening
  <2>1. Restarted(stopped, client', "starting", NewAggregator)
    BY <1>3, <1>4, <1>5, StartWatchStreamRestarts
  <2>2. Restarted(client, client', "starting", NewAggregator)
    BY <1>4, <2>1, RestartedTwice
  <2> QED
    BY <1>3, <2>2, RestartedInv
<1>6. CASE ~client.listening
  BY <1>3, <1>4, <1>6, RestartedInv
<1> QED
  BY <1>5, <1>6

LEMMA OnlineStateTimeoutInv ==
  ASSUME WatchInv, OnlineStateTimeout
  PROVE  WatchInv'
<1>1. TypeOK /\ client \in Client
  BY DEF WatchInv, TypeOK
<1>2. PICK b : b = [client EXCEPT !.timer = FALSE]
  OBVIOUS
<1>3. b \in Client /\ ListenerOf(b) = ListenerOf(client)
  BY <1>1, <1>2 DEF Client, ListenerOf
<1>4. Quiet(b, client')
  BY <1>2, <1>3, SetAndBroadcastQuiet DEF OnlineStateTimeout, OnlineStates
<1>5. /\ client' \in Client /\ ListenerOf(client') = ListenerOf(client)
      /\ UNCHANGED <<commits, writes, acked, disk, wire>>
  BY <1>3, <1>4 DEF Quiet, OnlineStateTimeout
<1>6. TypeOK'
  BY <1>1, <1>5 DEF TypeOK
<1> QED
  BY <1>5, <1>6 DEF WatchInv

LEMMA NewClientType ==
  /\ NewClient \in Client /\ ~NewClient.listening /\ NewClient.token = 0
  /\ NewClient.stream = "off" /\ NewClient.agg = NewAggregator
  /\ NewClient.view = NoView
<1>1. NoView \in View
  <2>1. NoDoc \in Doc
    BY DEF NoDoc, Doc
  <2> QED
    BY <2>1 DEF NoView, View
<1> QED
  BY <1>1, NewAggregatorType DEF NewClient, Client

\* The process ends: nothing is listened to, and the disk stays.
LEMMA EndProcessInv ==
  ASSUME WatchInv, EndProcess
  PROVE  WatchInv'
<1>1. /\ TypeOK /\ StreamInv(ListenerOf(client), disk, wire, commits)
      /\ CacheMade(disk, commits)
  BY DEF WatchInv, MadeOK
<1>2. client \in Client /\ disk \in Disk /\ commits \in Seq(Commits)
  BY <1>1 DEF TypeOK
<1>3. client' = [NewClient EXCEPT !.shown = client.shown] /\ wire' = NoWire
      /\ UNCHANGED <<commits, writes, acked, disk>>
  BY DEF EndProcess
<1>4. NewClient \in Client /\ client.shown \in [Keys -> Nat]
  BY <1>2, ClientFields, NewClientType
<1>5. /\ client' \in Client /\ ~client'.listening /\ client'.token = 0
      /\ client'.stream = "off" /\ client'.agg = NewAggregator
  BY <1>3, <1>4, NewClientType DEF Client
<1>6. PICK h2 : h2 = ListenerOf(client')
  OBVIOUS
<1>7. /\ h2 \in Listener /\ ~h2.listening /\ h2.token = 0 /\ h2.stream = "off"
      /\ h2.agg = NewAggregator
  BY <1>5, <1>6, ListenerFieldsOf
<1>8. /\ disk.token <= disk.lastRemote /\ disk.lastRemote <= Len(commits)
      /\ DiskCovers(disk, commits, disk.token)
  BY <1>1 DEF StreamInv, Bounds, TokensOK
<1>9. h2.token <= disk.lastRemote
  BY <1>2, <1>7 DEF Disk
<1>10. GatherOK(h2, disk) /\ TokensOK(h2, disk, commits)
  BY <1>7, <1>8, NothingGathered DEF GatherOK, TokensOK, IsActive
<1>11. StreamInv(h2, disk, NoWire, commits)
  BY <1>2, <1>7, <1>8, <1>9, <1>10, ShutInv
<1>12. UpdatesMade(h2, commits)
  <2>1. \A k \in Keys : h2.agg.updates[k] = 0
    BY <1>7 DEF NewAggregator
  <2> QED
    BY <2>1 DEF UpdatesMade
<1>13. SentMade(NoWire, commits) /\ NoWire \in Wire
  BY NoWireType DEF SentMade
<1>14. TypeOK'
  BY <1>1, <1>3, <1>5, <1>13 DEF TypeOK
<1> QED
  BY <1>1, <1>3, <1>6, <1>11, <1>12, <1>13, <1>14 DEF WatchInv, MadeOK

\* The stream opens.
LEMMA OnWatchStreamOpenInv ==
  ASSUME WatchInv, OnWatchStreamOpen
  PROVE  WatchInv'
<1>1. /\ TypeOK /\ StreamInv(ListenerOf(client), disk, wire, commits)
      /\ CacheMade(disk, commits)
  BY DEF WatchInv, MadeOK
<1>2. /\ client \in Client /\ disk \in Disk /\ wire \in Wire /\ commits \in Seq(Commits)
  BY <1>1 DEF TypeOK
<1>3. client.stream = "starting" /\ UNCHANGED <<commits, writes, acked, disk>>
  BY DEF OnWatchStreamOpen
<1>4. client.agg = NewAggregator
  BY <1>1, <1>3 DEF StreamInv, StreamOK, ListenerOf
<1>5. PICK open : open = [client EXCEPT !.stream = "open"]
  OBVIOUS
<1>6. /\ open \in Client /\ open.listening = client.listening
      /\ open.token = client.token /\ open.stream = "open"
      /\ open.view = client.view /\ open.agg = client.agg
  BY <1>2, <1>5 DEF Client
<1>7. PICK agg : /\ Gathers(open, client', agg)
                 /\ agg.target.outstanding = (IF client.listening THEN 1 ELSE 0)
                 /\ agg.target.changes = client.agg.target.changes
                 /\ agg.target.pending = client.agg.target.pending
                 /\ agg.target.token = client.agg.target.token
                 /\ agg.updates = client.agg.updates
  <2>1. client.agg.target.outstanding = 0
    BY <1>4, NothingGathered
  <2>2. CASE client.listening
    <3>1. client' = RecordPendingTargetRequest(open)
      BY <1>5, <2>2 DEF OnWatchStreamOpen
    <3> QED
      BY <1>6, <2>1, <2>2, <3>1, RequestRecorded
  <2>3. CASE ~client.listening
    <3>1. client' = open
      BY <1>5, <2>3 DEF OnWatchStreamOpen
    <3>2. Gathers(open, open, client.agg)
      BY <1>2, <1>6, ClientFields DEF Gathers
    <3> QED
      BY <2>1, <2>3, <3>1, <3>2
  <2> QED
    BY <2>2, <2>3
<1>8. /\ client' \in Client /\ client'.agg = agg /\ client'.listening = client.listening
      /\ client'.token = client.token /\ client'.stream = "open"
      /\ client'.view.synced = client.view.synced
  BY <1>6, <1>7 DEF Gathers
<1>9. PICK h : h = ListenerOf(client)
  OBVIOUS
<1>10. PICK h2 : h2 = ListenerOf(client')
  OBVIOUS
<1>11. /\ h \in Listener /\ h2 \in Listener /\ h.stream = "starting" /\ h2.stream = "open"
       /\ h2.listening = h.listening /\ h2.token = h.token /\ h2.synced = h.synced
       /\ h.agg = client.agg /\ h2.agg = agg /\ h.listening = client.listening
       /\ h.token = client.token
  BY <1>2, <1>3, <1>8, <1>9, <1>10, ListenerFieldsOf
<1>12. /\ wire' \in Wire /\ wire'.responses = <<>> /\ wire'.upTo = 0
       /\ wire'.requests = (IF h.listening THEN <<WatchRequest(h)>> ELSE <<>>)
  <2>1. WatchRequest(client) = WatchRequest(h)
    BY <1>11 DEF WatchRequest
  <2>2. WatchRequest(h) \in Requests
    BY <1>11 DEF WatchRequest, Requests, Listener
  <2>3. CASE client.listening
    <3>1. wire' = [NoWire EXCEPT !.requests = <<WatchRequest(h)>>]
      BY <2>1, <2>3 DEF OnWatchStreamOpen
    <3>2. PICK asked : asked = <<WatchRequest(h)>>
      OBVIOUS
    <3>3. asked \in Seq(Requests)
      BY <2>2, <3>2
    <3>4. wire' = [NoWire EXCEPT !.requests = asked]
      BY <3>1, <3>2
    <3>5. /\ wire' \in Wire /\ wire'.requests = asked
          /\ wire'.responses = <<>> /\ wire'.upTo = 0
      BY <3>3, <3>4, NoWireType DEF Wire
    <3> QED
      BY <1>11, <2>3, <3>2, <3>5
  <2>4. CASE ~client.listening
    <3>1. wire' = NoWire
      BY <2>4 DEF OnWatchStreamOpen
    <3> QED
      BY <1>11, <2>4, <3>1, NoWireType
  <2> QED
    BY <2>3, <2>4
<1>13. StreamInv(h2, disk, wire', commits)
  BY <1>1, <1>2, <1>7, <1>9, <1>11, <1>12, OpenStep
<1>14. UpdatesMade(h2, commits)
  <2>1. \A k \in Keys : h2.agg.updates[k] = 0
    BY <1>4, <1>7, <1>11 DEF NewAggregator
  <2> QED
    BY <2>1 DEF UpdatesMade
<1>15. SentMade(wire', commits)
  BY <1>12 DEF SentMade
<1>16. TypeOK'
  BY <1>1, <1>3, <1>8, <1>12 DEF TypeOK
<1> QED
  BY <1>1, <1>3, <1>10, <1>13, <1>14, <1>15, <1>16 DEF WatchInv, MadeOK

-----------------------------------------------------------------------------
(* The chat screen and the device's writes *)

\* Documents without a target change leave the listener as it is.
LEMMA EmitKeepsListener ==
  ASSUME NEW c \in Client, NEW D \in SUBSET Keys, NEW new \in [D -> Doc],
         NEW d, d = EmitNewSnapshots(c, new, NoChange)
  PROVE  d \in Client /\ ListenerOf(d) = ListenerOf(c)
<1>1. NoChange \in Change /\ ~NoChange.any
  BY DEF NoChange, Change
<1>2. Emits(c, d, new, NoChange)
  BY <1>1, EmitsSnapshot
<1>3. CASE ~c.listening
  BY <1>2, <1>3 DEF Emits
<1>4. CASE c.listening
  <2>1. c.view \in View
    BY ClientFields
  <2>2. Shows(NextView(c.view, new, NoChange), c.view, D, new, NoChange)
    BY <1>1, <2>1, NextViewShows
  <2>3. d.view.synced = c.view.synced
    BY <1>1, <1>2, <1>4, <2>2 DEF Emits, Shows
  <2> QED
    BY <1>2, <2>3, SameListener DEF Emits
<1> QED
  BY <1>3, <1>4

LEMMA WriteMutationsInv ==
  ASSUME ConstantsAssumption, WatchInv, NEW k \in Keys, WriteMutations(k)
  PROVE  WatchInv'
<1>1. /\ TypeOK /\ CacheMade(disk, commits)
      /\ client \in Client /\ disk \in Disk /\ commits \in Seq(Commits)
      /\ writes \in Seq(Keys) /\ acked \in Nat
  BY DEF WatchInv, MadeOK, TypeOK
<1>2. writes' = Append(writes, k) /\ UNCHANGED <<commits, acked, disk, wire>>
  BY DEF WriteMutations
<1>3. writes' \in Seq(Keys)
  BY <1>1, <1>2, AppendProperties
<1>4. PICK D : D = {k}
  OBVIOUS
<1>5. PICK new : new = [j \in D |-> LocalDoc(disk.cache, writes', acked, j)]
  OBVIOUS
<1>6. new \in [D -> Doc]
  <2>1. disk.cache \in [Keys -> Cached]
    BY <1>1 DEF Disk
  <2>2. disk.cache[k].version # 0 => Made(commits, k, disk.cache[k].version)
    BY <1>1 DEF CacheMade
  <2>3. LocalDoc(disk.cache, writes', acked, k) \in Doc
    BY <1>1, <1>3, <2>1, <2>2, LocalDocType
  <2> QED
    BY <1>4, <1>5, <2>3
<1>7. client' = EmitNewSnapshots(client, new, NoChange)
  BY <1>4, <1>5 DEF WriteMutations
<1>8. client' \in Client /\ ListenerOf(client') = ListenerOf(client)
  BY <1>1, <1>4, <1>6, <1>7, EmitKeepsListener
<1>9. TypeOK'
  BY <1>1, <1>2, <1>3, <1>8 DEF TypeOK
<1> QED
  BY <1>2, <1>8, <1>9 DEF WatchInv

\* The cache takes the acknowledged write unless a newer document is there.
AckedCache(cache, k, v) ==
  IF cache[k].version >= v THEN cache
  ELSE [cache EXCEPT ![k] = [version |-> v, byAck |-> TRUE]]

LEMMA AckedCacheGrows ==
  ASSUME NEW cache \in [Keys -> Cached], NEW k \in Keys, NEW v \in Nat
  PROVE  /\ AckedCache(cache, k, v) \in [Keys -> Cached]
         /\ \A j \in Keys :
              /\ cache[j].version <= AckedCache(cache, k, v)[j].version
              /\ \/ AckedCache(cache, k, v)[j] = cache[j]
                 \/ j = k /\ AckedCache(cache, k, v)[j].version = v
<1>1. \A j \in Keys : cache[j] \in Cached /\ cache[j].version \in Nat
  BY DEF Cached
<1>2. CASE cache[k].version >= v
  <2>1. AckedCache(cache, k, v) = cache
    BY <1>2 DEF AckedCache
  <2> QED
    BY <1>1, <2>1
<1>3. CASE ~(cache[k].version >= v)
  <2>1. PICK doc : doc = [version |-> v, byAck |-> TRUE]
    OBVIOUS
  <2>2. doc \in Cached /\ doc.version = v
    BY <2>1 DEF Cached
  <2>3. AckedCache(cache, k, v) = [cache EXCEPT ![k] = doc]
    BY <1>3, <2>1 DEF AckedCache
  <2> QED
    BY <1>1, <1>3, <2>2, <2>3
<1> QED
  BY <1>2, <1>3

LEMMA HandleSuccessfulWriteInv ==
  ASSUME ConstantsAssumption, WatchInv, HandleSuccessfulWrite
  PROVE  WatchInv'
<1>1. /\ TypeOK /\ CacheMade(disk, commits) /\ UpdatesMade(ListenerOf(client), commits)
      /\ SentMade(wire, commits) /\ StreamInv(ListenerOf(client), disk, wire, commits)
      /\ client \in Client /\ disk \in Disk /\ commits \in Seq(Commits)
      /\ writes \in Seq(Keys) /\ acked \in Nat /\ wire \in Wire
  BY DEF WatchInv, MadeOK, TypeOK
<1>2. PICK v \in DOMAIN commits :
        /\ commits[v].own = acked + 1
        /\ acked' = acked + 1
        /\ disk' = [disk EXCEPT !.cache = AckedCache(disk.cache, commits[v].key, v)]
        /\ client' = EmitNewSnapshots(client,
                       [j \in {commits[v].key} |->
                          LocalDoc(AckedCache(disk.cache, commits[v].key, v),
                                   writes, acked', j)], NoChange)
        /\ UNCHANGED <<commits, writes, wire, counters>>
  BY Zenon DEF HandleSuccessfulWrite, AckedCache
<1>3. v \in 1..Len(commits) /\ v \in Nat /\ commits[v] \in Commits
  BY <1>1, LenProperties, ElementOfSeq
<1>4. PICK k \in Keys : k = commits[v].key
  BY <1>3 DEF Commits
<1>5. Made(commits, k, v)
  BY <1>3, <1>4 DEF Made
<1>6. disk.cache \in [Keys -> Cached]
  BY <1>1 DEF Disk
<1>7. PICK cache \in [Keys -> Cached] :
        /\ cache = AckedCache(disk.cache, k, v)
        /\ \A j \in Keys :
              /\ disk.cache[j].version <= cache[j].version
              /\ cache[j] = disk.cache[j] \/ (j = k /\ cache[j].version = v)
  BY <1>3, <1>6, AckedCacheGrows
<1>8. disk' = [disk EXCEPT !.cache = cache]
  BY <1>2, <1>4, <1>7
<1>9. /\ disk' \in Disk /\ disk'.cache = cache /\ disk'.keys = disk.keys
      /\ disk'.token = disk.token /\ disk'.lastRemote = disk.lastRemote
  BY <1>1, <1>7, <1>8 DEF Disk
<1>10. CacheGrows(disk, disk')
  BY <1>7, <1>9 DEF CacheGrows
<1>11. CacheMade(disk', commits)
  BY <1>1, <1>5, <1>7, <1>9 DEF CacheMade
<1>12. PICK D : D = {k}
  OBVIOUS
<1>13. acked' \in Nat
  BY <1>1, <1>2
<1>14. PICK new : new = [j \in D |-> LocalDoc(cache, writes, acked', j)]
  OBVIOUS
<1>15. new \in [D -> Doc]
  <2>1. cache[k].version # 0 => Made(commits, k, cache[k].version)
    BY <1>9, <1>11 DEF CacheMade
  <2>2. LocalDoc(cache, writes, acked', k) \in Doc
    BY <1>1, <1>7, <1>13, <2>1, LocalDocType
  <2> QED
    BY <1>12, <1>14, <2>2
<1>16. client' = EmitNewSnapshots(client, new, NoChange)
  BY <1>2, <1>4, <1>7, <1>12, <1>14
<1>17. client' \in Client /\ ListenerOf(client') = ListenerOf(client)
  BY <1>1, <1>12, <1>15, <1>16, EmitKeepsListener, ZenonT(60)
<1>18. StreamInv(ListenerOf(client), disk', wire, commits)
  <2>1. ListenerOf(client) \in Listener
    BY <1>1, ListenerType
  <2> QED
    BY <1>1, <1>9, <1>10, <2>1, CacheStep
<1>19. TypeOK'
  BY <1>1, <1>2, <1>9, <1>13, <1>17 DEF TypeOK
<1> QED
  BY <1>1, <1>2, <1>11, <1>17, <1>18, <1>19 DEF WatchInv, MadeOK

\* A request goes behind those that wait.
LEMMA RequestSent ==
  ASSUME NEW w \in Wire, NEW r \in Requests, NEW w2,
         w2 = [w EXCEPT !.requests = Append(@, r)]
  PROVE  /\ w2 \in Wire /\ w2.requests = Append(w.requests, r)
         /\ w2.responses = w.responses /\ w2.upTo = w.upTo
<1>1. PICK sent : sent = Append(w.requests, r)
  OBVIOUS
<1>2. sent \in Seq(Requests)
  BY <1>1, WireType, AppendProperties
<1>3. w2 = [w EXCEPT !.requests = sent]
  BY <1>1 DEF Wire
<1> QED
  BY <1>1, <1>2, <1>3 DEF Wire

\* A request of the client on its open stream, with the listener it is for.
Asked(b, r, d2) ==
  /\ client.stream = "open" /\ b \in Client /\ b.stream = "open"
  /\ b.agg = client.agg /\ r \in Requests /\ d2 \in Disk
  /\ b.listening => r = WatchRequest(b) /\ b.view.synced = d2.keys
  /\ d2.lastRemote = disk.lastRemote /\ d2.cache = disk.cache
  /\ d2.token <= disk.lastRemote /\ b.token <= disk.lastRemote
  /\ r.token <= disk.lastRemote /\ TokensOK(b, d2, commits)

LEMMA AskedInv ==
  ASSUME WatchInv, NEW b, NEW r, NEW idle \in BOOLEAN, Asked(b, r, disk'), Send(r),
         client' = [RecordPendingTargetRequest(b) EXCEPT !.idle = idle],
         UNCHANGED <<commits, writes, acked>>
  PROVE  WatchInv'
<1>1. /\ TypeOK /\ CacheMade(disk, commits) /\ UpdatesMade(ListenerOf(client), commits)
      /\ SentMade(wire, commits) /\ StreamInv(ListenerOf(client), disk, wire, commits)
      /\ client \in Client /\ disk \in Disk /\ commits \in Seq(Commits) /\ wire \in Wire
  BY DEF WatchInv, MadeOK, TypeOK
<1>2. /\ client.stream = "open" /\ b \in Client /\ b.stream = "open"
      /\ b.agg = client.agg /\ r \in Requests /\ disk' \in Disk
      /\ b.listening => r = WatchRequest(b) /\ b.view.synced = disk'.keys
      /\ disk'.lastRemote = disk.lastRemote /\ disk'.cache = disk.cache
      /\ disk'.token <= disk.lastRemote /\ b.token <= disk.lastRemote
      /\ r.token <= disk.lastRemote /\ TokensOK(b, disk', commits)
  BY DEF Asked
<1>3. PICK c : c = RecordPendingTargetRequest(b)
  OBVIOUS
<1>4. PICK agg : /\ Gathers(b, c, agg)
                 /\ agg.target.outstanding = client.agg.target.outstanding + 1
                 /\ agg.target.changes = client.agg.target.changes
                 /\ agg.target.pending = client.agg.target.pending
                 /\ agg.target.token = client.agg.target.token
                 /\ agg.updates = client.agg.updates
  BY <1>2, <1>3, RequestRecorded
<1>5. /\ c \in Client /\ c.agg = agg /\ c.listening = b.listening /\ c.token = b.token
      /\ c.stream = "open" /\ c.view = b.view
  BY <1>2, <1>4 DEF Gathers
<1>6. /\ client' \in Client /\ client'.agg = agg /\ client'.listening = b.listening
      /\ client'.token = b.token /\ client'.stream = "open" /\ client'.view = b.view
  BY <1>3, <1>5 DEF Client
<1>7. PICK h : h = ListenerOf(client)
  OBVIOUS
<1>8. PICK h2 : h2 = ListenerOf(client')
  OBVIOUS
<1>9. /\ h \in Listener /\ h.stream = "open" /\ h.agg = client.agg
      /\ h2 \in Listener /\ h2.stream = "open" /\ h2.agg = agg
      /\ h2.listening = b.listening /\ h2.token = b.token /\ h2.synced = b.view.synced
  BY <1>1, <1>2, <1>6, <1>7, <1>8, ListenerFieldsOf
<1>10. h2.listening => r = WatchRequest(h2) /\ h2.synced = disk'.keys
  BY <1>2, <1>9 DEF WatchRequest
<1>11. TokensOK(h2, disk', commits)
  BY <1>2, <1>9 DEF TokensOK
<1>12. /\ wire' \in Wire /\ wire'.requests = Append(wire.requests, r)
       /\ wire'.responses = wire.responses /\ wire'.upTo = wire.upTo
  BY <1>1, <1>2, RequestSent DEF Send
<1>13. StreamInv(h2, disk', wire', commits)
  BY <1>1, <1>2, <1>4, <1>7, <1>9, <1>10, <1>11, <1>12, AskStep
<1>14. UpdatesMade(h2, commits)
  BY <1>1, <1>4, <1>7, <1>9 DEF UpdatesMade
<1>15. CacheMade(disk', commits) /\ SentMade(wire', commits)
  BY <1>1, <1>2, <1>12 DEF CacheMade, SentMade
<1>16. TypeOK'
  BY <1>1, <1>2, <1>6, <1>12 DEF TypeOK
<1> QED
  BY <1>8, <1>13, <1>14, <1>15, <1>16 DEF WatchInv, MadeOK

\* A listener that comes or goes while the stream is not open.
LEMMA ShutClientInv ==
  ASSUME WatchInv, client.stream # "open", client' \in Client, disk' \in Disk,
         \/ client'.agg = NewAggregator
         \/ ~client'.listening /\ client'.stream = client.stream /\ client'.agg = client.agg,
         client'.stream # "open",
         client'.listening => client'.view.synced = disk'.keys,
         disk'.lastRemote = disk.lastRemote, disk'.cache = disk.cache,
         disk'.token <= disk.lastRemote, client'.token <= disk.lastRemote,
         TokensOK(ListenerOf(client'), disk', commits),
         UNCHANGED <<commits, writes, acked, wire>>
  PROVE  WatchInv'
<1>1. /\ TypeOK /\ CacheMade(disk, commits) /\ UpdatesMade(ListenerOf(client), commits)
      /\ SentMade(wire, commits) /\ StreamInv(ListenerOf(client), disk, wire, commits)
      /\ client \in Client /\ disk \in Disk /\ commits \in Seq(Commits) /\ wire \in Wire
  BY DEF WatchInv, MadeOK, TypeOK
<1>2. PICK h : h = ListenerOf(client)
  OBVIOUS
<1>3. PICK h2 : h2 = ListenerOf(client')
  OBVIOUS
<1>4. /\ h \in Listener /\ h.stream = client.stream /\ h.agg = client.agg
      /\ h2 \in Listener /\ h2.stream = client'.stream /\ h2.agg = client'.agg
      /\ h2.listening = client'.listening /\ h2.token = client'.token
      /\ h2.synced = client'.view.synced
  BY <1>1, <1>2, <1>3, ListenerFieldsOf
<1>5. /\ wire = NoWire /\ (h.stream = "starting" => h.agg = NewAggregator)
      /\ (~h.agg.target.pending => \A k \in Keys : h.agg.target.changes[k] = "none")
      /\ disk.lastRemote <= Len(commits)
  BY <1>1, <1>2, <1>4 DEF StreamInv, StreamOK, GatherOK, Bounds
<1>6. h2.stream = "starting" => h2.agg = NewAggregator
  BY <1>4, <1>5
<1>7. GatherOK(h2, disk')
  <2>1. CASE h2.agg = NewAggregator
    <3>1. \A k \in Keys : h2.agg.target.changes[k] = "none"
      BY <2>1, NothingGathered
    <3> QED
      BY <1>4, <3>1 DEF GatherOK
  <2>2. CASE ~h2.listening /\ h2.agg = h.agg
    BY <1>5, <2>2 DEF GatherOK, IsActive
  <2> QED
    BY <1>4, <2>1, <2>2
<1>8. StreamInv(h2, disk', wire, commits)
  BY <1>1, <1>3, <1>4, <1>5, <1>6, <1>7, ShutInv
<1>9. UpdatesMade(h2, commits)
  <2>1. CASE h2.agg = NewAggregator
    <3>1. \A k \in Keys : h2.agg.updates[k] = 0
      BY <2>1 DEF NewAggregator
    <3> QED
      BY <3>1 DEF UpdatesMade
  <2>2. CASE h2.agg = h.agg
    BY <1>1, <1>2, <2>2 DEF UpdatesMade
  <2> QED
    BY <1>4, <2>1, <2>2
<1>10. CacheMade(disk', commits)
  BY <1>1 DEF CacheMade
<1>11. TypeOK'
  BY <1>1 DEF TypeOK
<1> QED
  BY <1>1, <1>3, <1>8, <1>9, <1>10, <1>11 DEF WatchInv, MadeOK

\* The view starts with the documents and the keys on disk.
LEMMA FirstViewType ==
  ASSUME ConstantsAssumption, TypeOK, CacheMade(disk, commits)
  PROVE  FirstView \in View /\ FirstView.synced = disk.keys /\ ~FirstView.current
<1>1. /\ disk \in Disk /\ commits \in Seq(Commits) /\ writes \in Seq(Keys)
      /\ acked \in Nat /\ disk.keys \in SUBSET Keys /\ disk.cache \in [Keys -> Cached]
  BY DEF TypeOK, Disk
<1>2. PICK v : v = [NoView EXCEPT !.synced = disk.keys]
  OBVIOUS
<1>3. v \in View /\ v.synced = disk.keys /\ ~v.current
  <2>1. NoView \in View /\ ~NoView.current
    BY DEF NoView, NoDoc, View, Doc
  <2> QED
    BY <1>1, <1>2, <2>1 DEF View
<1>4. PICK new : new = [k \in Keys |-> LocalDoc(disk.cache, writes, acked, k)]
  OBVIOUS
<1>5. new \in [Keys -> Doc]
  <2>1. \A k \in Keys : LocalDoc(disk.cache, writes, acked, k) \in Doc
    <3> SUFFICES ASSUME NEW k \in Keys
                 PROVE  LocalDoc(disk.cache, writes, acked, k) \in Doc
      OBVIOUS
    <3>1. disk.cache[k].version # 0 => Made(commits, k, disk.cache[k].version)
      BY DEF CacheMade
    <3> QED
      BY <1>1, <3>1, LocalDocType
  <2> QED
    BY <1>4, <2>1
<1>6. NoChange \in Change /\ ~NoChange.any
  BY DEF NoChange, Change
<1>7. Shows(NextView(v, new, NoChange), v, Keys, new, NoChange)
  BY <1>3, <1>5, <1>6, NextViewShows
<1>8. FirstView = NextView(v, new, NoChange)
  BY <1>2, <1>4 DEF FirstView
<1> QED
  BY <1>3, <1>6, <1>7, <1>8 DEF Shows

LEMMA ListenInv ==
  ASSUME ConstantsAssumption, WatchInv, Listen
  PROVE  WatchInv'
<1>1. /\ TypeOK /\ CacheMade(disk, commits) /\ StreamInv(ListenerOf(client), disk, wire, commits)
      /\ client \in Client /\ disk \in Disk
  BY DEF WatchInv, MadeOK, TypeOK
<1>2. PICK view : view = FirstView
  OBVIOUS
<1>3. view \in View /\ view.synced = disk.keys
  BY <1>1, <1>2, FirstViewType
<1>4. PICK b : b = [client EXCEPT !.listening = TRUE, !.token = disk.token,
                                  !.view = view, !.raised = FALSE]
  OBVIOUS
<1>5. disk.token \in Nat
  BY <1>1 DEF Disk
<1>6. /\ b \in Client /\ b.listening /\ b.token = disk.token /\ b.view = view
      /\ b.stream = client.stream /\ b.agg = client.agg
  BY <1>1, <1>3, <1>4, <1>5 DEF Client
<1>7. PICK heard : heard = OnViewSnapshot(b, NoView)
  OBVIOUS
<1>8. Quiet(b, heard)
  BY <1>6, <1>7, OnViewSnapshotQuiet
<1>9. /\ heard \in Client /\ heard.listening /\ heard.token = disk.token
      /\ heard.view.synced = disk.keys /\ heard.stream = client.stream
      /\ heard.agg = client.agg
  BY <1>3, <1>6, <1>8, SameListener DEF Quiet
<1>10. /\ DiskCovers(disk, commits, disk.token)
       /\ disk.token <= disk.lastRemote
       /\ client.stream = "starting" => client.agg = NewAggregator
  BY <1>1 DEF StreamInv, TokensOK, Bounds, StreamOK, ListenerOf
<1>11. UNCHANGED <<commits, writes, acked, disk>>
  BY DEF Listen
<1>12. heard = OnViewSnapshot([client EXCEPT !.listening = TRUE, !.token = disk.token,
                                             !.view = FirstView, !.raised = FALSE], NoView)
  BY <1>2, <1>4, <1>7
<1>13. CASE client.stream = "off"
  <2>1. client' = StartWatchStream(heard) /\ UNCHANGED wire
    BY <1>12, <1>13 DEF Listen
  <2>2. Restarted(heard, client', "starting", NewAggregator)
    BY <1>9, <2>1, StartWatchStreamRestarts
  <2>3. /\ client' \in Client /\ client'.listening /\ client'.token = disk.token
        /\ client'.view.synced = disk.keys /\ client'.stream = "starting"
        /\ client'.agg = NewAggregator
    BY <1>9, <2>2 DEF Restarted
  <2>4. TokensOK(ListenerOf(client'), disk', commits)
    BY <1>10, <1>11, <2>3 DEF TokensOK, ListenerOf
  <2> QED
    BY <1>1, <1>10, <1>11, <1>13, <2>1, <2>3, <2>4, ShutClientInv
<1>14. CASE client.stream = "starting"
  <2>1. client' = heard /\ UNCHANGED wire
    BY <1>12, <1>14 DEF Listen
  <2>2. TokensOK(ListenerOf(client'), disk', commits)
    BY <1>9, <1>10, <1>11, <2>1 DEF TokensOK, ListenerOf
  <2> QED
    BY <1>1, <1>9, <1>10, <1>11, <1>14, <2>1, <2>2, ShutClientInv
<1>15. CASE client.stream = "open"
  <2>1. PICK r : r = WatchRequest(heard)
    OBVIOUS
  <2>2. /\ client' = [RecordPendingTargetRequest(heard) EXCEPT !.idle = FALSE]
        /\ Send(r)
    BY <1>12, <1>15, <2>1 DEF Listen
  <2>3. r \in Requests /\ r.token = disk.token
    BY <1>5, <1>9, <2>1 DEF WatchRequest, Requests
  <2>4. TokensOK(heard, disk', commits)
    BY <1>9, <1>10, <1>11 DEF TokensOK
  <2>5. Asked(heard, r, disk')
    BY <1>1, <1>9, <1>10, <1>11, <1>15, <2>1, <2>3, <2>4 DEF Asked
  <2> QED
    BY <1>11, <2>2, <2>5, AskedInv
<1> QED
  BY <1>1, <1>13, <1>14, <1>15, ClientFields

LEMMA StopListeningInv ==
  ASSUME WatchInv, StopListening
  PROVE  WatchInv'
<1>1. /\ TypeOK /\ StreamInv(ListenerOf(client), disk, wire, commits)
      /\ client \in Client /\ disk \in Disk
  BY DEF WatchInv, TypeOK
<1>2. client.listening /\ UNCHANGED <<commits, writes, acked>>
      /\ disk' = [disk EXCEPT !.token = client.token]
  BY DEF StopListening
<1>3. client.token \in Nat
  BY <1>1, ClientFields
<1>4. /\ disk' \in Disk /\ disk'.token = client.token /\ disk'.cache = disk.cache
      /\ disk'.keys = disk.keys /\ disk'.lastRemote = disk.lastRemote
  BY <1>1, <1>2, <1>3 DEF Disk
<1>5. /\ DiskCovers(disk, commits, client.token)
      /\ client.token <= disk.lastRemote
  BY <1>1, <1>2 DEF StreamInv, TokensOK, Bounds, ListenerOf
<1>6. DiskCovers(disk', commits, client.token)
  BY <1>4, <1>5 DEF DiskCovers, Held
<1>7. PICK gone : gone = [client EXCEPT !.listening = FALSE, !.token = 0,
                                        !.view = NoView, !.raised = FALSE]
  OBVIOUS
<1>8. NoView \in View
  BY NewClientType, ClientFields
<1>9. /\ gone \in Client /\ ~gone.listening /\ gone.token = 0
      /\ gone.stream = client.stream /\ gone.agg = client.agg
  BY <1>1, <1>7, <1>8 DEF Client
<1>10. 0 <= disk.lastRemote
  BY <1>1 DEF Disk
<1>11. CASE client.stream = "open"
  <2>1. PICK r : r = UnwatchRequest
    OBVIOUS
  <2>2. /\ client' = [RecordPendingTargetRequest(gone) EXCEPT !.idle = TRUE]
        /\ Send(r)
    BY <1>7, <1>11, <2>1 DEF StopListening, StopTarget
  <2>3. r \in Requests /\ r.token = 0
    BY <2>1 DEF UnwatchRequest, Requests
  <2>4. TokensOK(gone, disk', commits)
    BY <1>4, <1>6, <1>9 DEF TokensOK
  <2>5. Asked(gone, r, disk')
    BY <1>4, <1>5, <1>9, <1>10, <1>11, <2>3, <2>4 DEF Asked
  <2> QED
    BY <1>2, <2>2, <2>5, AskedInv
<1>12. CASE client.stream # "open"
  <2>1. client' = UpdateState(gone, "Unknown") /\ UNCHANGED wire
    BY <1>7, <1>12 DEF StopListening, StopTarget
  <2>2. Quiet(gone, client')
    BY <1>9, <2>1, UpdateStateQuiet DEF OnlineStates
  <2>3. /\ client' \in Client /\ ~client'.listening /\ client'.token = 0
        /\ client'.stream = client.stream /\ client'.agg = client.agg
    BY <1>9, <2>2, SameListener DEF Quiet
  <2>4. TokensOK(ListenerOf(client'), disk', commits)
    BY <1>4, <1>6, <2>3 DEF TokensOK, ListenerOf
  <2> QED
    BY <1>2, <1>4, <1>5, <1>10, <1>12, <2>1, <2>3, <2>4, ShutClientInv
<1> QED
  BY <1>11, <1>12

-----------------------------------------------------------------------------
(* The server *)

LEMMA MadeLater ==
  ASSUME NEW log \in Seq(Commits), NEW e \in Commits, NEW k, NEW v, Made(log, k, v)
  PROVE  Made(Append(log, e), k, v)
<1>1. PICK t : t = Append(log, e)
  OBVIOUS
<1>2. Len(log) \in Nat /\ Len(t) = Len(log) + 1 /\ \A i \in 1..Len(log) : t[i] = log[i]
  BY <1>1, AppendProperties, LenProperties
<1> QED
  BY <1>1, <1>2 DEF Made

LEMMA CommitInv ==
  ASSUME WatchInv, NEW k \in Keys, NEW own \in Nat, Commit(k, own)
  PROVE  WatchInv'
<1>1. /\ TypeOK /\ CacheMade(disk, commits) /\ UpdatesMade(ListenerOf(client), commits)
      /\ SentMade(wire, commits) /\ StreamInv(ListenerOf(client), disk, wire, commits)
      /\ client \in Client /\ disk \in Disk /\ commits \in Seq(Commits) /\ wire \in Wire
  BY DEF WatchInv, MadeOK, TypeOK
<1>2. PICK e : e = [key |-> k, own |-> own]
  OBVIOUS
<1>3. e \in Commits
  BY <1>2 DEF Commits
<1>4. commits' = Append(commits, e) /\ UNCHANGED <<writes, acked, disk, client, wire>>
  BY <1>2 DEF Commit
<1>5. commits' \in Seq(Commits)
  BY <1>1, <1>3, <1>4, AppendProperties
<1>6. StreamInv(ListenerOf(client), disk, wire, commits')
  <2>1. ListenerOf(client) \in Listener
    BY <1>1, ListenerType
  <2> QED
    BY <1>1, <1>3, <1>4, <2>1, CommitStep
<1>7. \A j, v : Made(commits, j, v) => Made(commits', j, v)
  BY <1>1, <1>3, <1>4, MadeLater
<1>8. CacheMade(disk, commits')
  BY <1>1, <1>7 DEF CacheMade
<1>9. UpdatesMade(ListenerOf(client), commits')
  BY <1>1, <1>7 DEF UpdatesMade
<1>10. SentMade(wire, commits')
  BY <1>1, <1>7 DEF SentMade
<1>11. TypeOK'
  BY <1>1, <1>4, <1>5 DEF TypeOK
<1> QED
  BY <1>4, <1>6, <1>8, <1>9, <1>10, <1>11 DEF WatchInv, MadeOK

LEMMA OwnFinite ==
  ASSUME TypeOK
  PROVE  IsFiniteSet(Own) /\ Cardinality(Own) \in Nat /\ Own \subseteq 1..Len(commits)
<1>1. Len(commits) \in Nat /\ DOMAIN commits = 1..Len(commits)
  BY LenProperties DEF TypeOK
<1>2. Own \in SUBSET (1..Len(commits)) /\ IsFiniteSet(1..Len(commits))
  BY <1>1, FS_Interval DEF Own
<1>3. IsFiniteSet(Own)
  BY <1>2, FS_Subset
<1> QED
  BY <1>2, <1>3, FS_CardinalityType

LEMMA CommitOwnInv ==
  ASSUME WatchInv, CommitOwn
  PROVE  WatchInv'
<1>1. TypeOK /\ writes \in Seq(Keys)
  BY DEF WatchInv, TypeOK
<1>2. PICK done \in Nat : done = Cardinality(Own)
  BY <1>1, OwnFinite
<1>3. done < Len(writes) /\ Commit(writes[done + 1], done + 1)
  BY <1>2 DEF CommitOwn
<1>4. done + 1 \in 1..Len(writes)
  BY <1>1, <1>3, LenProperties
<1>5. writes[done + 1] \in Keys /\ done + 1 \in Nat
  BY <1>1, <1>4, ElementOfSeq
<1> QED
  BY <1>3, <1>5, CommitInv

LEMMA CommitOtherInv ==
  ASSUME WatchInv, NEW k \in Keys, CommitOther(k)
  PROVE  WatchInv'
BY CommitInv DEF CommitOther

\* The server sends: the client and the disk stay as they are.
LEMMA SentInv ==
  ASSUME WatchInv, wire' \in Wire, NEW more \in Seq(Responses),
         wire'.responses = wire.responses \o more,
         \A i \in 1..Len(more) : more[i].type = "document" =>
           Made(commits, more[i].key, more[i].version),
         StreamInv(ListenerOf(client), disk, wire', commits),
         UNCHANGED <<commits, writes, acked, disk, client>>
  PROVE  WatchInv'
<1>1. /\ TypeOK /\ CacheMade(disk, commits) /\ UpdatesMade(ListenerOf(client), commits)
      /\ SentMade(wire, commits) /\ wire \in Wire
  BY DEF WatchInv, MadeOK, TypeOK
<1>2. PICK s \in Seq(Responses) : s = wire.responses
  BY <1>1, WireType
<1>3. PICK t : t = wire'.responses
  OBVIOUS
<1>4. /\ Len(s) \in Nat /\ Len(more) \in Nat /\ Len(t) = Len(s) + Len(more)
      /\ \A i \in 1..Len(s) : t[i] = s[i]
      /\ \A i \in 1..Len(more) : t[Len(s) + i] = more[i]
  <2>1. Joined(s, more, t)
    BY <1>2, <1>3, Join
  <2> QED
    BY <2>1, LenProperties DEF Joined
<1>5. ASSUME NEW i \in 1..Len(t), t[i].type = "document"
      PROVE  Made(commits, t[i].key, t[i].version)
  <2>1. CASE i \in 1..Len(s)
    BY <1>1, <1>2, <1>4, <1>5, <2>1 DEF SentMade
  <2>2. CASE i \notin 1..Len(s)
    <3>1. PICK j : j = i - Len(s)
      OBVIOUS
    <3>2. j \in 1..Len(more) /\ i = Len(s) + j
      BY <1>4, <2>2, <3>1
    <3> QED
      BY <1>4, <1>5, <3>2
  <2> QED
    BY <2>1, <2>2
<1>6. SentMade(wire', commits)
  BY <1>3, <1>5 DEF SentMade
<1>7. TypeOK'
  BY <1>1 DEF TypeOK
<1> QED
  BY <1>1, <1>6, <1>7 DEF WatchInv, MadeOK

\* The wire when an answer was sent.
ServedAs(w, w2, more, upTo) ==
  \E serving \in BOOLEAN, current \in BOOLEAN :
    w2 = [Respond([w EXCEPT !.requests = Tail(@)], more)
            EXCEPT !.serving = serving, !.current = current, !.upTo = upTo]

LEMMA ServedWire ==
  ASSUME NEW w \in Wire, w.requests # <<>>, NEW more \in Seq(Responses),
         NEW upTo \in Nat, NEW w2, ServedAs(w, w2, more, upTo)
  PROVE  /\ w2 \in Wire /\ AnsweredWith(w, w2, more) /\ w2.upTo = upTo
         /\ w.requests[1] = Head(w.requests) /\ w.requests[1] \in Requests
<1>1. w.requests \in Seq(Requests) /\ w.responses \in Seq(Responses)
  BY WireType
<1>2. PICK left : left = Tail(w.requests)
  OBVIOUS
<1>3. left \in Seq(Requests)
  BY <1>1, <1>2, HeadTailProperties
<1>4. PICK sent : sent = w.responses \o more
  OBVIOUS
<1>5. sent \in Seq(Responses)
  BY <1>1, <1>4, ConcatProperties
<1>6. PICK served : served = [w EXCEPT !.requests = left]
  OBVIOUS
<1>7. /\ served \in Wire /\ served.requests = left /\ served.responses = w.responses
  BY <1>3, <1>6 DEF Wire
<1>8. PICK answered : answered = [served EXCEPT !.responses = sent]
  OBVIOUS
<1>9. answered \in Wire /\ answered.requests = left /\ answered.responses = sent
  BY <1>5, <1>7, <1>8 DEF Wire
<1>10. answered = Respond([w EXCEPT !.requests = Tail(@)], more)
  BY <1>2, <1>4, <1>6, <1>7, <1>8 DEF Respond
<1>11. PICK serving \in BOOLEAN, current \in BOOLEAN :
         w2 = [answered EXCEPT !.serving = serving, !.current = current, !.upTo = upTo]
  BY <1>10, ZenonT(60) DEF ServedAs
<1>12. /\ w2 \in Wire /\ w2.requests = left /\ w2.responses = sent /\ w2.upTo = upTo
  BY <1>9, <1>11 DEF Wire
<1>13. 1 \in 1..Len(w.requests) /\ Head(w.requests) = w.requests[1]
  BY <1>1, EmptySeq
<1>14. w.requests[1] \in Requests
  BY <1>1, <1>13, ElementOfSeq
<1> QED
  BY <1>2, <1>4, <1>12, <1>13, <1>14 DEF AnsweredWith

LEMMA AnsweredInv ==
  ASSUME WatchInv, wire.requests # <<>>, wire' \in Wire, NEW more,
         Answer(wire, more, wire'.upTo), AnsweredWith(wire, wire', more),
         UNCHANGED <<commits, writes, acked, disk, client>>
  PROVE  WatchInv'
<1>1. /\ StreamInv(ListenerOf(client), disk, wire, commits)
      /\ client \in Client /\ disk \in Disk /\ commits \in Seq(Commits) /\ wire \in Wire
  BY DEF WatchInv, TypeOK
<1>2. StreamInv(ListenerOf(client), disk, wire', commits)
  <2>1. ListenerOf(client) \in Listener
    BY <1>1, ListenerType
  <2> QED
    BY <1>1, <2>1, ServeStep
<1>3. /\ more \in Seq(Responses)
      /\ \A i \in 1..Len(more) : more[i].type \in {"added", "removed", "reset"}
  BY AnswerAlone
<1>4. \A i \in 1..Len(more) : more[i].type # "document"
  BY <1>3
<1> QED
  BY <1>2, <1>3, <1>4, SentInv DEF AnsweredWith

\* A request that was answered.
AnswerSent(more) ==
  /\ wire.requests # <<>> /\ wire' \in Wire
  /\ Answer(wire, more, wire'.upTo) /\ AnsweredWith(wire, wire', more)
  /\ UNCHANGED <<commits, writes, acked, disk, client>>

LEMMA ServeListenAnswers ==
  ASSUME WatchInv, ServeListen
  PROVE  \E more : AnswerSent(more)
<1>1. wire \in Wire /\ wire.current \in BOOLEAN
  BY WireType DEF WatchInv, TypeOK
<1>2. /\ wire.requests # <<>> /\ Request.listen
      /\ UNCHANGED <<commits, writes, acked, disk, client>>
  BY DEF ServeListen
<1>3. Request = wire.requests[1] /\ Request \in Requests /\ Request.token \in Nat
  <2>1. wire.requests \in Seq(Requests) /\ 1 \in 1..Len(wire.requests)
    BY <1>1, <1>2, WireType, EmptySeq
  <2>2. wire.requests[1] \in Requests
    BY <2>1, ElementOfSeq
  <2> QED
    BY <1>2, <2>1, <2>2 DEF Request, Requests
<1>4. CASE wire' = [Respond(Served, <<Message("added", 0)>>)
                      EXCEPT !.serving = TRUE, !.current = FALSE, !.upTo = Request.token]
  <2>1. PICK more : more = <<Message("added", 0)>>
    OBVIOUS
  <2>2. more \in Seq(Responses)
    BY <2>1, OneMessage
  <2>3. wire' \in Wire /\ AnsweredWith(wire, wire', more) /\ wire'.upTo = Request.token
    <3>1. ServedAs(wire, wire', more, Request.token)
      BY <1>4, <2>1, ZenonT(60) DEF ServedAs, Served
    <3> QED
      BY <1>1, <1>2, <1>3, <2>2, <3>1, ServedWire
  <2>4. Answer(wire, more, wire'.upTo)
    BY <1>2, <1>3, <2>1, <2>3 DEF Answer
  <2>5. AnswerSent(more)
    BY <1>2, <2>3, <2>4 DEF AnswerSent
  <2> QED
    BY <2>5
<1>5. CASE wire' = [Respond(Served, <<Message("added", 0), Message("reset", 0)>>)
                      EXCEPT !.serving = TRUE, !.current = FALSE, !.upTo = 0]
  <2>1. PICK more : more = <<Message("added", 0), Message("reset", 0)>>
    OBVIOUS
  <2>2. more \in Seq(Responses)
    <3>1. Message("added", 0) \in Responses /\ Message("reset", 0) \in Responses
      BY DEF Message, Responses, Messages
    <3> QED
      BY <2>1, <3>1
  <2>3. wire' \in Wire /\ AnsweredWith(wire, wire', more) /\ wire'.upTo = 0
    <3>1. ServedAs(wire, wire', more, 0)
      BY <1>5, <2>1, ZenonT(60) DEF ServedAs, Served
    <3> QED
      BY <1>1, <1>2, <2>2, <3>1, ServedWire
  <2>4. Answer(wire, more, wire'.upTo)
    BY <1>2, <1>3, <2>1, <2>3 DEF Answer
  <2>5. AnswerSent(more)
    BY <1>2, <2>3, <2>4 DEF AnswerSent
  <2> QED
    BY <2>5
<1> QED
  BY <1>4, <1>5 DEF ServeListen

LEMMA ServeUnlistenAnswers ==
  ASSUME WatchInv, ServeUnlisten
  PROVE  \E more : AnswerSent(more)
<1>1. /\ wire \in Wire /\ wire.current \in BOOLEAN /\ wire.upTo \in Nat
  BY WireType DEF WatchInv, TypeOK
<1>2. /\ wire.requests # <<>> /\ ~Request.listen
      /\ UNCHANGED <<commits, writes, acked, disk, client>>
      /\ wire' = [Respond(Served, <<Message("removed", 0)>>) EXCEPT !.serving = FALSE]
  BY DEF ServeUnlisten
<1>3. PICK more : more = <<Message("removed", 0)>>
  OBVIOUS
<1>4. more \in Seq(Responses)
  BY <1>3, OneMessage
<1>5. PICK answered : answered = Respond(Served, more)
  OBVIOUS
<1>6. /\ answered.current = wire.current /\ answered.upTo = wire.upTo
      /\ wire' = [answered EXCEPT !.serving = FALSE, !.current = wire.current,
                                  !.upTo = wire.upTo]
  <2>1. /\ answered = [wire EXCEPT !.requests = Tail(wire.requests),
                                   !.responses = wire.responses \o more]
    BY <1>5 DEF Respond, Served
  <2>2. DOMAIN answered = DOMAIN wire /\ answered.current = wire.current
        /\ answered.upTo = wire.upTo
    BY <1>1, <2>1 DEF Wire
  <2> QED
    BY <1>1, <1>2, <1>3, <1>5, <2>1, <2>2, ZenonT(60) DEF Wire
<1>7. wire' \in Wire /\ AnsweredWith(wire, wire', more) /\ wire'.upTo = wire.upTo
      /\ wire.requests[1] = Head(wire.requests)
  <2>1. ServedAs(wire, wire', more, wire.upTo)
    <3>1. PICK serving \in BOOLEAN, current \in BOOLEAN :
            wire' = [answered EXCEPT !.serving = serving, !.current = current,
                                     !.upTo = wire.upTo]
      BY <1>1, <1>6, ZenonT(60)
    <3>2. answered = Respond([wire EXCEPT !.requests = Tail(@)], more)
      BY <1>5 DEF Served
    <3> QED
      BY <3>1, <3>2, Zenon DEF ServedAs
  <2>2. wire.requests # <<>>
    BY <1>2
  <2> QED
    BY <1>1, <1>4, <2>1, <2>2, ServedWire
<1>8. Answer(wire, more, wire'.upTo)
  BY <1>2, <1>3, <1>7 DEF Answer, Request
<1>9. AnswerSent(more)
  BY <1>2, <1>7, <1>8 DEF AnswerSent
<1> QED
  BY <1>9

LEMMA ServeAnswersInv ==
  ASSUME WatchInv, ServeListen \/ ServeUnlisten
  PROVE  WatchInv'
<1>1. PICK more : AnswerSent(more)
  BY ServeListenAnswers, ServeUnlistenAnswers
<1> QED
  BY <1>1, AnsweredInv DEF AnswerSent

\* The wire when a round was sent.
RoundAs(w, w2, more, last) ==
  w2 = [Respond(w, more) EXCEPT !.current = TRUE, !.upTo = last]

LEMMA RoundWire ==
  ASSUME NEW w \in Wire, NEW more \in Seq(Responses), NEW last \in Nat, NEW w2,
         RoundAs(w, w2, more, last)
  PROVE  w2 \in Wire /\ RoundSent(w, w2, more) /\ w2.upTo = last
<1>1. PICK sent : sent = w.responses \o more
  OBVIOUS
<1>2. sent \in Seq(Responses)
  BY <1>1, WireType, ConcatProperties
<1>3. PICK answered : answered = [w EXCEPT !.responses = sent]
  OBVIOUS
<1>4. /\ answered \in Wire /\ answered.requests = w.requests
      /\ answered.responses = sent
  BY <1>2, <1>3 DEF Wire
<1>5. w2 = [answered EXCEPT !.current = TRUE, !.upTo = last]
  BY <1>1, <1>3 DEF RoundAs, Respond
<1>6. /\ w2 \in Wire /\ w2.requests = w.requests /\ w2.responses = sent /\ w2.upTo = last
  BY <1>4, <1>5 DEF Wire
<1> QED
  BY <1>1, <1>6 DEF RoundSent

\* The parts of a round.
RoundParts(last, changed, round, close) ==
  /\ \A v \in Own : commits[v].own <= acked => v <= last
  /\ ListsChanged(changed, commits, wire.upTo, last)
  /\ RoundOf(round, changed, commits, last)
  /\ close = IF wire.current THEN <<>> ELSE <<Message("current", last)>>
  /\ wire' = [Respond(wire, round \o close \o <<Message("snapshot", last)>>)
                EXCEPT !.current = TRUE, !.upTo = last]

LEMMA ServeHasParts ==
  ASSUME ServeChanges
  PROVE  /\ wire.serving /\ UNCHANGED <<commits, writes, acked, disk, client>>
         /\ \E last \in wire.upTo..Len(commits) :
              \E changed, round, close : RoundParts(last, changed, round, close)
<1>1. PICK last \in wire.upTo..Len(commits) :
        LET changed == SetToSeq({k \in Keys : VersionAt(commits, last, k) > wire.upTo})
            round   == [i \in DOMAIN changed |->
                          [type |-> "document", key |-> changed[i],
                           version |-> VersionAt(commits, last, changed[i])]]
            close   == IF wire.current THEN <<>> ELSE <<Message("current", last)>>
        IN  /\ wire.serving
            /\ \A v \in Own : commits[v].own <= acked => v <= last
            /\ wire' = [Respond(wire, round \o close \o <<Message("snapshot", last)>>)
                          EXCEPT !.current = TRUE, !.upTo = last]
            /\ UNCHANGED <<commits, writes, acked, disk, client, counters>>
  BY Zenon DEF ServeChanges
<1> DEFINE changed == SetToSeq({k \in Keys : VersionAt(commits, last, k) > wire.upTo})
           round   == [i \in DOMAIN changed |->
                         [type |-> "document", key |-> changed[i],
                          version |-> VersionAt(commits, last, changed[i])]]
           close   == IF wire.current THEN <<>> ELSE <<Message("current", last)>>
<1>2. RoundParts(last, changed, round, close)
  BY <1>1, Zenon DEF RoundParts, ListsChanged, RoundOf
<1>3. wire.serving /\ UNCHANGED <<commits, writes, acked, disk, client>>
  BY <1>1
<1> QED
  BY <1>2, <1>3, Zenon

\* A round on the wire.
RoundServed(last, more) ==
  /\ wire.serving /\ last \in 0..Len(commits) /\ wire.upTo <= last
  /\ \A v \in Own : commits[v].own <= acked => v <= last
  /\ Round(more, commits, wire.upTo, last) /\ more \in Seq(Responses)
  /\ wire' \in Wire /\ RoundSent(wire, wire', more) /\ wire'.upTo = last
  /\ UNCHANGED <<commits, writes, acked, disk, client>>

LEMMA ServeSendsRound ==
  ASSUME WatchInv, ServeChanges
  PROVE  \E last, more : RoundServed(last, more)
<1>1. /\ StreamInv(ListenerOf(client), disk, wire, commits)
      /\ client \in Client /\ disk \in Disk /\ commits \in Seq(Commits) /\ wire \in Wire
      /\ wire.upTo \in Nat /\ Len(commits) \in Nat
  BY WireType, LenProperties DEF WatchInv, TypeOK
<1>2. wire.serving /\ UNCHANGED <<commits, writes, acked, disk, client>>
  BY ServeHasParts
<1>3. PICK last \in wire.upTo..Len(commits) :
        \E changed, round, close : RoundParts(last, changed, round, close)
  BY ServeHasParts
<1>4. PICK changed, round, close : RoundParts(last, changed, round, close)
  BY <1>3
<1>5. last \in 0..Len(commits) /\ last \in Nat /\ wire.upTo <= last
  BY <1>1, <1>3
<1>6. DocumentsOf(round, commits, wire.upTo, last)
  BY <1>1, <1>4, <1>5, DocumentsOfRound DEF RoundParts
<1>7. Closes(close, last)
  BY <1>4 DEF RoundParts, Closes
<1>8. PICK more : more = round \o close \o <<Message("snapshot", last)>>
  OBVIOUS
<1>9. Round(more, commits, wire.upTo, last)
  BY <1>1, <1>5, <1>6, <1>7, <1>8, ClosedRound
<1>10. more \in Seq(Responses)
  BY <1>9 DEF Round
<1>11. wire' \in Wire /\ RoundSent(wire, wire', more) /\ wire'.upTo = last
  <2>1. RoundAs(wire, wire', more, last)
    BY <1>4, <1>8 DEF RoundParts, RoundAs
  <2> QED
    BY <1>1, <1>5, <1>10, <2>1, RoundWire
<1>12. \A v \in Own : commits[v].own <= acked => v <= last
  BY <1>4 DEF RoundParts
<1>13. RoundServed(last, more)
  BY <1>2, <1>5, <1>9, <1>10, <1>11, <1>12 DEF RoundServed
<1> QED
  BY <1>13

LEMMA ServeChangesInv ==
  ASSUME WatchInv, ServeChanges
  PROVE  WatchInv'
<1>1. /\ StreamInv(ListenerOf(client), disk, wire, commits)
      /\ client \in Client /\ disk \in Disk /\ commits \in Seq(Commits) /\ wire \in Wire
      /\ wire.upTo \in Nat /\ Len(commits) \in Nat
  BY WireType, LenProperties DEF WatchInv, TypeOK
<1>3. PICK last, more : RoundServed(last, more)
  BY ServeSendsRound
<1>2. wire.serving /\ UNCHANGED <<commits, writes, acked, disk, client>>
  BY <1>3 DEF RoundServed
<1>5. last \in 0..Len(commits) /\ last \in Nat /\ wire.upTo <= last
  BY <1>1, <1>3 DEF RoundServed
<1>9. Round(more, commits, wire.upTo, last)
  BY <1>3 DEF RoundServed
<1>10. more \in Seq(Responses)
  BY <1>3 DEF RoundServed
<1>11. wire' \in Wire /\ RoundSent(wire, wire', more) /\ wire'.upTo = last
  BY <1>3 DEF RoundServed
<1>12. StreamInv(ListenerOf(client), disk, wire', commits)
  <2>1. ListenerOf(client) \in Listener
    BY <1>1, ListenerType
  <2> QED
    BY <1>1, <1>2, <1>5, <1>9, <1>11, <2>1, RoundStep
<1>13. ASSUME NEW i \in 1..Len(more), more[i].type = "document"
       PROVE  Made(commits, more[i].key, more[i].version)
  <2>1. PICK k \in Keys : k = more[i].key /\ more[i].version = VersionAt(commits, last, k)
                          /\ more[i].version > wire.upTo
    BY <1>9, <1>13 DEF Round
  <2>2. /\ VersionAt(commits, last, k) \in 0..last
        /\ VersionAt(commits, last, k) # 0 => commits[VersionAt(commits, last, k)].key = k
    BY <1>1, <1>5, VersionAtProperties
  <2> QED
    BY <1>1, <1>5, <2>1, <2>2 DEF Made
<1> QED
  BY <1>2, <1>10, <1>11, <1>12, <1>13, SentInv DEF RoundSent

-----------------------------------------------------------------------------
(* The theorems of the stream and the disk *)

LEMMA InitInv ==
  ASSUME ConstantsAssumption, Init
  PROVE  WatchInv
<1>1. /\ commits = <<>> /\ writes = <<>> /\ acked = 0 /\ disk = NewDisk
      /\ client = NewClient /\ wire = NoWire
  BY DEF Init
<1>2. /\ NewDisk \in Disk /\ NewDisk.token = 0 /\ NewDisk.lastRemote = 0
      /\ \A k \in Keys : NewDisk.cache[k].version = 0
  BY DEF NewDisk, Disk, Cached
<1>3. TypeOK
  BY <1>1, <1>2, NewClientType, NoWireType DEF TypeOK
<1>4. PICK h : h = ListenerOf(client)
  OBVIOUS
<1>5. /\ ~h.listening /\ h.token = 0 /\ h.stream = "off" /\ h.agg = NewAggregator
  BY <1>1, <1>4, NewClientType, ListenerFieldsOf
<1>6. commits \in Seq(Commits) /\ Len(commits) = 0
  BY <1>1
<1>7. DiskCovers(disk, commits, 0)
  <2>1. PICK zero : zero = 0
    OBVIOUS
  <2>2. zero \in 0..Len(commits)
    BY <1>6, <2>1
  <2>3. ASSUME NEW k \in Keys PROVE VersionAt(commits, zero, k) \in 0..zero
    BY <1>6, <2>2, VersionAtProperties
  <2>4. \A k \in Keys : VersionAt(commits, 0, k) = 0
    BY <2>1, <2>3
  <2> QED
    BY <2>4 DEF DiskCovers
<1>8. GatherOK(h, disk) /\ TokensOK(h, disk, commits)
  <2>1. \A k \in Keys : h.agg.target.changes[k] = "none"
    BY <1>5, NothingGathered
  <2>2. GatherOK(h, disk)
    BY <1>5, <2>1 DEF GatherOK
  <2> QED
    BY <1>1, <1>2, <1>5, <1>7, <2>2 DEF TokensOK
<1>9. StreamInv(h, disk, wire, commits)
  <2>1. /\ disk.token <= disk.lastRemote /\ h.token <= disk.lastRemote
        /\ disk.lastRemote <= Len(commits)
    BY <1>1, <1>2, <1>5, <1>6
  <2>2. h.stream # "open" /\ (h.stream = "starting" => h.agg = NewAggregator)
    BY <1>5
  <2>3. StreamInv(h, disk, NoWire, commits)
    BY <1>6, <1>8, <2>1, <2>2, ShutInv
  <2> QED
    BY <1>1, <2>3
<1>10. CacheMade(disk, commits)
  BY <1>1, <1>2 DEF CacheMade
<1>11. UpdatesMade(h, commits)
  <2>1. \A k \in Keys : h.agg.updates[k] = 0
    BY <1>5 DEF NewAggregator
  <2> QED
    BY <2>1 DEF UpdatesMade
<1>12. SentMade(wire, commits)
  BY <1>1, NoWireType DEF SentMade
<1> QED
  BY <1>3, <1>4, <1>9, <1>10, <1>11, <1>12 DEF WatchInv, MadeOK

LEMMA NextInv ==
  ASSUME ConstantsAssumption, WatchInv, [Next]_vars
  PROVE  WatchInv'
<1>1. CASE Worker
  BY <1>1, HandleSuccessfulWriteInv, OnWatchStreamOpenInv, HandleTargetChangeInv,
     HandleDocumentChangeInv, RaiseWatchSnapshotInv, HoldBackSnapshotInv DEF Worker
<1>2. CASE Server
  BY <1>2, ServeAnswersInv, ServeChangesInv, CommitOwnInv DEF Server
<1>3. CASE OnlineStateTimeout
  BY <1>3, OnlineStateTimeoutInv
<1>4. CASE Listen
  BY <1>4, ListenInv
<1>5. CASE StopListening
  BY <1>5, StopListeningInv
<1>6. CASE IdleTimeout
  BY <1>6, IdleTimeoutInv
<1>7. CASE \E k \in Keys : WriteMutations(k) \/ CommitOther(k)
  BY <1>7, WriteMutationsInv, CommitOtherInv
<1>8. CASE BreakStream
  BY <1>8, BreakStreamInv
<1>9. CASE RestartNetwork
  BY <1>9, RestartNetworkInv
<1>10. CASE EndProcess
  BY <1>10, EndProcessInv
<1>11. CASE UNCHANGED vars
  BY <1>11 DEF vars, WatchInv, TypeOK
<1> QED
  BY <1>1, <1>2, <1>3, <1>4, <1>5, <1>6, <1>7, <1>8, <1>9, <1>10, <1>11 DEF Next

\* The inductive invariant: the types of the state, what the open stream owes
\* and covers, and that every version the device holds is a commit.
THEOREM WatchInvariant == Spec => []WatchInv
<1>1. Init => WatchInv
  BY InitInv, ConstantsAssumption
<1>2. WatchInv /\ [Next]_vars => WatchInv'
  BY NextInv, ConstantsAssumption
<1> QED
  BY <1>1, <1>2, PTL DEF Spec

\* Every variable keeps its type, whatever the collection and the bounds.
THEOREM TypeCorrect == Spec => []TypeOK
<1>1. WatchInv => TypeOK
  BY DEF WatchInv
<1> QED
  BY <1>1, WatchInvariant, PTL

\* The aggregator waits for exactly the answers that the open stream still
\* owes it (RecordPendingTargetRequest, TargetState::is_pending).
THEOREM AnswersAreCounted == Spec => []AnswersDue
<1>1. WatchInv => AnswersDue
  BY DEF WatchInv, StreamInv, StreamOK, AnswersDue, ListenerOf
<1> QED
  BY <1>1, WatchInvariant, PTL

\* The token on disk never claims more than the disk holds, whatever breaks,
\* and whenever the process ends (ShouldPersistTargetData,
\* LocalStore::ApplyRemoteEvent, ReleaseTarget).
THEOREM TokenIsCovered == Spec => []TokenCoversDisk
<1>1. WatchInv => TokenCoversDisk
  BY DEF WatchInv, StreamInv, TokensOK, DiskCovers, Held, TokenCoversDisk
<1> QED
  BY <1>1, WatchInvariant, PTL
=============================================================================
