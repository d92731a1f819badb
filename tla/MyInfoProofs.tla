---------------------------- MODULE MyInfoProofs ----------------------------
(***************************************************************************)
(* Theorems about MyInfo and its photo sheets, for every set of texts,     *)
(* photos, friends and blocked users and every number of requests.         *)
(*                                                                         *)
(* The three groups of variables meet in few places, and each property     *)
(* needs the history of one: what was pending when the panel went, which   *)
(* pages leave the tab bar alone, and which requests for a list were out   *)
(* when its page was opened.                                               *)
(***************************************************************************)
EXTENDS MyInfo, Integers, SequenceTheorems, FiniteSetTheorems,
        WellFoundedInduction, TLAPS

\* What is left of a sequence are elements of it.
LEMMA RemoveAtProperties ==
  ASSUME NEW S, NEW s \in Seq(S), NEW i \in DOMAIN s
  PROVE  /\ RemoveAt(s, i) \in Seq(S)
         /\ Len(RemoveAt(s, i)) = Len(s) - 1
         /\ \A j \in 1..(Len(s) - 1) :
              RemoveAt(s, i)[j] = IF j < i THEN s[j] ELSE s[j + 1]
  BY SMTT(60) DEF RemoveAt

\* A set of numbers that is not empty has a least one.
LEMMA LeastNumber ==
  ASSUME NEW T, T \subseteq Nat, T # {}
  PROVE  \E x \in T : \A y \in T : x <= y
<1>1. PICK x \in T : \A y \in T : ~(<<y, x>> \in OpToRel(<, Nat))
  BY NatLessThanWellFounded, WFMin, ZenonT(60)
<1>2. \A y \in T : ~(y < x)
  BY <1>1 DEF OpToRel
<1> QED
  BY <1>2

\* More numbers than there are requests cannot all be taken.
LEMMA TakenTwice ==
  ASSUME NEW k \in Nat, NEW n \in Nat, k <= n, NEW f \in [1..(n + 1) -> 1..k]
  PROVE  \E x, y \in 1..(n + 1) : x # y /\ f[x] = f[y]
<1>1. /\ IsFiniteSet(1..k) /\ Cardinality(1..k) = k
      /\ IsFiniteSet(1..(n + 1)) /\ Cardinality(1..(n + 1)) = n + 1
  BY FS_Interval
<1> QED
  BY <1>1, FS_PigeonHole, SMTT(60)

Request == [kind : Kinds, visit : Visits]

\* Once the panel is gone a picker can only come, or have come, from a block
\* that was queued when Cancel was tapped.
PanelGone ==
  /\ album = "prompt" => panel
  /\ ~panel /\ level \in {"picker", "crop"} => raced
  /\ ~panel /\ level = "sheet" => raced \/ (dismissal /\ album = "no")

\* The pages that leave the tab bar as it is, and those that put it away.
TabBarOfPage ==
  /\ top \in {"profile", "root", "blank"} => ~tabBarHidden
  /\ top \in Kinds => tabBarHidden

\* The list page on top has at most one request out, which is for its list;
\* if no older one was out when it opened, its own is the only one for that
\* list, and none is left once it was answered.
AskedByPage ==
  top \in Kinds =>
    /\ \A i, j \in DOMAIN requests :
         requests[i].visit = visit /\ requests[j].visit = visit => i = j
    /\ \A i \in DOMAIN requests :
         requests[i].visit = visit => requests[i].kind = top
    /\ ~early => \A i \in DOMAIN requests :
                   requests[i].kind = top => requests[i].visit = visit /\ ~placeholder

IInv ==
  /\ TypeOK
  /\ Len(requests) <= MaxRequests
  /\ PanelGone
  /\ TabBarOfPage
  /\ AskedByPage
  /\ PlaceholderIsTrue

-----------------------------------------------------------------------------
LEMMA RequestsType ==
  ASSUME TypeOK
  PROVE  /\ requests \in Seq(Request)
         /\ Len(requests) \in Nat /\ DOMAIN requests = 1..Len(requests)
         /\ \A i \in DOMAIN requests : requests[i] \in Request
<1>1. requests \in Seq(Request)
  BY DEF TypeOK, Request
<1> QED
  BY <1>1, LenProperties, ElementOfSeq

\* A new page has an identity that no request waits for.
LEMMA VisitIsFree ==
  ASSUME TypeOK, Len(requests) <= MaxRequests
  PROVE  LET v == CHOOSE w \in NewVisits : \A u \in NewVisits : w <= u
         IN  v \in Visits /\ \A i \in DOMAIN requests : requests[i].visit # v
<1>1. /\ MaxRequests \in Nat /\ Len(requests) \in Nat
      /\ DOMAIN requests = 1..Len(requests) /\ Len(requests) <= MaxRequests
  BY RequestsType, MyInfoAssumption
<1>2. \E v \in 1..(MaxRequests + 1) : \A i \in DOMAIN requests : requests[i].visit # v
  <2> SUFFICES ASSUME \A v \in 1..(MaxRequests + 1) :
                        \E i \in DOMAIN requests : requests[i].visit = v
               PROVE  FALSE
    OBVIOUS
  <2> DEFINE f == [v \in 1..(MaxRequests + 1) |->
                     CHOOSE i \in DOMAIN requests : requests[i].visit = v]
  <2>1. /\ f \in [1..(MaxRequests + 1) -> 1..Len(requests)]
        /\ \A v \in 1..(MaxRequests + 1) : requests[f[v]].visit = v
    BY <1>1
  <2> HIDE DEF f
  <2>2. \E x, y \in 1..(MaxRequests + 1) : x # y /\ f[x] = f[y]
    BY <1>1, <2>1, TakenTwice
  <2> QED
    BY <2>1, <2>2
<1>3. NewVisits # {} /\ NewVisits \subseteq Nat
  <2>1. PICK v \in Visits : \A i \in DOMAIN requests : requests[i].visit # v
    BY <1>1, <1>2 DEF Visits
  <2>2. v \in NewVisits
    BY <2>1 DEF NewVisits
  <2> QED
    BY <2>2 DEF NewVisits, Visits
<1>4. \E w \in NewVisits : \A u \in NewVisits : w <= u
  BY <1>3, LeastNumber
<1> QED
  BY <1>4 DEF NewVisits

-----------------------------------------------------------------------------
LEMMA InitInv == Init => IInv
<1> SUFFICES ASSUME Init PROVE IInv
  OBVIOUS
<1>1. requests \in Seq(Request) /\ Len(requests) = 0
  BY EmptySeq DEF Init
<1>2. SheetTypeOK
  BY DEF Init, SheetInit, SheetTypeOK, Permissions
<1>3. TypeOK
  <2>1. list \in [Kinds -> SUBSET (Friends \cup Blocked)]
    BY DEF Init
  <2> QED
    BY <1>1, <1>2, <2>1 DEF Init, TypeOK, Request, Pages
<1> QED
  BY <1>1, <1>3, MyInfoAssumption
     DEF Init, SheetInit, IInv, PanelGone, TabBarOfPage, AskedByPage,
         PlaceholderIsTrue, Kinds

\* The sheet keeps what it says of itself, whether its host is bound or not.
LEMMA SheetStep ==
  ASSUME SheetTypeOK, PanelGone, NEW bound \in BOOLEAN,
         PresentSheet \/ SheetNext(bound)
  PROVE  SheetTypeOK' /\ PanelGone'
<1> USE DEF SheetTypeOK, PanelGone, CanTapPanel, SelectProfileImage
<1>1. CASE PresentSheet
  BY <1>1 DEF PresentSheet
<1>2. CASE DidTapCancelButton
  BY <1>2 DEF DidTapCancelButton
<1>3. CASE DismissAnimation
  BY <1>3 DEF DismissAnimation
<1>4. CASE DidTapSelectAlbumButton
  BY <1>4 DEF DidTapSelectAlbumButton
<1>5. CASE \E status \in {"authorized", "denied"} : AnswerPrompt(status)
  BY <1>5 DEF AnswerPrompt, Permissions
<1>6. CASE RequestCollection
  BY <1>6 DEF RequestCollection
<1>7. CASE DidTapChangeDefaultImageButton(bound)
  BY <1>7 DEF DidTapChangeDefaultImageButton
<1>8. CASE ImagePickerControllerDidCancel
  BY <1>8 DEF ImagePickerControllerDidCancel
<1>9. CASE DidFinishPicking
  BY <1>9 DEF DidFinishPicking
<1>10. CASE CircleCropDidCancel
  BY <1>10 DEF CircleCropDidCancel
<1>11. CASE \E p \in Photos : CircleCropDidCropImage(p, bound)
  BY <1>11 DEF CircleCropDidCropImage
<1> QED
  BY <1>1, <1>2, <1>3, <1>4, <1>5, <1>6, <1>7, <1>8, <1>9, <1>10, <1>11
     DEF SheetNext

\* A sheet opens, is used, or is left alone by the pages.
LEMMA SheetOrPageStep ==
  ASSUME IInv, Next
  PROVE  SheetTypeOK' /\ PanelGone'
<1>1. SheetTypeOK /\ PanelGone /\ (top = "profile") \in BOOLEAN
  BY DEF IInv, TypeOK
<1>2. CASE DidTapProfileView
  BY <1>1, <1>2, SheetStep DEF DidTapProfileView
<1>3. CASE UseSheet
  BY <1>1, <1>3, SheetStep DEF UseSheet
<1>4. CASE UNCHANGED sheetVars
  BY <1>1, <1>4 DEF sheetVars, SheetTypeOK, PanelGone
<1> QED
  BY <1>2, <1>3, <1>4
     DEF Next, DidTapNextButton, DidTapEditProfileButton, EditingChanged,
         DidTapClearButton, PopEdit, DidSelectList, DidSelectGoogleAccount,
         ReceiveConnection, ConnectionFails, PopList, TapTab

\* The pages that ask for nothing.
LEMMA PageStep ==
  ASSUME IInv, SheetTypeOK', PanelGone',
         \/ DidTapNextButton \/ DidTapProfileView \/ UseSheet
         \/ DidTapEditProfileButton
         \/ \E text \in GameIDs \cup {NoText} : EditingChanged(text)
         \/ DidTapClearButton \/ PopEdit \/ DidSelectGoogleAccount
         \/ PopList \/ TapTab
  PROVE  IInv'
<1> USE DEF nameVars, listVars, IInv, TypeOK, TabBarOfPage, AskedByPage,
            PlaceholderIsTrue, Kinds, Pages
<1>1. CASE DidTapNextButton
  BY <1>1 DEF DidTapNextButton
<1>2. CASE DidTapProfileView
  BY <1>2 DEF DidTapProfileView
<1>3. CASE UseSheet
  BY <1>3 DEF UseSheet
<1>4. CASE DidTapEditProfileButton
  BY <1>4 DEF DidTapEditProfileButton
<1>5. CASE \E text \in GameIDs \cup {NoText} : EditingChanged(text)
  BY <1>5 DEF EditingChanged
<1>6. CASE DidTapClearButton
  BY <1>6 DEF DidTapClearButton
<1>7. CASE PopEdit
  BY <1>7 DEF PopEdit
<1>8. CASE DidSelectGoogleAccount
  BY <1>8 DEF DidSelectGoogleAccount
<1>9. CASE PopList
  BY <1>9 DEF PopList
<1>10. CASE TapTab
  BY <1>10 DEF TapTab
<1> QED
  BY <1>1, <1>2, <1>3, <1>4, <1>5, <1>6, <1>7, <1>8, <1>9, <1>10

\* A list page opens and asks.
LEMMA OpenStep ==
  ASSUME IInv, SheetTypeOK', PanelGone', NEW k \in Kinds, DidSelectList(k)
  PROVE  IInv'
<1> DEFINE v   == CHOOSE w \in NewVisits : \A u \in NewVisits : w <= u
           new == [kind |-> k, visit |-> v]
<1>1. v \in Visits /\ \A i \in DOMAIN requests : requests[i].visit # v
  BY VisitIsFree DEF IInv
<1>2. /\ Len(requests) < MaxRequests
      /\ top' = k /\ tabBarHidden' = TRUE /\ visit' = v /\ placeholder' = FALSE
      /\ early' = (\E i \in DOMAIN requests : requests[i].kind = k)
      /\ requests' = Append(requests, new)
      /\ UNCHANGED <<gameID, label, loaded, field, clear, list>>
  BY DEF DidSelectList, nameVars
<1>3. new \in Request /\ new.kind = k /\ new.visit = v
  BY <1>1 DEF Request
<1> HIDE DEF v, new
<1>4. /\ requests \in Seq(Request) /\ Len(requests) \in Nat
      /\ DOMAIN requests = 1..Len(requests)
  BY RequestsType DEF IInv
<1>5. /\ requests' \in Seq(Request) /\ Len(requests') = Len(requests) + 1
      /\ \A i \in 1..Len(requests) : requests'[i] = requests[i]
      /\ requests'[Len(requests) + 1] = new
  BY <1>2, <1>3, <1>4, AppendProperties
<1>6. /\ DOMAIN requests' = DOMAIN requests \cup {Len(requests) + 1}
      /\ \A i \in DOMAIN requests : requests'[i] = requests[i]
  BY <1>4, <1>5, LenProperties
<1>7. TypeOK' /\ Len(requests') <= MaxRequests
  <2>1. Len(requests') <= MaxRequests
    BY <1>2, <1>4, <1>5, MyInfoAssumption
  <2>2. top' \in {"profile", "root"} \cup Pages
    BY <1>2 DEF Pages
  <2>3. early' \in BOOLEAN
    BY <1>2
  <2>4. requests' \in Seq([kind : Kinds, visit : Visits])
    BY <1>5 DEF Request
  <2> QED
    BY <1>1, <1>2, <2>1, <2>2, <2>3, <2>4 DEF IInv, TypeOK
<1>8. AskedByPage'
  <2>1. /\ \A i, j \in DOMAIN requests' :
             requests'[i].visit = v /\ requests'[j].visit = v => i = j
        /\ \A i \in DOMAIN requests' :
             requests'[i].visit = v => requests'[i].kind = k
    BY <1>1, <1>3, <1>5, <1>6
  <2>2. ~early' => \A i \in DOMAIN requests' :
                     requests'[i].kind = k => requests'[i].visit = v
    BY <1>2, <1>3, <1>5, <1>6
  <2> QED
    BY <1>2, <2>1, <2>2 DEF AskedByPage
<1>9. TabBarOfPage' /\ PlaceholderIsTrue'
  BY <1>2 DEF TabBarOfPage, PlaceholderIsTrue, Kinds
<1> QED
  BY <1>7, <1>8, <1>9 DEF IInv

\* A reply or the end of a request, for the page on top or for another.
LEMMA ReplyStep ==
  ASSUME IInv, SheetTypeOK', PanelGone', NEW i \in DOMAIN requests,
         ReceiveConnection(i) \/ ConnectionFails(i)
  PROVE  IInv'
<1>1. /\ requests \in Seq(Request) /\ Len(requests) \in Nat
      /\ DOMAIN requests = 1..Len(requests) /\ requests[i] \in Request
  BY RequestsType DEF IInv
<1> DEFINE k == requests[i].kind
<1>2. /\ requests' = RemoveAt(requests, i)
      /\ UNCHANGED <<gameID, label, loaded, field, clear, top, tabBarHidden,
                     visit, early>>
  BY DEF ReceiveConnection, ConnectionFails, nameVars
<1>3. \/ /\ \E people \in SUBSET Contacts[k] :
              /\ list' = [list EXCEPT ![k] = people]
              /\ placeholder' = (placeholder \/ (requests[i].visit = visit /\ people = {}))
      \/ /\ list' = list
         /\ placeholder' = (placeholder \/ (requests[i].visit = visit /\ list[k] = {}))
      \/ UNCHANGED <<list, placeholder>>
  BY SMTT(60) DEF ReceiveConnection, ConnectionFails, GetConnectionDone
<1>4. /\ k \in Kinds /\ Contacts[k] \subseteq Friends \cup Blocked
      /\ list \in [Kinds -> SUBSET (Friends \cup Blocked)]
      /\ placeholder \in BOOLEAN
  BY <1>1 DEF Request, Kinds, Contacts, IInv, TypeOK
<1>5. /\ requests' \in Seq(Request)
      /\ Len(requests') = Len(requests) - 1
      /\ \A j \in 1..(Len(requests) - 1) :
           requests'[j] = IF j < i THEN requests[j] ELSE requests[j + 1]
  BY <1>1, <1>2, RemoveAtProperties, ZenonT(60)
<1>6. /\ DOMAIN requests' = 1..(Len(requests) - 1)
      /\ \A j \in DOMAIN requests' :
           /\ (IF j < i THEN j ELSE j + 1) \in DOMAIN requests \ {i}
           /\ requests'[j] = requests[IF j < i THEN j ELSE j + 1]
  <2>1. DOMAIN requests' = 1..(Len(requests) - 1)
    BY <1>5, LenProperties
  <2>2. ASSUME NEW j \in 1..(Len(requests) - 1)
        PROVE  /\ (IF j < i THEN j ELSE j + 1) \in DOMAIN requests \ {i}
               /\ requests'[j] = requests[IF j < i THEN j ELSE j + 1]
    BY <1>1, <1>5
  <2> QED
    BY <2>1, <2>2
<1>7. /\ list' \in [Kinds -> SUBSET (Friends \cup Blocked)]
      /\ placeholder' \in BOOLEAN
  BY <1>3, <1>4
<1>8. TypeOK' /\ Len(requests') <= MaxRequests
  <2>1. MaxRequests \in Nat
    BY MyInfoAssumption
  <2> QED
    BY <1>1, <1>2, <1>5, <1>7, <2>1 DEF IInv, TypeOK, Request
<1>9. ASSUME top \in Kinds, ~early
      PROVE  /\ \A j \in DOMAIN requests \ {i} : requests[j].kind = top => k # top
             /\ k = top => ~placeholder
             /\ requests[i].visit = visit => k = top
  BY <1>9 DEF IInv, AskedByPage
<1>10. AskedByPage'
  <2> SUFFICES ASSUME top \in Kinds
               PROVE  /\ \A j, l \in DOMAIN requests' :
                           requests'[j].visit = visit /\ requests'[l].visit = visit => j = l
                      /\ \A j \in DOMAIN requests' :
                           requests'[j].visit = visit => requests'[j].kind = top
                      /\ ~early => \A j \in DOMAIN requests' :
                           requests'[j].kind = top => requests'[j].visit = visit /\ ~placeholder'
    BY <1>2 DEF AskedByPage
  <2>1. \A j \in DOMAIN requests' : requests'[j].visit = visit => requests'[j].kind = top
    BY <1>6 DEF IInv, AskedByPage
  <2>2. ASSUME NEW j \in DOMAIN requests', NEW l \in DOMAIN requests',
               requests'[j].visit = visit, requests'[l].visit = visit
        PROVE  j = l
    <3>1. (IF j < i THEN j ELSE j + 1) = (IF l < i THEN l ELSE l + 1)
      BY <1>6, <2>2 DEF IInv, AskedByPage
    <3> QED
      BY <1>1, <1>6, <3>1
  <2>3. ASSUME ~early, NEW j \in DOMAIN requests', requests'[j].kind = top
        PROVE  requests'[j].visit = visit /\ ~placeholder'
    <3> DEFINE m == IF j < i THEN j ELSE j + 1
    <3>1. m \in DOMAIN requests \ {i} /\ requests'[j] = requests[m]
      BY <1>6
    <3> HIDE DEF m
    <3>2. requests[m].visit = visit /\ ~placeholder
      BY <2>3, <3>1 DEF IInv, AskedByPage
    <3>3. k # top
      BY <1>9, <2>3, <3>1
    <3>4. requests[i].visit # visit
      BY <1>9, <2>3, <3>3
    <3>5. ~placeholder'
      BY <1>3, <3>2, <3>4
    <3> QED
      BY <3>1, <3>2, <3>5
  <2> QED
    BY <2>1, <2>2, <2>3
<1>11. PlaceholderIsTrue'
  <2> SUFFICES ASSUME top \in Kinds, placeholder', ~early
               PROVE  list'[top] = {}
    BY <1>2 DEF PlaceholderIsTrue
  <2>1. CASE placeholder
    <3>1. list[top] = {} /\ k # top
      BY <1>9, <2>1 DEF IInv, PlaceholderIsTrue
    <3> QED
      BY <1>3, <1>4, <3>1
  <2>2. CASE ~placeholder
    <3>1. requests[i].visit = visit /\ k = top
      BY <1>3, <1>9, <2>2
    <3> QED
      BY <1>3, <1>4, <2>2, <3>1
  <2> QED
    BY <2>1, <2>2
<1>12. TabBarOfPage'
  BY <1>2 DEF IInv, TabBarOfPage
<1> QED
  BY <1>8, <1>10, <1>11, <1>12 DEF IInv

LEMMA InvStep == IInv /\ [Next]_vars => IInv'
<1> SUFFICES ASSUME IInv, [Next]_vars PROVE IInv'
  OBVIOUS
<1>1. CASE UNCHANGED vars
  BY <1>1 DEF vars, sheetVars, nameVars, listVars, IInv, TypeOK, SheetTypeOK,
     PanelGone, TabBarOfPage, AskedByPage, PlaceholderIsTrue
<1>2. CASE Next
  <2>1. SheetTypeOK' /\ PanelGone'
    BY <1>2, SheetOrPageStep
  <2> QED
    BY <1>2, <2>1, PageStep, OpenStep, ReplyStep DEF Next
<1> QED
  BY <1>1, <1>2

LEMMA Invariance == Spec => []IInv
BY InitInv, InvStep, PTL DEF Spec

-----------------------------------------------------------------------------
(* Theorems *)

\* The page without a back button keeps the tab bar, on every way to it
\* (MyInfoViewController, MyProfileEditViewController:104-118).
THEOREM NeverShutIn == Spec => []TabBarLeadsOut
<1>1. IInv => TabBarLeadsOut
  BY DEF IInv, TabBarOfPage, TabBarLeadsOut
<1> QED
  BY <1>1, Invariance, PTL

\* Only a request that was out before the page opened can make the picture of
\* an empty list untrue (MyFriend:67).
THEOREM EmptyMeansEmpty == Spec => []PlaceholderIsTrue
<1>1. IInv => PlaceholderIsTrue
  BY DEF IInv
<1> QED
  BY <1>1, Invariance, PTL

\* Only Cancel between the album button and the picker leaves an invisible
\* sheet (JoinusAlert:163).
THEOREM SheetIsSeen == Spec => []HiddenSheetNeedsRace
<1>1. IInv => HiddenSheetNeedsRace
  BY DEF IInv, TypeOK, SheetTypeOK, PanelGone, HiddenSheetNeedsRace
<1> QED
  BY <1>1, Invariance, PTL

\* The stored photo changes in view or not at all (Profile:88-95).
THEOREM PhotoInView == Spec => PhotoChangesInView
<1>1. [Next]_vars => [photo' # photo => top = "profile" /\ shown' = photo']_vars
  <2> SUFFICES ASSUME Next, photo' # photo
               PROVE  top = "profile" /\ shown' = photo'
    BY DEF vars, sheetVars
  <2>1. UseSheet
    BY DEF Next, DidTapProfileView, PresentSheet, DidTapNextButton,
           DidTapEditProfileButton, EditingChanged, DidTapClearButton, PopEdit,
           DidSelectList, DidSelectGoogleAccount, ReceiveConnection,
           ConnectionFails, PopList, TapTab, sheetVars
  <2> QED
    BY <2>1 DEF UseSheet, SheetNext, DidTapCancelButton, DismissAnimation,
       DidTapSelectAlbumButton, AnswerPrompt, RequestCollection,
       DidTapChangeDefaultImageButton, ImagePickerControllerDidCancel,
       DidFinishPicking, CircleCropDidCancel, CircleCropDidCropImage,
       SelectProfileImage
<1> QED
  BY <1>1, PTL DEF Spec, PhotoChangesInView
=============================================================================
