------------------------------- MODULE MyInfo -------------------------------
(***************************************************************************)
(* The user's own pages: the profile screen that ends onboarding, and the  *)
(* My tab with its profile, the page that edits it, the lists of friends   *)
(* and of blocked users, and the row that leads to an empty page.          *)
(*                                                                         *)
(* The profile screen and the edit page each have a photo sheet (module    *)
(* PhotoSheet); only the first one binds the sheet's view model.  The edit *)
(* page is made once and keeps its state; a list page is made anew at      *)
(* every visit and asks for its list, and the reply goes to the model that *)
(* all list pages share and to the page that asked, shown or not.          *)
(*                                                                         *)
(* Left out: the pictures of the rows (assumed to load), the tier and the  *)
(* manner score, the other tabs.  Tapping the tab that is selected goes to *)
(* its root page (UIKit), which takes a visible tab bar.                   *)
(***************************************************************************)
EXTENDS Naturals, Sequences, SequencesExt, PhotoSheet

CONSTANTS
  GameIDs,      \* texts a user may type
  Friends,      \* who may be in the list of friends
  Blocked,      \* who may be in the list of blocked users
  MaxRequests   \* bound: getConnection requests in flight

NoText == ""
Kinds == {"friend", "black"}
Pages == {"edit", "blank"} \cup Kinds
Contacts == [friend |-> Friends, black |-> Blocked]
Visits == 1 .. (MaxRequests + 1)   \* identities of list pages, used again
NoVisit == 0

ASSUME MyInfoAssumption ==
  /\ NoText \notin GameIDs
  /\ Friends \cap Blocked = {}
  /\ MaxRequests \in Nat \ {0}

VARIABLES
  top,           \* the page on top
  tabBarHidden,  \* tabBarController.tabBar.isHidden
  gameID,        \* MyInfoModel.myGameID
  label,         \* the name on the My page
  loaded,        \* viewDidLoad of the edit page has run
  field,         \* its text field
  clear,         \* its clear button is visible
  visit,         \* the list page on top
  placeholder,   \* it shows the picture of an empty list, and no table
  list,          \* MyInfoModel.getFriend and getBlackList
  requests,      \* getConnection requests in flight
  early          \* history: it opened with an older request for its list out

nameVars == <<gameID, label, loaded, field, clear>>
listVars == <<visit, placeholder, list, requests, early>>
vars == <<sheetVars, nameVars, listVars, top, tabBarHidden>>

(* A new user's profile screen, or the tab bar of a user that logged in.   *)
Init ==
  /\ SheetInit
  /\ top \in {"profile", "root"}
  /\ tabBarHidden = FALSE
  /\ gameID \in GameIDs
  /\ label = IF top = "root" THEN gameID ELSE NoText
  /\ loaded = FALSE
  /\ field = NoText
  /\ clear = FALSE
  /\ visit = NoVisit
  /\ placeholder = FALSE
  /\ list = [k \in Kinds |-> {}]
  /\ requests = <<>>
  /\ early = FALSE

-----------------------------------------------------------------------------
(* The profile screen and the photo sheets.                                *)

(* The tabs: the My page loads and shows the name of the model.            *)
DidTapNextButton ==
  /\ top = "profile" /\ level = "host"
  /\ top' = "root"
  /\ label' = gameID
  /\ UNCHANGED <<sheetVars, listVars, tabBarHidden, gameID, loaded, field,
                 clear>>

DidTapProfileView ==
  /\ top \in {"profile", "edit"}
  /\ PresentSheet
  /\ UNCHANGED <<nameVars, listVars, top, tabBarHidden>>

(* bindSelectProfileImage of the profile screen is for its own sheet; that *)
(* of the edit page is for a view model no sheet sends to.                 *)
UseSheet ==
  /\ SheetNext(top = "profile")
  /\ UNCHANGED <<nameVars, listVars, top, tabBarHidden>>

-----------------------------------------------------------------------------
(* The edit page.                                                          *)

(* viewDidLoad hides the tab bar and fills the field, the first time only. *)
DidTapEditProfileButton ==
  /\ top = "root"
  /\ top' = "edit"
  /\ loaded' = TRUE
  /\ IF loaded
       THEN UNCHANGED <<tabBarHidden, field, clear>>
       ELSE /\ tabBarHidden' = TRUE
            /\ field' = gameID
            /\ clear' = (gameID # NoText)
  /\ UNCHANGED <<sheetVars, listVars, gameID, label>>

EditingChanged(text) ==
  /\ top = "edit" /\ level = "host"
  /\ field' = text
  /\ clear' = (text # NoText)
  /\ UNCHANGED <<sheetVars, listVars, top, tabBarHidden, gameID, label,
                 loaded>>

DidTapClearButton ==
  /\ top = "edit" /\ level = "host" /\ clear
  /\ field' = NoText
  /\ clear' = FALSE
  /\ UNCHANGED <<sheetVars, listVars, top, tabBarHidden, gameID, label,
                 loaded>>

(* Back: a text that is not empty goes to the label and to the model.      *)
PopEdit ==
  /\ top = "edit" /\ level = "host"
  /\ top' = "root"
  /\ tabBarHidden' = FALSE
  /\ IF field # NoText THEN gameID' = field /\ label' = field
                       ELSE UNCHANGED <<gameID, label>>
  /\ UNCHANGED <<sheetVars, listVars, loaded, field, clear>>

-----------------------------------------------------------------------------
(* The lists.                                                              *)

NewVisits == {v \in Visits : \A i \in DOMAIN requests : requests[i].visit # v}

(* A row of the My page: a new list page, which asks for its list.         *)
DidSelectList(k) ==
  LET v == CHOOSE w \in NewVisits : \A u \in NewVisits : w <= u
  IN /\ top = "root"
     /\ Len(requests) < MaxRequests
     /\ top' = k
     /\ tabBarHidden' = TRUE
     /\ visit' = v
     /\ placeholder' = FALSE
     /\ early' = (\E i \in DOMAIN requests : requests[i].kind = k)
     /\ requests' = Append(requests, [kind |-> k, visit |-> v])
     /\ UNCHANGED <<sheetVars, nameVars, list>>

(* The third row pushes a UIViewController of no class of the app.         *)
DidSelectGoogleAccount ==
  /\ top = "root"
  /\ top' = "blank"
  /\ UNCHANGED <<sheetVars, nameVars, listVars, tabBarHidden>>

(* Variant: the rows are those that were there before.                     *)
GetConnectionDoneStale(i, kept) ==
  placeholder' = (placeholder \/ ( /\ requests[i].visit = visit
                                   /\ list[requests[i].kind] = {} ))

(* The completion of the page that asked: a picture instead of no rows.    *)
GetConnectionDone(i, kept) ==
  placeholder' = (placeholder \/ ( /\ requests[i].visit = visit
                                   /\ kept = {} ))

(* A reply of "count" 1 brings its people, the table reloads, and the page *)
(* that asked goes on; one that cannot be decoded leaves the list and goes *)
(* on; another count is passed over.                                       *)
ReceiveConnection(i) ==
  LET k == requests[i].kind
  IN /\ requests' = RemoveAt(requests, i)
     /\ \/ \E people \in SUBSET Contacts[k] :
             /\ list' = [list EXCEPT ![k] = people]
             /\ GetConnectionDone(i, people)
        \/ /\ GetConnectionDone(i, list[k])
           /\ UNCHANGED list
        \/ UNCHANGED <<list, placeholder>>
     /\ UNCHANGED <<sheetVars, nameVars, top, tabBarHidden, visit, early>>

ConnectionFails(i) ==
  /\ requests' = RemoveAt(requests, i)
  /\ UNCHANGED <<sheetVars, nameVars, top, tabBarHidden, visit, placeholder,
                 list, early>>

(* Variant: the tab bar is not brought back.                               *)
PopListOnly ==
  /\ top \in Kinds
  /\ top' = "root"
  /\ visit' = NoVisit
  /\ placeholder' = FALSE
  /\ early' = FALSE
  /\ UNCHANGED <<sheetVars, nameVars, list, requests, tabBarHidden>>
PopList ==
  /\ top \in Kinds
  /\ top' = "root"
  /\ tabBarHidden' = FALSE
  /\ visit' = NoVisit
  /\ placeholder' = FALSE
  /\ early' = FALSE
  /\ UNCHANGED <<sheetVars, nameVars, list, requests>>

-----------------------------------------------------------------------------
(* The My tab is tapped while it is selected: its root page, as it is.  An *)
(* edit is dropped this way, though the field keeps it for the next visit. *)
TapTab ==
  /\ top \in Pages /\ ~tabBarHidden /\ level = "host"
  /\ top' = "root"
  /\ UNCHANGED <<sheetVars, listVars, tabBarHidden, gameID, label, loaded,
                 field, clear>>

Next ==
  \/ DidTapNextButton
  \/ DidTapProfileView
  \/ UseSheet
  \/ DidTapEditProfileButton
  \/ \E text \in GameIDs \cup {NoText} : EditingChanged(text)
  \/ DidTapClearButton
  \/ PopEdit
  \/ \E k \in Kinds : DidSelectList(k)
  \/ DidSelectGoogleAccount
  \/ \E i \in DOMAIN requests : ReceiveConnection(i) \/ ConnectionFails(i)
  \/ PopList
  \/ TapTab

Spec == Init /\ [][Next]_vars

-----------------------------------------------------------------------------
(* Type invariant of the pages and of the model they share.                *)
TypeOK ==
  /\ SheetTypeOK
  /\ top \in {"profile", "root"} \cup Pages
  /\ tabBarHidden \in BOOLEAN
  /\ gameID \in GameIDs
  /\ label \in GameIDs \cup {NoText}
  /\ loaded \in BOOLEAN
  /\ field \in GameIDs \cup {NoText}
  /\ clear \in BOOLEAN
  /\ visit \in Visits \cup {NoVisit}
  /\ placeholder \in BOOLEAN
  /\ list \in [Kinds -> SUBSET (Friends \cup Blocked)]
  /\ requests \in Seq([kind : Kinds, visit : Visits])
  /\ early \in BOOLEAN

(* The page that no back button leads out of, and the root, keep the tab   *)
(* bar: the user is never shut in.                                         *)
TabBarLeadsOut == top \in {"root", "blank"} => ~tabBarHidden

(* The picture of an empty list hides no row, unless the page was opened   *)
(* while an older request for the same list was still out: its reply can   *)
(* fill the list after the table was put away for good.                    *)
PlaceholderIsTrue ==
  top \in Kinds /\ placeholder => list[top] = {} \/ early

(* The stored photo only changes together with the photo on show, which   *)
(* takes the profile screen: what is chosen on the edit page goes nowhere, *)
(* and what was chosen at onboarding stays.                                *)
PhotoChangesInView ==
  [][photo' # photo => top = "profile" /\ shown' = photo']_vars

(* A sheet over the screen is one that can be seen or is on its way out,   *)
(* unless Cancel met the picker half-way: then an invisible sheet stays    *)
(* and takes every tap.                                                    *)
HiddenSheetNeedsRace == level # "host" /\ ~panel => dismissal \/ raced
=============================================================================
