-------------------------------- MODULE Tabs --------------------------------
(***************************************************************************)
(* The home tab and the "my matchings" tab side by side (HomeList and      *)
(* MyMatching).                                                            *)
(*                                                                         *)
(* SetTabbarController makes both when the app is entered.  Touches reach  *)
(* only the tab that is selected, while replies reach every tab: a tab     *)
(* answers requests behind the other's back.  The two share the tab bar,   *)
(* which a chat hides.                                                     *)
(***************************************************************************)
EXTENDS HomeList, MyMatching

VARIABLE tab     \* the tab that is selected: home or matching

tabsVars == <<tab, homeVars, vars>>

\* The home tab comes first, and its list is asked for.
TabsInit == HomeInit /\ Init /\ tab = "home"

\* A tap on the tab bar.  A tab is loaded when it is first selected.
SelectHome ==
  /\ tab = "matching" /\ ~tabBarHidden
  /\ tab' = "home"
  /\ UNCHANGED <<homeVars, vars>>

SelectMyMatching ==
  /\ tab = "home" /\ ~tabBarHidden
  /\ tab' = "matching"
  /\ IF loaded THEN UNCHANGED vars ELSE ViewDidLoad
  /\ UNCHANGED homeVars

TabsNext ==
  \/ SelectHome
  \/ SelectMyMatching
  \/ tab = "home" /\ HomeTouched /\ UNCHANGED <<tab, vars>>
  \/ HomeAnswered /\ UNCHANGED <<tab, vars>>
  \/ tab = "matching" /\ Touched /\ UNCHANGED <<tab, homeVars>>
  \/ Answered /\ UNCHANGED <<tab, homeVars>>

TabsSpec == TabsInit /\ [][TabsNext]_tabsVars /\ HomeFairness
=============================================================================
