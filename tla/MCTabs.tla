------------------------------- MODULE MCTabs -------------------------------
(***************************************************************************)
(* Two rooms in each tab: one the user leads and one joined, and two on    *)
(* offer.                                                                  *)
(***************************************************************************)
EXTENDS Tabs

CONSTANTS led, joined, r1, r2

MCRooms     == {led, joined}
MCLed       == {led}
MCOpenRooms == {r1, r2}
=============================================================================
