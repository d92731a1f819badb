------------------------------ MODULE MCMyInfo ------------------------------
(***************************************************************************)
(* Two names, one friend and one blocked user, two requests: a list can be *)
(* asked for again before its first answer, and both lists at once.        *)
(***************************************************************************)
EXTENDS MyInfo

CONSTANTS p1, amy, bob
MCPhotos == {p1}
MCGameIDs == {"faker", "deft"}
MCFriends == {amy}
MCBlocked == {bob}
=============================================================================
