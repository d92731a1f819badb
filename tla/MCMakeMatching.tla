--------------------------- MODULE MCMakeMatching ---------------------------
(***************************************************************************)
(* Small instances of MakeMatching.                                        *)
(***************************************************************************)
EXTENDS MakeMatching

CONSTANTS title, game

MCTitles == {title}
MCGames  == {game}
=============================================================================
