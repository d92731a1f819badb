---------------------------- MODULE MCStartDate ----------------------------
(***************************************************************************)
(* Moments on both sides of every bound of the labels, over three days.    *)
(***************************************************************************)
EXTENDS StartDate

MCMoments ==
  {0, 1, 60, 359, 360, 3599, 3600, Day - 1, Day, Day + 59, 2 * Day - 1, 2 * Day}
=============================================================================
