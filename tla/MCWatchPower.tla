---------------------------- MODULE MCWatchPower ----------------------------
(* The wireless image, a chime of two ticks in a window of three. *)
EXTENDS WatchPower
=============================================================================
