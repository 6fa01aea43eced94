-------------------------- MODULE MCWatchControls ---------------------------
(* The watch's controls under a bounded number of inputs. *)
EXTENDS WatchControls
=============================================================================
