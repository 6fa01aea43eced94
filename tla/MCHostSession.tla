--------------------------- MODULE MCHostSession ----------------------------
(***************************************************************************)
(* The host session at two sizes.  The configuration gives the one at      *)
(* which events are lost and the set overflows; Requests is the one at     *)
(* which requests of two connections arrive in parts.                      *)
(***************************************************************************)
EXTENDS HostSession

VARIABLE requests   \* whether this behaviour is of the second size

Requests == INSTANCE HostSession WITH
  SetCapacity <- 2, EventCapacity <- 1, MaxFragments <- 3, MaxSession <- 1,
  SentParts <- {"whole", "first", "middle", "last"}, SentProtocols <- {}

MCInit == requests \in BOOLEAN /\ Init

MCNext ==
  \/ requests /\ Requests!Next /\ UNCHANGED requests
  \/ ~requests /\ Next /\ UNCHANGED requests

MCSpec == MCInit /\ [][MCNext]_<<vars, requests>> /\ Loops
=============================================================================
