--------------------------- MODULE MCDestinations ---------------------------
(* Two destinations: a call and a proxied request compete for the one      *)
(* place in the queue of the first, a notice of inactivity goes to the     *)
(* second.                                                                 *)
EXTENDS Destinations

CONSTANTS d1, d2, c1, x1
MCHandlers == <<d2>>
MCUpstream == [r \in Calls \cup Proxied |-> d1]
=============================================================================
