--------------------------- MODULE MCChatServer ---------------------------
(***************************************************************************)
(* Instances of ChatServer for TLC: connections are interchangeable.       *)
(***************************************************************************)
EXTENDS ChatServer, TLC

Symmetry == Permutations(Cid)
===========================================================================
