--------------------------- MODULE MCReplication ---------------------------
(***************************************************************************)
(* Instances of Replication for TLC.                                       *)
(***************************************************************************)
EXTENDS Replication, TLC

\* Two servers, each with the other as its peer.
Pair == [n \in Node |-> Node \ {n}]

\* One server connects to the others, they only listen.
OneWay == LET dialer == CHOOSE n \in Node : TRUE
          IN [n \in Node |-> IF n = dialer THEN Node \ {n} ELSE {}]

\* The nodes of Pair are interchangeable.
Symmetry == Permutations(Node)
===========================================================================
