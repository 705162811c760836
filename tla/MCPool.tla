------------------------------ MODULE MCPool ------------------------------
(***************************************************************************)
(* Instances of Pool for TLC: inputs of the backends and symmetry.         *)
(***************************************************************************)
EXTENDS Pool, TLC

CONSTANTS MaxVersion

\* One user at a time; the handlers take the users of a list one by one.
MCUserLists == {{s} : s \in SessionId}
MCNoUserLists == {}
MCNoDeltas == {}

NoKeys == [k \in Key |-> Absent]
NoPrivate == [s \in SessionId |-> NoKeys]
Versions == 0 .. MaxVersion

\* An update of one shared key, one private key, or of the two together.
MCDeltas ==
    {[shared |-> [NoKeys EXCEPT ![k] = v], private |-> NoPrivate] :
        k \in Key, v \in Versions}
    \cup {[shared |-> NoKeys,
           private |-> [NoPrivate EXCEPT ![s][k] = v]] :
        s \in SessionId, k \in Key, v \in Versions}
    \cup {[shared |-> [NoKeys EXCEPT ![j] = v],
           private |-> [NoPrivate EXCEPT ![s][k] = v]] :
        s \in SessionId, j, k \in Key, v \in Versions}

Symmetry == Permutations(Cid) \cup Permutations(SessionId)
                \cup Permutations(Topic) \cup Permutations(Key)
===========================================================================
