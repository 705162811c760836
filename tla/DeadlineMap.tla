---------------------------- MODULE DeadlineMap ----------------------------
(***************************************************************************)
(* What HeapMap promises to Sessions.active (processor/heap.rs): a map of  *)
(* keys to timestamps that hands out a key with the least timestamp.       *)
(***************************************************************************)
EXTENDS Integers

CONSTANTS Key, Time

VARIABLES
    deadline,  \* the timestamp of every key in the map
    last       \* the last call, with the result of a pop

vars == <<deadline, last>>

Present == DOMAIN deadline

With(k, ts) == [x \in Present \cup {k} |-> IF x = k THEN ts ELSE deadline[x]]

Init == deadline = [k \in {} |-> 0] /\ last = <<"new">>

Insert(k, ts) == deadline' = With(k, ts) /\ last' = <<"insert">>

Update(k, ts) ==
    k \in Present /\ deadline' = With(k, ts) /\ last' = <<"update">>

UpdateIfSmaller(k, ts) ==
    /\ k \in Present
    /\ deadline' = With(k, IF deadline[k] < ts THEN ts ELSE deadline[k])
    /\ last' = <<"update_if_smaller">>

Pop ==
    \E k \in Present :
        /\ \A x \in Present : deadline[k] <= deadline[x]
        /\ deadline' = [x \in Present \ {k} |-> deadline[x]]
        /\ last' = <<"pop", k, deadline[k]>>

PopNothing == Present = {} /\ last' = <<"pop">> /\ UNCHANGED deadline

Next ==
    \/ \E k \in Key, ts \in Time :
            Insert(k, ts) \/ Update(k, ts) \/ UpdateIfSmaller(k, ts)
    \/ Pop \/ PopNothing

Spec == Init /\ [][Next]_vars
===========================================================================
