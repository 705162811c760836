------------------------------ MODULE HeapMap ------------------------------
(***************************************************************************)
(* The binary heap with removal and the map on top of it                   *)
(* (processor/heap.rs).                                                    *)
(*                                                                         *)
(* A call takes several steps: each round of a percolation is one, and so  *)
(* is what comes before, between and after the percolations of the call.   *)
(* The caller holds &mut self, so the next call starts when this one is    *)
(* over.                                                                   *)
(*                                                                         *)
(* `slab` gives entries their indices; it is an external crate and hands   *)
(* out any vacant index.  Heap.index is a second slab which sees the same  *)
(* insertions and removals, so the slot of an entry in the heap and its    *)
(* index in the slab are the same number here.  Positions start from 1.    *)
(***************************************************************************)
EXTENDS Integers, Sequences

CONSTANTS Key, Time,
          Index     \* bound: indices of slab entries

ASSUME HeapAssumption == Time \subseteq Int /\ Index \subseteq Nat

VARIABLES
    items,  \* the heap: sequence of [ts, idx]
    index,  \* idx -> position
    map,    \* key -> idx
    slab,   \* idx -> key
    call,   \* the part of a call under way, with what it has in hand
    way,    \* where the item at `at` percolates: "up", "down" or "none"
    at,
    last    \* the last call, with the result of a pop

heapVars == <<items, index>>
vars == <<items, index, map, slab, call, way, at, last>>

Ready == [part |-> "ready"]

Init ==
    /\ items = <<>> /\ index = [i \in {} |-> 0]
    /\ map = [k \in {} |-> 0]
    /\ slab = [i \in {} |-> 0]
    /\ call = Ready /\ way = "none" /\ at = 1
    /\ last = <<"new">>

---------------------------------------------------------------------------
(***************************************************************************)
(* Heap                                                                    *)
(***************************************************************************)

Put(f, x, v) == [y \in DOMAIN f \cup {x} |-> IF y = x THEN v ELSE f[y]]
Drop(f, x) == [y \in DOMAIN f \ {x} |-> f[y]]

\* Ord of (timestamp, index)
Less(a, b) == a.ts < b.ts \/ (a.ts = b.ts /\ a.idx < b.idx)

Parent(i) == i \div 2

\* The child an item may have to sink below.
SmallerChild(i) ==
    IF 2 * i + 1 <= Len(items) /\ Less(items[2 * i + 1], items[2 * i])
    THEN 2 * i + 1 ELSE 2 * i

\* A swap of the percolations; index follows.
Swap(i, j) ==
    /\ items' = [items EXCEPT ![i] = items[j], ![j] = items[i]]
    /\ index' = [index EXCEPT ![items[j].idx] = i, ![items[i].idx] = j]
    /\ at' = j
    /\ UNCHANGED <<map, slab, call, way, last>>

\* The conditions of the loops.
Rises == way = "up" /\ at > 1 /\ Less(items[at], items[Parent(at)])
Sinks == way = "down" /\ 2 * at <= Len(items) /\ Less(items[SmallerChild(at)], items[at])
Settled == ~Rises /\ ~Sinks

PercolateUp == Rises /\ Swap(at, Parent(at))
PercolateDown == Sinks /\ Swap(at, SmallerChild(at))

\* push(), up to the percolation
Push(item) ==
    LET n == Len(items) + 1 IN
    /\ items' = Append(items, item)
    /\ index' = Put(index, item.idx, n)
    /\ way' = "up" /\ at' = n

\* Slip: the moved item can only sink.
SinkOnly(moved, removed) == "down"

\* The item that took the place of `removed` may have to rise.
Settle(moved, removed) == IF Less(moved, removed) THEN "up" ELSE "down"

\* remove(), up to the percolation: the last item takes the place.
Remove(idx) ==
    LET i == index[idx]
        n == Len(items)
        moved == items[n]
    IN
    /\ items' = [j \in 1 .. n - 1 |-> IF j = i THEN moved ELSE items[j]]
    /\ index' = [x \in DOMAIN index \ {idx} |-> IF x = moved.idx THEN i ELSE index[x]]
    /\ way' = IF i < n THEN Settle(moved, items[i]) ELSE "none"
    /\ at' = i

---------------------------------------------------------------------------
(***************************************************************************)
(* HeapMap                                                                 *)
(***************************************************************************)

Vacant(s) == Index \ DOMAIN s
TimeOf(idx) == items[index[idx]].ts

Return == call' = Ready /\ way' = "none" /\ at' = 1

\* Slip: the entry a key had before stays in the slab.
OldKept(s, k) == s

OldRemoved(s, k) == Drop(s, map[k])

\* insert(): the new entry is in the heap before the old one of the key
\* leaves.
Insert(k, ts) ==
    /\ call = Ready
    /\ \E idx \in Vacant(slab) :
          /\ Push([ts |-> ts, idx |-> idx])
          /\ call' = [part |-> "insert", key |-> k, idx |-> idx]
    /\ UNCHANGED <<map, slab, last>>

Inserted ==
    LET k == call.key
        stored == Put(slab, call.idx, k)
    IN
    /\ call.part = "insert" /\ Settled
    /\ map' = Put(map, k, call.idx)
    /\ last' = <<"insert">>
    /\ IF k \in DOMAIN map
       THEN /\ Remove(map[k])
            /\ slab' = OldRemoved(stored, k)
            /\ call' = [part |-> "discard"]
       ELSE slab' = stored /\ Return /\ UNCHANGED heapVars

Discarded ==
    /\ call.part = "discard" /\ Settled
    /\ Return
    /\ UNCHANGED <<heapVars, map, slab, last>>

\* update() and update_if_smaller() remove the entry and insert another one
\* for the same key.
Update(k, ts, name) ==
    /\ call = Ready
    /\ k \in DOMAIN map
    /\ slab' = Drop(slab, map[k])
    /\ Remove(map[k])
    /\ call' = [part |-> "replace", key |-> k, ts |-> ts, old_ts |-> TimeOf(map[k]),
                name |-> name]
    /\ UNCHANGED <<map, last>>

\* Slip: the new timestamp is taken even if it is earlier.
Latest(new, old, name) == new

\* The timestamp of the new entry.
Later(new, old, name) == IF name = "update_if_smaller" /\ new < old THEN old ELSE new

Replaced ==
    /\ call.part = "replace" /\ Settled
    /\ \E idx \in Vacant(slab) :
          /\ Push([ts |-> Later(call.ts, call.old_ts, call.name), idx |-> idx])
          /\ call' = [part |-> "store", key |-> call.key, idx |-> idx,
                      old_ts |-> call.old_ts, name |-> call.name]
    /\ UNCHANGED <<map, slab, last>>

Stored ==
    /\ call.part = "store" /\ Settled
    /\ map' = Put(map, call.key, call.idx)
    /\ slab' = Put(slab, call.idx, call.key)
    /\ last' = <<call.name>>
    /\ Return
    /\ UNCHANGED heapVars

\* pop()
Pop ==
    /\ call = Ready
    /\ items # <<>>
    /\ LET top == items[1] IN
        /\ Remove(top.idx)
        /\ call' = [part |-> "pop", idx |-> top.idx, ts |-> top.ts]
    /\ UNCHANGED <<map, slab, last>>

PopNothing ==
    /\ call = Ready
    /\ items = <<>>
    /\ last' = <<"pop">>
    /\ UNCHANGED <<heapVars, map, slab, call, way, at>>

Popped ==
    LET k == slab[call.idx] IN
    /\ call.part = "pop" /\ Settled
    /\ slab' = Drop(slab, call.idx)
    /\ map' = Drop(map, k)
    /\ last' = <<"pop", k, call.ts>>
    /\ Return
    /\ UNCHANGED heapVars

Next ==
    \/ \E k \in Key, ts \in Time :
          \/ Insert(k, ts)
          \/ \E name \in {"update", "update_if_smaller"} : Update(k, ts, name)
    \/ Inserted \/ Discarded \/ Replaced \/ Stored
    \/ Pop \/ PopNothing \/ Popped
    \/ PercolateUp \/ PercolateDown

Spec == Init /\ [][Next]_vars

---------------------------------------------------------------------------
(***************************************************************************)
(* Properties.                                                             *)
(***************************************************************************)

\* assert_consistent(), which release builds skip, wherever the code calls
\* it: index and items agree, and when a percolation is over no item is less
\* than its parent.
Consistent ==
    /\ DOMAIN index = {items[i].idx : i \in DOMAIN items}
    /\ \A i \in DOMAIN items :
        /\ index[items[i].idx] = i
        /\ Settled /\ i > 1 => ~ Less(items[i], items[Parent(i)])

\* Between calls map and slab are inverse to each other and every entry has
\* an item in the heap, so that no unwrap() of get, peek and pop fails.
EntriesMatch ==
    call = Ready =>
        /\ DOMAIN index = DOMAIN slab
        /\ DOMAIN slab = {map[k] : k \in DOMAIN map}
        /\ \A k \in DOMAIN map : slab[map[k]] = k

\* The deadline of a key; while its entry is not in the heap the call has it.
Deadline(k) ==
    IF call.part \in {"replace", "store"} /\ call.key = k THEN call.old_ts
    ELSE IF call.part = "pop" /\ call.idx = map[k] THEN call.ts
    ELSE TimeOf(map[k])

\* HeapMap implements a map of deadlines: every call changes it as the call of
\* that name should, at one point of its steps, and pop hands out a least
\* deadline.
Deadlines == INSTANCE DeadlineMap
                WITH deadline <- [k \in DOMAIN map |-> Deadline(k)]
ImplementsDeadlineMap == Deadlines!Spec
===========================================================================
