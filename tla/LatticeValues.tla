---------------------------- MODULE LatticeValues ----------------------------
(***************************************************************************)
(* The values of lattices and Lattice::update (chat/processor/lattice.rs): *)
(* counters, sets and registers by variable, Values by key, shared and for *)
(* each session.  The module Pool keeps one version number for a key; here *)
(* is what the versions stand for.                                         *)
(*                                                                         *)
(* Maps are functions on the keys that are there.  A variable is a record  *)
(* [kind, name], as in the names x_counter, x_set, x_register of the       *)
(* JSON.  A register is [version, value].                                  *)
(***************************************************************************)
EXTENDS Integers, Sequences, SequencesExt, FiniteSets, FiniteSetsExt, Functions

EmptyMap == <<>>
ValueAt(map, key) == IF key \in DOMAIN map THEN map[key] ELSE EmptyMap

\* Crdt::update of each type: the value kept.
UpdateCounter(mine, other) == IF mine < other THEN other ELSE mine
UpdateSet(mine, other) == mine \cup other
\* Slip: the one who writes last wins, whatever the version.
UpdateRegisterAlways(mine, other) == other
UpdateRegister(mine, other) == IF mine.version < other.version THEN other ELSE mine

UpdateValue(var, mine, other) ==
    CASE var.kind = "counter"  -> UpdateCounter(mine, other)
      [] var.kind = "set"      -> UpdateSet(mine, other)
      [] var.kind = "register" -> UpdateRegister(mine, other)

\* crdt_update, what becomes of the original: the variables of both sides.
Updated(mine, delta) ==
    [v \in DOMAIN mine \cup DOMAIN delta |->
        CASE v \notin DOMAIN delta -> mine[v]
          [] v \notin DOMAIN mine  -> delta[v]
          [] OTHER -> UpdateValue(v, mine[v], delta[v])]

\* Slip: only what is new to the original is passed on.
OnlyNew(mine, delta) == Restrict(delta, DOMAIN delta \ DOMAIN mine)
\* crdt_update, what is left of the delta: what changed the original.
News(mine, delta) ==
    Restrict(delta, {v \in DOMAIN delta :
                        v \in DOMAIN mine => UpdateValue(v, mine[v], delta[v]) # mine[v]})

\* One of the loops of Lattice::update: each key of the delta gets its
\* Values, empty ones too; keys without news leave the delta.
UpdatedKeys(mine, delta) ==
    [k \in DOMAIN mine \cup DOMAIN delta |->
        IF k \in DOMAIN delta THEN Updated(ValueAt(mine, k), delta[k]) ELSE mine[k]]
NewsOfKeys(mine, delta) ==
    LET news == [k \in DOMAIN delta |-> News(ValueAt(mine, k), delta[k])]
    IN Restrict(news, {k \in DOMAIN news : DOMAIN news[k] # {}})

\* Lattice::update.  Sessions stay in the delta even without a key.
Update(lattice, delta) ==
    [shared |-> UpdatedKeys(lattice.shared, delta.shared),
     private |-> [s \in DOMAIN lattice.private \cup DOMAIN delta.private |->
        IF s \in DOMAIN delta.private
        THEN UpdatedKeys(ValueAt(lattice.private, s), delta.private[s])
        ELSE lattice.private[s]]]
MinimalDelta(lattice, delta) ==
    [shared |-> NewsOfKeys(lattice.shared, delta.shared),
     private |-> [s \in DOMAIN delta.private |->
        NewsOfKeys(ValueAt(lattice.private, s), delta.private[s])]]

\* Lattice::new
NewLattice == [shared |-> EmptyMap, private |-> EmptyMap]

\* A lattice that has seen these deltas, in their order.
After(deltas) ==
    LET after[n \in 0 .. Len(deltas)] ==
            IF n = 0 THEN NewLattice ELSE Update(after[n - 1], deltas[n])
    IN after[Len(deltas)]

-----------------------------------------------------------------------------
(* Types.  The values of a variable come from a range; a backend has to     *)
(* keep to it: counters are numbers, and one version of a register has one  *)
(* value.                                                                   *)

IsMap(m) == m = [k \in DOMAIN m |-> m[k]]

\* What a variable may hold, and the ranges of all of them.
RangeOK(v, R) ==
    \/ v.kind = "counter" /\ R \subseteq Nat
    \/ v.kind = "set" /\ \A x, y \in R : x \cup y \in R
    \/ /\ v.kind = "register"
       /\ \A x \in R : x.version \in Int
       /\ \A x, y \in R : x.version = y.version => x = y
IsRange(ranges) == \A v \in DOMAIN ranges : RangeOK(v, ranges[v])

\* The types of Values, of a map of keys, and of a Lattice or Delta.
IsValues(m, ranges) ==
    IsMap(m) /\ \A v \in DOMAIN m : v \in DOMAIN ranges /\ m[v] \in ranges[v]
IsKeys(m, ranges) == IsMap(m) /\ \A k \in DOMAIN m : IsValues(m[k], ranges)
IsLattice(l, ranges) ==
    /\ l = [shared |-> l.shared, private |-> l.private]
    /\ IsKeys(l.shared, ranges)
    /\ IsMap(l.private) /\ \A s \in DOMAIN l.private : IsKeys(l.private[s], ranges)
=============================================================================
