---------------------------- MODULE RulesProofs ----------------------------
(***************************************************************************)
(* Proofs about Rules: lattices first, with the laws of Lattice::update    *)
(* for any keys, variables, values, sessions and deltas, then sequences of *)
(* deltas and the properties of Rules for every input, static files and    *)
(* routing among them.                                                     *)
(*                                                                         *)
(* The values of a variable come from a range.  What the theorems need of  *)
(* it is what a backend has to keep to: counters are numbers, and one      *)
(* version of a register has one value.                                    *)
(***************************************************************************)
EXTENDS Rules, FiniteSetTheorems, NaturalsInduction, WellFoundedInduction, SequenceTheorems,
        TLAPS

----------------------------------------------------------------------------
(***************************************************************************)
(* One variable.                                                           *)
(***************************************************************************)

\* Crdt::update of every kind of value does not mind order or repetition.
LEMMA ValueMerge ==
    ASSUME NEW v, NEW R, RangeOK(v, R), NEW x \in R, NEW y \in R, NEW z \in R
    PROVE  /\ UpdateValue(v, x, y) \in R
           /\ UpdateValue(v, x, y) = UpdateValue(v, y, x)
           /\ UpdateValue(v, x, x) = x
           /\ UpdateValue(v, UpdateValue(v, x, y), z)
                 = UpdateValue(v, UpdateValue(v, x, z), y)
           /\ UpdateValue(v, UpdateValue(v, x, y), y) = UpdateValue(v, x, y)
<1>1. CASE v.kind = "counter" /\ R \subseteq Nat
  <2>1. \A a, b : UpdateValue(v, a, b) = IF a < b THEN b ELSE a
      BY <1>1 DEF UpdateValue, UpdateCounter
  <2>2. x \in Nat /\ y \in Nat /\ z \in Nat BY <1>1
  <2> QED BY <2>1, <2>2
<1>2. CASE v.kind = "set" /\ \A a, b \in R : a \cup b \in R
  <2>1. \A a, b : UpdateValue(v, a, b) = a \cup b
      BY <1>2 DEF UpdateValue, UpdateSet
  <2>2. x \cup y = y \cup x /\ x \cup x = x /\ (x \cup y) \cup y = x \cup y OBVIOUS
  <2>3. (x \cup y) \cup z = (x \cup z) \cup y OBVIOUS
  <2>4. /\ UpdateValue(v, x, y) = x \cup y /\ UpdateValue(v, y, x) = y \cup x
        /\ UpdateValue(v, x, z) = x \cup z /\ UpdateValue(v, x, x) = x \cup x
      BY <2>1
  <2>5. /\ UpdateValue(v, x \cup y, z) = (x \cup y) \cup z
        /\ UpdateValue(v, x \cup z, y) = (x \cup z) \cup y
        /\ UpdateValue(v, x \cup y, y) = (x \cup y) \cup y
      BY <2>1
  <2> QED BY <1>2, <2>2, <2>3, <2>4, <2>5
<1>3. CASE /\ v.kind = "register"
           /\ \A a \in R : a.version \in Int
           /\ \A a, b \in R : a.version = b.version => a = b
  <2>1. \A a, b : UpdateValue(v, a, b) = IF a.version < b.version THEN b ELSE a
      BY <1>3 DEF UpdateValue, UpdateRegister
  <2>2. x.version \in Int /\ y.version \in Int /\ z.version \in Int BY <1>3
  <2>3. /\ x.version = y.version => x = y
        /\ x.version = z.version => x = z
        /\ y.version = z.version => y = z
      BY <1>3
  <2> QED BY <2>1, <2>2, <2>3
<1> QED BY <1>1, <1>2, <1>3 DEF RangeOK

\* A copy that has a value already does not change with what that value
\* makes superfluous.
LEMMA ValueFollows ==
    ASSUME NEW v, NEW R, RangeOK(v, R), NEW c \in R, NEW x \in R, NEW y \in R,
           UpdateValue(v, c, x) = c, UpdateValue(v, x, y) = x
    PROVE  UpdateValue(v, c, y) = c
<1>1. CASE v.kind = "counter" /\ R \subseteq Nat
  <2>1. \A a, b : UpdateValue(v, a, b) = IF a < b THEN b ELSE a
      BY <1>1 DEF UpdateValue, UpdateCounter
  <2>2. x \in Nat /\ y \in Nat /\ c \in Nat BY <1>1
  <2> QED BY <2>1, <2>2
<1>2. CASE v.kind = "set" /\ \A a, b \in R : a \cup b \in R
  <2>1. \A a, b : UpdateValue(v, a, b) = a \cup b
      BY <1>2 DEF UpdateValue, UpdateSet
  <2> QED BY <2>1
<1>3. CASE /\ v.kind = "register"
           /\ \A a \in R : a.version \in Int
           /\ \A a, b \in R : a.version = b.version => a = b
  <2>1. \A a, b : UpdateValue(v, a, b) = IF a.version < b.version THEN b ELSE a
      BY <1>3 DEF UpdateValue, UpdateRegister
  <2>2. x.version \in Int /\ y.version \in Int /\ c.version \in Int BY <1>3
  <2>3. /\ x.version = y.version => x = y
        /\ x.version = c.version => x = c
        /\ y.version = c.version => y = c
      BY <1>3
  <2> QED BY <2>1, <2>2, <2>3
<1> QED BY <1>1, <1>2, <1>3 DEF RangeOK

\* And both merging the same, the copy still has what the value is.
LEMMA ValueStaysAhead ==
    ASSUME NEW v, NEW R, RangeOK(v, R), NEW c \in R, NEW x \in R, NEW y \in R,
           UpdateValue(v, c, x) = c
    PROVE  UpdateValue(v, UpdateValue(v, c, y), UpdateValue(v, x, y)) = UpdateValue(v, c, y)
<1>1. CASE v.kind = "counter" /\ R \subseteq Nat
  <2>1. \A a, b : UpdateValue(v, a, b) = IF a < b THEN b ELSE a
      BY <1>1 DEF UpdateValue, UpdateCounter
  <2>2. x \in Nat /\ y \in Nat /\ c \in Nat BY <1>1
  <2> QED BY <2>1, <2>2
<1>2. CASE v.kind = "set" /\ \A a, b \in R : a \cup b \in R
  <2>1. \A a, b : UpdateValue(v, a, b) = a \cup b
      BY <1>2 DEF UpdateValue, UpdateSet
  <2>2. c \cup x = c BY <2>1
  <2>3. (c \cup y) \cup (x \cup y) = c \cup y BY <2>2
  <2>4. UpdateValue(v, c, y) = c \cup y /\ UpdateValue(v, x, y) = x \cup y BY <2>1
  <2>5. UpdateValue(v, c \cup y, x \cup y) = (c \cup y) \cup (x \cup y) BY <2>1
  <2> QED BY <2>3, <2>4, <2>5
<1>3. CASE /\ v.kind = "register"
           /\ \A a \in R : a.version \in Int
           /\ \A a, b \in R : a.version = b.version => a = b
  <2>1. \A a, b : UpdateValue(v, a, b) = IF a.version < b.version THEN b ELSE a
      BY <1>3 DEF UpdateValue, UpdateRegister
  <2>2. x.version \in Int /\ y.version \in Int /\ c.version \in Int BY <1>3
  <2>3. /\ x.version = y.version => x = y
        /\ x.version = c.version => x = c
        /\ y.version = c.version => y = c
      BY <1>3
  <2> QED BY <2>1, <2>2, <2>3
<1> QED BY <1>1, <1>2, <1>3 DEF RangeOK

----------------------------------------------------------------------------
(***************************************************************************)
(* The variables of a key.                                                 *)
(***************************************************************************)

\* crdt_update, variable by variable: u is m with d merged into it.
Merged(u, m, d) ==
    /\ IsMap(u)
    /\ DOMAIN u = DOMAIN m \cup DOMAIN d
    /\ \A v \in DOMAIN u :
          /\ v \notin DOMAIN m => u[v] = d[v]
          /\ v \notin DOMAIN d => u[v] = m[v]
          /\ v \in DOMAIN m \cap DOMAIN d => u[v] = UpdateValue(v, m[v], d[v])

LEMMA UpdatedMerges ==
    ASSUME NEW m, NEW d
    PROVE  Merged(Updated(m, d), m, d)
<1> DEFINE u == Updated(m, d)
<1>1. IsMap(u) /\ DOMAIN u = DOMAIN m \cup DOMAIN d BY DEF Updated, IsMap
<1>2. ASSUME NEW v \in DOMAIN u
      PROVE  /\ v \notin DOMAIN m => u[v] = d[v]
             /\ v \notin DOMAIN d => u[v] = m[v]
             /\ v \in DOMAIN m \cap DOMAIN d => u[v] = UpdateValue(v, m[v], d[v])
  <2>1. CASE v \notin DOMAIN m BY <2>1 DEF Updated
  <2>2. CASE v \notin DOMAIN d BY <2>2 DEF Updated
  <2>3. CASE v \in DOMAIN m \cap DOMAIN d BY <2>3 DEF Updated
  <2> QED BY <2>1, <2>2, <2>3
<1> HIDE DEF u
<1>3. Merged(u, m, d) BY <1>1, <1>2 DEF Merged
<1> QED BY <1>3 DEF u

LEMMA SameMap ==
    ASSUME NEW m, NEW n, IsMap(m), IsMap(n), DOMAIN m = DOMAIN n,
           \A k \in DOMAIN m : m[k] = n[k]
    PROVE  m = n
<1>1. [k \in DOMAIN m |-> m[k]] = [k \in DOMAIN n |-> n[k]] OBVIOUS
<1> QED BY <1>1 DEF IsMap

\* Merging keeps values in their ranges.
LEMMA MergedIsValues ==
    ASSUME NEW ranges, IsRange(ranges), NEW m, IsValues(m, ranges), NEW d, IsValues(d, ranges),
           NEW u, Merged(u, m, d)
    PROVE  IsValues(u, ranges)
<1>1. ASSUME NEW v \in DOMAIN u PROVE v \in DOMAIN ranges /\ u[v] \in ranges[v]
  <2>1. v \in DOMAIN ranges BY DEF IsValues, Merged
  <2>2. RangeOK(v, ranges[v]) BY <2>1 DEF IsRange
  <2>3. CASE v \notin DOMAIN m BY <2>1, <2>3 DEF IsValues, Merged
  <2>4. CASE v \notin DOMAIN d BY <2>1, <2>4 DEF IsValues, Merged
  <2>5. CASE v \in DOMAIN m \cap DOMAIN d
    <3>1. m[v] \in ranges[v] /\ d[v] \in ranges[v] BY <2>5 DEF IsValues
    <3>2. UpdateValue(v, m[v], d[v]) \in ranges[v] BY <2>2, <3>1, ValueMerge
    <3> QED BY <2>1, <2>5, <3>2 DEF Merged
  <2> QED BY <2>3, <2>4, <2>5
<1> QED BY <1>1 DEF IsValues, Merged

LEMMA MergedCommutes ==
    ASSUME NEW ranges, IsRange(ranges), NEW m, IsValues(m, ranges),
           NEW a, IsValues(a, ranges), NEW b, IsValues(b, ranges),
           NEW ma, Merged(ma, m, a), NEW x, Merged(x, ma, b),
           NEW mb, Merged(mb, m, b), NEW y, Merged(y, mb, a)
    PROVE  x = y
<1>1. /\ IsMap(x) /\ DOMAIN x = DOMAIN m \cup DOMAIN a \cup DOMAIN b
      /\ IsMap(y) /\ DOMAIN y = DOMAIN m \cup DOMAIN a \cup DOMAIN b
    BY DEF Merged
<1>2. ASSUME NEW v \in DOMAIN x PROVE x[v] = y[v]
  <2>1. v \in DOMAIN ranges BY <1>1 DEF IsValues
  <2>2. RangeOK(v, ranges[v]) BY <2>1 DEF IsRange
  <2>3. /\ v \in DOMAIN m => m[v] \in ranges[v]
        /\ v \in DOMAIN a => a[v] \in ranges[v]
        /\ v \in DOMAIN b => b[v] \in ranges[v]
      BY DEF IsValues
  <2>4. CASE v \notin DOMAIN a BY <1>1, <2>4 DEF Merged
  <2>5. CASE v \notin DOMAIN b BY <1>1, <2>5 DEF Merged
  <2>6. CASE v \in DOMAIN a \cap DOMAIN b /\ v \notin DOMAIN m
    <3>1. UpdateValue(v, a[v], b[v]) = UpdateValue(v, b[v], a[v])
        BY <2>2, <2>3, <2>6, ValueMerge
    <3> QED BY <1>1, <2>6, <3>1 DEF Merged
  <2>7. CASE v \in DOMAIN a \cap DOMAIN b /\ v \in DOMAIN m
    <3>1. UpdateValue(v, UpdateValue(v, m[v], a[v]), b[v])
            = UpdateValue(v, UpdateValue(v, m[v], b[v]), a[v])
        BY <2>2, <2>3, <2>7, ValueMerge
    <3>2. x[v] = UpdateValue(v, ma[v], b[v]) /\ ma[v] = UpdateValue(v, m[v], a[v])
        BY <1>1, <2>7 DEF Merged
    <3>3. y[v] = UpdateValue(v, mb[v], a[v]) /\ mb[v] = UpdateValue(v, m[v], b[v])
        BY <1>1, <2>7 DEF Merged
    <3> QED BY <3>1, <3>2, <3>3
  <2> QED BY <2>4, <2>5, <2>6, <2>7
<1> QED BY <1>1, <1>2, SameMap

LEMMA UpdatedCommutes ==
    ASSUME NEW ranges, IsRange(ranges), NEW m, IsValues(m, ranges),
           NEW a, IsValues(a, ranges), NEW b, IsValues(b, ranges)
    PROVE  Updated(Updated(m, a), b) = Updated(Updated(m, b), a)
<1> DEFINE ma == Updated(m, a)
           mb == Updated(m, b)
           x == Updated(ma, b)
           y == Updated(mb, a)
<1>1. Merged(ma, m, a) BY UpdatedMerges
<1>2. Merged(mb, m, b) BY UpdatedMerges
<1>3. Merged(x, ma, b) BY UpdatedMerges
<1>4. Merged(y, mb, a) BY UpdatedMerges
<1> HIDE DEF ma, mb, x, y
<1>5. x = y BY <1>1, <1>2, <1>3, <1>4, MergedCommutes
<1> QED BY <1>5 DEF x, y, ma, mb

\* What was merged once adds nothing.
LEMMA UpdatedTwice ==
    ASSUME NEW ranges, IsRange(ranges), NEW m, IsValues(m, ranges), NEW d, IsValues(d, ranges)
    PROVE  Updated(Updated(m, d), d) = Updated(m, d)
<1> DEFINE u == Updated(m, d)
           x == Updated(u, d)
<1>1. Merged(u, m, d) BY UpdatedMerges
<1>2. Merged(x, u, d) BY UpdatedMerges
<1> HIDE DEF u, x
<1>3. ASSUME NEW v \in DOMAIN u PROVE x[v] = u[v]
  <2>1. v \in DOMAIN ranges BY <1>1 DEF IsValues, Merged
  <2>2. RangeOK(v, ranges[v]) BY <2>1 DEF IsRange
  <2>3. CASE v \notin DOMAIN d BY <1>1, <1>2, <2>3 DEF Merged
  <2>4. CASE v \in DOMAIN d /\ v \notin DOMAIN m
    <3>1. d[v] \in ranges[v] BY <2>4 DEF IsValues
    <3>2. UpdateValue(v, d[v], d[v]) = d[v] BY <2>2, <3>1, ValueMerge
    <3> QED BY <1>1, <1>2, <2>4, <3>2 DEF Merged
  <2>5. CASE v \in DOMAIN d /\ v \in DOMAIN m
    <3>1. m[v] \in ranges[v] /\ d[v] \in ranges[v] BY <2>5 DEF IsValues
    <3>2. UpdateValue(v, UpdateValue(v, m[v], d[v]), d[v]) = UpdateValue(v, m[v], d[v])
        BY <2>2, <3>1, ValueMerge
    <3>3. u[v] = UpdateValue(v, m[v], d[v]) BY <1>1, <2>5 DEF Merged
    <3>4. x[v] = UpdateValue(v, u[v], d[v]) BY <1>1, <1>2, <2>5 DEF Merged
    <3> QED BY <3>2, <3>3, <3>4
  <2> QED BY <2>3, <2>4, <2>5
<1>4. IsMap(x) /\ IsMap(u) /\ DOMAIN x = DOMAIN u BY <1>1, <1>2 DEF Merged
<1>5. x = u BY <1>3, <1>4, SameMap
<1> QED BY <1>5 DEF x, u

\* A copy that has the values of m, perhaps with more, has nothing to learn
\* from what crdt_update took out of the delta.
LEMMA NewsSuffice ==
    ASSUME NEW ranges, IsRange(ranges), NEW m, IsValues(m, ranges), NEW d, IsValues(d, ranges),
           NEW c, IsValues(c, ranges), Merged(c, c, m)
    PROVE  Updated(c, News(m, d)) = Updated(c, d)
<1> DEFINE n == News(m, d)
           x == Updated(c, n)
           y == Updated(c, d)
<1>1. /\ DOMAIN n = {v \in DOMAIN d : v \in DOMAIN m => UpdateValue(v, m[v], d[v]) # m[v]}
      /\ \A v \in DOMAIN n : n[v] = d[v]
    BY DEF News, Restrict
<1>2. Merged(x, c, n) BY UpdatedMerges
<1>3. Merged(y, c, d) BY UpdatedMerges
<1> HIDE DEF n, x, y
<1>4. ASSUME NEW v \in DOMAIN d, v \notin DOMAIN n
      PROVE  v \in DOMAIN c /\ UpdateValue(v, c[v], d[v]) = c[v]
  <2>1. v \in DOMAIN m /\ UpdateValue(v, m[v], d[v]) = m[v] BY <1>1, <1>4
  <2>2. v \in DOMAIN c BY <2>1 DEF Merged
  <2>3. UpdateValue(v, c[v], m[v]) = c[v] BY <2>1, <2>2 DEF Merged
  <2>4. v \in DOMAIN ranges BY DEF IsValues
  <2>5. RangeOK(v, ranges[v]) BY <2>4 DEF IsRange
  <2>6. c[v] \in ranges[v] /\ m[v] \in ranges[v] /\ d[v] \in ranges[v]
      BY <2>1, <2>2 DEF IsValues
  <2> QED BY <2>1, <2>2, <2>3, <2>5, <2>6, ValueFollows
<1>5. DOMAIN n \subseteq DOMAIN d BY <1>1
<1>6. /\ IsMap(x) /\ DOMAIN x = DOMAIN c \cup DOMAIN n
      /\ IsMap(y) /\ DOMAIN y = DOMAIN c \cup DOMAIN d
    BY <1>2, <1>3 DEF Merged
<1>7. DOMAIN x = DOMAIN y BY <1>4, <1>5, <1>6
<1>8. ASSUME NEW v \in DOMAIN x PROVE x[v] = y[v]
  <2>1. CASE v \in DOMAIN n BY <1>1, <1>2, <1>3, <1>5, <1>7, <2>1 DEF Merged
  <2>2. CASE v \notin DOMAIN d BY <1>2, <1>3, <1>5, <1>7, <2>2 DEF Merged
  <2>3. CASE v \in DOMAIN d /\ v \notin DOMAIN n
    <3>1. v \in DOMAIN c /\ UpdateValue(v, c[v], d[v]) = c[v] BY <1>4, <2>3
    <3>2. x[v] = c[v] BY <1>2, <2>3 DEF Merged
    <3>3. y[v] = UpdateValue(v, c[v], d[v]) BY <1>3, <1>7, <2>3, <3>1 DEF Merged
    <3> QED BY <3>1, <3>2, <3>3
  <2> QED BY <2>1, <2>2, <2>3
<1>9. x = y BY <1>6, <1>7, <1>8, SameMap
<1> QED BY <1>9 DEF x, y, n

\* Nothing is left of a delta exactly if it changes nothing.
LEMMA NoNews ==
    ASSUME NEW m, IsMap(m), NEW d
    PROVE  DOMAIN News(m, d) = {} <=> Updated(m, d) = m
<1> DEFINE u == Updated(m, d)
<1>1. DOMAIN News(m, d) = {v \in DOMAIN d : v \in DOMAIN m => UpdateValue(v, m[v], d[v]) # m[v]}
    BY DEF News, Restrict
<1>2. Merged(u, m, d) BY UpdatedMerges
<1> HIDE DEF u
<1>3. ASSUME DOMAIN News(m, d) = {} PROVE u = m
  <2>1. \A v \in DOMAIN d : v \in DOMAIN m /\ UpdateValue(v, m[v], d[v]) = m[v] BY <1>1, <1>3
  <2>2. IsMap(u) /\ DOMAIN u = DOMAIN m BY <1>2, <2>1 DEF Merged
  <2>3. \A v \in DOMAIN u : u[v] = m[v] BY <1>2, <2>1, <2>2 DEF Merged
  <2> QED BY <2>2, <2>3, SameMap
<1>4. ASSUME u = m PROVE DOMAIN News(m, d) = {}
  <2>1. \A v \in DOMAIN d : v \in DOMAIN m BY <1>2, <1>4 DEF Merged
  <2>2. \A v \in DOMAIN d : UpdateValue(v, m[v], d[v]) = m[v] BY <1>2, <1>4, <2>1 DEF Merged
  <2> QED BY <1>1, <2>1, <2>2
<1> QED BY <1>3, <1>4 DEF u

\* A copy that has the values still has them after both merge the same.
LEMMA StaysAhead ==
    ASSUME NEW ranges, IsRange(ranges), NEW m, IsValues(m, ranges), NEW d, IsValues(d, ranges),
           NEW c, IsValues(c, ranges), Merged(c, c, m),
           NEW md, Merged(md, m, d), NEW cd, Merged(cd, c, d)
    PROVE  Merged(cd, cd, md)
<1>1. /\ DOMAIN m \subseteq DOMAIN c
      /\ DOMAIN cd = DOMAIN c \cup DOMAIN d
      /\ DOMAIN md = DOMAIN m \cup DOMAIN d
      /\ IsMap(cd)
    BY DEF Merged
<1>2. ASSUME NEW v \in DOMAIN cd, v \in DOMAIN md
      PROVE  cd[v] = UpdateValue(v, cd[v], md[v])
  <2>1. v \in DOMAIN ranges BY <1>1 DEF IsValues
  <2>2. RangeOK(v, ranges[v]) BY <2>1 DEF IsRange
  <2>3. /\ v \in DOMAIN m => m[v] \in ranges[v]
        /\ v \in DOMAIN c => c[v] \in ranges[v]
        /\ v \in DOMAIN d => d[v] \in ranges[v]
      BY DEF IsValues
  <2>4. v \in DOMAIN m => UpdateValue(v, c[v], m[v]) = c[v] BY <1>1 DEF Merged
  <2>5. CASE v \notin DOMAIN d
    <3>1. v \in DOMAIN m /\ v \in DOMAIN c BY <1>1, <1>2, <2>5
    <3>2. cd[v] = c[v] /\ md[v] = m[v] BY <1>2, <2>5 DEF Merged
    <3> QED BY <2>4, <3>1, <3>2
  <2>6. CASE v \in DOMAIN d /\ v \notin DOMAIN c
    <3>1. v \notin DOMAIN m BY <1>1, <2>6
    <3>2. cd[v] = d[v] /\ md[v] = d[v] BY <1>2, <2>6, <3>1 DEF Merged
    <3>3. UpdateValue(v, d[v], d[v]) = d[v] BY <2>2, <2>3, <2>6, ValueMerge
    <3> QED BY <3>2, <3>3
  <2>7. CASE v \in DOMAIN d /\ v \in DOMAIN c /\ v \notin DOMAIN m
    <3>1. cd[v] = UpdateValue(v, c[v], d[v]) /\ md[v] = d[v] BY <1>2, <2>7 DEF Merged
    <3>2. UpdateValue(v, UpdateValue(v, c[v], d[v]), d[v]) = UpdateValue(v, c[v], d[v])
        BY <2>2, <2>3, <2>7, ValueMerge
    <3> QED BY <3>1, <3>2
  <2>8. CASE v \in DOMAIN d /\ v \in DOMAIN c /\ v \in DOMAIN m
    <3>1. cd[v] = UpdateValue(v, c[v], d[v]) /\ md[v] = UpdateValue(v, m[v], d[v])
        BY <1>2, <2>8 DEF Merged
    <3>2. UpdateValue(v, UpdateValue(v, c[v], d[v]), UpdateValue(v, m[v], d[v]))
            = UpdateValue(v, c[v], d[v])
        BY <2>2, <2>3, <2>4, <2>8, ValueStaysAhead
    <3> QED BY <3>1, <3>2
  <2> QED BY <2>5, <2>6, <2>7, <2>8
<1>3. DOMAIN cd = DOMAIN cd \cup DOMAIN md BY <1>1
<1>4. \A v \in DOMAIN cd :
         /\ v \notin DOMAIN cd => cd[v] = md[v]
         /\ v \notin DOMAIN md => cd[v] = cd[v]
         /\ v \in DOMAIN cd \cap DOMAIN md => cd[v] = UpdateValue(v, cd[v], md[v])
    BY <1>2
<1> QED BY <1>1, <1>3, <1>4 DEF Merged

----------------------------------------------------------------------------
(***************************************************************************)
(* The keys of a lattice, and of a session.                                *)
(***************************************************************************)

LEMMA EmptyMapIs == IsMap(EmptyMap) /\ DOMAIN EmptyMap = {}
BY DEF EmptyMap, IsMap

LEMMA EmptyIsKeys ==
    ASSUME NEW ranges
    PROVE  IsValues(EmptyMap, ranges) /\ IsKeys(EmptyMap, ranges)
BY EmptyMapIs DEF IsValues, IsKeys

LEMMA ValueAtIsValues ==
    ASSUME NEW ranges, NEW m, IsKeys(m, ranges), NEW k
    PROVE  IsValues(ValueAt(m, k), ranges)
BY EmptyIsKeys DEF ValueAt, IsKeys

\* One loop of Lattice::update, key by key
MergedKeys(u, m, d) ==
    /\ IsMap(u)
    /\ DOMAIN u = DOMAIN m \cup DOMAIN d
    /\ \A k \in DOMAIN u :
          /\ k \in DOMAIN d => u[k] = Updated(ValueAt(m, k), d[k])
          /\ k \notin DOMAIN d => u[k] = m[k]

LEMMA UpdatedKeysMerges ==
    ASSUME NEW m, NEW d
    PROVE  MergedKeys(UpdatedKeys(m, d), m, d)
<1> DEFINE u == UpdatedKeys(m, d)
<1>1. IsMap(u) /\ DOMAIN u = DOMAIN m \cup DOMAIN d BY DEF UpdatedKeys, IsMap
<1>2. \A k \in DOMAIN u : /\ k \in DOMAIN d => u[k] = Updated(ValueAt(m, k), d[k])
                          /\ k \notin DOMAIN d => u[k] = m[k]
    BY DEF UpdatedKeys
<1> HIDE DEF u
<1>3. MergedKeys(u, m, d) BY <1>1, <1>2 DEF MergedKeys
<1> QED BY <1>3 DEF u

LEMMA MergedIsKeys ==
    ASSUME NEW ranges, IsRange(ranges), NEW m, IsKeys(m, ranges), NEW d, IsKeys(d, ranges),
           NEW u, MergedKeys(u, m, d)
    PROVE  IsKeys(u, ranges)
<1>1. ASSUME NEW k \in DOMAIN u PROVE IsValues(u[k], ranges)
  <2>1. CASE k \in DOMAIN d
    <3>1. IsValues(ValueAt(m, k), ranges) BY ValueAtIsValues
    <3>2. IsValues(d[k], ranges) BY <2>1 DEF IsKeys
    <3>3. Merged(Updated(ValueAt(m, k), d[k]), ValueAt(m, k), d[k]) BY UpdatedMerges
    <3>4. IsValues(Updated(ValueAt(m, k), d[k]), ranges)
        BY <3>1, <3>2, <3>3, MergedIsValues
    <3> QED BY <2>1, <3>4 DEF MergedKeys
  <2>2. CASE k \notin DOMAIN d BY <2>2 DEF MergedKeys, IsKeys
  <2> QED BY <2>1, <2>2
<1> QED BY <1>1 DEF IsKeys, MergedKeys

LEMMA MergedKeysCommutes ==
    ASSUME NEW ranges, IsRange(ranges), NEW m, IsKeys(m, ranges),
           NEW a, IsKeys(a, ranges), NEW b, IsKeys(b, ranges),
           NEW ma, MergedKeys(ma, m, a), NEW x, MergedKeys(x, ma, b),
           NEW mb, MergedKeys(mb, m, b), NEW y, MergedKeys(y, mb, a)
    PROVE  x = y
<1>1. /\ IsMap(x) /\ DOMAIN x = DOMAIN m \cup DOMAIN a \cup DOMAIN b
      /\ IsMap(y) /\ DOMAIN y = DOMAIN m \cup DOMAIN a \cup DOMAIN b
      /\ DOMAIN ma = DOMAIN m \cup DOMAIN a
      /\ DOMAIN mb = DOMAIN m \cup DOMAIN b
    BY DEF MergedKeys
<1>2. ASSUME NEW k \in DOMAIN x PROVE x[k] = y[k]
  <2> DEFINE mk == ValueAt(m, k)
  <2>1. IsValues(mk, ranges) BY ValueAtIsValues
  <2>2. CASE k \in DOMAIN a /\ k \in DOMAIN b
    <3>1. IsValues(a[k], ranges) /\ IsValues(b[k], ranges) BY <2>2 DEF IsKeys
    <3>2. x[k] = Updated(Updated(mk, a[k]), b[k])
        BY <1>1, <2>2 DEF MergedKeys, ValueAt
    <3>3. y[k] = Updated(Updated(mk, b[k]), a[k])
        BY <1>1, <2>2 DEF MergedKeys, ValueAt
    <3> HIDE DEF mk
    <3> QED BY <2>1, <3>1, <3>2, <3>3, UpdatedCommutes
  <2>3. CASE k \notin DOMAIN a /\ k \in DOMAIN b
    <3>1. x[k] = Updated(mk, b[k]) BY <1>1, <2>3 DEF MergedKeys, ValueAt
    <3>2. y[k] = Updated(mk, b[k]) BY <1>1, <2>3 DEF MergedKeys
    <3> QED BY <3>1, <3>2
  <2>4. CASE k \in DOMAIN a /\ k \notin DOMAIN b
    <3>1. y[k] = Updated(mk, a[k]) BY <1>1, <2>4 DEF MergedKeys, ValueAt
    <3>2. x[k] = Updated(mk, a[k]) BY <1>1, <2>4 DEF MergedKeys
    <3> QED BY <3>1, <3>2
  <2>5. CASE k \notin DOMAIN a /\ k \notin DOMAIN b BY <1>1, <2>5 DEF MergedKeys
  <2> QED BY <2>2, <2>3, <2>4, <2>5
<1> QED BY <1>1, <1>2, SameMap

LEMMA UpdatedKeysCommutes ==
    ASSUME NEW ranges, IsRange(ranges), NEW m, IsKeys(m, ranges),
           NEW a, IsKeys(a, ranges), NEW b, IsKeys(b, ranges)
    PROVE  UpdatedKeys(UpdatedKeys(m, a), b) = UpdatedKeys(UpdatedKeys(m, b), a)
<1> DEFINE ma == UpdatedKeys(m, a)
           mb == UpdatedKeys(m, b)
           x == UpdatedKeys(ma, b)
           y == UpdatedKeys(mb, a)
<1>1. MergedKeys(ma, m, a) BY UpdatedKeysMerges
<1>2. MergedKeys(mb, m, b) BY UpdatedKeysMerges
<1>3. MergedKeys(x, ma, b) BY UpdatedKeysMerges
<1>4. MergedKeys(y, mb, a) BY UpdatedKeysMerges
<1> HIDE DEF ma, mb, x, y
<1>5. x = y BY <1>1, <1>2, <1>3, <1>4, MergedKeysCommutes
<1> QED BY <1>5 DEF x, y, ma, mb

LEMMA UpdatedKeysTwice ==
    ASSUME NEW ranges, IsRange(ranges), NEW m, IsKeys(m, ranges), NEW d, IsKeys(d, ranges)
    PROVE  UpdatedKeys(UpdatedKeys(m, d), d) = UpdatedKeys(m, d)
<1> DEFINE u == UpdatedKeys(m, d)
           x == UpdatedKeys(u, d)
<1>1. MergedKeys(u, m, d) BY UpdatedKeysMerges
<1>2. MergedKeys(x, u, d) BY UpdatedKeysMerges
<1> HIDE DEF u, x
<1>3. IsMap(x) /\ IsMap(u) /\ DOMAIN x = DOMAIN u BY <1>1, <1>2 DEF MergedKeys
<1>4. ASSUME NEW k \in DOMAIN u PROVE x[k] = u[k]
  <2>1. CASE k \notin DOMAIN d BY <1>2, <1>3, <2>1 DEF MergedKeys
  <2>2. CASE k \in DOMAIN d
    <3>1. IsValues(ValueAt(m, k), ranges) BY ValueAtIsValues
    <3>2. IsValues(d[k], ranges) BY <2>2 DEF IsKeys
    <3>3. u[k] = Updated(ValueAt(m, k), d[k]) BY <1>1, <2>2 DEF MergedKeys
    <3>4. x[k] = Updated(u[k], d[k]) BY <1>2, <1>3, <2>2 DEF MergedKeys, ValueAt
    <3>5. Updated(Updated(ValueAt(m, k), d[k]), d[k]) = Updated(ValueAt(m, k), d[k])
        BY <3>1, <3>2, UpdatedTwice
    <3> QED BY <3>3, <3>4, <3>5
  <2> QED BY <2>1, <2>2
<1>5. x = u BY <1>3, <1>4, SameMap
<1> QED BY <1>5 DEF x, u

\* What is left of a delta in one loop: the keys with news.
LEMMA NewsOfKeysAre ==
    ASSUME NEW m, NEW d
    PROVE  LET n == NewsOfKeys(m, d) IN
           /\ DOMAIN n = {k \in DOMAIN d : DOMAIN News(ValueAt(m, k), d[k]) # {}}
           /\ \A k \in DOMAIN n : n[k] = News(ValueAt(m, k), d[k])
<1> DEFINE news == [k \in DOMAIN d |-> News(ValueAt(m, k), d[k])]
           D == {k \in DOMAIN news : DOMAIN news[k] # {}}
<1>1. DOMAIN news = DOMAIN d /\ \A k \in DOMAIN d : news[k] = News(ValueAt(m, k), d[k]) OBVIOUS
<1>2. NewsOfKeys(m, d) = [k \in D |-> news[k]] BY DEF NewsOfKeys, Restrict
<1>3. D = {k \in DOMAIN d : DOMAIN News(ValueAt(m, k), d[k]) # {}} BY <1>1
<1> HIDE DEF news
<1>4. \A k \in D : k \in DOMAIN d BY <1>1
<1> HIDE DEF D
<1> QED BY <1>1, <1>2, <1>3, <1>4

\* The values of a key after the loop
LEMMA KeyAfterUpdate ==
    ASSUME NEW m, NEW d, NEW k
    PROVE  ValueAt(UpdatedKeys(m, d), k) =
               IF k \in DOMAIN d THEN Updated(ValueAt(m, k), d[k]) ELSE ValueAt(m, k)
<1> DEFINE u == UpdatedKeys(m, d)
<1>1. MergedKeys(u, m, d) BY UpdatedKeysMerges
<1> HIDE DEF u
<1>2. CASE k \in DOMAIN d
  <2>1. k \in DOMAIN u /\ u[k] = Updated(ValueAt(m, k), d[k]) BY <1>1, <1>2 DEF MergedKeys
  <2>2. ValueAt(u, k) = u[k] BY <2>1 DEF ValueAt
  <2> QED BY <1>2, <2>1, <2>2 DEF u
<1>3. CASE k \notin DOMAIN d
  <2>1. k \in DOMAIN u <=> k \in DOMAIN m BY <1>1, <1>3 DEF MergedKeys
  <2>2. k \in DOMAIN u => u[k] = m[k] BY <1>1, <1>3 DEF MergedKeys
  <2>3. ValueAt(u, k) = ValueAt(m, k) BY <2>1, <2>2 DEF ValueAt
  <2> QED BY <1>3, <2>3 DEF u
<1> QED BY <1>2, <1>3

\* A copy has what the server has of a key, perhaps with more.
Knows(copy, server, k) ==
    Updated(ValueAt(copy, k), ValueAt(server, k)) = ValueAt(copy, k)

LEMMA KeyFollows ==
    ASSUME NEW ranges, IsRange(ranges), NEW m, IsKeys(m, ranges), NEW d, IsKeys(d, ranges),
           NEW c, IsKeys(c, ranges), NEW k, Knows(c, m, k)
    PROVE  /\ ValueAt(UpdatedKeys(c, NewsOfKeys(m, d)), k) = ValueAt(UpdatedKeys(c, d), k)
           /\ Knows(UpdatedKeys(c, NewsOfKeys(m, d)), UpdatedKeys(m, d), k)
<1> DEFINE n == NewsOfKeys(m, d)
           ck == ValueAt(c, k)
           mk == ValueAt(m, k)
           after == ValueAt(UpdatedKeys(c, n), k)
<1>1. IsValues(ck, ranges) /\ IsValues(mk, ranges) BY ValueAtIsValues
<1>2. Merged(ck, ck, mk)
  <2>1. Merged(Updated(ck, mk), ck, mk) BY UpdatedMerges
  <2>2. Updated(ck, mk) = ck BY DEF Knows
  <2> QED BY <2>1, <2>2
<1>3. /\ DOMAIN n = {j \in DOMAIN d : DOMAIN News(ValueAt(m, j), d[j]) # {}}
      /\ \A j \in DOMAIN n : n[j] = News(ValueAt(m, j), d[j])
    BY NewsOfKeysAre
<1>4. after = IF k \in DOMAIN n THEN Updated(ck, n[k]) ELSE ck BY KeyAfterUpdate
<1>5. ValueAt(UpdatedKeys(c, d), k) = IF k \in DOMAIN d THEN Updated(ck, d[k]) ELSE ck
    BY KeyAfterUpdate
<1>6. ValueAt(UpdatedKeys(m, d), k) = IF k \in DOMAIN d THEN Updated(mk, d[k]) ELSE mk
    BY KeyAfterUpdate
<1>7. Updated(ck, mk) = ck BY DEF Knows
<1> HIDE DEF n, ck, mk, after
<1>8. CASE k \notin DOMAIN d
  <2>1. k \notin DOMAIN n BY <1>3, <1>8
  <2>2. after = ck /\ ValueAt(UpdatedKeys(c, d), k) = ck /\ ValueAt(UpdatedKeys(m, d), k) = mk
      BY <1>4, <1>5, <1>6, <1>8, <2>1
  <2> QED BY <1>7, <2>2 DEF Knows, after, n
<1>9. CASE k \in DOMAIN d
  <2>1. IsValues(d[k], ranges) BY <1>9 DEF IsKeys
  <2>2. Updated(ck, News(mk, d[k])) = Updated(ck, d[k]) BY <1>1, <1>2, <2>1, NewsSuffice
  <2>3. after = Updated(ck, d[k])
    <3>1. CASE k \in DOMAIN n
      <4>1. n[k] = News(mk, d[k]) BY <1>3, <3>1 DEF mk
      <4> QED BY <1>4, <2>2, <3>1, <4>1
    <3>2. CASE k \notin DOMAIN n
      <4>1. DOMAIN News(mk, d[k]) = {} BY <1>3, <1>9, <3>2 DEF mk
      <4>2. Merged(Updated(ck, News(mk, d[k])), ck, News(mk, d[k])) BY UpdatedMerges
      <4>3. IsMap(ck) BY <1>1 DEF IsValues
      <4> DEFINE w == Updated(ck, News(mk, d[k]))
      <4>4. Merged(w, ck, News(mk, d[k])) BY <4>2
      <4> HIDE DEF w
      <4>5. IsMap(w) /\ DOMAIN w = DOMAIN ck /\ \A v \in DOMAIN w : w[v] = ck[v]
          BY <4>1, <4>4 DEF Merged
      <4>6. w = ck BY <4>3, <4>5, SameMap
      <4> QED BY <1>4, <2>2, <3>2, <4>6 DEF w
    <3> QED BY <3>1, <3>2
  <2>4. Merged(Updated(ck, d[k]), ck, d[k]) /\ Merged(Updated(mk, d[k]), mk, d[k])
      BY UpdatedMerges
  <2> DEFINE cd == Updated(ck, d[k])
             md == Updated(mk, d[k])
  <2>5. Merged(cd, ck, d[k]) /\ Merged(md, mk, d[k]) BY <2>4
  <2>6. after = cd /\ ValueAt(UpdatedKeys(c, d), k) = cd /\ ValueAt(UpdatedKeys(m, d), k) = md
      BY <1>5, <1>6, <1>9, <2>3
  <2> HIDE DEF cd, md
  <2>7. Merged(cd, cd, md) BY <1>1, <1>2, <2>1, <2>5, StaysAhead
  <2>8. Updated(cd, md) = cd
    <3> DEFINE w == Updated(cd, md)
    <3>1. Merged(w, cd, md) BY UpdatedMerges
    <3> HIDE DEF w
    <3>2. IsMap(w) /\ IsMap(cd) /\ DOMAIN w = DOMAIN cd BY <2>7, <3>1 DEF Merged
    <3>3. \A v \in DOMAIN w : w[v] = cd[v] BY <2>7, <3>1, <3>2 DEF Merged
    <3>4. w = cd BY <3>2, <3>3, SameMap
    <3> QED BY <3>4 DEF w
  <2> QED BY <2>6, <2>8 DEF Knows, after, n
<1> QED BY <1>8, <1>9

LEMMA KeysSilent ==
    ASSUME NEW ranges, IsRange(ranges), NEW m, IsKeys(m, ranges), NEW d
    PROVE  DOMAIN NewsOfKeys(m, d) = {} <=>
               \A k \in DOMAIN d : ValueAt(UpdatedKeys(m, d), k) = ValueAt(m, k)
<1> DEFINE n == NewsOfKeys(m, d)
<1>1. /\ DOMAIN n = {k \in DOMAIN d : DOMAIN News(ValueAt(m, k), d[k]) # {}}
      /\ \A k \in DOMAIN n : n[k] = News(ValueAt(m, k), d[k])
    BY NewsOfKeysAre
<1> HIDE DEF n
<1>2. ASSUME NEW k \in DOMAIN d
      PROVE  DOMAIN News(ValueAt(m, k), d[k]) = {} <=>
                 ValueAt(UpdatedKeys(m, d), k) = ValueAt(m, k)
  <2>1. IsValues(ValueAt(m, k), ranges) BY ValueAtIsValues
  <2>2. IsMap(ValueAt(m, k)) BY <2>1 DEF IsValues
  <2>3. DOMAIN News(ValueAt(m, k), d[k]) = {} <=> Updated(ValueAt(m, k), d[k]) = ValueAt(m, k)
      BY <2>2, NoNews
  <2>4. ValueAt(UpdatedKeys(m, d), k) = Updated(ValueAt(m, k), d[k]) BY KeyAfterUpdate
  <2> QED BY <2>3, <2>4
<1> QED BY <1>1, <1>2 DEF n

----------------------------------------------------------------------------
(***************************************************************************)
(* Whole lattices.                                                         *)
(***************************************************************************)

LEMMA ValueAtIsKeys ==
    ASSUME NEW ranges, NEW m, \A s \in DOMAIN m : IsKeys(m[s], ranges), NEW s
    PROVE  IsKeys(ValueAt(m, s), ranges)
BY EmptyIsKeys DEF ValueAt

\* The loop of Lattice::update over the sessions, session by session
MergedSessions(u, m, d) ==
    /\ IsMap(u)
    /\ DOMAIN u = DOMAIN m \cup DOMAIN d
    /\ \A s \in DOMAIN u :
          /\ s \in DOMAIN d => u[s] = UpdatedKeys(ValueAt(m, s), d[s])
          /\ s \notin DOMAIN d => u[s] = m[s]

LEMMA UpdateMerges ==
    ASSUME NEW l, NEW d
    PROVE  LET u == Update(l, d) IN
           /\ u = [shared |-> u.shared, private |-> u.private]
           /\ u.shared = UpdatedKeys(l.shared, d.shared)
           /\ MergedSessions(u.private, l.private, d.private)
<1> DEFINE lp == l.private
           dp == d.private
           p == [s \in DOMAIN lp \cup DOMAIN dp |->
                    IF s \in DOMAIN dp THEN UpdatedKeys(ValueAt(lp, s), dp[s]) ELSE lp[s]]
<1>1. Update(l, d) = [shared |-> UpdatedKeys(l.shared, d.shared), private |-> p]
    BY DEF Update
<1>2. MergedSessions(p, lp, dp) BY DEF MergedSessions, IsMap
<1> HIDE DEF p
<1> QED BY <1>1, <1>2

LEMMA SessionsIsKeys ==
    ASSUME NEW ranges, IsRange(ranges),
           NEW m, \A s \in DOMAIN m : IsKeys(m[s], ranges),
           NEW d, \A s \in DOMAIN d : IsKeys(d[s], ranges),
           NEW u, MergedSessions(u, m, d)
    PROVE  \A s \in DOMAIN u : IsKeys(u[s], ranges)
<1> SUFFICES ASSUME NEW s \in DOMAIN u PROVE IsKeys(u[s], ranges) OBVIOUS
<1>1. CASE s \in DOMAIN d
  <2>1. IsKeys(ValueAt(m, s), ranges) BY ValueAtIsKeys
  <2>2. IsKeys(d[s], ranges) BY <1>1
  <2>3. MergedKeys(UpdatedKeys(ValueAt(m, s), d[s]), ValueAt(m, s), d[s])
      BY UpdatedKeysMerges
  <2>4. IsKeys(UpdatedKeys(ValueAt(m, s), d[s]), ranges)
      BY <2>1, <2>2, <2>3, MergedIsKeys
  <2> QED BY <1>1, <2>4 DEF MergedSessions
<1>2. CASE s \notin DOMAIN d BY <1>2 DEF MergedSessions
<1> QED BY <1>1, <1>2

LEMMA SessionsCommute ==
    ASSUME NEW ranges, IsRange(ranges),
           NEW m, \A s \in DOMAIN m : IsKeys(m[s], ranges),
           NEW a, \A s \in DOMAIN a : IsKeys(a[s], ranges),
           NEW b, \A s \in DOMAIN b : IsKeys(b[s], ranges),
           NEW ma, MergedSessions(ma, m, a), NEW x, MergedSessions(x, ma, b),
           NEW mb, MergedSessions(mb, m, b), NEW y, MergedSessions(y, mb, a)
    PROVE  x = y
<1>1. /\ IsMap(x) /\ DOMAIN x = DOMAIN m \cup DOMAIN a \cup DOMAIN b
      /\ IsMap(y) /\ DOMAIN y = DOMAIN m \cup DOMAIN a \cup DOMAIN b
      /\ DOMAIN ma = DOMAIN m \cup DOMAIN a
      /\ DOMAIN mb = DOMAIN m \cup DOMAIN b
    BY DEF MergedSessions
<1>2. ASSUME NEW s \in DOMAIN x PROVE x[s] = y[s]
  <2> DEFINE ms == ValueAt(m, s)
  <2>1. IsKeys(ms, ranges) BY ValueAtIsKeys
  <2>2. CASE s \in DOMAIN a /\ s \in DOMAIN b
    <3>1. IsKeys(a[s], ranges) /\ IsKeys(b[s], ranges) BY <2>2
    <3>2. x[s] = UpdatedKeys(UpdatedKeys(ms, a[s]), b[s])
        BY <1>1, <2>2 DEF MergedSessions, ValueAt
    <3>3. y[s] = UpdatedKeys(UpdatedKeys(ms, b[s]), a[s])
        BY <1>1, <2>2 DEF MergedSessions, ValueAt
    <3> HIDE DEF ms
    <3> QED BY <2>1, <3>1, <3>2, <3>3, UpdatedKeysCommutes
  <2>3. CASE s \notin DOMAIN a /\ s \in DOMAIN b
    <3>1. x[s] = UpdatedKeys(ms, b[s]) BY <1>1, <2>3 DEF MergedSessions, ValueAt
    <3>2. y[s] = UpdatedKeys(ms, b[s]) BY <1>1, <2>3 DEF MergedSessions
    <3> QED BY <3>1, <3>2
  <2>4. CASE s \in DOMAIN a /\ s \notin DOMAIN b
    <3>1. y[s] = UpdatedKeys(ms, a[s]) BY <1>1, <2>4 DEF MergedSessions, ValueAt
    <3>2. x[s] = UpdatedKeys(ms, a[s]) BY <1>1, <2>4 DEF MergedSessions
    <3> QED BY <3>1, <3>2
  <2>5. CASE s \notin DOMAIN a /\ s \notin DOMAIN b BY <1>1, <2>5 DEF MergedSessions
  <2> QED BY <2>2, <2>3, <2>4, <2>5
<1> QED BY <1>1, <1>2, SameMap

LEMMA SessionsTwice ==
    ASSUME NEW ranges, IsRange(ranges),
           NEW m, \A s \in DOMAIN m : IsKeys(m[s], ranges),
           NEW d, \A s \in DOMAIN d : IsKeys(d[s], ranges),
           NEW u, MergedSessions(u, m, d), NEW x, MergedSessions(x, u, d)
    PROVE  x = u
<1>1. IsMap(x) /\ IsMap(u) /\ DOMAIN x = DOMAIN u BY DEF MergedSessions
<1>2. ASSUME NEW s \in DOMAIN x PROVE x[s] = u[s]
  <2>1. CASE s \notin DOMAIN d BY <1>1, <2>1 DEF MergedSessions
  <2>2. CASE s \in DOMAIN d
    <3>1. IsKeys(ValueAt(m, s), ranges) BY ValueAtIsKeys
    <3>2. IsKeys(d[s], ranges) BY <2>2
    <3>3. u[s] = UpdatedKeys(ValueAt(m, s), d[s]) BY <1>1, <2>2 DEF MergedSessions
    <3>4. x[s] = UpdatedKeys(u[s], d[s]) BY <1>1, <2>2 DEF MergedSessions, ValueAt
    <3>5. UpdatedKeys(UpdatedKeys(ValueAt(m, s), d[s]), d[s]) = UpdatedKeys(ValueAt(m, s), d[s])
        BY <3>1, <3>2, UpdatedKeysTwice
    <3> QED BY <3>3, <3>4, <3>5
  <2> QED BY <2>1, <2>2
<1> QED BY <1>1, <1>2, SameMap

----------------------------------------------------------------------------
(***************************************************************************)
(* Theorems.                                                               *)
(***************************************************************************)

\* A lattice stays one under Lattice::update, so that the theorems below
\* hold of every lattice made by deltas out of the empty one.
THEOREM LatticesStayLattices ==
    ASSUME NEW ranges, IsRange(ranges)
    PROVE  /\ IsLattice(NewLattice, ranges)
           /\ \A l, d : IsLattice(l, ranges) /\ IsLattice(d, ranges)
                           => IsLattice(Update(l, d), ranges)
<1>1. IsLattice(NewLattice, ranges)
    BY EmptyIsKeys, EmptyMapIs DEF IsLattice, NewLattice
<1>2. ASSUME NEW l, NEW d, IsLattice(l, ranges), IsLattice(d, ranges)
      PROVE  IsLattice(Update(l, d), ranges)
  <2> DEFINE u == Update(l, d)
  <2>1. /\ u = [shared |-> u.shared, private |-> u.private]
        /\ u.shared = UpdatedKeys(l.shared, d.shared)
        /\ MergedSessions(u.private, l.private, d.private)
      BY UpdateMerges
  <2> HIDE DEF u
  <2>2. IsKeys(u.shared, ranges)
    <3>1. IsKeys(l.shared, ranges) /\ IsKeys(d.shared, ranges) BY <1>2 DEF IsLattice
    <3>2. MergedKeys(UpdatedKeys(l.shared, d.shared), l.shared, d.shared) BY UpdatedKeysMerges
    <3>3. IsKeys(UpdatedKeys(l.shared, d.shared), ranges) BY <3>1, <3>2, MergedIsKeys
    <3> QED BY <2>1, <3>3
  <2>3. \A s \in DOMAIN u.private : IsKeys(u.private[s], ranges)
    <3>1. /\ \A s \in DOMAIN l.private : IsKeys(l.private[s], ranges)
          /\ \A s \in DOMAIN d.private : IsKeys(d.private[s], ranges)
        BY <1>2 DEF IsLattice
    <3> DEFINE up == u.private
               lp == l.private
               dp == d.private
    <3>2. MergedSessions(up, lp, dp) BY <2>1
    <3> QED BY <3>1, <3>2, SessionsIsKeys
  <2>4. IsMap(u.private) BY <2>1 DEF MergedSessions
  <2>5. IsLattice(u, ranges) BY <2>1, <2>2, <2>3, <2>4 DEF IsLattice
  <2> QED BY <2>5 DEF u
<1> QED BY <1>1, <1>2

\* Two deltas leave the same lattice in either order, and a delta that comes
\* again changes nothing: servers that get the same deltas through backends
\* and through each other agree, as long as one version of a register has
\* one value (lattice.rs:276).
THEOREM UpdatesCommute ==
    ASSUME NEW ranges, IsRange(ranges), NEW l, IsLattice(l, ranges),
           NEW a, IsLattice(a, ranges), NEW b, IsLattice(b, ranges)
    PROVE  /\ Update(Update(l, a), b) = Update(Update(l, b), a)
           /\ Update(Update(l, a), a) = Update(l, a)
<1> DEFINE la == Update(l, a)
           lb == Update(l, b)
           x == Update(la, b)
           y == Update(lb, a)
           z == Update(la, a)
<1>1. /\ la = [shared |-> la.shared, private |-> la.private]
      /\ la.shared = UpdatedKeys(l.shared, a.shared)
      /\ MergedSessions(la.private, l.private, a.private)
    BY UpdateMerges
<1>2. /\ lb.shared = UpdatedKeys(l.shared, b.shared)
      /\ MergedSessions(lb.private, l.private, b.private)
    BY UpdateMerges
<1>3. /\ x = [shared |-> x.shared, private |-> x.private]
      /\ x.shared = UpdatedKeys(la.shared, b.shared)
      /\ MergedSessions(x.private, la.private, b.private)
    BY UpdateMerges
<1>4. /\ y = [shared |-> y.shared, private |-> y.private]
      /\ y.shared = UpdatedKeys(lb.shared, a.shared)
      /\ MergedSessions(y.private, lb.private, a.private)
    BY UpdateMerges
<1>5. /\ z = [shared |-> z.shared, private |-> z.private]
      /\ z.shared = UpdatedKeys(la.shared, a.shared)
      /\ MergedSessions(z.private, la.private, a.private)
    BY UpdateMerges
<1> HIDE DEF la, lb, x, y, z
<1>6. IsKeys(l.shared, ranges) /\ IsKeys(a.shared, ranges) /\ IsKeys(b.shared, ranges)
    BY DEF IsLattice
<1>7. /\ \A s \in DOMAIN l.private : IsKeys(l.private[s], ranges)
      /\ \A s \in DOMAIN a.private : IsKeys(a.private[s], ranges)
      /\ \A s \in DOMAIN b.private : IsKeys(b.private[s], ranges)
    BY DEF IsLattice
<1>8. x.shared = y.shared BY <1>1, <1>2, <1>3, <1>4, <1>6, UpdatedKeysCommutes
<1>9. z.shared = la.shared BY <1>1, <1>5, <1>6, UpdatedKeysTwice
<1>10. x.private = y.private BY <1>1, <1>2, <1>3, <1>4, <1>7, SessionsCommute
<1>11. z.private = la.private BY <1>1, <1>5, <1>7, SessionsTwice
<1>12. x = y BY <1>3, <1>4, <1>8, <1>10
<1>13. z = la BY <1>1, <1>5, <1>9, <1>11
<1> QED BY <1>12, <1>13 DEF la, lb, x, y, z

\* A client that has what the server has of a key has what the server has of
\* it after each delta, though it gets only what Lattice::update leaves of the
\* delta; and what is left makes of its copy what the whole delta would.  The
\* copies are those of the shared keys and of the private keys of a session.
THEOREM CopiesFollow ==
    ASSUME NEW ranges, IsRange(ranges), NEW l, IsLattice(l, ranges),
           NEW d, IsLattice(d, ranges), NEW s \in DOMAIN d.private, NEW k,
           NEW shared, IsKeys(shared, ranges), Knows(shared, l.shared, k),
           NEW private, IsKeys(private, ranges), Knows(private, ValueAt(l.private, s), k)
    PROVE  LET sent == MinimalDelta(l, d)
               after == Update(l, d)
           IN /\ ValueAt(UpdatedKeys(shared, sent.shared), k)
                    = ValueAt(UpdatedKeys(shared, d.shared), k)
              /\ Knows(UpdatedKeys(shared, sent.shared), after.shared, k)
              /\ ValueAt(UpdatedKeys(private, sent.private[s]), k)
                    = ValueAt(UpdatedKeys(private, d.private[s]), k)
              /\ Knows(UpdatedKeys(private, sent.private[s]), after.private[s], k)
<1> DEFINE sent == MinimalDelta(l, d)
           after == Update(l, d)
           ls == l.shared
           ds == d.shared
           mine == ValueAt(l.private, s)
           dp == d.private
           delta == dp[s]
<1>1. sent.shared = NewsOfKeys(ls, ds) /\ sent.private[s] = NewsOfKeys(mine, delta)
    BY DEF MinimalDelta
<1>2. /\ after.shared = UpdatedKeys(ls, ds)
      /\ MergedSessions(after.private, l.private, d.private)
    BY UpdateMerges
<1>3. after.private[s] = UpdatedKeys(mine, delta) BY <1>2 DEF MergedSessions
<1>4. IsKeys(ls, ranges) /\ IsKeys(ds, ranges) /\ IsKeys(delta, ranges) BY DEF IsLattice
<1>5. IsKeys(mine, ranges)
  <2>1. \A t \in DOMAIN l.private : IsKeys(l.private[t], ranges) BY DEF IsLattice
  <2> QED BY <2>1, ValueAtIsKeys
<1>6. Knows(shared, ls, k) /\ Knows(private, mine, k) OBVIOUS
<1> HIDE DEF sent, after, ls, ds, mine, delta
<1>7. /\ ValueAt(UpdatedKeys(shared, NewsOfKeys(ls, ds)), k) = ValueAt(UpdatedKeys(shared, ds), k)
      /\ Knows(UpdatedKeys(shared, NewsOfKeys(ls, ds)), UpdatedKeys(ls, ds), k)
    BY <1>4, <1>6, KeyFollows
<1>8. /\ ValueAt(UpdatedKeys(private, NewsOfKeys(mine, delta)), k)
            = ValueAt(UpdatedKeys(private, delta), k)
      /\ Knows(UpdatedKeys(private, NewsOfKeys(mine, delta)), UpdatedKeys(mine, delta), k)
    BY <1>4, <1>5, <1>6, KeyFollows
<1>9. /\ ValueAt(UpdatedKeys(shared, sent.shared), k) = ValueAt(UpdatedKeys(shared, ds), k)
      /\ Knows(UpdatedKeys(shared, sent.shared), after.shared, k)
    BY <1>1, <1>2, <1>7
<1>10. /\ ValueAt(UpdatedKeys(private, sent.private[s]), k)
             = ValueAt(UpdatedKeys(private, delta), k)
       /\ Knows(UpdatedKeys(private, sent.private[s]), after.private[s], k)
    BY <1>1, <1>3, <1>8
<1> QED BY <1>9, <1>10 DEF sent, after, ds, delta

\* Nothing is left of a delta, of its shared part or of a session's, exactly
\* if it changes no value; so a delta that comes again, from another server
\* say, is not sent to the clients again.
THEOREM RepeatedDeltaSilent ==
    ASSUME NEW ranges, IsRange(ranges), NEW l, IsLattice(l, ranges), NEW d, IsLattice(d, ranges)
    PROVE  /\ DOMAIN MinimalDelta(l, d).shared = {} <=>
                  \A k \in DOMAIN d.shared :
                     ValueAt(Update(l, d).shared, k) = ValueAt(l.shared, k)
           /\ DOMAIN MinimalDelta(Update(l, d), d).shared = {}
           /\ \A s \in DOMAIN d.private : DOMAIN MinimalDelta(Update(l, d), d).private[s] = {}
<1> DEFINE u == Update(l, d)
<1>1. IsLattice(u, ranges) BY LatticesStayLattices
<1>2. Update(u, d) = u BY UpdatesCommute
<1>3. \A m : /\ MinimalDelta(m, d).shared = NewsOfKeys(m.shared, d.shared)
             /\ \A s \in DOMAIN d.private :
                  MinimalDelta(m, d).private[s] = NewsOfKeys(ValueAt(m.private, s), d.private[s])
    BY DEF MinimalDelta
<1>4. /\ u.shared = UpdatedKeys(l.shared, d.shared)
    BY UpdateMerges
<1>5. /\ Update(u, d).shared = UpdatedKeys(u.shared, d.shared)
      /\ MergedSessions(Update(u, d).private, u.private, d.private)
    BY UpdateMerges
<1> HIDE DEF u
<1>6. IsKeys(l.shared, ranges) /\ IsKeys(u.shared, ranges) BY <1>1 DEF IsLattice
<1>7. DOMAIN MinimalDelta(l, d).shared = {} <=>
          \A k \in DOMAIN d.shared : ValueAt(u.shared, k) = ValueAt(l.shared, k)
  <2> DEFINE ls == l.shared
             ds == d.shared
  <2>1. DOMAIN NewsOfKeys(ls, ds) = {} <=>
           \A k \in DOMAIN ds : ValueAt(UpdatedKeys(ls, ds), k) = ValueAt(ls, k)
      BY <1>6, KeysSilent
  <2> QED BY <1>3, <1>4, <2>1
<1>8. DOMAIN MinimalDelta(u, d).shared = {}
  <2> DEFINE us == u.shared
             ds == d.shared
  <2>1. UpdatedKeys(us, ds) = us BY <1>2, <1>5
  <2>2. DOMAIN NewsOfKeys(us, ds) = {} <=>
           \A k \in DOMAIN ds : ValueAt(UpdatedKeys(us, ds), k) = ValueAt(us, k)
      BY <1>6, KeysSilent
  <2> QED BY <1>3, <2>1, <2>2
<1>9. ASSUME NEW s \in DOMAIN d.private PROVE DOMAIN MinimalDelta(u, d).private[s] = {}
  <2> DEFINE up == u.private
             dp == d.private
             mine == ValueAt(up, s)
             delta == dp[s]
  <2>1. MergedSessions(up, up, dp) BY <1>2, <1>5
  <2>2. s \in DOMAIN up /\ up[s] = UpdatedKeys(mine, delta) BY <2>1 DEF MergedSessions
  <2>3. mine = up[s] BY <2>2 DEF ValueAt
  <2>4. IsKeys(mine, ranges) BY <1>1, <2>2, <2>3 DEF IsLattice
  <2>5. MinimalDelta(u, d).private[s] = NewsOfKeys(mine, delta) BY <1>3
  <2>6. UpdatedKeys(mine, delta) = mine BY <2>2, <2>3
  <2> HIDE DEF mine, delta
  <2>7. DOMAIN NewsOfKeys(mine, delta) = {} <=>
           \A k \in DOMAIN delta : ValueAt(UpdatedKeys(mine, delta), k) = ValueAt(mine, k)
      BY <2>4, KeysSilent
  <2> QED BY <2>5, <2>6, <2>7
<1> QED BY <1>7, <1>8, <1>9 DEF u
----------------------------------------------------------------------------
(***************************************************************************)
(* Sequences of deltas.                                                    *)
(***************************************************************************)

\* A set of numbers has a least element.
LEMMA Least ==
    ASSUME NEW T \in SUBSET Nat, T # {}
    PROVE  \E x \in T : \A y \in T : x <= y
<1> DEFINE R == OpToRel(<, Nat)
<1>1. IsWellFoundedOn(R, Nat)
  BY NatLessThanWellFounded
<1>2. R = {p \in Nat \X Nat : p[1] < p[2]}
  BY DEF OpToRel
<1> HIDE DEF R
<1>3. PICK x \in T : \A y \in T : ~ (<<y, x>> \in R)
  BY <1>1, WFMin
<1>4. ASSUME NEW y \in T PROVE x <= y
  <2>1. <<y, x>> \in Nat \X Nat
    OBVIOUS
  <2> QED BY <1>2, <1>3, <2>1
<1> QED BY <1>4

\* Induction over numbers.
LEMMA FromZero ==
    ASSUME NEW S \in SUBSET Nat, 0 \in S, \A n \in Nat : n \in S => n + 1 \in S
    PROVE  S = Nat
<1> SUFFICES ASSUME S # Nat PROVE FALSE
  OBVIOUS
<1> DEFINE T == Nat \ S
<1>1. PICK x \in T : \A y \in T : x <= y
  BY Least
<1>2. x # 0 /\ x - 1 \in Nat /\ ~ (x <= x - 1)
  OBVIOUS
<1>3. x - 1 \in S
  BY <1>1, <1>2
<1>4. (x - 1) + 1 \in S
  BY <1>2, <1>3
<1> QED BY <1>2, <1>4

\* t is made by the deltas d from l.
Trace(t, l, d, n) ==
    /\ t = [i \in 0 .. n |-> t[i]]
    /\ t[0] = l
    /\ \A i \in 1 .. n : t[i] = Update(t[i - 1], d[i])

LEMMA TraceExists ==
    ASSUME NEW l, NEW d, NEW n \in Nat
    PROVE  \E t : Trace(t, l, d, n)
<1> DEFINE S == {k \in Nat : \E t : Trace(t, l, d, k)}
<1>1. 0 \in S
  <2> DEFINE t == [i \in 0 .. 0 |-> l]
  <2>1. Trace(t, l, d, 0)
    BY DEF Trace
  <2> QED BY <2>1
<1>2. ASSUME NEW k \in Nat, k \in S PROVE k + 1 \in S
  <2>1. PICK t : Trace(t, l, d, k)
    BY <1>2
  <2> DEFINE u == [i \in 0 .. k + 1 |-> IF i <= k THEN t[i] ELSE Update(t[k], d[k + 1])]
  <2>2. u[0] = l
    BY <2>1 DEF Trace
  <2>3. ASSUME NEW i \in 1 .. k + 1 PROVE u[i] = Update(u[i - 1], d[i])
    <3>1. CASE i <= k
      <4>1. u[i] = t[i] /\ u[i - 1] = t[i - 1] /\ i \in 1 .. k
        BY <3>1
      <4> QED BY <2>1, <4>1 DEF Trace
    <3>2. CASE i = k + 1
      <4>1. i - 1 = k /\ u[k] = t[k] /\ u[i] = Update(t[k], d[k + 1])
        BY <3>2
      <4> HIDE DEF u
      <4> QED BY <3>2, <4>1
    <3> QED BY <3>1, <3>2
  <2>4. u = [i \in 0 .. k + 1 |-> u[i]]
    OBVIOUS
  <2> HIDE DEF u
  <2>5. Trace(u, l, d, k + 1)
    BY <2>2, <2>3, <2>4 DEF Trace
  <2> QED BY <2>5
<1> HIDE DEF S
<1>3. S \subseteq Nat
  BY DEF S
<1>4. S = Nat
  BY <1>1, <1>2, <1>3, FromZero
<1> QED BY <1>4 DEF S

LEMMA AfterIs ==
    ASSUME NEW d, Len(d) \in Nat
    PROVE  \E t : Trace(t, NewLattice, d, Len(d)) /\ After(d) = t[Len(d)]
<1> DEFINE N == Len(d)
           F(f) == [n \in 0 .. N |-> IF n = 0 THEN NewLattice ELSE Update(f[n - 1], d[n])]
           t == CHOOSE f : f = F(f)
<1>1. PICK u : Trace(u, NewLattice, d, N)
  BY TraceExists
<1>2. u = F(u)
  BY <1>1 DEF Trace
<1>3. t = F(t)
  BY <1>2
<1>4. After(d) = t[N]
  BY DEF After
<1> HIDE DEF t
<1>5. Trace(t, NewLattice, d, N)
  BY <1>3 DEF Trace
<1> QED BY <1>4, <1>5

LEMMA TraceTyped ==
    ASSUME NEW ranges, IsRange(ranges), NEW l, IsLattice(l, ranges),
           NEW d, NEW n \in Nat, \A i \in 1 .. n : IsLattice(d[i], ranges),
           NEW t, Trace(t, l, d, n)
    PROVE  \A k \in 0 .. n : IsLattice(t[k], ranges)
<1> DEFINE S == {k \in Nat : k <= n => IsLattice(t[k], ranges)}
<1>1. 0 \in S
  BY DEF Trace
<1>2. ASSUME NEW k \in Nat, k \in S PROVE k + 1 \in S
  <2> SUFFICES ASSUME k + 1 <= n PROVE IsLattice(t[k + 1], ranges)
    OBVIOUS
  <2>1. IsLattice(t[k], ranges)
    BY <1>2
  <2>2. k + 1 \in 1 .. n /\ (k + 1) - 1 = k
    OBVIOUS
  <2>3. t[k + 1] = Update(t[k], d[k + 1])
    BY <2>2 DEF Trace
  <2> QED BY <2>1, <2>2, <2>3, LatticesStayLattices
<1> HIDE DEF S
<1>3. S = Nat
  <2>1. S \subseteq Nat
    BY DEF S
  <2> QED BY <1>1, <1>2, <2>1, FromZero
<1> QED BY <1>3 DEF S

\* What has been merged is merged for good.
LEMMA TraceAbsorbs ==
    ASSUME NEW ranges, IsRange(ranges), NEW l, IsLattice(l, ranges),
           NEW d, NEW n \in Nat, \A i \in 1 .. n : IsLattice(d[i], ranges),
           NEW t, Trace(t, l, d, n)
    PROVE  \A k \in 0 .. n : \A i \in 1 .. k : Update(t[k], d[i]) = t[k]
<1>t. \A k \in 0 .. n : IsLattice(t[k], ranges)
  BY TraceTyped
<1> DEFINE S == {k \in Nat : k <= n => \A i \in 1 .. k : Update(t[k], d[i]) = t[k]}
<1>1. 0 \in S
  OBVIOUS
<1>2. ASSUME NEW k \in Nat, k \in S PROVE k + 1 \in S
  <2> SUFFICES ASSUME k + 1 <= n, NEW i \in 1 .. k + 1
               PROVE  Update(t[k + 1], d[i]) = t[k + 1]
    OBVIOUS
  <2>1. k + 1 \in 1 .. n /\ (k + 1) - 1 = k /\ k \in 0 .. n /\ i \in 1 .. n
    OBVIOUS
  <2>2. t[k + 1] = Update(t[k], d[k + 1])
    BY <2>1 DEF Trace
  <2>3. /\ Update(Update(t[k], d[k + 1]), d[i]) = Update(Update(t[k], d[i]), d[k + 1])
        /\ Update(Update(t[k], d[k + 1]), d[k + 1]) = Update(t[k], d[k + 1])
    BY <1>t, <2>1, UpdatesCommute
  <2>4. CASE i = k + 1
    BY <2>2, <2>3, <2>4
  <2>5. CASE i # k + 1
    <3>1. Update(t[k], d[i]) = t[k]
      <4>1. i \in 1 .. k
        BY <2>5
      <4> QED BY <1>2, <4>1
    <3> QED BY <2>2, <2>3, <3>1
  <2> QED BY <2>4, <2>5
<1> HIDE DEF S
<1>3. S = Nat
  <2>1. S \subseteq Nat
    BY DEF S
  <2> QED BY <1>1, <1>2, <2>1, FromZero
<1> QED BY <1>3 DEF S

\* A delta may come before all the others as well as after them.
LEMMA TracePast ==
    ASSUME NEW ranges, IsRange(ranges), NEW l, IsLattice(l, ranges), NEW x, IsLattice(x, ranges),
           NEW d, NEW n \in Nat, \A i \in 1 .. n : IsLattice(d[i], ranges),
           NEW t, Trace(t, l, d, n), NEW u, Trace(u, Update(l, x), d, n)
    PROVE  \A k \in 0 .. n : u[k] = Update(t[k], x)
<1>t. \A k \in 0 .. n : IsLattice(t[k], ranges)
  BY TraceTyped
<1> DEFINE S == {k \in Nat : k <= n => u[k] = Update(t[k], x)}
<1>1. 0 \in S
  BY DEF Trace
<1>2. ASSUME NEW k \in Nat, k \in S PROVE k + 1 \in S
  <2> SUFFICES ASSUME k + 1 <= n PROVE u[k + 1] = Update(t[k + 1], x)
    OBVIOUS
  <2>1. k + 1 \in 1 .. n /\ (k + 1) - 1 = k /\ k \in 0 .. n
    OBVIOUS
  <2>2. t[k + 1] = Update(t[k], d[k + 1]) /\ u[k + 1] = Update(u[k], d[k + 1])
    BY <2>1 DEF Trace
  <2>3. u[k] = Update(t[k], x)
    BY <1>2
  <2>4. Update(Update(t[k], d[k + 1]), x) = Update(Update(t[k], x), d[k + 1])
    BY <1>t, <2>1, UpdatesCommute
  <2> QED BY <2>2, <2>3, <2>4
<1> HIDE DEF S
<1>3. S = Nat
  <2>1. S \subseteq Nat
    BY DEF S
  <2> QED BY <1>1, <1>2, <2>1, FromZero
<1> QED BY <1>3 DEF S

\* Deltas that are known already change nothing.
LEMMA TraceStill ==
    ASSUME NEW l, NEW d, NEW n \in Nat, \A i \in 1 .. n : Update(l, d[i]) = l,
           NEW t, Trace(t, l, d, n)
    PROVE  t[n] = l
<1> DEFINE S == {k \in Nat : k <= n => t[k] = l}
<1>1. 0 \in S
  BY DEF Trace
<1>2. ASSUME NEW k \in Nat, k \in S PROVE k + 1 \in S
  <2> SUFFICES ASSUME k + 1 <= n PROVE t[k + 1] = l
    OBVIOUS
  <2>1. k + 1 \in 1 .. n /\ (k + 1) - 1 = k
    OBVIOUS
  <2>2. t[k + 1] = Update(t[k], d[k + 1])
    BY <2>1 DEF Trace
  <2> QED BY <1>2, <2>1, <2>2
<1> HIDE DEF S
<1>3. S = Nat
  <2>1. S \subseteq Nat
    BY DEF S
  <2> QED BY <1>1, <1>2, <2>1, FromZero
<1> QED BY <1>3 DEF S

\* Two sequences of the same deltas.
SameDeltas(d, n, e, m) ==
    /\ \A i \in 1 .. n : \E j \in 1 .. m : d[i] = e[j]
    /\ \A j \in 1 .. m : \E i \in 1 .. n : e[j] = d[i]
AllLattices(d, n, ranges) == \A i \in 1 .. n : IsLattice(d[i], ranges)

\* The one after the other is as good as one of them.
LEMMA TracesMeet ==
    ASSUME NEW ranges, IsRange(ranges),
           NEW n \in Nat, NEW d, AllLattices(d, n, ranges),
           NEW m \in Nat, NEW e, AllLattices(e, m, ranges), SameDeltas(d, n, e, m),
           NEW t, Trace(t, NewLattice, d, n), NEW u, Trace(u, NewLattice, e, m)
    PROVE  t[n] = u[m]
<1>3. IsLattice(NewLattice, ranges)
  BY LatticesStayLattices
<1>a. /\ \A i \in 1 .. n : IsLattice(d[i], ranges)
      /\ \A j \in 1 .. m : IsLattice(e[j], ranges)
  BY DEF AllLattices
<1>4. \A i \in 1 .. n : Update(t[n], d[i]) = t[n]
  <2>1. \A k \in 0 .. n : \A i \in 1 .. k : Update(t[k], d[i]) = t[k]
    BY <1>3, <1>a, TraceAbsorbs
  <2> QED BY <2>1
<1>5. \A j \in 1 .. m : Update(u[m], e[j]) = u[m]
  <2>1. \A k \in 0 .. m : \A i \in 1 .. k : Update(u[k], e[i]) = u[k]
    BY <1>3, <1>a, TraceAbsorbs
  <2> QED BY <2>1
<1>6. \A j \in 0 .. m : IsLattice(u[j], ranges)
  BY <1>3, <1>a, TraceTyped
<1> DEFINE S == {j \in Nat : j <= m => \E w : Trace(w, u[j], d, n) /\ w[n] = t[n]}
<1>7. 0 \in S
  <2>1. u[0] = NewLattice
    BY DEF Trace
  <2> QED BY <2>1
<1>8. ASSUME NEW j \in Nat, j \in S PROVE j + 1 \in S
  <2> SUFFICES ASSUME j + 1 <= m PROVE \E w : Trace(w, u[j + 1], d, n) /\ w[n] = t[n]
    OBVIOUS
  <2>1. j + 1 \in 1 .. m /\ (j + 1) - 1 = j /\ j \in 0 .. m /\ j <= m
    OBVIOUS
  <2>2. PICK w : Trace(w, u[j], d, n) /\ w[n] = t[n]
    BY <1>8, <2>1
  <2> DEFINE l == u[j]
             x == e[j + 1]
  <2>3. u[j + 1] = Update(l, x)
    BY <2>1 DEF Trace
  <2>4. PICK v : Trace(v, Update(l, x), d, n)
    BY TraceExists
  <2>5. IsLattice(l, ranges) /\ IsLattice(x, ranges)
    BY <1>a, <1>6, <2>1
  <2>6. Update(t[n], x) = t[n]
    <3>1. PICK i \in 1 .. n : x = d[i]
      BY <2>1 DEF SameDeltas
    <3> QED BY <1>4, <3>1
  <2>7. Trace(w, l, d, n)
    BY <2>2
  <2> HIDE DEF l, x
  <2>8. \A k \in 0 .. n : v[k] = Update(w[k], x)
    BY <1>a, <2>4, <2>5, <2>7, TracePast
  <2>9. v[n] = t[n]
    BY <2>2, <2>6, <2>8
  <2> QED BY <2>3, <2>4, <2>9
<1> HIDE DEF S
<1>9. S = Nat
  <2>1. S \subseteq Nat
    BY DEF S
  <2> QED BY <1>7, <1>8, <2>1, FromZero
<1>10. PICK w : Trace(w, u[m], d, n) /\ w[n] = t[n]
  <2>1. m \in S
    BY <1>9
  <2> QED BY <2>1 DEF S
<1>11. \A i \in 1 .. n : Update(u[m], d[i]) = u[m]
  <2> SUFFICES ASSUME NEW i \in 1 .. n PROVE Update(u[m], d[i]) = u[m]
    OBVIOUS
  <2>1. PICK j \in 1 .. m : d[i] = e[j]
    BY DEF SameDeltas
  <2> QED BY <1>5, <2>1
<1> DEFINE l == u[m]
<1>12. w[n] = l
  <2>1. Trace(w, l, d, n) /\ \A i \in 1 .. n : Update(l, d[i]) = l
    BY <1>10, <1>11
  <2> HIDE DEF l
  <2> QED BY <2>1, TraceStill
<1> QED BY <1>10, <1>12

\* A lattice depends on which deltas it has seen, not on their order or on
\* how often each of them came, for sequences of any length: so servers that
\* backends and other servers send the same deltas end up with the same
\* lattice, and none of them changes it again.
THEOREM OrderImmaterial ==
    ASSUME NEW ranges, IsRange(ranges),
           NEW d, Len(d) \in Nat, AllLattices(d, Len(d), ranges),
           NEW e, Len(e) \in Nat, AllLattices(e, Len(e), ranges),
           SameDeltas(d, Len(d), e, Len(e))
    PROVE  /\ After(d) = After(e)
           /\ \A i \in 1 .. Len(d) : Update(After(d), d[i]) = After(d)
<1> DEFINE n == Len(d)
           m == Len(e)
<1>1. PICK t : Trace(t, NewLattice, d, n) /\ After(d) = t[n]
  BY AfterIs
<1>2. PICK u : Trace(u, NewLattice, e, m) /\ After(e) = u[m]
  BY AfterIs
<1>3. n \in Nat /\ m \in Nat /\ AllLattices(d, n, ranges) /\ AllLattices(e, m, ranges)
      /\ SameDeltas(d, n, e, m)
  OBVIOUS
<1> HIDE DEF n, m
<1>4. t[n] = u[m]
  BY <1>1, <1>2, <1>3, TracesMeet
<1>5. \A k \in 0 .. n : \A i \in 1 .. k : Update(t[k], d[i]) = t[k]
  <2>1. IsLattice(NewLattice, ranges)
    BY LatticesStayLattices
  <2> QED BY <1>1, <1>3, <2>1, TraceAbsorbs DEF AllLattices
<1>6. \A i \in 1 .. n : Update(After(d), d[i]) = After(d)
  BY <1>1, <1>3, <1>5
<1> QED BY <1>1, <1>2, <1>4, <1>6 DEF n

-----------------------------------------------------------------------------
(***************************************************************************)
(* The properties of Rules, for every input.                               *)
(***************************************************************************)

InputsOnly == input = [kind |-> "none"] \/ input \in Inputs

LEMMA OneInput == Spec => []InputsOnly
<1>1. Init => InputsOnly
  BY DEF Init, InputsOnly
<1>2. InputsOnly /\ [Next]_input => InputsOnly'
  BY DEF Next, InputsOnly
<1> QED BY <1>1, <1>2, PTL DEF Spec

LEMMA LenOf ==
    ASSUME NEW n \in Nat, NEW S, NEW d \in [1 .. n -> S]
    PROVE  Len(d) = n
<1>1. d \in Seq(S)
  BY SeqDef
<1>2. DOMAIN d = 1 .. Len(d) /\ Len(d) \in Nat
  BY <1>1, LenProperties
<1>3. 1 .. n = 1 .. Len(d)
  BY <1>2
<1>4. ASSUME Len(d) > n PROVE FALSE
  <2>1. Len(d) \in 1 .. Len(d) /\ Len(d) \notin 1 .. n
    BY <1>2, <1>4
  <2> QED BY <1>3, <2>1
<1>5. ASSUME Len(d) < n PROVE FALSE
  <2>1. n \in 1 .. n /\ n \notin 1 .. Len(d)
    BY <1>2, <1>5
  <2> QED BY <1>3, <2>1
<1> QED BY <1>2, <1>4, <1>5

LEMMA DeltasInput ==
    ASSUME InputsOnly, input.kind = "deltas"
    PROVE  /\ input.deltas \in [1 .. MaxDeltas -> Deltas]
           /\ Len(input.deltas) = MaxDeltas
<1>1. input.deltas \in [1 .. MaxDeltas -> Deltas]
  BY DEF InputsOnly, Inputs
<1>2. MaxDeltas \in Nat
  BY DeltasAssumption
<1> QED BY <1>1, <1>2, LenOf

\* Whatever deltas come, their order and repetitions do not matter.
THEOREM DeltasCommuteAlways == Spec => []DeltasCommute
<1>1. InputsOnly => DeltasCommute
  <2> SUFFICES ASSUME InputsOnly, input.kind = "deltas"
               PROVE  LET all == After(input.deltas) IN
                      /\ \A other \in [1 .. MaxDeltas -> Range(input.deltas)] :
                           Range(other) = Range(input.deltas) => After(other) = all
                      /\ \A d \in Range(input.deltas) : Update(all, d) = all
    BY DEF DeltasCommute
  <2> DEFINE d == input.deltas
  <2>1. d \in [1 .. MaxDeltas -> Deltas] /\ Len(d) = MaxDeltas
    BY DeltasInput
  <2> HIDE DEF d
  <2>2. MaxDeltas \in Nat /\ IsRange(Ranges)
    BY DeltasAssumption
  <2>3. AllLattices(d, Len(d), Ranges)
    BY <2>1, DeltasAssumption DEF AllLattices
  <2>4. ASSUME NEW e \in [1 .. MaxDeltas -> Range(d)], Range(e) = Range(d)
        PROVE  /\ After(d) = After(e)
               /\ \A i \in 1 .. Len(d) : Update(After(d), d[i]) = After(d)
    <3>1. Len(e) = MaxDeltas
      BY <2>2, LenOf
    <3>2. \A i \in 1 .. MaxDeltas : d[i] \in Range(d)
      BY <2>1 DEF Range
    <3>3. \A i \in 1 .. MaxDeltas : e[i] \in Range(e)
      BY DEF Range
    <3>4. \A x \in Range(d) : \E i \in 1 .. MaxDeltas : x = d[i]
      BY <2>1 DEF Range
    <3>5. \A x \in Range(e) : \E i \in 1 .. MaxDeltas : x = e[i]
      BY DEF Range
    <3>6. SameDeltas(d, Len(d), e, Len(e))
      BY <2>1, <2>4, <3>1, <3>2, <3>3, <3>4, <3>5 DEF SameDeltas
    <3>7. AllLattices(e, Len(e), Ranges)
      BY <2>1, <2>3, <2>4, <3>1, <3>3, <3>4 DEF AllLattices
    <3> QED BY <2>1, <2>2, <2>3, <3>1, <3>6, <3>7, OrderImmaterial
  <2>5. \A i \in 1 .. Len(d) : Update(After(d), d[i]) = After(d)
    <3>1. d \in [1 .. MaxDeltas -> Range(d)]
      BY <2>1 DEF Range
    <3> QED BY <2>4, <3>1
  <2>6. \A x \in Range(d) : Update(After(d), x) = After(d)
    BY <2>1, <2>5 DEF Range
  <2> QED BY <2>4, <2>6 DEF d
<1> QED BY <1>1, OneInput, PTL

-----------------------------------------------------------------------------
(* A client that hears all that is sent.                                   *)

LEMMA NewsIsValues ==
    ASSUME NEW ranges, NEW m, NEW d, IsValues(d, ranges)
    PROVE  IsValues(News(m, d), ranges)
<1> DEFINE n == News(m, d)
<1>1. DOMAIN n \subseteq DOMAIN d /\ \A v \in DOMAIN n : n[v] = d[v]
  BY DEF News, Restrict
<1>2. IsMap(n)
  BY DEF News, Restrict, IsMap
<1> HIDE DEF n
<1>3. IsValues(n, ranges)
  BY <1>1, <1>2 DEF IsValues
<1> QED BY <1>3 DEF n

LEMMA NewsIsKeys ==
    ASSUME NEW ranges, NEW m, NEW d, IsKeys(d, ranges)
    PROVE  IsKeys(NewsOfKeys(m, d), ranges)
<1> DEFINE n == NewsOfKeys(m, d)
<1>1. /\ DOMAIN n = {k \in DOMAIN d : DOMAIN News(ValueAt(m, k), d[k]) # {}}
      /\ \A k \in DOMAIN n : n[k] = News(ValueAt(m, k), d[k])
  BY NewsOfKeysAre
<1>2. IsMap(n)
  BY DEF NewsOfKeys, Restrict, IsMap
<1> HIDE DEF n
<1>3. ASSUME NEW k \in DOMAIN n PROVE IsValues(n[k], ranges)
  <2>1. k \in DOMAIN d /\ IsValues(d[k], ranges)
    BY <1>1 DEF IsKeys
  <2>2. IsValues(News(ValueAt(m, k), d[k]), ranges)
    BY <2>1, NewsIsValues
  <2> QED BY <1>1, <2>2
<1>4. IsKeys(n, ranges)
  BY <1>2, <1>3 DEF IsKeys
<1> QED BY <1>4 DEF n

LEMMA MinimalIs ==
    ASSUME NEW l, NEW d
    PROVE  LET x == MinimalDelta(l, d) IN
           /\ x = [shared |-> x.shared, private |-> x.private]
           /\ x.shared = NewsOfKeys(l.shared, d.shared)
           /\ IsMap(x.private) /\ DOMAIN x.private = DOMAIN d.private
           /\ \A s \in DOMAIN d.private :
                 x.private[s] = NewsOfKeys(ValueAt(l.private, s), d.private[s])
<1> DEFINE p == [s \in DOMAIN d.private |-> NewsOfKeys(ValueAt(l.private, s), d.private[s])]
<1>1. MinimalDelta(l, d) = [shared |-> NewsOfKeys(l.shared, d.shared), private |-> p]
  BY DEF MinimalDelta
<1>2. /\ IsMap(p) /\ DOMAIN p = DOMAIN d.private
      /\ \A s \in DOMAIN d.private : p[s] = NewsOfKeys(ValueAt(l.private, s), d.private[s])
  BY DEF IsMap
<1> HIDE DEF p
<1> QED BY <1>1, <1>2

LEMMA MinimalIsLattice ==
    ASSUME NEW ranges, NEW l, NEW d, IsLattice(d, ranges)
    PROVE  IsLattice(MinimalDelta(l, d), ranges)
<1> DEFINE x == MinimalDelta(l, d)
<1>1. /\ x = [shared |-> x.shared, private |-> x.private]
      /\ x.shared = NewsOfKeys(l.shared, d.shared)
      /\ IsMap(x.private) /\ DOMAIN x.private = DOMAIN d.private
      /\ \A s \in DOMAIN d.private :
            x.private[s] = NewsOfKeys(ValueAt(l.private, s), d.private[s])
  BY MinimalIs
<1> HIDE DEF x
<1>2. IsKeys(x.shared, ranges)
  BY <1>1, NewsIsKeys DEF IsLattice
<1>3. ASSUME NEW s \in DOMAIN x.private PROVE IsKeys(x.private[s], ranges)
  <2>1. s \in DOMAIN d.private /\ IsKeys(d.private[s], ranges)
    BY <1>1 DEF IsLattice
  <2>2. IsKeys(NewsOfKeys(ValueAt(l.private, s), d.private[s]), ranges)
    BY <2>1, NewsIsKeys
  <2> QED BY <1>1, <2>1, <2>2
<1>4. IsLattice(x, ranges)
  BY <1>1, <1>2, <1>3 DEF IsLattice
<1> QED BY <1>4 DEF x

LEMMA SameKeysAll ==
    ASSUME NEW m, NEW n
    PROVE  SameKeys(m, n) <=> \A k : ValueAt(m, k) = ValueAt(n, k)
BY DEF SameKeys, ValueAt

LEMMA SameValuesAll ==
    ASSUME NEW a, NEW b
    PROVE  SameValues(a, b) <=>
             /\ SameKeys(a.shared, b.shared)
             /\ \A s : SameKeys(ValueAt(a.private, s), ValueAt(b.private, s))
<1>1. \A m : SameKeys(m, m)
  BY DEF SameKeys
<1>2. ASSUME NEW s, s \notin DOMAIN a.private \cup DOMAIN b.private
      PROVE  SameKeys(ValueAt(a.private, s), ValueAt(b.private, s))
  BY <1>1, <1>2 DEF ValueAt
<1> QED BY <1>2 DEF SameValues

LEMMA UpdatedSelf ==
    ASSUME NEW ranges, IsRange(ranges), NEW m, IsValues(m, ranges)
    PROVE  Updated(m, m) = m
<1> DEFINE u == Updated(m, m)
<1>1. Merged(u, m, m)
  BY UpdatedMerges
<1> HIDE DEF u
<1>2. ASSUME NEW v \in DOMAIN u PROVE u[v] = m[v]
  <2>1. v \in DOMAIN m /\ u[v] = UpdateValue(v, m[v], m[v])
    BY <1>1 DEF Merged
  <2>2. m[v] \in ranges[v] /\ RangeOK(v, ranges[v])
    BY <2>1 DEF IsValues, IsRange
  <2>3. UpdateValue(v, m[v], m[v]) = m[v]
    BY <2>2, ValueMerge
  <2> QED BY <2>1, <2>3
<1>3. IsMap(u) /\ IsMap(m) /\ DOMAIN u = DOMAIN m
  BY <1>1 DEF Merged, IsValues
<1>4. u = m
  BY <1>2, <1>3, SameMap
<1> QED BY <1>4 DEF u

\* One delta, in one map of keys.
LEMMA KeysKeepUp ==
    ASSUME NEW ranges, IsRange(ranges), NEW m, IsKeys(m, ranges), NEW d, IsKeys(d, ranges),
           NEW c, IsKeys(c, ranges), SameKeys(c, m)
    PROVE  SameKeys(UpdatedKeys(c, NewsOfKeys(m, d)), UpdatedKeys(m, d))
<1> DEFINE x == UpdatedKeys(c, NewsOfKeys(m, d))
           y == UpdatedKeys(m, d)
<1>1. ASSUME NEW k PROVE ValueAt(x, k) = ValueAt(y, k)
  <2>1. ValueAt(c, k) = ValueAt(m, k)
    BY SameKeysAll
  <2>2. IsValues(ValueAt(m, k), ranges)
    BY ValueAtIsValues
  <2>3. Knows(c, m, k)
    BY <2>1, <2>2, UpdatedSelf DEF Knows
  <2>4. ValueAt(x, k) = ValueAt(UpdatedKeys(c, d), k)
    BY <2>3, KeyFollows
  <2>5. ValueAt(UpdatedKeys(c, d), k)
            = IF k \in DOMAIN d THEN Updated(ValueAt(c, k), d[k]) ELSE ValueAt(c, k)
    BY KeyAfterUpdate
  <2>6. ValueAt(y, k) = IF k \in DOMAIN d THEN Updated(ValueAt(m, k), d[k]) ELSE ValueAt(m, k)
    BY KeyAfterUpdate
  <2> HIDE DEF x, y
  <2> QED BY <2>1, <2>4, <2>5, <2>6
<1> HIDE DEF x, y
<1>2. SameKeys(x, y)
  BY <1>1, SameKeysAll
<1> QED BY <1>2 DEF x, y

LEMMA SessionAfterUpdate ==
    ASSUME NEW l, NEW d, NEW s
    PROVE  ValueAt(Update(l, d).private, s) =
               IF s \in DOMAIN d.private THEN UpdatedKeys(ValueAt(l.private, s), d.private[s])
               ELSE ValueAt(l.private, s)
<1> DEFINE u == Update(l, d)
<1>1. MergedSessions(u.private, l.private, d.private)
  BY UpdateMerges
<1> HIDE DEF u
<1>2. CASE s \in DOMAIN d.private
  BY <1>1, <1>2 DEF MergedSessions, ValueAt, u
<1>3. CASE s \notin DOMAIN d.private
  BY <1>1, <1>3 DEF MergedSessions, ValueAt, u
<1> QED BY <1>2, <1>3

\* One delta, in a lattice.
LEMMA LatticeKeepsUp ==
    ASSUME NEW ranges, IsRange(ranges), NEW l, IsLattice(l, ranges), NEW d, IsLattice(d, ranges),
           NEW c, IsLattice(c, ranges), SameValues(c, l)
    PROVE  SameValues(Update(c, MinimalDelta(l, d)), Update(l, d))
<1> DEFINE x == MinimalDelta(l, d)
           a == Update(c, x)
           b == Update(l, d)
<1>1. /\ x.shared = NewsOfKeys(l.shared, d.shared)
      /\ DOMAIN x.private = DOMAIN d.private
      /\ \A s \in DOMAIN d.private :
            x.private[s] = NewsOfKeys(ValueAt(l.private, s), d.private[s])
  BY MinimalIs
<1>2. /\ a.shared = UpdatedKeys(c.shared, x.shared)
      /\ b.shared = UpdatedKeys(l.shared, d.shared)
  BY UpdateMerges
<1>3. /\ SameKeys(c.shared, l.shared)
      /\ \A s : SameKeys(ValueAt(c.private, s), ValueAt(l.private, s))
  BY SameValuesAll
<1>4. SameKeys(a.shared, b.shared)
  <2> DEFINE cs == c.shared
             ls == l.shared
             ds == d.shared
  <2>1. IsKeys(cs, ranges) /\ IsKeys(ls, ranges) /\ IsKeys(ds, ranges) /\ SameKeys(cs, ls)
    BY <1>3 DEF IsLattice
  <2>2. a.shared = UpdatedKeys(cs, NewsOfKeys(ls, ds)) /\ b.shared = UpdatedKeys(ls, ds)
    BY <1>1, <1>2
  <2> HIDE DEF cs, ls, ds, a, b
  <2> QED BY <2>1, <2>2, KeysKeepUp
<1>5. ASSUME NEW s PROVE SameKeys(ValueAt(a.private, s), ValueAt(b.private, s))
  <2> DEFINE cs == ValueAt(c.private, s)
             ls == ValueAt(l.private, s)
             ds == d.private[s]
  <2>1. IsKeys(cs, ranges) /\ IsKeys(ls, ranges) /\ SameKeys(cs, ls)
    BY <1>3, ValueAtIsKeys DEF IsLattice
  <2>2. ValueAt(a.private, s) =
            IF s \in DOMAIN x.private THEN UpdatedKeys(cs, x.private[s]) ELSE cs
    BY SessionAfterUpdate
  <2>3. ValueAt(b.private, s) = IF s \in DOMAIN d.private THEN UpdatedKeys(ls, ds) ELSE ls
    BY SessionAfterUpdate
  <2> HIDE DEF x, a, b, cs, ls
  <2>4. CASE s \notin DOMAIN d.private
    BY <1>1, <2>1, <2>2, <2>3, <2>4
  <2>5. CASE s \in DOMAIN d.private
    <3>1. IsKeys(ds, ranges)
      BY <2>5 DEF IsLattice
    <3>2. x.private[s] = NewsOfKeys(ls, ds)
      BY <1>1, <2>5 DEF ls
    <3> HIDE DEF ds
    <3>3. SameKeys(UpdatedKeys(cs, NewsOfKeys(ls, ds)), UpdatedKeys(ls, ds))
      BY <2>1, <3>1, KeysKeepUp
    <3> QED BY <1>1, <2>2, <2>3, <2>5, <3>2, <3>3
  <2> QED BY <2>4, <2>5
<1> HIDE DEF a, b, x
<1>6. SameValues(a, b)
  BY <1>4, <1>5, SameValuesAll
<1> QED BY <1>6 DEF a, b, x

\* Nothing is sent exactly if nothing changes: in one map of keys,
LEMMA KeysSilentAll ==
    ASSUME NEW ranges, IsRange(ranges), NEW m, IsKeys(m, ranges), NEW d
    PROVE  SameKeys(NewsOfKeys(m, d), EmptyMap) <=> SameKeys(m, UpdatedKeys(m, d))
<1> DEFINE n == NewsOfKeys(m, d)
           u == UpdatedKeys(m, d)
<1>1. /\ DOMAIN n = {k \in DOMAIN d : DOMAIN News(ValueAt(m, k), d[k]) # {}}
      /\ \A k \in DOMAIN n : n[k] = News(ValueAt(m, k), d[k])
  BY NewsOfKeysAre
<1>2. DOMAIN n = {} <=> \A k \in DOMAIN d : ValueAt(u, k) = ValueAt(m, k)
  BY KeysSilent
<1>3. \A k : k \notin DOMAIN d => ValueAt(u, k) = ValueAt(m, k)
  BY KeyAfterUpdate
<1> HIDE DEF n, u
<1>4. SameKeys(n, EmptyMap) <=> DOMAIN n = {}
  <2>1. ASSUME NEW k \in DOMAIN n PROVE ValueAt(n, k) # ValueAt(EmptyMap, k)
    <3>1. DOMAIN n[k] # {}
      BY <1>1
    <3> QED BY <3>1, EmptyMapIs DEF ValueAt
  <2> QED BY <2>1, EmptyMapIs DEF SameKeys
<1>5. SameKeys(m, u) <=> DOMAIN n = {}
  BY <1>2, <1>3, SameKeysAll
<1> QED BY <1>4, <1>5 DEF n, u

\* and in a lattice.
LEMMA LatticeSilent ==
    ASSUME NEW ranges, IsRange(ranges), NEW l, IsLattice(l, ranges), NEW d, IsLattice(d, ranges)
    PROVE  SameValues(MinimalDelta(l, d), NewLattice) <=> SameValues(l, Update(l, d))
<1> DEFINE x == MinimalDelta(l, d)
           b == Update(l, d)
<1>1. /\ x.shared = NewsOfKeys(l.shared, d.shared)
      /\ DOMAIN x.private = DOMAIN d.private
      /\ \A s \in DOMAIN d.private :
            x.private[s] = NewsOfKeys(ValueAt(l.private, s), d.private[s])
  BY MinimalIs
<1>2. b.shared = UpdatedKeys(l.shared, d.shared)
  BY UpdateMerges
<1>3. NewLattice.shared = EmptyMap /\ \A s : ValueAt(NewLattice.private, s) = EmptyMap
  BY EmptyMapIs DEF NewLattice, ValueAt
<1>4. SameKeys(x.shared, NewLattice.shared) <=> SameKeys(l.shared, b.shared)
  <2> DEFINE ls == l.shared
             ds == d.shared
  <2>1. IsKeys(ls, ranges)
    BY DEF IsLattice
  <2>2. x.shared = NewsOfKeys(ls, ds) /\ b.shared = UpdatedKeys(ls, ds)
    BY <1>1, <1>2
  <2>3. SameKeys(NewsOfKeys(ls, ds), EmptyMap) <=> SameKeys(ls, UpdatedKeys(ls, ds))
    BY <2>1, KeysSilentAll
  <2> HIDE DEF x, b
  <2> QED BY <1>3, <2>2, <2>3
<1>5. ASSUME NEW s
      PROVE  SameKeys(ValueAt(x.private, s), ValueAt(NewLattice.private, s))
                <=> SameKeys(ValueAt(l.private, s), ValueAt(b.private, s))
  <2> DEFINE ls == ValueAt(l.private, s)
             ds == d.private[s]
  <2>1. IsKeys(ls, ranges)
    BY ValueAtIsKeys DEF IsLattice
  <2>2. ValueAt(b.private, s) = IF s \in DOMAIN d.private THEN UpdatedKeys(ls, ds) ELSE ls
    BY SessionAfterUpdate
  <2> HIDE DEF x, b
  <2>3. CASE s \notin DOMAIN d.private
    <3>1. ValueAt(x.private, s) = EmptyMap
      BY <1>1, <2>3 DEF ValueAt
    <3>2. \A m : SameKeys(m, m)
      BY DEF SameKeys
    <3> QED BY <1>3, <2>2, <2>3, <3>1, <3>2
  <2>4. CASE s \in DOMAIN d.private
    <3>1. ValueAt(x.private, s) = NewsOfKeys(ls, ds)
      BY <1>1, <2>4 DEF ValueAt
    <3> HIDE DEF ls, ds
    <3>2. SameKeys(NewsOfKeys(ls, ds), EmptyMap) <=> SameKeys(ls, UpdatedKeys(ls, ds))
      BY <2>1, KeysSilentAll
    <3>3. ls = ValueAt(l.private, s)
      BY DEF ls
    <3> QED BY <1>3, <2>2, <2>4, <3>1, <3>2, <3>3
  <2> QED BY <2>3, <2>4
<1> HIDE DEF x, b
<1>6. SameValues(x, NewLattice) <=> SameValues(l, b)
  BY <1>4, <1>5, SameValuesAll
<1> QED BY <1>6 DEF x, b

\* The lattice on the way.
LEMMA AfterFirst ==
    ASSUME NEW D, NEW n \in Nat, NEW d \in [1 .. n -> D],
           NEW t, Trace(t, NewLattice, d, n), NEW k \in 0 .. n
    PROVE  After(First(d, k)) = t[k]
<1> DEFINE e == First(d, k)
<1>1. e \in [1 .. k -> D] /\ \A i \in 1 .. k : e[i] = d[i]
  BY DEF First
<1> HIDE DEF e
<1>2. Len(e) = k
  BY <1>1, LenOf
<1>3. PICK u : Trace(u, NewLattice, e, k) /\ After(e) = u[k]
  BY <1>2, AfterIs
<1> DEFINE S == {j \in Nat : j <= k => u[j] = t[j]}
<1>4. 0 \in S
  BY <1>3 DEF Trace
<1>5. ASSUME NEW j \in Nat, j \in S PROVE j + 1 \in S
  <2> SUFFICES ASSUME j + 1 <= k PROVE u[j + 1] = t[j + 1]
    OBVIOUS
  <2>1. j + 1 \in 1 .. k /\ j + 1 \in 1 .. n /\ (j + 1) - 1 = j /\ u[j] = t[j]
    BY <1>5
  <2>2. u[j + 1] = Update(u[j], e[j + 1])
    BY <1>3, <2>1 DEF Trace
  <2>3. t[j + 1] = Update(t[j], d[j + 1])
    BY <2>1 DEF Trace
  <2> QED BY <1>1, <2>1, <2>2, <2>3
<1> HIDE DEF S
<1>6. S = Nat
  <2>1. S \subseteq Nat
    BY DEF S
  <2> QED BY <1>4, <1>5, <2>1, FromZero
<1>7. u[k] = t[k]
  <2>1. k \in S
    BY <1>6
  <2> QED BY <2>1 DEF S
<1> QED BY <1>3, <1>7 DEF e

\* A client that gets x[i] where the server gets d[i].
LEMMA TraceFollows ==
    ASSUME NEW ranges, IsRange(ranges), NEW n \in Nat, NEW d, AllLattices(d, n, ranges),
           NEW t, Trace(t, NewLattice, d, n),
           NEW x, \A i \in 1 .. n : x[i] = MinimalDelta(t[i - 1], d[i]),
           NEW c, Trace(c, NewLattice, x, n)
    PROVE  SameValues(c[n], t[n])
<1>0. IsLattice(NewLattice, ranges)
  BY LatticesStayLattices
<1>t. \A k \in 0 .. n : IsLattice(t[k], ranges)
  BY <1>0, TraceTyped DEF AllLattices
<1>c. \A k \in 0 .. n : IsLattice(c[k], ranges)
  <2>1. ASSUME NEW i \in 1 .. n PROVE IsLattice(x[i], ranges)
    BY MinimalIsLattice DEF AllLattices
  <2> QED BY <1>0, <2>1, TraceTyped
<1> DEFINE S == {k \in Nat : k <= n => SameValues(c[k], t[k])}
<1>1. 0 \in S
  <2>1. c[0] = t[0]
    BY DEF Trace
  <2>2. \A l : SameValues(l, l)
    BY DEF SameValues, SameKeys
  <2> QED BY <2>1, <2>2
<1>2. ASSUME NEW k \in Nat, k \in S PROVE k + 1 \in S
  <2> SUFFICES ASSUME k + 1 <= n PROVE SameValues(c[k + 1], t[k + 1])
    OBVIOUS
  <2>1. k + 1 \in 1 .. n /\ (k + 1) - 1 = k /\ k \in 0 .. n /\ SameValues(c[k], t[k])
    BY <1>2
  <2> DEFINE l == t[k]
             dk == d[k + 1]
             ck == c[k]
  <2>2. t[k + 1] = Update(l, dk) /\ c[k + 1] = Update(ck, x[k + 1])
    BY <2>1 DEF Trace
  <2>3. x[k + 1] = MinimalDelta(l, dk)
    BY <2>1
  <2>4. /\ IsLattice(l, ranges) /\ IsLattice(dk, ranges) /\ IsLattice(ck, ranges)
        /\ SameValues(ck, l)
    BY <1>t, <1>c, <2>1 DEF AllLattices
  <2> HIDE DEF l, dk, ck
  <2>5. SameValues(Update(ck, MinimalDelta(l, dk)), Update(l, dk))
    BY <2>4, LatticeKeepsUp
  <2> QED BY <2>2, <2>3, <2>5
<1> HIDE DEF S
<1>3. S = Nat
  <2>1. S \subseteq Nat
    BY DEF S
  <2> QED BY <1>1, <1>2, <2>1, FromZero
<1>4. n \in S
  BY <1>3
<1> QED BY <1>4 DEF S

\* A client that has heard all that Lattice::update left of the deltas has
\* the values of the server, and nothing is sent for a delta exactly if it
\* changes nothing, whatever the deltas and however many they are.
THEOREM ClientFollowsAlways == Spec => []ClientFollowsDelta
<1>1. InputsOnly => ClientFollowsDelta
  <2> SUFFICES ASSUME InputsOnly, input.kind = "deltas"
               PROVE  LET deltas == input.deltas
                          sent == Sent(deltas)
                      IN /\ SameValues(After(sent), After(deltas))
                         /\ \A i \in 1 .. MaxDeltas :
                               SameValues(sent[i], NewLattice) <=>
                                  SameValues(After(First(deltas, i - 1)), After(First(deltas, i)))
    BY DEF ClientFollowsDelta
  <2> DEFINE d == input.deltas
             x == Sent(d)
             n == MaxDeltas
  <2>1. d \in [1 .. n -> Deltas] /\ Len(d) = n
    BY DeltasInput
  <2>2. n \in Nat /\ IsRange(Ranges)
    BY DeltasAssumption
  <2>3. AllLattices(d, n, Ranges)
    BY <2>1, DeltasAssumption DEF AllLattices
  <2>4. x = [i \in 1 .. n |-> MinimalDelta(After(First(d, i - 1)), d[i])]
    BY <2>1 DEF Sent
  <2> HIDE DEF d, x, n
  <2>5. PICK t : Trace(t, NewLattice, d, n) /\ After(d) = t[n]
    BY <2>1, <2>2, AfterIs
  <2>6. \A k \in 0 .. n : After(First(d, k)) = t[k]
    BY <2>1, <2>2, <2>5, AfterFirst
  <2>7. \A i \in 1 .. n : x[i] = MinimalDelta(t[i - 1], d[i])
    <3> SUFFICES ASSUME NEW i \in 1 .. n PROVE x[i] = MinimalDelta(t[i - 1], d[i])
      OBVIOUS
    <3>1. i - 1 \in 0 .. n
      BY <2>2
    <3> QED BY <2>4, <2>6, <3>1
  <2>8. Len(x) = n
    <3> DEFINE D == {x[i] : i \in 1 .. n}
    <3>1. x \in [1 .. n -> D]
      BY <2>4
    <3> HIDE DEF D
    <3> QED BY <2>2, <3>1, LenOf
  <2>9. PICK c : Trace(c, NewLattice, x, n) /\ After(x) = c[n]
    BY <2>2, <2>8, AfterIs
  <2>10. SameValues(After(x), After(d))
    BY <2>2, <2>3, <2>5, <2>7, <2>9, TraceFollows
  <2>11. ASSUME NEW i \in 1 .. n
         PROVE  SameValues(x[i], NewLattice) <=>
                   SameValues(After(First(d, i - 1)), After(First(d, i)))
    <3> DEFINE l == t[i - 1]
               di == d[i]
    <3>1. i - 1 \in 0 .. n /\ i \in 0 .. n
      BY <2>2
    <3>2. After(First(d, i - 1)) = l /\ After(First(d, i)) = t[i] /\ t[i] = Update(l, di)
      BY <2>5, <2>6, <3>1 DEF Trace
    <3>3. \A k \in 0 .. n : IsLattice(t[k], Ranges)
      <4>1. IsLattice(NewLattice, Ranges)
        BY <2>2, LatticesStayLattices
      <4> QED BY <2>2, <2>3, <2>5, <4>1, TraceTyped DEF AllLattices
    <3>4. IsLattice(l, Ranges) /\ IsLattice(di, Ranges) /\ x[i] = MinimalDelta(l, di)
      BY <2>3, <2>7, <3>1, <3>3 DEF AllLattices
    <3> HIDE DEF l, di
    <3>5. SameValues(MinimalDelta(l, di), NewLattice) <=> SameValues(l, Update(l, di))
      BY <2>2, <3>4, LatticeSilent
    <3> QED BY <3>2, <3>4, <3>5
  <2> QED BY <2>10, <2>11 DEF d, x, n
<1> QED BY <1>1, OneInput, PTL

-----------------------------------------------------------------------------
(* Reloads of the settings of static files and of disk pools.              *)

\* PartialEq looks at all that the rest is computed from.
LEMMA EqualSettings ==
    ASSUME NEW names, NEW x, Fields(x, names), NEW y, Fields(y, names),
           NEW f, NEW g,
           Files!Equal(Files!Extended(x, f), Files!Extended(y, g), names)
    PROVE  x = y
<1>1. DOMAIN x = names /\ DOMAIN y = names
  BY DEF Fields
<1>2. \A n \in names : Files!Extended(x, f)[n] = x[n] /\ Files!Extended(y, g)[n] = y[n]
  BY <1>1 DEF Files!Extended
<1>3. \A n \in names : x[n] = y[n]
  BY <1>2 DEF Files!Equal
<1>4. [n \in names |-> x[n]] = [n \in names |-> y[n]]
  BY <1>3
<1> QED BY <1>4 DEF Fields

\* The pools on the way.
PoolTrace(t, configs, n) ==
    /\ t = [i \in 0 .. n |-> t[i]]
    /\ t[0] = Files!NewPools
    /\ \A i \in 1 .. n : t[i] = Files!UpdatePools(t[i - 1], configs[i])

LEMMA PoolTraceExists ==
    ASSUME NEW d, NEW n \in Nat
    PROVE  \E t : PoolTrace(t, d, n)
<1> DEFINE S == {k \in Nat : \E t : PoolTrace(t, d, k)}
<1>1. 0 \in S
  <2> DEFINE t == [i \in 0 .. 0 |-> Files!NewPools]
  <2>1. PoolTrace(t, d, 0)
    BY DEF PoolTrace
  <2> QED BY <2>1
<1>2. ASSUME NEW k \in Nat, k \in S PROVE k + 1 \in S
  <2>1. PICK t : PoolTrace(t, d, k)
    BY <1>2
  <2> DEFINE u == [i \in 0 .. k + 1 |->
                      IF i <= k THEN t[i] ELSE Files!UpdatePools(t[k], d[k + 1])]
  <2>2. u[0] = Files!NewPools
    BY <2>1 DEF PoolTrace
  <2>3. ASSUME NEW i \in 1 .. k + 1 PROVE u[i] = Files!UpdatePools(u[i - 1], d[i])
    <3>1. CASE i <= k
      <4>1. u[i] = t[i] /\ u[i - 1] = t[i - 1] /\ i \in 1 .. k
        BY <3>1
      <4> QED BY <2>1, <4>1 DEF PoolTrace
    <3>2. CASE i = k + 1
      <4>1. i - 1 = k /\ u[k] = t[k] /\ u[i] = Files!UpdatePools(t[k], d[k + 1])
        BY <3>2
      <4> HIDE DEF u
      <4> QED BY <3>2, <4>1
    <3> QED BY <3>1, <3>2
  <2>4. u = [i \in 0 .. k + 1 |-> u[i]]
    OBVIOUS
  <2> HIDE DEF u
  <2>5. PoolTrace(u, d, k + 1)
    BY <2>2, <2>3, <2>4 DEF PoolTrace
  <2> QED BY <2>5
<1> HIDE DEF S
<1>3. S = Nat
  <2>1. S \subseteq Nat
    BY DEF S
  <2> QED BY <1>1, <1>2, <2>1, FromZero
<1> QED BY <1>3 DEF S

LEMMA PoolsAfterIs ==
    ASSUME NEW d, Len(d) \in Nat
    PROVE  \E t : PoolTrace(t, d, Len(d)) /\ Files!PoolsAfter(d) = t[Len(d)]
<1> DEFINE N == Len(d)
           F(f) == [n \in 0 .. N |->
                       IF n = 0 THEN Files!NewPools ELSE Files!UpdatePools(f[n - 1], d[n])]
           t == CHOOSE f : f = F(f)
<1>1. PICK u : PoolTrace(u, d, N)
  BY PoolTraceExists
<1>2. u = F(u)
  BY <1>1 DEF PoolTrace
<1>3. t = F(t)
  BY <1>2
<1>4. Files!PoolsAfter(d) = t[N]
  BY DEF Files!PoolsAfter
<1> HIDE DEF t
<1>5. PoolTrace(t, d, N)
  BY <1>3 DEF PoolTrace
<1> QED BY <1>4, <1>5

\* The last of the first k configurations with this pool says how it works.
LastOf(configs, k, n, i) ==
    /\ i \in 1 .. k /\ n \in DOMAIN configs[i]
    /\ \A j \in 1 .. k : n \in DOMAIN configs[j] => j <= i
Unnamed(configs, k, n) == \A j \in 1 .. k : n \notin DOMAIN configs[j]
PoolsAre(p, configs, k) ==
    /\ p.default = p.pools["default"]
    /\ \A n :
         \/ /\ n \in DOMAIN p.pools
            /\ \E i \in 1 .. k : LastOf(configs, k, n, i) /\ p.pools[n] = configs[i][n]
         \/ /\ Unnamed(configs, k, n)
            /\ n = "default" => n \in DOMAIN p.pools /\ p.pools[n] = 40
            /\ n # "default" => n \notin DOMAIN p.pools

LEMMA OneMoreConfig ==
    ASSUME NEW p, NEW d, NEW k \in Nat, PoolsAre(p, d, k)
    PROVE  PoolsAre(Files!UpdatePools(p, d[k + 1]), d, k + 1)
<1> DEFINE c == d[k + 1]
           q == Files!UpdatePools(p, c)
<1>1. /\ q.default = q.pools["default"]
      /\ DOMAIN q.pools = DOMAIN c \cup DOMAIN p.pools
      /\ \A n \in DOMAIN q.pools : q.pools[n] = IF n \in DOMAIN c THEN c[n] ELSE p.pools[n]
  BY DEF Files!UpdatePools, Files!Extended
<1> HIDE DEF q
<1>2. ASSUME NEW n
      PROVE \/ /\ n \in DOMAIN q.pools
               /\ \E i \in 1 .. k + 1 : LastOf(d, k + 1, n, i) /\ q.pools[n] = d[i][n]
            \/ /\ Unnamed(d, k + 1, n)
               /\ n = "default" => n \in DOMAIN q.pools /\ q.pools[n] = 40
               /\ n # "default" => n \notin DOMAIN q.pools
  <2>1. CASE n \in DOMAIN c
    <3>1. LastOf(d, k + 1, n, k + 1)
      BY <2>1 DEF LastOf
    <3>2. n \in DOMAIN q.pools /\ q.pools[n] = d[k + 1][n] /\ k + 1 \in 1 .. k + 1
      BY <1>1, <2>1
    <3> QED BY <3>1, <3>2
  <2>2. CASE n \notin DOMAIN c
    <3>1. n \in DOMAIN p.pools <=> n \in DOMAIN q.pools
      BY <1>1, <2>2
    <3>2. n \in DOMAIN q.pools => q.pools[n] = p.pools[n]
      BY <1>1, <2>2
    <3>3. CASE /\ n \in DOMAIN p.pools
               /\ \E i \in 1 .. k : LastOf(d, k, n, i) /\ p.pools[n] = d[i][n]
      <4>1. PICK i \in 1 .. k : LastOf(d, k, n, i) /\ p.pools[n] = d[i][n]
        BY <3>3
      <4>2. LastOf(d, k + 1, n, i)
        BY <2>2, <4>1 DEF LastOf
      <4>3. i \in 1 .. k + 1
        OBVIOUS
      <4> QED BY <3>1, <3>2, <3>3, <4>1, <4>2, <4>3
    <3>4. CASE /\ Unnamed(d, k, n)
               /\ n = "default" => n \in DOMAIN p.pools /\ p.pools[n] = 40
               /\ n # "default" => n \notin DOMAIN p.pools
      <4>1. Unnamed(d, k + 1, n)
        BY <2>2, <3>4 DEF Unnamed
      <4> QED BY <3>1, <3>2, <3>4, <4>1
    <3> QED BY <3>3, <3>4 DEF PoolsAre
  <2> QED BY <2>1, <2>2
<1>3. PoolsAre(q, d, k + 1)
  BY <1>1, <1>2 DEF PoolsAre
<1> QED BY <1>3 DEF q

LEMMA PoolTraceIs ==
    ASSUME NEW d, NEW n \in Nat, NEW t, PoolTrace(t, d, n)
    PROVE  PoolsAre(t[n], d, n)
<1> DEFINE S == {k \in Nat : k <= n => PoolsAre(t[k], d, k)}
<1>1. 0 \in S
  <2>1. t[0] = [pools |-> [default |-> 40], default |-> 40]
    BY DEF PoolTrace, Files!NewPools
  <2>2. DOMAIN [default |-> 40] = {"default"} /\ [default |-> 40]["default"] = 40
    OBVIOUS
  <2>3. t[0].default = 40 /\ DOMAIN t[0].pools = {"default"} /\ t[0].pools["default"] = 40
    BY <2>1, <2>2
  <2>4. \A x : Unnamed(d, 0, x)
    BY DEF Unnamed
  <2>5. PoolsAre(t[0], d, 0)
    BY <2>3, <2>4 DEF PoolsAre
  <2> QED BY <2>5
<1>2. ASSUME NEW k \in Nat, k \in S PROVE k + 1 \in S
  <2> SUFFICES ASSUME k + 1 <= n PROVE PoolsAre(t[k + 1], d, k + 1)
    OBVIOUS
  <2>1. k + 1 \in 1 .. n /\ (k + 1) - 1 = k /\ PoolsAre(t[k], d, k)
    BY <1>2
  <2>2. t[k + 1] = Files!UpdatePools(t[k], d[k + 1])
    BY <2>1 DEF PoolTrace
  <2> QED BY <2>1, <2>2, OneMoreConfig
<1> HIDE DEF S
<1>3. S = Nat
  <2>1. S \subseteq Nat
    BY DEF S
  <2> QED BY <1>1, <1>2, <2>1, FromZero
<1>4. n \in S
  BY <1>3
<1> QED BY <1>4 DEF S

\* Settings that compare equal are equal in what is computed from them, and
\* after any number of configurations a disk pool works with the settings last
\* given to it.
THEOREM ReloadTakesEffectAlways == Spec => []ReloadTakesEffect
<1>1. InputsOnly => ReloadTakesEffect
  <2> SUFFICES ASSUME InputsOnly PROVE ReloadTakesEffect
    OBVIOUS
  <2>1. ASSUME input.kind = "VersionedStatic",
               Files!Equal(Files!ReadVersioned(input.a), Files!ReadVersioned(input.b),
                           Files!VersionedCompared)
        PROVE  input.a = input.b
    <3>1. input.a \in VersionedSettings /\ input.b \in VersionedSettings
      BY <2>1 DEF InputsOnly, Inputs
    <3>2. Fields(input.a, Files!VersionedCompared) /\ Fields(input.b, Files!VersionedCompared)
      BY <3>1, FilesAssumption DEF Files!VersionedCompared
    <3> QED BY <2>1, <3>2, EqualSettings DEF Files!ReadVersioned
  <2>2. ASSUME input.kind = "Static",
               Files!Equal(Files!ReadStatic(input.a), Files!ReadStatic(input.b),
                           Files!StaticCompared)
        PROVE  input.a = input.b
    <3>1. input.a \in StaticSettings /\ input.b \in StaticSettings
      BY <2>2 DEF InputsOnly, Inputs
    <3>2. Fields(input.a, Files!StaticCompared) /\ Fields(input.b, Files!StaticCompared)
      BY <3>1, FilesAssumption DEF Files!StaticCompared
    <3> QED BY <2>2, <3>2, EqualSettings DEF Files!ReadStatic
  <2>3. ASSUME input.kind = "SingleFile",
               Files!Equal(Files!ReadSingleFile(input.a), Files!ReadSingleFile(input.b),
                           Files!SingleFileCompared)
        PROVE  input.a = input.b
    <3>1. input.a \in SingleFileSettings /\ input.b \in SingleFileSettings
      BY <2>3 DEF InputsOnly, Inputs
    <3>2. Fields(input.a, Files!SingleFileCompared) /\ Fields(input.b, Files!SingleFileCompared)
      BY <3>1, FilesAssumption DEF Files!SingleFileCompared
    <3> QED BY <2>3, <3>2, EqualSettings DEF Files!ReadSingleFile
  <2>4. ASSUME input.kind = "pools", NEW n \in PoolNames
        PROVE  LET configs == input.configs
                   given(x) == {i \in 1 .. MaxConfigs : x \in DOMAIN configs[i]}
                   isLatest(p, x) == \E i \in given(x) :
                                        (\A j \in given(x) : j <= i) /\ p = configs[i][x]
                   pool == Files!GetPool(Files!PoolsAfter(configs), n)
               IN IF given(n) # {} THEN isLatest(pool, n)
                  ELSE IF given("default") # {} THEN isLatest(pool, "default")
                  ELSE pool = Files!NewPools.default
    <3> DEFINE d == input.configs
               m == MaxConfigs
               given(x) == {i \in 1 .. m : x \in DOMAIN d[i]}
               isLatest(p, x) == \E i \in given(x) :
                                    (\A j \in given(x) : j <= i) /\ p = d[i][x]
               q == Files!PoolsAfter(d)
               pool == Files!GetPool(q, n)
    <3>1. m \in Nat
      BY FilesAssumption
    <3>2. d \in [1 .. m -> PoolConfigs]
      BY <2>4 DEF InputsOnly, Inputs
    <3> HIDE DEF d, m
    <3>3. Len(d) = m
      BY <3>1, <3>2, LenOf
    <3>4. PICK t : PoolTrace(t, d, m) /\ q = t[m]
      BY <3>1, <3>3, PoolsAfterIs
    <3>5. PoolsAre(q, d, m)
      BY <3>1, <3>4, PoolTraceIs
    <3> HIDE DEF q
    <3>6. ASSUME NEW x, given(x) # {}
          PROVE  x \in DOMAIN q.pools /\ isLatest(q.pools[x], x)
      <4>1. ~Unnamed(d, m, x)
        BY <3>6 DEF Unnamed
      <4>2. x \in DOMAIN q.pools
            /\ \E i \in 1 .. m : LastOf(d, m, x, i) /\ q.pools[x] = d[i][x]
        BY <3>5, <4>1 DEF PoolsAre
      <4>3. PICK i \in 1 .. m : LastOf(d, m, x, i) /\ q.pools[x] = d[i][x]
        BY <4>2
      <4>4. i \in given(x) /\ \A j \in given(x) : j <= i
        BY <4>3 DEF LastOf
      <4> QED BY <4>2, <4>3, <4>4
    <3>7. ASSUME NEW x, given(x) = {} PROVE Unnamed(d, m, x)
      BY <3>7 DEF Unnamed
    <3>8. CASE given(n) # {}
      <4>1. n \in DOMAIN q.pools /\ isLatest(q.pools[n], n)
        BY <3>6, <3>8
      <4>2. pool = q.pools[n]
        BY <4>1 DEF Files!GetPool
      <4> HIDE DEF isLatest, given, pool
      <4>3. isLatest(pool, n)
        BY <4>1, <4>2
      <4> QED BY <3>8, <4>3 DEF isLatest, given, pool, q, d, m
    <3>9. CASE given(n) = {}
      <4>1. Unnamed(d, m, n)
        BY <3>7, <3>9
      <4>2. ~\E i \in 1 .. m : LastOf(d, m, n, i)
        BY <4>1 DEF Unnamed, LastOf
      <4>3. pool = q.pools["default"]
        <5>1. CASE n = "default"
          BY <3>5, <5>1 DEF PoolsAre, Files!GetPool
        <5>2. CASE n # "default"
          <6>1. n \notin DOMAIN q.pools
            BY <3>5, <4>2, <5>2 DEF PoolsAre
          <6> QED BY <3>5, <6>1 DEF PoolsAre, Files!GetPool
        <5> QED BY <5>1, <5>2
      <4>4. CASE given("default") # {}
        <5>1. isLatest(q.pools["default"], "default")
          BY <3>6, <4>4
        <5> HIDE DEF isLatest, given, pool
        <5>2. isLatest(pool, "default")
          BY <4>3, <5>1
        <5> QED BY <3>9, <4>4, <5>2 DEF isLatest, given, pool, q, d, m
      <4>5. CASE given("default") = {}
        <5>1. Unnamed(d, m, "default")
          BY <3>7, <4>5
        <5>2. ~\E i \in 1 .. m : LastOf(d, m, "default", i)
          BY <5>1 DEF Unnamed, LastOf
        <5>3. q.pools["default"] = 40
          BY <3>5, <5>2 DEF PoolsAre
        <5>4. Files!NewPools.default = 40
          BY DEF Files!NewPools
        <5>5. pool = Files!NewPools.default
          BY <4>3, <5>3, <5>4
        <5> HIDE DEF given, pool
        <5> QED BY <3>9, <4>5, <5>5 DEF given, pool, q, d, m
      <4> QED BY <4>4, <4>5
    <3> QED BY <3>8, <3>9
  <2> QED BY <2>1, <2>2, <2>3, <2>4 DEF ReloadTakesEffect
<1> QED BY <1>1, OneInput, PTL

-----------------------------------------------------------------------------
(* Versioned files.                                                        *)

\* What reply_file answers depends on the cache headers in nothing else.
LEMMA ReplyIs ==
    ASSUME NEW p \in Files!Probes, NEW c, NEW b
    PROVE  LET r == Files!ReplyFile(p, c, b) IN
           /\ \/ r.body = b /\ r.cache = c
              \/ r.body = "None" /\ r.cache = "NoHeader"
           /\ \A x : Content(r) = Content(Files!ReplyFile(p, x, b))
<1> DEFINE File(n, x) == [status |-> n, cache |-> x, body |-> b]
           Page(n) == [status |-> n, cache |-> "NoHeader", body |-> "None"]
<1>1. \A n : Files!ErrorPage(n) = Page(n)
  BY DEF Files!ErrorPage, Files!None
<1>2. \/ \E n : \A x : Files!ReplyFile(p, x, b) = File(n, x)
      \/ \E n : \A x : Files!ReplyFile(p, x, b) = Page(n)
  <2>1. CASE p = "File"
    <3>1. \A x : Files!ReplyFile(p, x, b) = File(200, x)
      BY <1>1, <2>1 DEF Files!ReplyFile
    <3> QED BY <3>1
  <2>2. CASE p = "FileHead"
    <3>1. \A x : Files!ReplyFile(p, x, b) = File(200, x)
      BY <1>1, <2>2 DEF Files!ReplyFile
    <3> QED BY <3>1
  <2>3. CASE p = "FileRange"
    <3>1. \A x : Files!ReplyFile(p, x, b) = File(206, x)
      BY <1>1, <2>3 DEF Files!ReplyFile
    <3> QED BY <3>1
  <2>4. CASE p = "FileRangeHead"
    <3>1. \A x : Files!ReplyFile(p, x, b) = File(206, x)
      BY <1>1, <2>4 DEF Files!ReplyFile
    <3> QED BY <3>1
  <2>5. CASE p = "NotModified"
    <3>1. \A x : Files!ReplyFile(p, x, b) = File(304, x)
      BY <1>1, <2>5 DEF Files!ReplyFile
    <3> QED BY <3>1
  <2>6. CASE p = "InvalidRange"
    <3>1. \A x : Files!ReplyFile(p, x, b) = Page(416)
      BY <1>1, <2>6 DEF Files!ReplyFile
    <3> QED BY <3>1
  <2>7. CASE p = "InvalidMethod"
    <3>1. \A x : Files!ReplyFile(p, x, b) = Page(405)
      BY <1>1, <2>7 DEF Files!ReplyFile
    <3> QED BY <3>1
  <2>8. CASE p = "NotFound"
    <3>1. \A x : Files!ReplyFile(p, x, b) = Page(404)
      BY <1>1, <2>8 DEF Files!ReplyFile
    <3> QED BY <3>1
  <2>9. CASE p = "Directory"
    <3>1. \A x : Files!ReplyFile(p, x, b) = Page(403)
      BY <1>1, <2>9 DEF Files!ReplyFile
    <3> QED BY <3>1
  <2>10. CASE p = "PermissionDenied"
    <3>1. \A x : Files!ReplyFile(p, x, b) = Page(403)
      BY <1>1, <2>10 DEF Files!ReplyFile
    <3> QED BY <3>1
  <2>11. CASE p = "IoError"
    <3>1. \A x : Files!ReplyFile(p, x, b) = Page(500)
      BY <1>1, <2>11 DEF Files!ReplyFile
    <3> QED BY <3>1
  <2> QED BY <2>1, <2>2, <2>3, <2>4, <2>5, <2>6, <2>7, <2>8, <2>9, <2>10, <2>11
         DEF Files!Probes, Files!Outputs
<1>3. CASE \E n : \A x : Files!ReplyFile(p, x, b) = File(n, x)
  BY <1>3 DEF Content
<1>4. CASE \E n : \A x : Files!ReplyFile(p, x, b) = Page(n)
  BY <1>4 DEF Content
<1> QED BY <1>2, <1>3, <1>4

\* Each mode falls back where the stricter ones do.
LEMMA ModesGrow ==
    \A i \in 1 .. 5 : \A j \in i .. 5 :
        Files!Fallback(Modes[i]) \subseteq Files!Fallback(Modes[j])
<1>1. /\ Modes[1] = "never" /\ Modes[2] = "no_version" /\ Modes[3] = "bad_version"
      /\ Modes[4] = "no_file" /\ Modes[5] = "always"
  BY DEF Modes
<1>2. /\ Files!Fallback("never") = {}
      /\ Files!Fallback("no_version") = {"NoVersion"}
      /\ Files!Fallback("bad_version") = {"BadVersion", "NoVersion"}
      /\ Files!Fallback("no_file") = {"NoFile", "BadVersion", "InvalidPath", "NoVersion"}
      /\ Files!Fallback("always") = {"NoVersion", "BadVersion", "InvalidPath", "NoFile"}
  BY DEF Files!Fallback
<1>3. \A i \in 1 .. 5 : i = 1 \/ i = 2 \/ i = 3 \/ i = 4 \/ i = 5
  OBVIOUS
<1> SUFFICES ASSUME NEW i \in 1 .. 5, NEW j \in i .. 5
             PROVE  Files!Fallback(Modes[i]) \subseteq Files!Fallback(Modes[j])
  OBVIOUS
<1>4. CASE i = 1
  BY <1>1, <1>2, <1>4
<1>5. CASE i = 2
  <2>1. j = 2 \/ j = 3 \/ j = 4 \/ j = 5
    BY <1>5
  <2> QED BY <1>1, <1>2, <1>5, <2>1
<1>6. CASE i = 3
  <2>1. j = 3 \/ j = 4 \/ j = 5
    BY <1>6
  <2> QED BY <1>1, <1>2, <1>6, <2>1
<1>7. CASE i = 4
  <2>1. j = 4 \/ j = 5
    BY <1>7
  <2> QED BY <1>1, <1>2, <1>7, <2>1
<1>8. CASE i = 5
  <2>1. j = 5
    BY <1>8
  <2> QED BY <1>8, <2>1
<1> QED BY <1>3, <1>4, <1>5, <1>6, <1>7, <1>8

\* The settings of serve_versioned that matter, and those of the handler it
\* falls back to.
SettingsAre(s, mode, length, fallback) ==
    /\ s.fallback_to_plain = mode /\ s.version_len = length /\ s.fallback = fallback
    /\ ~fallback.generate_index

LEMMA ReadSettings ==
    ASSUME NEW int \in VersionedSettings
    PROVE  \E fallback : \A i \in 1 .. 5 :
              SettingsAre(Files!ReadVersioned([int EXCEPT !.fallback_to_plain = Modes[i]]),
                          Modes[i], Files!VersionLen(int.version_split), fallback)
<1> DEFINE names == {"versioned_root", "plain_root", "version_arg", "version_split",
                     "version_chars", "fallback_to_plain", "fallback_mode", "text_charset",
                     "pool", "extra_headers"}
           headers == Files!HeadersConfig(int.text_charset,
                                          Files!HeaderContains(int.extra_headers), {})
           fb == [mode |-> int.fallback_mode, path |-> int.plain_root,
                  text_charset |-> int.text_charset, pool |-> int.pool,
                  extra_headers |-> int.extra_headers, index_files |-> {},
                  generate_index |-> FALSE, generated_index_max_files |-> 0,
                  strip_host_suffix |-> Files!NoSuffix, headers_config |-> headers]
<1>1. int = [x \in names |-> int[x]]
  BY FilesAssumption DEF Fields
<1>2. ASSUME NEW i \in 1 .. 5
      PROVE  SettingsAre(Files!ReadVersioned([int EXCEPT !.fallback_to_plain = Modes[i]]),
                         Modes[i], Files!VersionLen(int.version_split), fb)
  <2> DEFINE v == [int EXCEPT !.fallback_to_plain = Modes[i]]
             more == [version_len |-> Files!VersionLen(int.version_split), fallback |-> fb,
                      headers_config |-> headers]
  <2>1. DOMAIN v = names /\ v["fallback_to_plain"] = Modes[i]
    BY <1>1
  <2>2. \A x \in names : x # "fallback_to_plain" => v[x] = int[x]
    BY <1>1
  <2>3. /\ v.version_split = int.version_split /\ v.fallback_mode = int.fallback_mode
        /\ v.plain_root = int.plain_root /\ v.text_charset = int.text_charset
        /\ v.pool = int.pool /\ v.extra_headers = int.extra_headers
    BY <2>2
  <2> HIDE DEF v
  <2>4. Files!ReadVersioned(v) = Files!Extended(v, more)
    BY <2>3 DEF Files!ReadVersioned
  <2>5. DOMAIN more = {"version_len", "fallback", "headers_config"}
    OBVIOUS
  <2>6. /\ Files!Extended(v, more)["fallback_to_plain"] = Modes[i]
        /\ Files!Extended(v, more)["version_len"] = Files!VersionLen(int.version_split)
        /\ Files!Extended(v, more)["fallback"] = fb
    BY <2>1, <2>5 DEF Files!Extended
  <2>7. ~fb.generate_index
    OBVIOUS
  <2> HIDE DEF more, fb
  <2>8. SettingsAre(Files!Extended(v, more), Modes[i], Files!VersionLen(int.version_split), fb)
    BY <2>6, <2>7 DEF SettingsAre
  <2> QED BY <2>4, <2>8 DEF v
<1> QED BY <1>2

\* serve_versioned by its three outcomes
Bad(length, req) == Files!VersionError([version_len |-> length], req)
Problem(length, req, probe) ==
    IF Bad(length, req) = "None" /\ probe = "NotFound" THEN "NoFile" ELSE Bad(length, req)
LEMMA ServedIs ==
    ASSUME NEW s, NEW mode, NEW length, NEW fallback, SettingsAre(s, mode, length, fallback),
           NEW req, NEW probe, NEW plain
    PROVE  LET r == Files!ServeVersioned(s, req, probe, plain)
               error == Problem(length, req, probe)
               npath == Files!PlainPath(fallback, req)
           IN \/ /\ error = "None"
                 /\ r = Files!ReplyFile(probe, "GoodCache", "versioned")
              \/ /\ error # "None" /\ npath /\ error \in Files!Fallback(mode)
                 /\ r = Files!ReplyFile(plain, Files!PlainCache(error), "plain")
              \/ /\ error # "None" /\ ~(npath /\ error \in Files!Fallback(mode))
                 /\ r = Files!ErrorPage(404)
<1>1. Files!VersionError(s, req) = Bad(length, req)
  BY DEF SettingsAre, Bad, Files!VersionError
<1>2. s.fallback = fallback /\ s.fallback_to_plain = mode
  BY DEF SettingsAre
<1> DEFINE bad == Bad(length, req)
           npath == Files!PlainPath(fallback, req)
           error == Problem(length, req, probe)
<1>3. error = IF bad = "None" /\ probe = "NotFound" THEN "NoFile" ELSE bad
  BY DEF Problem
<1>4. bad # "None" => error # "None"
  BY <1>3
<1> HIDE DEF bad, npath, error
<1>5. Files!ServeVersioned(s, req, probe, plain) =
        CASE bad # "None" /\ ~npath -> Files!ErrorPage(404)
          [] ~(bad # "None" /\ ~npath) /\ error = "None" ->
                Files!ReplyFile(probe, "GoodCache", "versioned")
          [] ~(bad # "None" /\ ~npath) /\ error # "None" ->
              IF npath /\ error \in Files!Fallback(mode)
              THEN Files!ReplyFile(plain, Files!PlainCache(error), "plain")
              ELSE Files!ErrorPage(404)
  BY <1>1, <1>2 DEF Files!ServeVersioned, Files!None, bad, npath, error, Problem
<1>6. CASE bad # "None" /\ ~npath
  BY <1>4, <1>5, <1>6 DEF bad, npath, error
<1>7. CASE ~(bad # "None" /\ ~npath)
  BY <1>5, <1>7 DEF bad, npath, error
<1> QED BY <1>6, <1>7

\* A versioned URL may be cached for ever only where the file of that very
\* version is sent; a plain file in its place is what !Static would send; and
\* a mode that falls back in more cases serves what a stricter one serves.
THEOREM CacheOnlyVersionedAlways == Spec => []CacheOnlyVersioned
<1>1. InputsOnly => CacheOnlyVersioned
  <2> SUFFICES ASSUME InputsOnly, input.kind = "file" PROVE CacheOnlyVersioned
    BY DEF CacheOnlyVersioned
  <2> DEFINE req == input.req
             int == input.int
             length == Files!VersionLen(int.version_split)
             settings(i) == Files!ReadVersioned([int EXCEPT !.fallback_to_plain = Modes[i]])
             served(i, probe, plain) == Files!ServeVersioned(settings(i), req, probe, plain)
             whole == req.version # Files!NoVersion /\ Len(req.version) = length
  <2>1. int \in VersionedSettings /\ req \in FileRequests
    BY DEF InputsOnly, Inputs
  <2>2. PICK fb : \A i \in 1 .. 5 : SettingsAre(settings(i), Modes[i], length, fb)
    BY <2>1, ReadSettings
  <2> HIDE DEF settings, length, req, int
  <2> DEFINE npath == Files!PlainPath(fb, req)
             error(probe) == Problem(length, req, probe)
  <2>3. \A i \in 1 .. 5, probe, plain \in Files!Probes :
          LET r == served(i, probe, plain) IN
          \/ error(probe) = "None" /\ r = Files!ReplyFile(probe, "GoodCache", "versioned")
          \/ /\ error(probe) # "None" /\ npath /\ error(probe) \in Files!Fallback(Modes[i])
             /\ r = Files!ReplyFile(plain, Files!PlainCache(error(probe)), "plain")
          \/ /\ error(probe) # "None"
             /\ ~(npath /\ error(probe) \in Files!Fallback(Modes[i]))
             /\ r = Files!ErrorPage(404)
    BY <2>2, ServedIs
  <2>4. \A p \in Files!Probes : error(p) = "None" => whole
    BY DEF Problem, Bad, Files!VersionError, Files!None
  <2>5. ASSUME whole, req.file_name, "other" \notin Range(req.version), NEW p \in Files!Probes
        PROVE  error(p) \in {"None", "NoFile"}
    <3>1. Range(req.version) \subseteq {"0-9", "a-f", "g-z", "other"}
      BY <2>1, <2>5, FilesAssumption
    <3>2. Files!Range(req.version) \subseteq Files!LowercaseHex
      <4>1. Files!Range(req.version) = Range(req.version)
        BY DEF Files!Range, Range
      <4> QED BY <2>5, <3>1, <4>1 DEF Files!LowercaseHex
    <3>3. Bad(length, req) = "None"
      BY <2>5, <3>2 DEF Bad, Files!VersionError, Files!None
    <3> QED BY <3>3 DEF Problem
  <2> HIDE DEF served, error, npath
  <2> SUFFICES ASSUME NEW i \in 1 .. 5, NEW probe \in Files!Probes, NEW plain \in Files!Probes
               PROVE  LET r == served(i, probe, plain) IN
                      /\ r.cache = "GoodCache" => r.body = "versioned" /\ whole
                      /\ r.body = "plain" =>
                           /\ Content(r) = Content(Files!ServeDir(settings(i).fallback, req, plain, 0))
                           /\ req.has_path => Content(r) = Content(Files!ServeFile(req, plain))
                           /\ whole /\ req.file_name /\ "other" \notin Range(req.version)
                                 => r.cache = "NoCache"
                      /\ r.body # None => \A j \in i .. 5 : served(j, probe, plain) = r
    BY DEF CacheOnlyVersioned, served, settings, length, req, int
  <2> DEFINE r == served(i, probe, plain)
  <2>6. CASE error(probe) = "None"
    <3>1. \A j \in 1 .. 5 :
             served(j, probe, plain) = Files!ReplyFile(probe, "GoodCache", "versioned")
      BY <2>3, <2>6
    <3>2. \/ r.body = "versioned" /\ r.cache = "GoodCache"
          \/ r.body = "None" /\ r.cache = "NoHeader"
      BY <3>1, ReplyIs
    <3>3. \A j \in i .. 5 : served(j, probe, plain) = r
      BY <3>1
    <3>4. whole
      BY <2>4, <2>6
    <3> HIDE DEF r, whole
    <3> QED BY <3>2, <3>3, <3>4 DEF r
  <2>7. CASE error(probe) # "None" /\ npath /\ error(probe) \in Files!Fallback(Modes[i])
    <3> DEFINE cache == Files!PlainCache(error(probe))
               answer == Files!ReplyFile(plain, cache, "plain")
    <3>1. ASSUME NEW j \in i .. 5 PROVE served(j, probe, plain) = answer
      <4>1. j \in 1 .. 5 /\ Files!Fallback(Modes[i]) \subseteq Files!Fallback(Modes[j])
        BY ModesGrow
      <4>2. error(probe) \in Files!Fallback(Modes[j])
        BY <2>7, <4>1
      <4> QED BY <2>3, <2>7, <4>1, <4>2
    <3>2. r = answer
      <4>1. i \in i .. 5
        OBVIOUS
      <4> QED BY <3>1, <4>1
    <3>3. cache = "NoCache" \/ cache = "NoHeader"
      BY DEF Files!PlainCache
    <3>4. \/ r.body = "plain" /\ r.cache = cache
          \/ r.body = "None" /\ r.cache = "NoHeader"
      BY <3>2, ReplyIs
    <3>5. \A x : Content(r) = Content(Files!ReplyFile(plain, x, "plain"))
      BY <3>2, ReplyIs
    <3>6. Content(r) = Content(Files!ServeDir(settings(i).fallback, req, plain, 0))
      <4>1. settings(i).fallback = fb /\ ~fb.generate_index
        BY <2>2 DEF SettingsAre
      <4>2. Files!ServeDir(fb, req, plain, 0) = Files!ReplyFile(plain, "NoHeader", "plain")
        BY <2>7, <4>1 DEF Files!ServeDir, npath
      <4> QED BY <3>5, <4>1, <4>2
    <3>7. req.has_path => Content(r) = Content(Files!ServeFile(req, plain))
      BY <3>5 DEF Files!ServeFile
    <3>8. whole /\ req.file_name /\ "other" \notin Range(req.version) => cache = "NoCache"
      <4>1. whole /\ req.file_name /\ "other" \notin Range(req.version)
              => error(probe) = "NoFile"
        BY <2>5, <2>7
      <4> QED BY <4>1 DEF Files!PlainCache
    <3>9. \A j \in i .. 5 : served(j, probe, plain) = r
      BY <3>1, <3>2
    <3> HIDE DEF r, whole, cache
    <3>10. r.cache # "GoodCache"
      BY <3>3, <3>4
    <3> QED BY <3>4, <3>6, <3>7, <3>8, <3>9, <3>10 DEF r
  <2>8. CASE error(probe) # "None" /\ ~(npath /\ error(probe) \in Files!Fallback(Modes[i]))
    <3>1. r = Files!ErrorPage(404)
      BY <2>3, <2>8
    <3>2. r.body = "None" /\ r.cache = "NoHeader"
      BY <3>1 DEF Files!ErrorPage, Files!None
    <3> HIDE DEF r, whole
    <3> QED BY <3>2 DEF r, None
  <2> QED BY <2>6, <2>7, <2>8
<1> QED BY <1>1, OneInput, PTL

-----------------------------------------------------------------------------
(* Authorization.                                                          *)

\* SourceIp decides about one address, in the network it allows.
Allowed(cfg, ip) ==
    cfg.allowed \in DOMAIN Networks /\ ip # BadAddress /\ InNetwork(Networks[cfg.allowed], ip)

\* What start_request answers with the authorizer c on the way, and what it
\* answers for an address.
Answer(table, host, path, c, ip, hs) ==
    StartRequest(table, [a \in {Route(host, path, table).authorizer} |-> c], Networks,
                 [host |-> host, path |-> path, addr |-> ip, headers |-> hs])
Verdict(table, host, path, c, ip) ==
    IF host = NoHost THEN "404"
    ELSE IF Allowed(c, ip) THEN Route(host, path, table).handler ELSE "403"

\* Router::start_request for a request that there is a route for.
LEMMA StartIs ==
    ASSUME NEW table, NEW host, NEW path, Route(host, path, table).found,
           NEW c, c.kind = "SourceIp", NEW ip, NEW hs
    PROVE  Answer(table, host, path, c, ip, hs)
           = Verdict(table, host, path, c, SourceAddress(c, Networks, ip, hs))
<1> DEFINE r == Route(host, path, table)
           authorizers == [a \in {r.authorizer} |-> c]
           req == [host |-> host, path |-> path, addr |-> ip, headers |-> hs]
<1>1. req.host = host /\ req.path = path /\ req.addr = ip /\ req.headers = hs
  OBVIOUS
<1>2. authorizers[r.authorizer] = c
  OBVIOUS
<1>3. Check(c, Networks, ip, hs) <=> Allowed(c, SourceAddress(c, Networks, ip, hs))
  BY DEF Check, Allowed
<1> HIDE DEF req, authorizers
<1>4. StartRequest(table, authorizers, Networks, req)
        = IF host = NoHost \/ ~r.found THEN "404"
          ELSE IF Check(c, Networks, ip, hs) THEN r.handler ELSE "403"
  BY <1>1, <1>2 DEF StartRequest
<1> QED BY <1>3, <1>4 DEF Answer, Verdict, req, authorizers

\* Appended to what the client sent, its address is the last one.
LEMMA AppendedIsLast ==
    ASSUME NEW S, NEW hs \in Seq(S), NEW x
    PROVE  /\ Append(hs, x) # <<>> /\ Last(Append(hs, x)) = x
           /\ Range(Append(hs, x)) = Range(hs) \cup {x}
<1> DEFINE ys == Append(hs, x)
<1>1. /\ Len(hs) \in Nat /\ DOMAIN hs = 1 .. Len(hs)
      /\ Len(ys) = Len(hs) + 1 /\ DOMAIN ys = 1 .. Len(hs) + 1
      /\ ys[Len(hs) + 1] = x /\ \A i \in 1 .. Len(hs) : ys[i] = hs[i]
    BY DEF ys
<1>2. ys # <<>> BY <1>1
<1> HIDE DEF ys
<1>3. Last(ys) = x BY <1>1 DEF Last
<1>4. Range(ys) = Range(hs) \cup {x}
  <2>1. \A i \in 1 .. Len(hs) + 1 : i = Len(hs) + 1 \/ i \in 1 .. Len(hs) BY <1>1
  <2>2. \A i \in 1 .. Len(hs) : i \in 1 .. Len(hs) + 1 BY <1>1
  <2>3. Len(hs) + 1 \in 1 .. Len(hs) + 1 BY <1>1
  <2> QED BY <1>1, <2>1, <2>2, <2>3 DEF Range
<1> QED BY <1>2, <1>3, <1>4 DEF ys

\* Nobody gains by what it writes into the forwarding headers: for all tables,
\* networks, addresses and headers, a sender that is not to be believed is
\* answered the same with any of them, and a client behind a proxy that is
\* gets its own answer, or is denied for headers that are no addresses.
THEOREM HeadersNeverGain == Spec => []HeadersGainNothing
<1>1. InputsOnly => HeadersGainNothing
  <2> SUFFICES ASSUME InputsOnly, input.kind = "address" PROVE HeadersGainNothing
    BY DEF HeadersGainNothing
  <2> DEFINE cfg == input.cfg
             addr == input.addr
             headers == input.headers
             host == input.to[1]
             path == input.to[2]
             table == Table(input.src)
             r == Route(host, path, table)
             answer(ip, hs) ==
                StartRequest(table, [a \in {r.authorizer} |-> cfg], Networks,
                             [host |-> host, path |-> path, addr |-> ip, headers |-> hs])
             covered(ip) == /\ cfg.header /\ cfg.from \in DOMAIN Networks
                            /\ InNetwork(Networks[cfg.from], ip)
             sent == Append(headers, addr)
             verdict(ip) == Verdict(table, host, path, cfg, ip)
  <2>1. cfg \in AuthConfigs /\ addr \in Addresses /\ headers \in Headers
    BY DEF InputsOnly, Inputs
  <2>2. /\ cfg.kind = "SourceIp" /\ cfg.header \in BOOLEAN
        /\ headers \in Seq(Addresses \cup {BadAddress}) /\ addr # BadAddress
    BY <2>1, AuthAssumption
  <2> HIDE DEF cfg, addr, headers, host, path, table, r
  <2> SUFFICES ASSUME r.found
               PROVE  /\ ~covered(addr) =>
                            \A hs \in Headers : answer(addr, hs) = answer(addr, headers)
                      /\ \A proxy \in Addresses : covered(proxy) =>
                            \/ answer(proxy, sent) = answer(addr, <<>>)
                            \/ answer(proxy, sent) = "403" /\ BadAddress \in Range(headers)
    BY DEF HeadersGainNothing, cfg, addr, headers, host, path, table, r
  <2>3. ASSUME NEW ip, NEW hs
        PROVE  answer(ip, hs) = verdict(SourceAddress(cfg, Networks, ip, hs))
    <3>1. answer(ip, hs) = Answer(table, host, path, cfg, ip, hs) BY DEF Answer, r
    <3> QED BY <2>2, <3>1, StartIs DEF r
  <2>4. \A ip : covered(ip) <=> cfg.header /\ Forwarded(cfg, Networks, ip)
    BY <2>2 DEF Forwarded
  <2> HIDE DEF answer, covered
  <2>5. ASSUME ~covered(addr), NEW hs \in Headers
        PROVE  answer(addr, hs) = answer(addr, headers)
    <3>1. \A h : SourceAddress(cfg, Networks, addr, h) = addr
      BY <2>4, <2>5 DEF SourceAddress
    <3> QED BY <2>3, <3>1
  <2>6. ASSUME NEW proxy \in Addresses, covered(proxy)
        PROVE  \/ answer(proxy, sent) = answer(addr, <<>>)
               \/ answer(proxy, sent) = "403" /\ BadAddress \in Range(headers)
    <3>1. /\ sent # <<>> /\ Last(sent) = addr
          /\ BadAddress \in Range(sent) <=> BadAddress \in Range(headers)
      BY <2>2, AppendedIsLast
    <3>2. SourceAddress(cfg, Networks, addr, <<>>) = addr BY DEF SourceAddress
    <3> HIDE DEF sent
    <3>3. SourceAddress(cfg, Networks, proxy, sent)
            = IF BadAddress \in Range(headers) THEN BadAddress ELSE addr
      BY <2>4, <2>6, <3>1 DEF SourceAddress
    <3>4. host # NoHost => verdict(BadAddress) = "403" BY DEF Allowed, Verdict
    <3>5. host = NoHost => \A ip, jp : verdict(ip) = verdict(jp) BY DEF Verdict
    <3> HIDE DEF verdict
    <3>6. CASE BadAddress \notin Range(headers) BY <2>3, <3>2, <3>3, <3>6
    <3>7. CASE BadAddress \in Range(headers)
      <4>1. answer(proxy, sent) = verdict(BadAddress) BY <2>3, <3>3, <3>7
      <4>2. answer(addr, <<>>) = verdict(addr) BY <2>3, <3>2
      <4> QED BY <3>4, <3>5, <3>7, <4>1, <4>2
    <3> QED BY <3>6, <3>7
  <2> QED BY <2>5, <2>6
<1> QED BY <1>1, OneInput, PTL

-----------------------------------------------------------------------------
(***************************************************************************)
(* Routing: the table of RoutingTable::_create, with its sorted lists and  *)
(* inherited authorizers, and the first matches that route() takes.        *)
(***************************************************************************)

\* What sort_by makes: the longest first.
Falling(s, length) == \A i, j \in DOMAIN s : i < j => length[s[i]] >= length[s[j]]

\* A finite set can be put in such an order.
LEMMA SortedExists ==
    ASSUME NEW length, NEW n \in Nat
    PROVE  \A S : IsFiniteSet(S) /\ Cardinality(S) = n /\ (\A x \in S : length[x] \in Nat)
                     => \E s \in SetToSeqs(S) : Falling(s, length)
<1> DEFINE OK(S) == \E s \in SetToSeqs(S) : Falling(s, length)
           Is(S, k) == /\ IsFiniteSet(S) /\ Cardinality(S) = k
                       /\ \A x \in S : length[x] \in Nat
           Q == {k \in Nat : \A S : Is(S, k) => OK(S)}
<1>1. 0 \in Q
  <2> SUFFICES ASSUME NEW S, Is(S, 0) PROVE OK(S) OBVIOUS
  <2>1. S = {} BY FS_EmptySet
  <2>2. Cardinality({}) = 0 BY FS_EmptySet
  <2> DEFINE s == [i \in 1 .. 0 |-> i]
  <2>3. s \in SetToSeqs(S) BY <2>1, <2>2 DEF SetToSeqs
  <2>4. Falling(s, length) BY DEF Falling
  <2> QED BY <2>3, <2>4
<1>2. ASSUME NEW k \in Nat, k \in Q PROVE k + 1 \in Q
  <2> SUFFICES ASSUME NEW S, Is(S, k + 1) PROVE OK(S) OBVIOUS
  <2>1. S # {} BY FS_EmptySet
  <2> DEFINE T == {length[x] : x \in S}
  <2>2. T \in SUBSET Nat /\ T # {} BY <2>1
  <2>3. PICK m \in T : \A y \in T : m <= y BY <2>2, Least
  <2>4. PICK z \in S : m = length[z] BY <2>3
  <2>5. \A x \in S : length[z] <= length[x] BY <2>3, <2>4
  <2> DEFINE R == S \ {z}
  <2>6. IsFiniteSet(R) /\ Cardinality(R) = k BY <2>4, FS_RemoveElement
  <2>7. Is(R, k) BY <2>6
  <2>8. PICK s \in SetToSeqs(R) : Falling(s, length) BY <1>2, <2>7
  <2>9. s \in [1 .. k -> R] /\ \A i, j \in 1 .. k : i # j => s[i] # s[j]
      BY <2>6, <2>8 DEF SetToSeqs
  <2> DEFINE u == [i \in 1 .. k + 1 |-> IF i <= k THEN s[i] ELSE z]
  <2>10. ASSUME NEW i \in 1 .. k + 1 PROVE u[i] \in S
      BY <2>4, <2>9
  <2>11. ASSUME NEW i \in 1 .. k + 1, NEW j \in 1 .. k + 1, i # j PROVE u[i] # u[j]
      BY <2>9, <2>11
  <2>12. ASSUME NEW i \in 1 .. k + 1, NEW j \in 1 .. k + 1, i < j
         PROVE  length[u[i]] >= length[u[j]]
    <3>1. i \in 1 .. k /\ u[i] = s[i] /\ length[s[i]] \in Nat /\ length[z] \in Nat
        BY <2>9, <2>12, <2>4
    <3>2. CASE j <= k
      <4>1. u[j] = s[j] /\ j \in 1 .. k BY <3>2
      <4>2. DOMAIN s = 1 .. k BY <2>9
      <4> HIDE DEF u
      <4> QED BY <2>8, <2>12, <3>1, <4>1, <4>2 DEF Falling
    <3>3. CASE j = k + 1
      <4>1. u[j] = z BY <3>3
      <4>2. s[i] \in S BY <3>1, <2>9
      <4> HIDE DEF u
      <4> QED BY <2>5, <3>1, <4>1, <4>2
    <3> QED BY <3>2, <3>3
  <2>13. u \in [1 .. k + 1 -> S] BY <2>10
  <2>14. DOMAIN u = 1 .. k + 1 OBVIOUS
  <2> HIDE DEF u
  <2>15. u \in SetToSeqs(S) BY <2>11, <2>13 DEF SetToSeqs
  <2>16. Falling(u, length) BY <2>12, <2>14 DEF Falling
  <2> QED BY <2>15, <2>16
<1> HIDE DEF Q
<1>3. Q = Nat
  <2>1. Q \subseteq Nat BY DEF Q
  <2> QED BY <1>1, <1>2, <2>1, FromZero
<1> QED BY <1>3 DEF Q

\* sort_by: all are there, the longest first.
LEMMA LongestFirstIs ==
    ASSUME NEW S, IsFiniteSet(S), NEW length, \A x \in S : length[x] \in Nat
    PROVE  LET s == LongestFirst(S, length) IN
           \E n \in Nat : /\ s \in [1 .. n -> S] /\ Len(s) = n
                          /\ \A x \in S : \E i \in 1 .. n : s[i] = x
                          /\ \A i, j \in 1 .. n : i < j => length[s[i]] >= length[s[j]]
<1> DEFINE s == LongestFirst(S, length)
           n == Cardinality(S)
           D == 1 .. n
<1>1. n \in Nat BY FS_CardinalityType
<1>2. \E t \in SetToSeqs(S) : Falling(t, length) BY <1>1, SortedExists
<1>3. s \in SetToSeqs(S) /\ Falling(s, length) BY <1>2 DEF LongestFirst, Falling
<1> HIDE DEF s
<1>4. s \in [D -> S] /\ \A i, j \in D : i # j => s[i] # s[j] BY <1>3 DEF SetToSeqs
<1>5. s \in Injection(D, S) BY <1>4 DEF Injection, IsInjective
<1>6. Cardinality(D) = n BY <1>1, FS_Interval
<1>7. s \in Surjection(D, S) BY <1>5, <1>6, FS_Injection
<1>8. \A x \in S : \E i \in D : s[i] = x BY <1>7 DEF Surjection
<1>9. Len(s) = n BY <1>1, <1>4, LenOf
<1>10. \A i, j \in D : i < j => length[s[i]] >= length[s[j]] BY <1>3, <1>4 DEF Falling
<1> QED BY <1>1, <1>4, <1>8, <1>9, <1>10 DEF s

\* The first of s that is in M is a longest one of M.
LongestLeads(s, S, M, length) ==
    /\ Len(s) \in Nat
    /\ \E k \in 1 .. Len(s) : /\ s[k] \in M
                              /\ \A j \in 1 .. k - 1 : s[j] \in S \ M
                              /\ \A x \in M : length[x] <= length[s[k]]

LEMMA FirstIsLongest ==
    ASSUME NEW S, IsFiniteSet(S), NEW length, \A x \in S : length[x] \in Nat,
           NEW M \in SUBSET S, M # {}
    PROVE  LongestLeads(LongestFirst(S, length), S, M, length)
<1> DEFINE s == LongestFirst(S, length)
           I == {i \in 1 .. Len(s) : s[i] \in M}
<1>1. PICK n \in Nat : /\ s \in [1 .. n -> S] /\ Len(s) = n
                       /\ \A x \in S : \E i \in 1 .. n : s[i] = x
                       /\ \A i, j \in 1 .. n : i < j => length[s[i]] >= length[s[j]]
    BY LongestFirstIs
<1> HIDE DEF s
<1>2. I \in SUBSET Nat /\ I # {} BY <1>1
<1>3. PICK k \in I : \A y \in I : k <= y BY <1>2, Least
<1>4. \A j \in 1 .. k - 1 : s[j] \in S \ M
  <2> TAKE j \in 1 .. k - 1
  <2>1. j \in 1 .. n /\ ~(k <= j) BY <1>1, <1>3
  <2>2. j \notin I BY <1>3, <2>1
  <2> QED BY <1>1, <2>1, <2>2
<1>5. ASSUME NEW x \in M PROVE length[x] <= length[s[k]]
  <2>1. PICK i \in 1 .. n : s[i] = x BY <1>1
  <2>2. i \in I BY <1>1, <2>1
  <2>3. k <= i /\ k \in 1 .. n /\ s[k] \in S BY <1>1, <1>3, <2>2
  <2>4. length[s[k]] \in Nat /\ length[x] \in Nat BY <2>3
  <2> QED BY <1>1, <2>1, <2>3, <2>4
<1> QED BY <1>1, <1>3, <1>4, <1>5 DEF s, LongestLeads

\* A bounded length has a greatest value.
LEMMA Greatest ==
    ASSUME NEW T, T # {}, NEW N \in Nat, NEW length, \A x \in T : length[x] \in 0 .. N
    PROVE  \E x \in T : \A y \in T : length[y] <= length[x]
<1> DEFINE U == {N - length[x] : x \in T}
<1>1. U \in SUBSET Nat /\ U # {} OBVIOUS
<1>2. PICK m \in U : \A u \in U : m <= u BY <1>1, Least
<1>3. PICK x \in T : m = N - length[x] BY <1>2
<1>4. ASSUME NEW y \in T PROVE length[y] <= length[x]
  <2>1. N - length[y] \in U BY <1>4
  <2>2. N - length[x] <= N - length[y] BY <1>2, <1>3, <2>1
  <2> QED BY <2>2
<1> QED BY <1>4

\* The reference definition, by path and by host.
LongestPath(T) == Longest(T, LAMBDA x : Len(x.path))
LongestHost(T) == Longest(T, LAMBDA x : Len(x.host))

\* The longest of a bounded set is in it, and none is longer: by path, by
\* host, and for names themselves.
LEMMA LongestPathIs ==
    ASSUME NEW T, T # {}, NEW N \in Nat, \A e \in T : Len(e.path) \in 0 .. N
    PROVE  LET e == LongestPath(T) IN
           e \in T /\ \A f \in T : Len(f.path) <= Len(e.path)
<1> DEFINE length == [e \in T |-> Len(e.path)]
<1>1. PICK x \in T : \A y \in T : length[y] <= length[x] BY Greatest
<1>2. \E e \in T : \A f \in T : Len(f.path) <= Len(e.path) BY <1>1
<1> QED BY <1>2 DEF Longest, LongestPath

LEMMA LongestHostIs ==
    ASSUME NEW T, T # {}, NEW N \in Nat, \A e \in T : Len(e.host) \in 0 .. N
    PROVE  LET e == LongestHost(T) IN
           e \in T /\ \A f \in T : Len(f.host) <= Len(e.host)
<1> DEFINE length == [e \in T |-> Len(e.host)]
<1>1. PICK x \in T : \A y \in T : length[y] <= length[x] BY Greatest
<1>2. \E e \in T : \A f \in T : Len(f.host) <= Len(e.host) BY <1>1
<1> QED BY <1>2 DEF Longest, LongestHost

LEMMA LongestNameIs ==
    ASSUME NEW T, T # {}, NEW N \in Nat, \A n \in T : Len(n) \in 0 .. N
    PROVE  LET e == Longest(T, Len) IN
           e \in T /\ \A f \in T : Len(f) <= Len(e)
<1> DEFINE length == [e \in T |-> Len(e)]
<1>1. PICK x \in T : \A y \in T : length[y] <= length[x] BY Greatest
<1>2. \E e \in T : \A f \in T : Len(f) <= Len(e) BY <1>1
<1> QED BY <1>2 DEF Longest

\* Prefixes and suffixes are determined by their length.
LEMMA PrefixIs ==
    ASSUME NEW s \in Seq(STRING), NEW t \in Seq(STRING)
    PROVE  IsPrefix(s, t) <=> Len(s) <= Len(t) /\ s = SubSeq(t, 1, Len(s))
<1>1. SubSeq(s, 1, Len(s)) = s OBVIOUS
<1> QED BY <1>1 DEF IsPrefix

Suffix(s, l) == SubSeq(s, Len(s) - l + 1, Len(s))

LEMMA SuffixIs ==
    ASSUME NEW s \in Seq(STRING), NEW t \in Seq(STRING)
    PROVE  IsSuffix(s, t) <=> Len(s) <= Len(t) /\ s = Suffix(t, Len(s))
<1> DEFINE a == Reverse(s)
           b == Reverse(t)
           m == Len(s)
           n == Len(t)
<1>1. /\ a \in Seq(STRING) /\ Len(a) = m /\ \A i \in 1 .. m : a[i] = s[m - i + 1]
      /\ b \in Seq(STRING) /\ Len(b) = n /\ \A i \in 1 .. n : b[i] = t[n - i + 1]
    BY DEF Reverse
<1> HIDE DEF a, b
<1>2. IsSuffix(s, t) <=> m <= n /\ SubSeq(a, 1, m) = SubSeq(b, 1, m)
    BY <1>1 DEF IsSuffix, IsPrefix, a, b
<1> SUFFICES ASSUME m <= n PROVE SubSeq(a, 1, m) = SubSeq(b, 1, m) <=> s = Suffix(t, m)
    BY <1>2
<1>3. SubSeq(a, 1, m) = SubSeq(b, 1, m) <=> \A i \in 1 .. m : a[i] = b[i]
  <2> DEFINE x == SubSeq(a, 1, m)
             y == SubSeq(b, 1, m)
  <2>1. x \in Seq(STRING) /\ Len(x) = m /\ \A i \in 1 .. m : x[i] = a[i] BY <1>1
  <2>2. y \in Seq(STRING) /\ Len(y) = m /\ \A i \in 1 .. m : y[i] = b[i] BY <1>1
  <2> HIDE DEF x, y
  <2>3. (\A i \in 1 .. m : x[i] = y[i]) => x = y BY <2>1, <2>2
  <2> QED BY <2>1, <2>2, <2>3 DEF x, y
<1>4. s = Suffix(t, m) <=> \A i \in 1 .. m : s[i] = t[n - m + i]
  <2> DEFINE y == Suffix(t, m)
  <2>1. y \in Seq(STRING) /\ Len(y) = m /\ \A i \in 1 .. m : y[i] = t[n - m + i]
      BY DEF Suffix
  <2> HIDE DEF y
  <2>2. (\A i \in 1 .. m : s[i] = y[i]) => s = y BY <2>1
  <2> QED BY <2>1, <2>2 DEF y
<1>5. ASSUME \A i \in 1 .. m : a[i] = b[i], NEW i \in 1 .. m PROVE s[i] = t[n - m + i]
  <2>1. m - i + 1 \in 1 .. m /\ m - i + 1 \in 1 .. n OBVIOUS
  <2>2. a[m - i + 1] = s[m - (m - i + 1) + 1] /\ b[m - i + 1] = t[n - (m - i + 1) + 1]
      BY <1>1, <2>1
  <2>3. m - (m - i + 1) + 1 = i /\ n - (m - i + 1) + 1 = n - m + i OBVIOUS
  <2> QED BY <1>5, <2>1, <2>2, <2>3
<1>6. ASSUME \A i \in 1 .. m : s[i] = t[n - m + i], NEW i \in 1 .. m PROVE a[i] = b[i]
  <2>1. m - i + 1 \in 1 .. m /\ i \in 1 .. n OBVIOUS
  <2>2. s[m - i + 1] = t[n - m + (m - i + 1)] BY <1>6, <2>1
  <2>3. n - m + (m - i + 1) = n - i + 1 OBVIOUS
  <2> QED BY <1>1, <2>1, <2>2, <2>3
<1> QED BY <1>3, <1>4, <1>5, <1>6

LEMMA SuffixLen ==
    ASSUME NEW t \in Seq(STRING), NEW l \in 0 .. Len(t)
    PROVE  Suffix(t, l) \in Seq(STRING) /\ Len(Suffix(t, l)) = l
BY DEF Suffix

\* An authorizer may be missing.
Names == STRING \cup {None}

\* a is the first authorizer of a list of candidates.
Leads(c, a) ==
    \/ a = None /\ \A i \in 1 .. Len(c) : c[i] = None
    \/ a # None /\ \E i \in 1 .. Len(c) : c[i] = a /\ \A j \in 1 .. i - 1 : c[j] = None

\* The least of a set of numbers.
LEMMA MinIs ==
    ASSUME NEW T \in SUBSET Nat, NEW a \in T, \A y \in T : a <= y
    PROVE  Min(T) = a
<1>1. Min(T) \in T /\ \A y \in T : Min(T) <= y BY DEF Min
<1> HIDE DEF Min
<1>2. Min(T) <= a /\ a <= Min(T) /\ a \in Nat /\ Min(T) \in Nat BY <1>1
<1> QED BY <1>2

\* inherit() takes an entry's own authorizer, or the first one.
LEMMA InheritIs ==
    ASSUME NEW own, NEW c \in Seq(Names), NEW a, Leads(c, a)
    PROVE  Inherit(own, c) = IF own = None THEN a ELSE own
<1> DEFINE I == {i \in 1 .. Len(c) : c[i] # None}
           k == IF I # {} THEN Min(I) ELSE 0
<1>1. Inherit(own, c) = IF own # None \/ k = 0 THEN own ELSE c[k]
    BY DEF Inherit, SelectInSeq
<1>2. CASE a = None
    BY <1>1, <1>2 DEF Leads
<1>3. CASE a # None
  <2>1. PICK i \in 1 .. Len(c) : c[i] = a /\ \A j \in 1 .. i - 1 : c[j] = None
      BY <1>3 DEF Leads
  <2>2. i \in I /\ \A j \in I : i <= j BY <1>3, <2>1
  <2>3. Min(I) = i
    <3>1. I \in SUBSET Nat OBVIOUS
    <3> HIDE DEF I
    <3> QED BY <2>2, <3>1, MinIs
  <2>4. k = i BY <2>2, <2>3
  <2> HIDE DEF k
  <2> QED BY <1>1, <1>3, <2>1, <2>4
<1> QED BY <1>2, <1>3

\* Of two lists the second counts if nothing in the first is an authorizer.
LEMMA LeadsFirst ==
    ASSUME NEW s \in Seq(Names), NEW t \in Seq(Names), NEW a, Leads(s, a), a # None
    PROVE  Leads(s \o t, a)
<1>1. PICK i \in 1 .. Len(s) : s[i] = a /\ \A j \in 1 .. i - 1 : s[j] = None BY DEF Leads
<1>2. i \in 1 .. Len(s \o t) /\ (s \o t)[i] = a BY <1>1
<1>3. \A j \in 1 .. i - 1 : (s \o t)[j] = None BY <1>1
<1> QED BY <1>2, <1>3 DEF Leads

LEMMA LeadsNext ==
    ASSUME NEW s \in Seq(Names), NEW t \in Seq(Names), NEW a, Leads(s, None), Leads(t, a)
    PROVE  Leads(s \o t, a)
<1>1. \A i \in 1 .. Len(s) : s[i] = None BY DEF Leads
<1> DEFINE c == s \o t
<1>2. /\ c \in Seq(Names) /\ Len(c) = Len(s) + Len(t)
      /\ \A i \in 1 .. Len(s) : c[i] = s[i]
      /\ \A i \in 1 .. Len(t) : c[Len(s) + i] = t[i]
    OBVIOUS
<1> HIDE DEF c
<1>3. CASE a = None
  <2>1. \A i \in 1 .. Len(t) : t[i] = None BY <1>3 DEF Leads
  <2>2. ASSUME NEW i \in 1 .. Len(c) PROVE c[i] = None
    <3>1. CASE i <= Len(s) BY <1>1, <1>2, <3>1
    <3>2. CASE i > Len(s)
      <4>1. i - Len(s) \in 1 .. Len(t) /\ Len(s) + (i - Len(s)) = i BY <1>2, <3>2
      <4> QED BY <1>2, <2>1, <4>1
    <3> QED BY <3>1, <3>2
  <2> QED BY <1>3, <2>2 DEF Leads, c
<1>4. CASE a # None
  <2>1. PICK i \in 1 .. Len(t) : t[i] = a /\ \A j \in 1 .. i - 1 : t[j] = None
      BY <1>4 DEF Leads
  <2>2. Len(s) + i \in 1 .. Len(c) /\ c[Len(s) + i] = a BY <1>2, <2>1
  <2>3. ASSUME NEW j \in 1 .. (Len(s) + i) - 1 PROVE c[j] = None
    <3>1. CASE j <= Len(s) BY <1>1, <1>2, <3>1
    <3>2. CASE j > Len(s)
      <4>1. j - Len(s) \in 1 .. i - 1 /\ j - Len(s) \in 1 .. Len(t) /\ Len(s) + (j - Len(s)) = j
          BY <1>2, <3>2
      <4> QED BY <1>2, <2>1, <4>1
    <3> QED BY <3>1, <3>2
  <2> QED BY <1>4, <2>2, <2>3 DEF Leads, c
<1> QED BY <1>3, <1>4

\* The entries of one host name, or of the names below it.
IsDomain(d) ==
    /\ IsFiniteSet(d)
    /\ \A e \in d : e.path \in Seq(STRING) /\ e.authorizer \in Names
    /\ \A e, f \in d : e.path = f.path => e = f

\* The section `routing` has each of them once.
LEMMA DomainIs ==
    ASSUME NEW src, IsRouting(src), NEW star, NEW host
    PROVE  IsDomain(Domain(src, star, host))
<1>1. Domain(src, star, host) \subseteq src BY DEF Domain
<1>2. IsFiniteSet(Domain(src, star, host)) BY <1>1, FS_Subset DEF IsRouting
<1> QED BY <1>1, <1>2 DEF IsDomain, IsRouting, Domain, Names

\* update_by_path finds the authorizer of the entry for a path.
LEMMA AuthorizerIs ==
    ASSUME NEW d, IsDomain(d), NEW p
    PROVE  /\ \A e \in d : e.path = p => AuthorizerAt(d, p) = e.authorizer
           /\ AuthorizerAt(d, p) \in Names
           /\ AuthorizerAt(d, p) # None =>
                 \E e \in d : e.path = p /\ e.authorizer = AuthorizerAt(d, p)
<1> DEFINE here == {e \in d : e.path = p}
<1>1. CASE here = {}
  <2>1. AuthorizerAt(d, p) = None BY <1>1 DEF AuthorizerAt
  <2>2. None \in Names BY DEF Names
  <2> QED BY <1>1, <2>1, <2>2
<1>2. CASE here # {}
  <2>1. PICK e \in d : e.path = p BY <1>2
  <2>2. here = {e} BY <2>1 DEF IsDomain
  <2>3. (CHOOSE x \in here : TRUE) = e BY <2>2
  <2>4. AuthorizerAt(d, p) = e.authorizer BY <1>2, <2>3 DEF AuthorizerAt
  <2> QED BY <2>1, <2>2, <2>4 DEF IsDomain
<1> QED BY <1>1, <1>2

\* A list of candidates that goes down from N.
LEMMA LeadsDown ==
    ASSUME NEW N \in Nat, NEW f, \A l \in 0 .. N : f[l] \in Names,
           NEW c, c = [k \in 1 .. N |-> f[N - k]]
    PROVE  /\ c \in Seq(Names)
           /\ (\A l \in 0 .. N - 1 : f[l] = None) => Leads(c, None)
           /\ \A l \in 0 .. N - 1 : f[l] # None /\ (\A m \in l + 1 .. N - 1 : f[m] = None)
                                        => Leads(c, f[l])
<1>1. \A k \in 1 .. N : N - k \in 0 .. N - 1 /\ N - k \in 0 .. N OBVIOUS
<1>2. c \in [1 .. N -> Names] BY <1>1
<1>3. c \in Seq(Names) /\ Len(c) = N BY <1>2, LenOf, SeqDef
<1>4. \A k \in 1 .. N : c[k] = f[N - k] OBVIOUS
<1>5. (\A l \in 0 .. N - 1 : f[l] = None) => Leads(c, None) BY <1>1, <1>3, <1>4 DEF Leads
<1>6. ASSUME NEW l \in 0 .. N - 1, f[l] # None, \A m \in l + 1 .. N - 1 : f[m] = None
      PROVE  Leads(c, f[l])
  <2>1. N - l \in 1 .. N /\ N - (N - l) = l OBVIOUS
  <2>2. c[N - l] = f[l] BY <1>4, <2>1
  <2>3. ASSUME NEW j \in 1 .. (N - l) - 1 PROVE c[j] = None
    <3>1. j \in 1 .. N /\ N - j \in l + 1 .. N - 1 OBVIOUS
    <3> QED BY <1>4, <1>6, <3>1
  <2> QED BY <1>3, <1>6, <2>1, <2>2, <2>3 DEF Leads
<1> QED BY <1>3, <1>5, <1>6

\* The hosts above a name, with what its own star entry says: the longest
\* `*.host` with an authorizer is the first that the loop over the dots finds.
Above(src, n) ==
    {e \in src : e.star /\ e.path = Root /\ IsSuffix(e.host, n) /\ e.authorizer # None}
Up(src, n) ==
    IF Above(src, n) = {} THEN None ELSE LongestHost(Above(src, n)).authorizer

LEMMA HostsAbove ==
    ASSUME NEW src, IsRouting(src), NEW n \in Seq(STRING)
    PROVE  /\ FromParents(src, n) \in Seq(Names)
           /\ <<FromHost(src, n)>> \o FromParents(src, n) \in Seq(Names)
           /\ Leads(<<FromHost(src, n)>> \o FromParents(src, n), Up(src, n))
           /\ FromHost(src, n) = None => Leads(FromParents(src, n), Up(src, n))
<1> DEFINE M == Len(n)
           B == [l \in 0 .. M |-> FromHost(src, Suffix(n, l))]
           c == [k \in 1 .. M |-> B[M - k]]
           up == Up(src, n)
           S == Above(src, n)
           top == <<B[M]>>
           last == <<B[0]>>
           rest == c \o last
<1>1. M \in Nat OBVIOUS
<1>2. ASSUME NEW l \in 0 .. M
      PROVE  /\ B[l] \in Names
             /\ \A e \in S : Len(e.host) = l => B[l] = e.authorizer
             /\ B[l] # None => \E e \in S : Len(e.host) = l /\ e.authorizer = B[l]
  <2> DEFINE h == Suffix(n, l)
             d == Domain(src, TRUE, h)
  <2>1. B[l] = AuthorizerAt(d, Root) BY DEF FromHost
  <2>2. IsDomain(d) BY DomainIs
  <2>3. h \in Seq(STRING) /\ Len(h) = l BY SuffixLen
  <2> HIDE DEF h, B, d
  <2>4. /\ \A e \in d : e.path = Root => B[l] = e.authorizer
        /\ B[l] \in Names
        /\ B[l] # None => \E e \in d : e.path = Root /\ e.authorizer = B[l]
      BY <2>1, <2>2, AuthorizerIs
  <2>5. ASSUME NEW e \in S, Len(e.host) = l PROVE B[l] = e.authorizer
    <3>1. e \in src /\ e.star /\ e.star \in BOOLEAN /\ e.path = Root /\ IsSuffix(e.host, n)
          /\ e.host \in Seq(STRING)
        BY DEF Above, IsRouting
    <3>2. e.host = h BY <2>5, <3>1, SuffixIs DEF h
    <3>3. e.star = TRUE BY <3>1
    <3>4. e \in d BY <3>1, <3>2, <3>3 DEF Domain, d
    <3> QED BY <2>4, <3>1, <3>4
  <2>6. ASSUME B[l] # None PROVE \E e \in S : Len(e.host) = l /\ e.authorizer = B[l]
    <3>1. PICK e \in d : e.path = Root /\ e.authorizer = B[l] BY <2>4, <2>6
    <3>2. e \in src /\ e.star = TRUE /\ e.host = h BY DEF Domain, d
    <3>3. IsSuffix(h, n) BY <2>3, SuffixIs DEF h
    <3>4. e \in S BY <2>6, <3>1, <3>2, <3>3 DEF Above
    <3> QED BY <2>3, <3>1, <3>2, <3>4
  <2> QED BY <2>4, <2>5, <2>6
<1>3. B[M] = FromHost(src, n) /\ B[0] = FromHost(src, <<>>)
  <2>1. Suffix(n, M) = n /\ Suffix(n, 0) = <<>> BY DEF Suffix
  <2> QED BY <1>1, <2>1
<1>4. FromParents(src, n) = rest
  <2>1. ASSUME NEW k \in 1 .. M
        PROVE  FromHost(src, SubSeq(n, k + 1, Len(n))) = B[M - k]
    <3>1. M - k \in 0 .. M /\ Len(n) - (M - k) + 1 = k + 1 OBVIOUS
    <3>2. Suffix(n, M - k) = SubSeq(n, k + 1, Len(n)) BY <3>1 DEF Suffix
    <3> QED BY <3>1, <3>2
  <2> HIDE DEF B
  <2>2. [k \in 1 .. M |-> FromHost(src, SubSeq(n, k + 1, Len(n)))] = c BY <2>1
  <2> QED BY <1>3, <2>2 DEF FromParents
<1> HIDE DEF B
<1>5. /\ c \in Seq(Names)
      /\ (\A l \in 0 .. M - 1 : B[l] = None) => Leads(c, None)
      /\ \A l \in 0 .. M - 1 : B[l] # None /\ (\A m \in l + 1 .. M - 1 : B[m] = None)
                                   => Leads(c, B[l])
    BY <1>1, <1>2, LeadsDown
<1>6. B[M] \in Names /\ B[0] \in Names BY <1>1, <1>2
<1>7. top \in Seq(Names) /\ last \in Seq(Names) BY <1>6
<1>8. rest \in Seq(Names) /\ top \o rest \in Seq(Names) BY <1>5, <1>7
<1>9. Leads(top, B[M]) /\ Leads(last, B[0])
  <2>1. /\ Len(top) = 1 /\ top[1] = B[M] /\ Len(last) = 1 /\ last[1] = B[0] OBVIOUS
  <2> HIDE DEF top, last
  <2> QED BY <2>1 DEF Leads
<1>10. CASE S = {}
  <2>1. up = None BY <1>10 DEF Up
  <2>2. \A l \in 0 .. M : B[l] = None BY <1>2, <1>10
  <2>3. B[M] = None /\ B[0] = None /\ \A l \in 0 .. M - 1 : B[l] = None BY <1>1, <2>2
  <2>4. Leads(c, None) /\ Leads(top, None) /\ Leads(last, None) BY <1>5, <1>9, <2>3
  <2> HIDE DEF c, top, last
  <2>5. Leads(rest, None) BY <1>5, <1>7, <2>4, LeadsNext
  <2> HIDE DEF rest
  <2>6. Leads(top \o rest, None) BY <1>8, <1>7, <2>4, <2>5, LeadsNext
  <2> QED BY <1>3, <1>4, <1>8, <2>1, <2>5, <2>6 DEF top
<1>11. CASE S # {}
  <2> DEFINE e == LongestHost(S)
             l == Len(e.host)
  <2>1. \A x \in S : Len(x.host) \in 0 .. M
    <3> TAKE x \in S
    <3>1. x.host \in Seq(STRING) /\ IsSuffix(x.host, n) BY DEF Above, IsRouting
    <3> QED BY <3>1, SuffixIs
  <2>2. e \in S /\ \A x \in S : Len(x.host) <= Len(e.host) BY <1>1, <1>11, <2>1, LongestHostIs
  <2>3. up = e.authorizer BY <1>11 DEF Up
  <2>4. e.authorizer # None BY <2>2 DEF Above
  <2> HIDE DEF e
  <2>5. l \in 0 .. M BY <2>1, <2>2
  <2>6. B[l] = up BY <1>2, <2>2, <2>3, <2>5
  <2>7. ASSUME NEW m \in l + 1 .. M PROVE B[m] = None
    <3>1. m \in 0 .. M /\ ~(m <= l) BY <2>5
    <3> QED BY <1>2, <2>2, <3>1
  <2> HIDE DEF c, top, last, l, up
  <2>8. CASE l = M
    <3>1. Leads(top, up) BY <1>9, <2>6, <2>8
    <3> HIDE DEF rest
    <3>2. Leads(top \o rest, up) BY <1>7, <1>8, <2>3, <2>4, <3>1, LeadsFirst
    <3> QED BY <1>3, <1>4, <1>8, <2>3, <2>4, <2>6, <2>8, <3>2 DEF top, up
  <2>9. CASE l < M
    <3>1. l \in 0 .. M - 1 /\ \A m \in l + 1 .. M - 1 : B[m] = None BY <1>1, <2>5, <2>7, <2>9
    <3>2. Leads(c, up) BY <1>5, <2>3, <2>4, <2>6, <3>1
    <3>3. Leads(rest, up) BY <1>5, <1>7, <2>3, <2>4, <3>2, LeadsFirst
    <3>4. M \in l + 1 .. M BY <1>1, <2>5, <2>9
    <3>5. Leads(top, None) BY <1>9, <2>7, <3>4
    <3> HIDE DEF rest
    <3>6. Leads(top \o rest, up) BY <1>7, <1>8, <3>3, <3>5, LeadsNext
    <3> QED BY <1>3, <1>4, <1>8, <3>3, <3>6 DEF top, up
  <2> QED BY <1>1, <2>5, <2>8, <2>9
<1> QED BY <1>10, <1>11

\* Resolver::route: no authorizer means the authorizer "default".
Named(a) == IF a = None THEN "default" ELSE a

\* What Routes makes of an entry.
MadeOf(r, e, d, outside) ==
    /\ r.path = e.path /\ r.handler = e.handler
    /\ r.authorizer = Named(Inherit(e.authorizer, ByPath(d, e.path) \o outside))

NoRoot(d) == \A e \in d : e.path # Root

\* Every entry has its route, and a domain without a root the default one.
LEMMA RoutesAre ==
    ASSUME NEW d, IsDomain(d), NEW outside
    PROVE  LET R == Routes(d, outside) IN
           /\ IsFiniteSet(R)
           /\ \A r \in R : \/ \E e \in d : MadeOf(r, e, d, outside)
                           \/ NoRoot(d) /\ MadeOf(r, Default, d, outside)
           /\ \A e \in d : \E r \in R : MadeOf(r, e, d, outside)
           /\ NoRoot(d) => \E r \in R : MadeOf(r, Default, d, outside)
<1> DEFINE Own(e) == [path |-> e.path, handler |-> e.handler, authorizer |-> e.authorizer]
           own == {Own(e) : e \in d}
           all == IF \E e \in own : e.path = Root THEN own ELSE own \cup {Default}
           Made(e) == [e EXCEPT !.authorizer =
                          Named(Inherit(e.authorizer, ByPath(d, e.path) \o outside))]
           R == {Made(e) : e \in all}
<1>1. Routes(d, outside) = R BY DEF Routes, Named
<1>2. IsFiniteSet(own)
  <2> DEFINE f == [e \in d |-> Own(e)]
  <2>1. f \in Surjection(d, own) BY DEF Surjection
  <2> QED BY <2>1, FS_Surjection DEF IsDomain
<1>3. IsFiniteSet(all) BY <1>2, FS_AddElement
<1>4. (\E e \in own : e.path = Root) <=> ~NoRoot(d)
  <2>1. \A e \in d : Own(e).path = e.path OBVIOUS
  <2> HIDE DEF Own
  <2> QED BY <2>1 DEF NoRoot
<1> HIDE DEF R
<1>5. IsFiniteSet(R)
  <2> DEFINE f == [e \in all |-> Made(e)]
  <2> HIDE DEF all, Made
  <2>1. f \in Surjection(all, R) BY DEF Surjection, R
  <2> QED BY <1>3, <2>1, FS_Surjection
<1>6. ASSUME NEW e \in d PROVE MadeOf(Made(Own(e)), e, d, outside)
    BY DEF MadeOf
<1>7. MadeOf(Made(Default), Default, d, outside)
    BY DEF MadeOf, Default
<1> HIDE DEF Made, Own
<1>8. \A r \in R : (\E e \in d : r = Made(Own(e))) \/ (NoRoot(d) /\ r = Made(Default))
    BY <1>4 DEF R
<1>9. \A e \in d : Made(Own(e)) \in R BY DEF R
<1>10. NoRoot(d) => Made(Default) \in R BY <1>4 DEF R
<1> QED BY <1>1, <1>5, <1>6, <1>7, <1>8, <1>9, <1>10

\* r is the route that the lookup in a path table finds.
FirstRoute(paths, path, r) ==
    /\ Len(paths) \in Nat
    /\ \E k \in 1 .. Len(paths) : /\ paths[k] = r /\ PathMatches(r, path)
                                  /\ \A j \in 1 .. k - 1 : ~PathMatches(paths[j], path)

\* The authorizer of the nearest path, or the one from above.
Inside(d, path) == {e \in d : IsPrefix(e.path, path) /\ e.authorizer # None}
NearestOf(d, path, up) ==
    IF Inside(d, path) # {} THEN LongestPath(Inside(d, path)).authorizer ELSE up

\* update_by_path asks the nearest path first.
LEMMA PathsAbove ==
    ASSUME NEW d, IsDomain(d), NEW path \in Seq(STRING), NEW p \in Seq(STRING),
           IsPrefix(p, path), \A e \in d : IsPrefix(e.path, path) => Len(e.path) <= Len(p),
           NEW outside \in Seq(Names), NEW up,
           (\A e \in d : e.path = Root => e.authorizer = None) => Leads(outside, up)
    PROVE  Inherit(AuthorizerAt(d, p), ByPath(d, p) \o outside) = NearestOf(d, path, up)
<1> DEFINE S == {e \in d : IsPrefix(e.path, path) /\ e.authorizer # None}
           N == Len(p)
           A == [l \in 0 .. N |-> AuthorizerAt(d, SubSeq(path, 1, l))]
           c == [k \in 1 .. N |-> A[N - k]]
           own == AuthorizerAt(d, p)
<1>0. N \in Nat OBVIOUS
<1>1. N \in Nat /\ N <= Len(path) /\ p = SubSeq(path, 1, N) BY PrefixIs
<1>2. ASSUME NEW l \in 0 .. N
      PROVE  /\ A[l] \in Names
             /\ \A e \in S : Len(e.path) = l => A[l] = e.authorizer
             /\ A[l] # None => \E e \in S : Len(e.path) = l /\ e.authorizer = A[l]
  <2> DEFINE h == SubSeq(path, 1, l)
  <2>1. A[l] = AuthorizerAt(d, h) OBVIOUS
  <2>2. h \in Seq(STRING) /\ Len(h) = l BY <1>1
  <2> HIDE DEF h, A
  <2>3. /\ \A e \in d : e.path = h => A[l] = e.authorizer
        /\ A[l] \in Names
        /\ A[l] # None => \E e \in d : e.path = h /\ e.authorizer = A[l]
      BY <2>1, AuthorizerIs
  <2>4. ASSUME NEW e \in S, Len(e.path) = l PROVE A[l] = e.authorizer
    <3>1. e \in d /\ IsPrefix(e.path, path) /\ e.path \in Seq(STRING) BY DEF IsDomain
    <3>2. e.path = h BY <2>4, <3>1, PrefixIs DEF h
    <3> QED BY <2>3, <3>1, <3>2
  <2>5. ASSUME A[l] # None PROVE \E e \in S : Len(e.path) = l /\ e.authorizer = A[l]
    <3>1. PICK e \in d : e.path = h /\ e.authorizer = A[l] BY <2>3, <2>5
    <3>2. Len(h) <= Len(path) /\ h = SubSeq(path, 1, Len(h)) BY <1>1, <2>2 DEF h
    <3>3. IsPrefix(h, path) BY <2>2, <3>2, PrefixIs
    <3> QED BY <2>2, <2>5, <3>1, <3>3
  <2> QED BY <2>3, <2>4, <2>5
<1>3. A[N] = own
  <2>1. N \in 0 .. N BY <1>1
  <2>2. A[N] = AuthorizerAt(d, SubSeq(path, 1, N)) BY <2>1
  <2> HIDE DEF A
  <2> QED BY <1>1, <2>2
<1>4. ByPath(d, p) = c
  <2>1. ASSUME NEW k \in 1 .. N
        PROVE  AuthorizerAt(d, SubSeq(p, 1, N - k)) = A[N - k]
    <3>1. N - k \in 0 .. N BY <1>1
    <3>2. SubSeq(p, 1, N - k) = SubSeq(path, 1, N - k) BY <1>1, <3>1
    <3> QED BY <3>1, <3>2
  <2> HIDE DEF A
  <2> QED BY <2>1 DEF ByPath
<1> HIDE DEF A
<1>5. /\ c \in Seq(Names)
      /\ (\A l \in 0 .. N - 1 : A[l] = None) => Leads(c, None)
      /\ \A l \in 0 .. N - 1 : A[l] # None /\ (\A m \in l + 1 .. N - 1 : A[m] = None)
                                   => Leads(c, A[l])
    BY <1>1, <1>2, LeadsDown
<1> HIDE DEF c, own
<1>6. c \o outside \in Seq(Names) BY <1>5
<1>7. CASE S = {}
  <2>1. \A l \in 0 .. N : A[l] = None BY <1>2, <1>7
  <2>2. own = None /\ \A l \in 0 .. N - 1 : A[l] = None BY <1>1, <1>3, <2>1
  <2>3. Leads(c, None) BY <1>5, <2>2
  <2>4. ASSUME NEW e \in d, e.path = Root PROVE e.authorizer = None
    <3>1. e.path \in Seq(STRING) /\ Len(e.path) = 0 BY <2>4 DEF IsDomain, Root
    <3>2. SubSeq(path, 1, 0) = <<>> OBVIOUS
    <3>3. Len(e.path) <= Len(path) /\ e.path = SubSeq(path, 1, Len(e.path))
        BY <2>4, <3>1, <3>2 DEF Root
    <3>4. IsPrefix(e.path, path) BY <3>1, <3>3, PrefixIs
    <3> QED BY <1>7, <3>4
  <2>5. Leads(outside, up) BY <2>4
  <2>6. Leads(c \o outside, up) BY <1>5, <2>3, <2>5, LeadsNext
  <2>7. Inherit(own, c \o outside) = up BY <1>6, <2>2, <2>6, InheritIs
  <2> QED BY <1>4, <1>7, <2>7 DEF own, NearestOf, Inside
<1>8. CASE S # {}
  <2> DEFINE e == LongestPath(S)
             l == Len(e.path)
             a == e.authorizer
  <2>1. \A x \in S : Len(x.path) \in 0 .. N BY DEF IsDomain
  <2>2. e \in S /\ \A x \in S : Len(x.path) <= Len(e.path) BY <1>1, <1>8, <2>1, LongestPathIs
  <2> HIDE DEF e
  <2>3. a # None BY <2>2
  <2>4. l \in 0 .. N BY <2>1, <2>2
  <2>5. A[l] = a BY <1>2, <2>2, <2>4
  <2>6. ASSUME NEW m \in l + 1 .. N PROVE A[m] = None
    <3>1. m \in 0 .. N /\ ~(m <= l) BY <2>4
    <3> QED BY <1>2, <2>2, <3>1
  <2> HIDE DEF l, a
  <2>7. Inherit(own, c \o outside) = a
    <3>1. CASE l = N
      <4>1. own = a BY <1>3, <2>5, <3>1
      <4>2. Inherit(own, c \o outside) = own BY <2>3, <4>1 DEF Inherit
      <4> QED BY <4>1, <4>2
    <3>2. CASE l < N
      <4>1. l \in 0 .. N - 1 /\ \A m \in l + 1 .. N - 1 : A[m] = None BY <1>1, <2>4, <2>6, <3>2
      <4>2. Leads(c, a) BY <1>5, <2>3, <2>5, <4>1
      <4>3. Leads(c \o outside, a) BY <1>5, <2>3, <4>2, LeadsFirst
      <4>4. N \in l + 1 .. N BY <1>1, <2>4, <3>2
      <4>5. own = None BY <1>3, <2>6, <4>4
      <4> QED BY <1>6, <4>3, <4>5, InheritIs
    <3>3. l = N \/ l < N BY <1>0, <2>4
    <3> QED BY <3>1, <3>2, <3>3
  <2> QED BY <1>4, <1>8, <2>7 DEF own, a, e, NearestOf, Inside
<1> QED BY <1>7, <1>8

\* The nearest entry of a domain, as the documentation has it.
Chosen(r, d, path, up) ==
    LET here == {e \in d : IsPrefix(e.path, path)}
        inside == {e \in here : e.authorizer # None}
        nearest == LongestPath(here)
    IN /\ r.path = IF here = {} THEN Root ELSE nearest.path
       /\ r.handler = IF here = {} THEN "default" ELSE nearest.handler
       /\ r.authorizer = IF inside # {} THEN LongestPath(inside).authorizer
                         ELSE Named(up)

\* The path table of a domain gives a request the nearest entry.
LEMMA RouteInDomain ==
    ASSUME NEW d, IsDomain(d), NEW path \in Seq(STRING), NEW outside \in Seq(Names), NEW up,
           (\A e \in d : e.path = Root => e.authorizer = None) => Leads(outside, up)
    PROVE  \E r : FirstRoute(PathTable(Routes(d, outside)), path, r) /\ Chosen(r, d, path, up)
<1> DEFINE R == Routes(d, outside)
           length == [r \in R |-> Len(r.path)]
           s == LongestFirst(R, length)
           M == {r \in R : PathMatches(r, path)}
           here == {e \in d : IsPrefix(e.path, path)}
           inside == {e \in here : e.authorizer # None}
           nearest == LongestPath(here)
<1>1. /\ IsFiniteSet(R)
      /\ \A r \in R : \/ \E e \in d : MadeOf(r, e, d, outside)
                      \/ NoRoot(d) /\ MadeOf(r, Default, d, outside)
      /\ \A e \in d : \E r \in R : MadeOf(r, e, d, outside)
      /\ NoRoot(d) => \E r \in R : MadeOf(r, Default, d, outside)
    BY RoutesAre
<1> HIDE DEF R
<1>2. Default.path = Root /\ Default.handler = "default" /\ Default.authorizer = None
    BY DEF Default
<1>3. Root \in Seq(STRING) /\ Len(Root) = 0 /\ IsPrefix(Root, path)
  <2>1. Root \in Seq(STRING) /\ Len(Root) = 0 BY DEF Root
  <2>2. SubSeq(path, 1, 0) = Root BY DEF Root
  <2>3. Len(Root) <= Len(path) /\ Root = SubSeq(path, 1, Len(Root)) BY <2>1, <2>2
  <2> QED BY <2>1, <2>3, PrefixIs
<1>4. \A e \in d : e.path \in Seq(STRING) BY DEF IsDomain
<1>5. ASSUME NEW r \in R PROVE r.path \in Seq(STRING) /\ Len(r.path) \in Nat
  <2>1. (\E e \in d : r.path = e.path) \/ r.path = Default.path BY <1>1 DEF MadeOf
  <2>2. r.path \in Seq(STRING) BY <1>2, <1>3, <1>4, <2>1
  <2> QED BY <2>2
<1>6. \A r \in R : length[r] = Len(r.path) /\ length[r] \in Nat BY <1>5
<1> HIDE DEF length
<1>7. M # {}
  <2>1. CASE NoRoot(d)
    <3>1. PICK r \in R : MadeOf(r, Default, d, outside) BY <1>1, <2>1
    <3> QED BY <1>2, <1>3, <3>1 DEF MadeOf, PathMatches
  <2>2. CASE ~NoRoot(d)
    <3>1. PICK e \in d : e.path = Root BY <2>2 DEF NoRoot
    <3>2. PICK r \in R : MadeOf(r, e, d, outside) BY <1>1
    <3> QED BY <1>3, <3>1, <3>2 DEF MadeOf, PathMatches
  <2> QED BY <2>1, <2>2
<1>8. LongestLeads(s, R, M, length)
  <2>1. M \in SUBSET R OBVIOUS
  <2>2. \A r \in R : length[r] \in Nat BY <1>6
  <2>3. IsFiniteSet(R) BY <1>1
  <2> HIDE DEF M
  <2> QED BY <1>7, <2>1, <2>2, <2>3, FirstIsLongest
<1>9. s = PathTable(R) BY DEF PathTable, length
<1> HIDE DEF s
<1>10. PICK k \in 1 .. Len(s) : /\ s[k] \in M
                                /\ \A j \in 1 .. k - 1 : s[j] \in R \ M
                                /\ \A x \in M : length[x] <= length[s[k]]
    BY <1>8 DEF LongestLeads
<1> DEFINE r == s[k]
           p == r.path
<1>11. r \in R /\ PathMatches(r, path) /\ \A x \in M : Len(x.path) <= Len(p)
    BY <1>6, <1>10
<1>12. FirstRoute(PathTable(R), path, r) BY <1>8, <1>9, <1>10 DEF FirstRoute, LongestLeads
<1> HIDE DEF r
<1>13. p \in Seq(STRING) /\ IsPrefix(p, path) BY <1>5, <1>11 DEF PathMatches
<1>14. ASSUME NEW e \in here PROVE Len(e.path) <= Len(p)
  <2>1. PICK x \in R : MadeOf(x, e, d, outside) BY <1>1
  <2>2. x.path = e.path /\ x \in M BY <2>1 DEF MadeOf, PathMatches
  <2> QED BY <1>11, <2>2
<1>15. \E e \in d \cup {Default} : /\ MadeOf(r, e, d, outside)
                                   /\ e.authorizer = AuthorizerAt(d, p)
                                   /\ e.handler = (IF here = {} THEN "default" ELSE nearest.handler)
                                   /\ e.path = (IF here = {} THEN Root ELSE nearest.path)
  <2>1. here # {} => nearest \in here /\ \A f \in here : Len(f.path) <= Len(nearest.path)
    <3>1. \A e \in here : Len(e.path) \in 0 .. Len(p) /\ Len(p) \in Nat BY <1>4, <1>13, <1>14
    <3>2. Len(p) \in Nat BY <1>13
    <3> HIDE DEF here
    <3> QED BY <3>1, <3>2, LongestPathIs
  <2> HIDE DEF nearest
  <2>2. CASE \E e \in d : MadeOf(r, e, d, outside)
    <3>1. PICK e \in d : MadeOf(r, e, d, outside) BY <2>2
    <3>2. e.path = p BY <3>1 DEF MadeOf
    <3>3. e \in here BY <1>13, <3>2
    <3>4. e.authorizer = AuthorizerAt(d, p) BY <3>2, AuthorizerIs
    <3>5. nearest \in here /\ nearest \in d /\ Len(nearest.path) = Len(p)
      <4>1. nearest \in here /\ Len(p) <= Len(nearest.path) BY <2>1, <3>2, <3>3
      <4>2. Len(nearest.path) \in Nat /\ Len(p) \in Nat BY <1>4, <1>13, <4>1
      <4> QED BY <1>14, <4>1, <4>2
    <3>6. nearest.path = p
      <4>1. nearest.path = SubSeq(path, 1, Len(nearest.path)) BY <1>4, <3>5, PrefixIs
      <4>2. p = SubSeq(path, 1, Len(p)) BY <1>13, PrefixIs
      <4> QED BY <3>5, <4>1, <4>2
    <3>7. nearest = e BY <3>2, <3>5, <3>6 DEF IsDomain
    <3> QED BY <3>1, <3>3, <3>4, <3>7
  <2>3. CASE NoRoot(d) /\ MadeOf(r, Default, d, outside)
    <3>1. p = Root BY <1>2, <2>3 DEF MadeOf
    <3>2. here = {}
      <4> SUFFICES ASSUME NEW e \in here PROVE FALSE OBVIOUS
      <4>1. e \in d /\ e.path \in Seq(STRING) /\ Len(e.path) <= 0 BY <1>3, <1>4, <1>14, <3>1
      <4>2. e.path = Root BY <4>1 DEF Root
      <4> QED BY <2>3, <4>1, <4>2 DEF NoRoot
    <3>3. AuthorizerAt(d, p) = None BY <2>3, <3>1 DEF NoRoot, AuthorizerAt
    <3> QED BY <1>2, <2>3, <3>2, <3>3
  <2> QED BY <1>1, <1>11, <2>2, <2>3
<1> HIDE DEF nearest
<1>16. PICK e \in d \cup {Default} :
           /\ MadeOf(r, e, d, outside)
           /\ e.authorizer = AuthorizerAt(d, p)
           /\ e.handler = (IF here = {} THEN "default" ELSE nearest.handler)
           /\ e.path = (IF here = {} THEN Root ELSE nearest.path)
    BY <1>15
<1> DEFINE S == {x \in d : IsPrefix(x.path, path) /\ x.authorizer # None}
           first == LongestPath(S).authorizer
<1>17. Inherit(AuthorizerAt(d, p), ByPath(d, p) \o outside) = NearestOf(d, path, up)
  <2>1. \A x \in d : IsPrefix(x.path, path) => Len(x.path) <= Len(p) BY <1>14
  <2> HIDE DEF p
  <2> QED BY <1>13, <2>1, PathsAbove
<1>18. S # {} => first # None
  <2>1. \A x \in S : Len(x.path) \in 0 .. Len(p)
      BY <1>4, <1>13, <1>14
  <2>2. Len(p) \in Nat BY <1>13
  <2> DEFINE y == LongestPath(S)
  <2>3. S # {} => y \in S
    <3> HIDE DEF S
    <3> QED BY <2>1, <2>2, LongestPathIs
  <2> HIDE DEF y
  <2>4. S # {} => y.authorizer # None BY <2>3
  <2> QED BY <2>4 DEF y
<1>19. S = inside /\ S = Inside(d, path) BY DEF Inside
<1> HIDE DEF S, inside, here, first
<1>20. r.authorizer = IF S # {} THEN first ELSE Named(up)
    BY <1>16, <1>17, <1>18, <1>19 DEF MadeOf, Named, NearestOf, first
<1>21. Chosen(r, d, path, up)
  <2>1. first = LongestPath(inside).authorizer BY <1>19 DEF first
  <2>2. /\ r.path = (IF here = {} THEN Root ELSE nearest.path)
        /\ r.handler = (IF here = {} THEN "default" ELSE nearest.handler)
      BY <1>16 DEF MadeOf
  <2> QED BY <1>19, <1>20, <2>1, <2>2 DEF Chosen, here, inside, nearest
<1> QED BY <1>12, <1>21 DEF R

\* The lookup of a host in a table: it finds the line L, or nothing.
FirstLine(t, host, L) ==
    /\ Len(t) \in Nat
    /\ \E i \in 1 .. Len(t) : /\ t[i] = L /\ HostMatches(L, host)
                              /\ \A j \in 1 .. i - 1 : ~HostMatches(t[j], host)
NoLine(t, host) == Len(t) \in Nat /\ \A i \in 1 .. Len(t) : ~HostMatches(t[i], host)

\* route() takes the first line and in it the first path.
LEMMA RouteIs ==
    ASSUME NEW host, NEW path, NEW table
    PROVE  /\ NoLine(table, host) => Route(host, path, table) = NoRoute
           /\ \A L, r : FirstLine(table, host, L) /\ FirstRoute(L.paths, path, r) =>
                 Route(host, path, table)
                   = [found |-> TRUE, handler |-> r.handler, authorizer |-> r.authorizer,
                      suffix |-> SubSeq(path, Len(r.path) + 1, Len(path))]
<1> DEFINE I == {i \in 1 .. Len(table) : HostMatches(table[i], host)}
           i == IF I # {} THEN Min(I) ELSE 0
           paths == table[i].paths
           K == {k \in 1 .. Len(paths) : PathMatches(paths[k], path)}
           k == IF K # {} THEN Min(K) ELSE 0
<1>1. Route(host, path, table)
        = IF i = 0 \/ k = 0 THEN NoRoute
          ELSE [found |-> TRUE, handler |-> paths[k].handler, authorizer |-> paths[k].authorizer,
                suffix |-> SubSeq(path, Len(paths[k].path) + 1, Len(path))]
    BY DEF Route, SelectInSeq
<1>2. ASSUME NoLine(table, host) PROVE i = 0
    BY <1>2 DEF NoLine
<1>3. ASSUME NEW L, NEW r, FirstLine(table, host, L), FirstRoute(L.paths, path, r)
      PROVE  i # 0 /\ k # 0 /\ paths[k] = r
  <2>1. PICK a \in 1 .. Len(table) : /\ table[a] = L /\ HostMatches(L, host)
                                     /\ \A j \in 1 .. a - 1 : ~HostMatches(table[j], host)
      BY <1>3 DEF FirstLine
  <2>2. Len(table) \in Nat BY <1>3 DEF FirstLine
  <2>3. a \in I /\ \A j \in I : a <= j BY <2>1, <2>2
  <2>4. Min(I) = a
    <3>1. I \in SUBSET Nat BY <2>2
    <3> HIDE DEF I
    <3> QED BY <2>3, <3>1, MinIs
  <2>5. i = a BY <2>3, <2>4
  <2> HIDE DEF i
  <2>6. paths = L.paths /\ i # 0 BY <2>1, <2>2, <2>5
  <2> HIDE DEF paths
  <2>7. PICK b \in 1 .. Len(paths) : /\ paths[b] = r /\ PathMatches(r, path)
                                     /\ \A j \in 1 .. b - 1 : ~PathMatches(paths[j], path)
      BY <1>3, <2>6 DEF FirstRoute
  <2>8. Len(paths) \in Nat BY <1>3, <2>6 DEF FirstRoute
  <2>9. b \in K /\ \A j \in K : b <= j BY <2>7, <2>8
  <2>10. Min(K) = b
    <3>1. K \in SUBSET Nat BY <2>8
    <3> HIDE DEF K
    <3> QED BY <2>9, <3>1, MinIs
  <2>11. k = b
    <3> HIDE DEF K
    <3> QED BY <2>9, <2>10
  <2> HIDE DEF k
  <2> QED BY <2>6, <2>7, <2>8, <2>11
<1> HIDE DEF i, k, paths
<1> QED BY <1>1, <1>2, <1>3

\* Lists of lines, one after the other.
LEMMA LinesNone ==
    ASSUME NEW X, NEW s \in Seq(X), NEW t \in Seq(X), NEW host, NoLine(s, host), NoLine(t, host)
    PROVE  NoLine(s \o t, host)
<1> DEFINE c == s \o t
<1>1. /\ Len(c) \in Nat /\ Len(c) = Len(s) + Len(t)
      /\ \A i \in 1 .. Len(s) : c[i] = s[i]
      /\ \A i \in 1 .. Len(t) : c[Len(s) + i] = t[i]
    OBVIOUS
<1> HIDE DEF c
<1>2. ASSUME NEW i \in 1 .. Len(c) PROVE ~HostMatches(c[i], host)
  <2>1. CASE i <= Len(s) BY <1>1, <2>1 DEF NoLine
  <2>2. CASE i > Len(s)
    <3>1. i - Len(s) \in 1 .. Len(t) /\ Len(s) + (i - Len(s)) = i BY <1>1, <2>2
    <3> QED BY <1>1, <3>1 DEF NoLine
  <2> QED BY <2>1, <2>2
<1> QED BY <1>1, <1>2 DEF NoLine, c

LEMMA LinesFirst ==
    ASSUME NEW X, NEW s \in Seq(X), NEW t \in Seq(X), NEW host, NEW L, FirstLine(s, host, L)
    PROVE  FirstLine(s \o t, host, L)
<1>1. PICK i \in 1 .. Len(s) : /\ s[i] = L /\ HostMatches(L, host)
                               /\ \A j \in 1 .. i - 1 : ~HostMatches(s[j], host)
    BY DEF FirstLine
<1>2. Len(s \o t) \in Nat /\ i \in 1 .. Len(s \o t) /\ (s \o t)[i] = L BY <1>1
<1>3. \A j \in 1 .. i - 1 : (s \o t)[j] = s[j] BY <1>1
<1> QED BY <1>1, <1>2, <1>3 DEF FirstLine

LEMMA LinesNext ==
    ASSUME NEW X, NEW s \in Seq(X), NEW t \in Seq(X), NEW host, NEW L,
           NoLine(s, host), FirstLine(t, host, L)
    PROVE  FirstLine(s \o t, host, L)
<1> DEFINE c == s \o t
<1>1. /\ Len(c) \in Nat /\ Len(c) = Len(s) + Len(t)
      /\ \A i \in 1 .. Len(s) : c[i] = s[i]
      /\ \A i \in 1 .. Len(t) : c[Len(s) + i] = t[i]
    OBVIOUS
<1> HIDE DEF c
<1>2. PICK i \in 1 .. Len(t) : /\ t[i] = L /\ HostMatches(L, host)
                               /\ \A j \in 1 .. i - 1 : ~HostMatches(t[j], host)
    BY DEF FirstLine
<1>3. Len(s) + i \in 1 .. Len(c) /\ c[Len(s) + i] = L BY <1>1, <1>2
<1>4. ASSUME NEW j \in 1 .. (Len(s) + i) - 1 PROVE ~HostMatches(c[j], host)
  <2>1. CASE j <= Len(s) BY <1>1, <2>1 DEF NoLine
  <2>2. CASE j > Len(s)
    <3>1. j - Len(s) \in 1 .. i - 1 /\ j - Len(s) \in 1 .. Len(t) /\ Len(s) + (j - Len(s)) = j
        BY <1>1, <2>2
    <3> QED BY <1>1, <1>2, <3>1
  <2> QED BY <2>1, <2>2
<1> QED BY <1>1, <1>2, <1>3, <1>4 DEF FirstLine, c

\* t is what FlattenSeq makes of q, list by list.
Flat(t, q, n) ==
    /\ t = [i \in 1 .. n |-> t[i]]
    /\ \A i \in 1 .. n : t[i] = IF i = 1 THEN q[i] ELSE t[i - 1] \o q[i]

\* There is such a list, and FlattenSeq is the last of its prefixes.
LEMMA FlatExists ==
    ASSUME NEW q, NEW n \in Nat
    PROVE  \E t : Flat(t, q, n)
<1> DEFINE S == {k \in Nat : \E t : Flat(t, q, k)}
<1>1. 0 \in S
  <2> DEFINE t == [i \in 1 .. 0 |-> 0]
  <2>1. Flat(t, q, 0) BY DEF Flat
  <2> QED BY <2>1
<1>2. ASSUME NEW k \in Nat, k \in S PROVE k + 1 \in S
  <2>1. PICK t : Flat(t, q, k) BY <1>2
  <2> DEFINE u == [i \in 1 .. k + 1 |->
                     IF i <= k THEN t[i] ELSE IF i = 1 THEN q[i] ELSE t[k] \o q[i]]
  <2>2. ASSUME NEW i \in 1 .. k + 1
        PROVE  u[i] = IF i = 1 THEN q[i] ELSE u[i - 1] \o q[i]
    <3>1. CASE i <= k
      <4>1. u[i] = t[i] /\ i \in 1 .. k /\ (i # 1 => u[i - 1] = t[i - 1]) BY <3>1
      <4> HIDE DEF u
      <4> QED BY <2>1, <4>1 DEF Flat
    <3>2. CASE i = k + 1
      <4>1. i # 1 => i - 1 \in 1 .. k /\ i - 1 = k BY <3>2
      <4>2. u[i] = (IF i = 1 THEN q[i] ELSE t[k] \o q[i]) /\ (i # 1 => u[i - 1] = t[k])
          BY <3>2, <4>1
      <4> HIDE DEF u
      <4> QED BY <4>2
    <3> QED BY <3>1, <3>2
  <2>3. u = [i \in 1 .. k + 1 |-> u[i]] OBVIOUS
  <2> HIDE DEF u
  <2>4. Flat(u, q, k + 1) BY <2>2, <2>3 DEF Flat
  <2> QED BY <2>4
<1> HIDE DEF S
<1>3. S = Nat
  <2>1. S \subseteq Nat BY DEF S
  <2> QED BY <1>1, <1>2, <2>1, FromZero
<1> QED BY <1>3 DEF S

LEMMA FlattenIs ==
    ASSUME NEW q, Len(q) \in Nat, Len(q) # 0
    PROVE  \E t : Flat(t, q, Len(q)) /\ FlattenSeq(q) = t[Len(q)]
<1> DEFINE N == Len(q)
           F(f) == [i \in 1 .. N |-> IF i = 1 THEN q[i] ELSE f[i - 1] \o q[i]]
           t == CHOOSE f : f = F(f)
<1>1. PICK u : Flat(u, q, N) BY FlatExists
<1>2. u = F(u) BY <1>1 DEF Flat
<1>3. t = F(t) BY <1>2
<1>4. FlattenSeq(q) = t[N] BY DEF FlattenSeq
<1> HIDE DEF t
<1>5. Flat(t, q, N) BY <1>3 DEF Flat
<1> QED BY <1>4, <1>5

\* The first line of all is in the first list that has one.
LEMMA FlattenFinds ==
    ASSUME NEW X, NEW q, Len(q) \in Nat, Len(q) # 0, \A i \in 1 .. Len(q) : q[i] \in Seq(X),
           NEW host
    PROVE  /\ (\A i \in 1 .. Len(q) : NoLine(q[i], host)) => NoLine(FlattenSeq(q), host)
           /\ \A m \in 1 .. Len(q) : \A L :
                 (\A j \in 1 .. m - 1 : NoLine(q[j], host)) /\ FirstLine(q[m], host, L)
                    => FirstLine(FlattenSeq(q), host, L)
<1> DEFINE N == Len(q)
<1>1. PICK t : Flat(t, q, N) /\ FlattenSeq(q) = t[N] BY FlattenIs
<1> DEFINE None1(k) == (\A i \in 1 .. k : NoLine(q[i], host)) => NoLine(t[k], host)
           First1(k) == \A m \in 1 .. k : \A L :
                 (\A j \in 1 .. m - 1 : NoLine(q[j], host)) /\ FirstLine(q[m], host, L)
                    => FirstLine(t[k], host, L)
           S == {k \in Nat : k + 1 <= N => t[k + 1] \in Seq(X) /\ None1(k + 1) /\ First1(k + 1)}
<1>2. 0 \in S
  <2>0. 1 \in 1 .. N OBVIOUS
  <2>1. 1 \in 1 .. N /\ t[1] = q[1]
    <3> HIDE DEF N
    <3> QED BY <1>1, <2>0 DEF Flat
  <2>2. \A i \in 1 .. 0 + 1 : i = 1 OBVIOUS
  <2>3. 0 + 1 = 1 /\ 1 \in 1 .. 0 + 1 OBVIOUS
  <2>4. t[0 + 1] \in Seq(X) BY <2>1, <2>3
  <2>5. None1(0 + 1) BY <2>1, <2>3
  <2>6. First1(0 + 1) BY <2>1, <2>2, <2>3
  <2> HIDE DEF None1, First1
  <2> QED BY <2>4, <2>5, <2>6
<1>3. ASSUME NEW k \in Nat, k \in S PROVE k + 1 \in S
  <2> DEFINE K == k + 1
             J == K + 1
  <2> SUFFICES ASSUME J <= N PROVE t[J] \in Seq(X) /\ None1(J) /\ First1(J) OBVIOUS
  <2>1. t[K] \in Seq(X) /\ None1(K) /\ First1(K) BY <1>3
  <2>2. J \in 1 .. N /\ K \in 1 .. N /\ J # 1 /\ J - 1 = K OBVIOUS
  <2>3. t[J] = t[K] \o q[J] /\ q[J] \in Seq(X) BY <1>1, <2>2 DEF Flat
  <2>4. /\ K \in Nat /\ 1 .. K \subseteq 1 .. J /\ J \in 1 .. J
        /\ \A m \in 1 .. J : m = J \/ m \in 1 .. K
      BY <2>2
  <2>5. 1 .. J - 1 = 1 .. K BY <2>2
  <2> HIDE DEF K, J
  <2>6. t[J] \in Seq(X) BY <2>1, <2>3
  <2>7. None1(J)
    <3> SUFFICES ASSUME \A i \in 1 .. J : NoLine(q[i], host) PROVE NoLine(t[J], host) OBVIOUS
    <3>1. NoLine(t[K], host) /\ NoLine(q[J], host) BY <2>1, <2>4
    <3> QED BY <2>1, <2>3, <3>1, LinesNone
  <2>8. First1(J)
    <3> SUFFICES ASSUME NEW m \in 1 .. J, NEW L, \A j \in 1 .. m - 1 : NoLine(q[j], host),
                        FirstLine(q[m], host, L)
                 PROVE  FirstLine(t[J], host, L)
        OBVIOUS
    <3>1. CASE m \in 1 .. K
      <4>1. FirstLine(t[K], host, L) BY <2>1, <3>1
      <4> QED BY <2>1, <2>3, <4>1, LinesFirst
    <3>2. CASE m = J
      <4>1. NoLine(t[K], host) BY <2>1, <2>5, <3>2
      <4> QED BY <2>1, <2>3, <3>2, <4>1, LinesNext
    <3> QED BY <2>4, <3>1, <3>2
  <2> QED BY <2>6, <2>7, <2>8
<1> HIDE DEF S
<1>4. S = Nat
  <2>1. S \subseteq Nat BY DEF S
  <2> QED BY <1>2, <1>3, <2>1, FromZero
<1>5. None1(N) /\ First1(N)
  <2>1. N - 1 \in S BY <1>4
  <2>2. (N - 1) + 1 = N OBVIOUS
  <2>3. None1((N - 1) + 1) /\ First1((N - 1) + 1)
    <3> HIDE DEF None1, First1
    <3> QED BY <2>1 DEF S
  <2> HIDE DEF None1, First1, N
  <2> QED BY <2>2, <2>3
<1> QED BY <1>1, <1>5

\* The line for a host whose nearest name is n.
ExactLine(src, n) ==
    [match |-> "exact", host |-> n,
     paths |-> PathTable(Routes(Domain(src, FALSE, n),
                                <<FromHost(src, n)>> \o FromParents(src, n)))]
StarLine(src, n, match) ==
    [match |-> match, host |-> n,
     paths |-> PathTable(Routes(Domain(src, TRUE, n), FromParents(src, n)))]
LineFor(src, n, host) ==
    IF Domain(src, FALSE, n) = {} THEN StarLine(src, n, "any")
    ELSE IF host = n THEN ExactLine(src, n) ELSE StarLine(src, n, "below")

Hosts(src) == {e.host : e \in src}
Lines(src) == UNION {{ExactLine(src, n), StarLine(src, n, "any"), StarLine(src, n, "below")}
                        : n \in Hosts(src)}

\* The lines of a name: one of them is for every host that ends with it.
LEMMA LinesOfHost ==
    ASSUME NEW src, IsRouting(src), NEW n \in Hosts(src), NEW host \in Seq(STRING)
    PROVE  /\ HostLines(src, n) \in Seq(Lines(src))
           /\ ~IsSuffix(n, host) => NoLine(HostLines(src, n), host)
           /\ IsSuffix(n, host) => FirstLine(HostLines(src, n), host, LineFor(src, n, host))
<1> DEFINE q == HostLines(src, n)
           x == ExactLine(src, n)
           a == StarLine(src, n, "any")
           b == StarLine(src, n, "below")
<1>1. x \in Lines(src) /\ a \in Lines(src) /\ b \in Lines(src) BY DEF Lines
<1>2. /\ x.match = "exact" /\ x.host = n /\ a.match = "any" /\ a.host = n
      /\ b.match = "below" /\ b.host = n
    BY DEF ExactLine, StarLine
<1>3. n \in Seq(STRING) BY DEF Hosts, IsRouting
<1>4. Domain(src, FALSE, n) # {} => n # <<>> BY DEF Domain, IsRouting
<1>5. q = IF Domain(src, FALSE, n) = {} THEN <<a>> ELSE <<x, b>>
    BY DEF HostLines, ExactLine, StarLine
<1>6. IsSuffix(n, n)
  <2>1. Suffix(n, Len(n)) = n BY <1>3 DEF Suffix
  <2> QED BY <1>3, <2>1, SuffixIs
<1>7. /\ HostMatches(x, host) <=> host = n
      /\ HostMatches(a, host) <=> IsSuffix(n, host)
      /\ HostMatches(b, host) <=> n # <<>> /\ IsSuffix(n, host) /\ n # host
    BY <1>2 DEF HostMatches, IsStrictSuffix
<1> HIDE DEF x, a, b, q
<1>8. CASE Domain(src, FALSE, n) = {}
  <2>1. q = <<a>> BY <1>5, <1>8
  <2>2. q \in Seq(Lines(src)) /\ Len(q) = 1 /\ q[1] = a BY <1>1, <2>1
  <2>3. LineFor(src, n, host) = a BY <1>8 DEF LineFor, a
  <2>4. ~IsSuffix(n, host) => NoLine(q, host) BY <1>7, <2>2 DEF NoLine
  <2>5. IsSuffix(n, host) => FirstLine(q, host, a) BY <1>7, <2>2 DEF FirstLine
  <2> QED BY <2>2, <2>3, <2>4, <2>5 DEF q
<1>9. CASE Domain(src, FALSE, n) # {}
  <2>1. q = <<x, b>> BY <1>5, <1>9
  <2>2. q \in Seq(Lines(src)) /\ Len(q) = 2 /\ q[1] = x /\ q[2] = b BY <1>1, <2>1
  <2>3. LineFor(src, n, host) = IF host = n THEN x ELSE b BY <1>9 DEF LineFor, x, b
  <2>4. ~IsSuffix(n, host) => ~HostMatches(x, host) /\ ~HostMatches(b, host) BY <1>6, <1>7
  <2>5. ~IsSuffix(n, host) => NoLine(q, host) BY <2>2, <2>4 DEF NoLine
  <2>6. ASSUME IsSuffix(n, host), host = n PROVE FirstLine(q, host, x)
    <3>1. HostMatches(x, host) BY <1>7, <2>6
    <3> QED BY <2>2, <3>1 DEF FirstLine
  <2>7. ASSUME IsSuffix(n, host), host # n PROVE FirstLine(q, host, b)
    <3>1. ~HostMatches(x, host) /\ HostMatches(b, host) BY <1>4, <1>7, <1>9, <2>7
    <3>2. 2 \in 1 .. Len(q) /\ \A j \in 1 .. 2 - 1 : j = 1 BY <2>2
    <3> QED BY <2>2, <3>1, <3>2 DEF FirstLine
  <2> QED BY <2>2, <2>3, <2>5, <2>6, <2>7 DEF q
<1> QED BY <1>8, <1>9

\* The line that the table has for a host: that of the longest name.
LEMMA TableFinds ==
    ASSUME NEW src, IsRouting(src), NEW host \in Seq(STRING)
    PROVE  /\ (\A e \in src : ~IsSuffix(e.host, host)) => NoLine(Table(src), host)
           /\ \A n \in Hosts(src) :
                 IsSuffix(n, host)
                 /\ (\A m \in Hosts(src) : IsSuffix(m, host) => Len(m) <= Len(n))
                    => FirstLine(Table(src), host, LineFor(src, n, host))
<1> DEFINE H == Hosts(src)
           length == [h \in H |-> Len(h)]
           s == LongestFirst(H, length)
           q == [i \in 1 .. Len(s) |-> HostLines(src, s[i])]
           X == Lines(src)
           M == {h \in H : IsSuffix(h, host)}
<1>1. H \subseteq Seq(STRING) BY DEF Hosts, IsRouting
<1>2. IsFiniteSet(H)
  <2> DEFINE f == [e \in src |-> e.host]
  <2>1. f \in Surjection(src, H) BY DEF Surjection, Hosts
  <2>2. IsFiniteSet(src) BY DEF IsRouting
  <2> HIDE DEF f, H
  <2> QED BY <2>1, <2>2, FS_Surjection
<1>3. Table(src) = FlattenSeq(q) BY DEF Table, Hosts
<1>4. \A h \in H : length[h] = Len(h) /\ length[h] \in Nat BY <1>1
<1>5. \A h \in H : length[h] \in Nat BY <1>4
<1> HIDE DEF H, length
<1>6. PICK N \in Nat : /\ s \in [1 .. N -> H] /\ Len(s) = N
                       /\ \A x \in H : \E i \in 1 .. N : s[i] = x
                       /\ \A i, j \in 1 .. N : i < j => length[s[i]] >= length[s[j]]
    BY <1>2, <1>5, LongestFirstIs
<1>7. LongestLeads(s, H, M, length) \/ M = {}
  <2>1. M \in SUBSET H OBVIOUS
  <2> HIDE DEF M
  <2> QED BY <1>2, <1>5, <2>1, FirstIsLongest
<1> HIDE DEF s
<1>8. \A i \in 1 .. N : s[i] \in H BY <1>6
<1>9. Len(q) = N /\ \A i \in 1 .. N : q[i] = HostLines(src, s[i])
  <2> DEFINE Y == {HostLines(src, h) : h \in H}
  <2>1. q \in [1 .. N -> Y] BY <1>6, <1>8
  <2>2. Len(q) = N BY <2>1, LenOf
  <2> QED BY <1>6, <2>2
<1> HIDE DEF q
<1>10. ASSUME NEW i \in 1 .. N
       PROVE  /\ q[i] \in Seq(X)
              /\ s[i] \notin M => NoLine(q[i], host)
              /\ s[i] \in M => FirstLine(q[i], host, LineFor(src, s[i], host))
  <2>1. s[i] \in Hosts(src) BY <1>8 DEF H
  <2>2. s[i] \in M <=> IsSuffix(s[i], host) BY <1>8
  <2>3. q[i] = HostLines(src, s[i]) BY <1>9
  <2> QED BY <2>1, <2>2, <2>3, LinesOfHost
<1> HIDE DEF X, M
<1>11. ASSUME N # 0
       PROVE  /\ (\A i \in 1 .. N : NoLine(q[i], host)) => NoLine(FlattenSeq(q), host)
              /\ \A m \in 1 .. N : \A L :
                    (\A j \in 1 .. m - 1 : NoLine(q[j], host)) /\ FirstLine(q[m], host, L)
                       => FirstLine(FlattenSeq(q), host, L)
  <2>1. Len(q) \in Nat /\ Len(q) # 0 /\ \A i \in 1 .. Len(q) : q[i] \in Seq(X) BY <1>9, <1>10, <1>11
  <2>2. /\ (\A i \in 1 .. Len(q) : NoLine(q[i], host)) => NoLine(FlattenSeq(q), host)
        /\ \A m \in 1 .. Len(q) : \A L :
              (\A j \in 1 .. m - 1 : NoLine(q[j], host)) /\ FirstLine(q[m], host, L)
                 => FirstLine(FlattenSeq(q), host, L)
      BY <2>1, FlattenFinds
  <2> QED BY <1>9, <2>2
<1>12. ASSUME \A e \in src : ~IsSuffix(e.host, host) PROVE NoLine(FlattenSeq(q), host)
  <2>1. M = {} BY <1>12 DEF M, H, Hosts
  <2>2. \A i \in 1 .. N : NoLine(q[i], host) BY <1>10, <2>1
  <2>3. CASE N = 0
    <3>1. FlattenSeq(q) = q BY <1>9, <2>3 DEF FlattenSeq
    <3> QED BY <1>9, <2>3, <3>1 DEF NoLine
  <2>4. CASE N # 0 BY <1>11, <2>2, <2>4
  <2> QED BY <2>3, <2>4
<1>13. ASSUME NEW n \in H, IsSuffix(n, host), \A m \in H : IsSuffix(m, host) => Len(m) <= Len(n)
       PROVE  FirstLine(FlattenSeq(q), host, LineFor(src, n, host))
  <2>1. n \in M /\ M \subseteq H BY <1>13 DEF M
  <2>2. PICK k \in 1 .. N : /\ s[k] \in M
                            /\ \A j \in 1 .. k - 1 : s[j] \in H \ M
                            /\ \A x \in M : length[x] <= length[s[k]]
      BY <1>6, <1>7, <2>1 DEF LongestLeads
  <2>3. s[k] = n
    <3>1. s[k] \in H /\ IsSuffix(s[k], host) BY <2>2 DEF M
    <3>2. Len(n) <= Len(s[k]) BY <1>4, <2>1, <2>2, <3>1
    <3>3. Len(s[k]) <= Len(n) BY <1>13, <3>1
    <3>4. n \in Seq(STRING) /\ s[k] \in Seq(STRING) BY <1>1, <3>1 DEF H
    <3>5. Len(n) = Len(s[k]) BY <3>2, <3>3, <3>4
    <3>6. n = Suffix(host, Len(n)) /\ s[k] = Suffix(host, Len(s[k]))
        BY <1>13, <3>1, <3>4, SuffixIs
    <3> QED BY <3>5, <3>6
  <2>4. \A j \in 1 .. k - 1 : NoLine(q[j], host)
    <3> TAKE j \in 1 .. k - 1
    <3>1. j \in 1 .. N /\ s[j] \notin M BY <2>2
    <3> QED BY <1>10, <3>1
  <2>5. FirstLine(q[k], host, LineFor(src, n, host)) BY <1>10, <2>2, <2>3
  <2>6. N # 0 BY <2>2
  <2> QED BY <1>11, <2>4, <2>5, <2>6
<1> QED BY <1>3, <1>12, <1>13 DEF H

\* The entries that decide about a host whose nearest name is n.
Deciding(src, n, host) ==
    IF host = n /\ Domain(src, FALSE, n) # {} THEN Domain(src, FALSE, n) ELSE Domain(src, TRUE, n)

\* In the line of a name the nearest of the deciding entries is found.
LEMMA LineDecides ==
    ASSUME NEW src, IsRouting(src), NEW n \in Seq(STRING), NEW host, NEW path \in Seq(STRING)
    PROVE  \E r : /\ FirstRoute(LineFor(src, n, host).paths, path, r)
                  /\ Chosen(r, Deciding(src, n, host), path, Up(src, n))
<1> DEFINE d == Deciding(src, n, host)
           parents == FromParents(src, n)
           outside == IF host = n /\ Domain(src, FALSE, n) # {} THEN <<FromHost(src, n)>> \o parents
                      ELSE parents
           up == Up(src, n)
<1>1. LineFor(src, n, host).paths = PathTable(Routes(d, outside))
    BY DEF LineFor, Deciding, ExactLine, StarLine
<1>2. IsDomain(d) BY DomainIs DEF Deciding
<1>3. /\ parents \in Seq(Names) /\ <<FromHost(src, n)>> \o parents \in Seq(Names)
      /\ Leads(<<FromHost(src, n)>> \o parents, up)
      /\ FromHost(src, n) = None => Leads(parents, up)
    BY HostsAbove
<1>4. outside \in Seq(Names) BY <1>3
<1>5. ASSUME \A e \in d : e.path = Root => e.authorizer = None PROVE Leads(outside, up)
  <2>1. CASE host = n /\ Domain(src, FALSE, n) # {} BY <1>3, <2>1
  <2>2. CASE ~(host = n /\ Domain(src, FALSE, n) # {})
    <3>1. d = Domain(src, TRUE, n) BY <2>2 DEF Deciding
    <3>2. FromHost(src, n) = AuthorizerAt(d, Root) BY <3>1 DEF FromHost
    <3> HIDE DEF d
    <3>3. AuthorizerAt(d, Root) # None =>
             \E e \in d : e.path = Root /\ e.authorizer = AuthorizerAt(d, Root)
        BY <1>2, AuthorizerIs
    <3>4. FromHost(src, n) = None BY <1>5, <3>2, <3>3
    <3> QED BY <1>3, <2>2, <3>4
  <2> QED BY <2>1, <2>2
<1> HIDE DEF d, outside, up
<1>6. \E r : FirstRoute(PathTable(Routes(d, outside)), path, r) /\ Chosen(r, d, path, up)
    BY <1>2, <1>4, <1>5, RouteInDomain
<1> QED BY <1>1, <1>6 DEF d, up

\* route() in the table of any section agrees with the documentation.
LEMMA NearestDecides ==
    ASSUME NEW src, IsRouting(src), NEW host \in Seq(STRING), NEW path \in Seq(STRING),
           \E e \in src : IsSuffix(e.host, host)
    PROVE  Route(host, path, Table(src)) = Nearest(src, host, path)
<1> DEFINE T == {e.host : e \in {f \in src : IsSuffix(f.host, host)}}
           n == Longest(T, Len)
           d == Deciding(src, n, host)
           here == {e \in d : IsPrefix(e.path, path)}
           inside == {e \in here : e.authorizer # None}
           above == Above(src, n)
           rpath == IF here = {} THEN Root ELSE LongestPath(here).path
           handler == IF here = {} THEN "default" ELSE LongestPath(here).handler
           authorizer == IF inside # {} THEN LongestPath(inside).authorizer
                         ELSE IF above # {} THEN LongestHost(above).authorizer
                         ELSE "default"
<1>1. T # {} OBVIOUS
<1>2. ASSUME NEW m \in T PROVE m \in Hosts(src) /\ m \in Seq(STRING) /\ IsSuffix(m, host)
                               /\ Len(m) \in 0 .. Len(host)
  <2>1. PICK e \in src : m = e.host /\ IsSuffix(e.host, host) OBVIOUS
  <2>2. m \in Hosts(src) /\ m \in Seq(STRING) /\ IsSuffix(m, host) BY <2>1 DEF Hosts, IsRouting
  <2>3. Len(m) <= Len(host) BY <2>2, SuffixIs
  <2> QED BY <2>2, <2>3
<1>3. \A m \in Hosts(src) : IsSuffix(m, host) => m \in T BY DEF Hosts
<1>4. n \in T /\ \A m \in T : Len(m) <= Len(n)
  <2>1. Len(host) \in Nat /\ \A m \in T : Len(m) \in 0 .. Len(host) BY <1>2
  <2> HIDE DEF T
  <2> QED BY <1>1, <2>1, LongestNameIs
<1>5. Nearest(src, host, path)
        = [found |-> TRUE, handler |-> handler, authorizer |-> authorizer,
           suffix |-> SubSeq(path, Len(rpath) + 1, Len(path))]
  <2> DEFINE exact == {e \in src : e.host = n /\ ~e.star}
             star == {e \in src : e.host = n /\ e.star}
  <2>1. exact = Domain(src, FALSE, n) BY DEF Domain, IsRouting
  <2>2. star = Domain(src, TRUE, n) BY DEF Domain, IsRouting
  <2>3. d = IF host = n /\ exact # {} THEN exact ELSE star BY <2>1, <2>2 DEF Deciding
  <2> HIDE DEF exact, star, d
  <2> QED BY <2>3 DEF Nearest, LongestPath, LongestHost, exact, star, Above
<1> HIDE DEF n, T
<1>6. n \in Hosts(src) /\ n \in Seq(STRING) /\ IsSuffix(n, host) BY <1>2, <1>4
<1>7. FirstLine(Table(src), host, LineFor(src, n, host))
  <2>1. \A m \in Hosts(src) : IsSuffix(m, host) => Len(m) <= Len(n) BY <1>3, <1>4
  <2> QED BY <1>6, <2>1, TableFinds
<1>8. PICK r : FirstRoute(LineFor(src, n, host).paths, path, r) /\ Chosen(r, d, path, Up(src, n))
    BY <1>6, LineDecides
<1>9. Route(host, path, Table(src))
        = [found |-> TRUE, handler |-> r.handler, authorizer |-> r.authorizer,
           suffix |-> SubSeq(path, Len(r.path) + 1, Len(path))]
    BY <1>7, <1>8, RouteIs
<1>10. r.path = rpath /\ r.handler = handler
       /\ r.authorizer = IF inside # {} THEN LongestPath(inside).authorizer ELSE Named(Up(src, n))
    BY <1>8 DEF Chosen
<1>11. Named(Up(src, n)) = IF above # {} THEN LongestHost(above).authorizer ELSE "default"
  <2>1. CASE above = {} BY <2>1 DEF Named, Up
  <2>2. CASE above # {}
    <3>1. \A e \in above : Len(e.host) \in 0 .. Len(n)
      <4> TAKE e \in above
      <4>1. e.host \in Seq(STRING) /\ IsSuffix(e.host, n) BY DEF Above, IsRouting
      <4> QED BY <1>6, <4>1, SuffixIs
    <3>2. Len(n) \in Nat BY <1>6
    <3>3. LongestHost(above) \in above
      <4> HIDE DEF above
      <4> QED BY <2>2, <3>1, <3>2, LongestHostIs
    <3>4. LongestHost(above).authorizer # None BY <3>3 DEF Above
    <3> QED BY <2>2, <3>4 DEF Named, Up
  <2> QED BY <2>1, <2>2
<1> HIDE DEF d, here, inside, above
<1>12. r.authorizer = authorizer BY <1>10, <1>11
<1> HIDE DEF authorizer, handler, rpath
<1> QED BY <1>5, <1>9, <1>10, <1>12

\* Every request gets the handler of the nearest entry and the authorizer that
\* the nearest entry above it names, whatever the section `routing` says and
\* whatever is asked for: RoutingTable::_create with its fallbacks and the two
\* lookups of route() are what the documentation of `routing` promises.
THEOREM NearestEntryAlwaysDecides == Spec => []NearestEntryDecides
<1>1. InputsOnly => NearestEntryDecides
  <2> SUFFICES ASSUME InputsOnly, input.kind = "routes", NEW q \in Requests
               PROVE  Route(q[1], q[2], Table(input.src))
                        = IF \E e \in input.src : IsSuffix(e.host, q[1])
                          THEN Nearest(input.src, q[1], q[2]) ELSE NoRoute
    BY DEF NearestEntryDecides
  <2>1. input.src \in Tables BY DEF InputsOnly, Inputs
  <2> DEFINE src == input.src
             host == q[1]
             path == q[2]
  <2>2. IsRouting(src) /\ host \in Seq(STRING) /\ path \in Seq(STRING) BY <2>1, RoutesAssumption
  <2> HIDE DEF src, host, path
  <2>3. CASE \E e \in src : IsSuffix(e.host, host)
    <3>1. Route(host, path, Table(src)) = Nearest(src, host, path) BY <2>2, <2>3, NearestDecides
    <3> QED BY <2>3, <3>1 DEF src, host, path
  <2>4. CASE ~\E e \in src : IsSuffix(e.host, host)
    <3>1. NoLine(Table(src), host) BY <2>2, <2>4, TableFinds
    <3>2. Route(host, path, Table(src)) = NoRoute BY <3>1, RouteIs
    <3> QED BY <2>4, <3>2 DEF src, host, path
  <2> QED BY <2>3, <2>4 DEF src, host
<1> QED BY <1>1, OneInput, PTL
=============================================================================
