--------------------------- MODULE HeapMapProofs ---------------------------
(***************************************************************************)
(* Proofs about HeapMap, for any keys, timestamps and slab indices: the    *)
(* heap stays consistent through every round of its percolations, map and  *)
(* slab match between calls, and HeapMap implements DeadlineMap.           *)
(*                                                                         *)
(* The order of the heap has a hole while an item percolates: an item on   *)
(* its way up may be less than its parent, one on its way down greater     *)
(* than its children.  The hole moves only because the items below it are  *)
(* not less than the item above it; with that, the invariant is inductive. *)
(***************************************************************************)
EXTENDS HeapMap, WellFoundedInduction, TLAPS

Item == [ts : Time, idx : Index]

\* index gives the position of every item, and nothing else.
Exact(h, x) ==
    /\ \A i \in 1 .. Len(h) : h[i].idx \in DOMAIN x /\ x[h[i].idx] = i
    /\ \A y \in DOMAIN x : x[y] \in 1 .. Len(h) /\ h[x[y]].idx = y

\* The order of the heap, but for the item at a that percolates the way w.
Tree(h, w, a) ==
    \A i \in 2 .. Len(h) :
        \/ ~ Less(h[i], h[Parent(i)])
        \/ w = "up" /\ i = a
        \/ w = "down" /\ Parent(i) = a

\* What is below the item that percolates is not less than what is above it.
Hole(h, w, a) ==
    w # "none" =>
        /\ a \in 1 .. Len(h)
        /\ \A i \in 2 .. Len(h) :
               Parent(i) = a /\ a > 1 => ~ Less(h[i], h[Parent(a)])

Heap(h, x, w, a) ==
    /\ h \in Seq(Item)
    /\ w \in {"none", "up", "down"} /\ a \in Nat \ {0}
    /\ Exact(h, x) /\ Tree(h, w, a) /\ Hole(h, w, a)

\* The entries of S have the timestamps they had.
Same(h, x, h2, x2, S) == \A y \in S : h2[x2[y]].ts = h[x[y]].ts

\* The slab has the entries of the keys K of map, and nothing else.
Linked(m, s, K) ==
    /\ K \subseteq DOMAIN m
    /\ DOMAIN s = {m[k] : k \in K}
    /\ \A k \in K : s[m[k]] = k

Names == {"update", "update_if_smaller"}

Calls ==
    {Ready, [part |-> "discard"]}
    \cup [part : {"insert"}, key : Key, idx : Index]
    \cup [part : {"replace"}, key : Key, ts : Time, old_ts : Time, name : Names]
    \cup [part : {"store"}, key : Key, idx : Index, old_ts : Time, name : Names]
    \cup [part : {"pop"}, idx : Index, ts : Time]

\* Where the entries are in every part of a call.
Entries(c, m, s, h, x) ==
    /\ DOMAIN m \subseteq Key
    /\ c.part \in {"ready", "discard"} =>
          Linked(m, s, DOMAIN m) /\ DOMAIN x = DOMAIN s
    /\ c.part = "insert" =>
          /\ Linked(m, s, DOMAIN m)
          /\ c.idx \notin DOMAIN s /\ DOMAIN x = DOMAIN s \cup {c.idx}
    /\ c.part = "replace" =>
          /\ c.key \in DOMAIN m /\ Linked(m, s, DOMAIN m \ {c.key})
          /\ DOMAIN x = DOMAIN s
    /\ c.part = "store" =>
          /\ c.key \in DOMAIN m /\ Linked(m, s, DOMAIN m \ {c.key})
          /\ c.idx \notin DOMAIN s /\ DOMAIN x = DOMAIN s \cup {c.idx}
          /\ \E ts \in Time : h[x[c.idx]].ts = Later(ts, c.old_ts, c.name)
    /\ c.part = "pop" =>
          /\ Linked(m, s, DOMAIN m)
          /\ c.idx \in DOMAIN s /\ DOMAIN x = DOMAIN s \ {c.idx}
          /\ \A y \in DOMAIN x : c.ts <= h[x[y]].ts

\* The inductive invariant.
Inv ==
    /\ Heap(items, index, way, at)
    /\ call \in Calls
    /\ call = Ready => way = "none"
    /\ Entries(call, map, slab, items, index)

---------------------------------------------------------------------------
(***************************************************************************)
(* Numbers, items and positions.                                           *)
(***************************************************************************)

\* A set of numbers has a least element.
LEMMA Least ==
    ASSUME NEW T \in SUBSET Nat, T # {}
    PROVE  \E x \in T : \A y \in T : x <= y
<1> DEFINE R == OpToRel(<, Nat)
<1>1. IsWellFoundedOn(R, Nat)
  BY NatLessThanWellFounded
<1>2. R = {p \in Nat \X Nat : p[1] < p[2]}
  BY DEF OpToRel
<1> HIDE DEF R
<1>3. PICK x \in T : \A y \in T : ~ (<<y, x>> \in R)
  BY <1>1, WFMin
<1>4. ASSUME NEW y \in T PROVE x <= y
  <2>1. <<y, x>> \in Nat \X Nat
    OBVIOUS
  <2> QED BY <1>2, <1>3, <2>1
<1> QED BY <1>4

\* Parents and children of positions.
LEMMA ParentFacts ==
    ASSUME NEW i \in Nat \ {0, 1}
    PROVE  /\ Parent(i) \in Nat \ {0} /\ Parent(i) < i
           /\ \A j \in Nat : Parent(i) = j => i = 2 * j \/ i = 2 * j + 1
BY DEF Parent

LEMMA ChildFacts ==
    ASSUME NEW j \in Nat \ {0}
    PROVE  Parent(2 * j) = j /\ Parent(2 * j + 1) = j
BY DEF Parent

LEMMA ItemType ==
    ASSUME NEW a \in Item
    PROVE  a.ts \in Time /\ a.ts \in Int /\ a.idx \in Index /\ a.idx \in Nat
<1>1. a.ts \in Time /\ a.idx \in Index
  BY DEF Item
<1> QED BY <1>1, HeapAssumption

\* Less is a total order of items.
LEMMA LessOrder ==
    ASSUME NEW a \in Item, NEW b \in Item, NEW c \in Item
    PROVE  /\ ~ Less(a, a)
           /\ Less(a, b) => ~ Less(b, a)
           /\ ~ Less(a, b) /\ ~ Less(b, c) => ~ Less(a, c)
           /\ ~ Less(a, b) => b.ts <= a.ts
<1>1. /\ a.ts \in Int /\ b.ts \in Int /\ c.ts \in Int
      /\ a.idx \in Int /\ b.idx \in Int /\ c.idx \in Int
  BY ItemType
<1> QED BY <1>1 DEF Less

LEMMA ItemAt ==
    ASSUME NEW h \in Seq(Item), NEW i \in 1 .. Len(h)
    PROVE  h[i] \in Item /\ h[i].ts \in Int /\ h[i].ts \in Time /\ h[i].idx \in Index
<1>1. h[i] \in Item
  OBVIOUS
<1> QED BY <1>1, ItemType

\* In an ordered heap the root is a least item.
LEMMA RootLeast ==
    ASSUME NEW h \in Seq(Item), Tree(h, "none", 1), NEW j \in 1 .. Len(h)
    PROVE  h[1].ts <= h[j].ts
<1> DEFINE T == {i \in 1 .. Len(h) : Less(h[i], h[1])}
<1>1. T = {}
  <2> SUFFICES ASSUME T # {} PROVE FALSE
    OBVIOUS
  <2>1. T \in SUBSET Nat
    OBVIOUS
  <2>2. PICK i \in T : \A y \in T : i <= y
    <3> HIDE DEF T
    <3> QED BY <2>1, Least
  <2>3. i \in 1 .. Len(h) /\ 1 \in 1 .. Len(h) /\ Less(h[i], h[1])
    OBVIOUS
  <2>4. i # 1
    BY <2>3, ItemAt, LessOrder
  <2>5. Parent(i) \in 1 .. Len(h) /\ Parent(i) < i
    BY <2>3, <2>4, ParentFacts
  <2>6. ~ Less(h[i], h[Parent(i)])
    BY <2>3, <2>4 DEF Tree
  <2>7. ~ Less(h[Parent(i)], h[1])
    BY <2>2, <2>5
  <2>8. h[i] \in Item /\ h[1] \in Item /\ h[Parent(i)] \in Item
    BY <2>3, <2>5, ItemAt
  <2> QED BY <2>3, <2>6, <2>7, <2>8, LessOrder
<1>2. ~ Less(h[j], h[1])
  BY <1>1
<1>3. h[j] \in Item /\ h[1] \in Item
  BY ItemAt
<1> QED BY <1>2, <1>3, LessOrder

---------------------------------------------------------------------------
(***************************************************************************)
(* One round of a percolation.                                             *)
(***************************************************************************)

\* The items at i and j have changed places, and index follows.
Exchanged(h, x, h2, x2, i, j) ==
    /\ h2 = [h EXCEPT ![i] = h[j], ![j] = h[i]]
    /\ x2 = [x EXCEPT ![h[j].idx] = i, ![h[i].idx] = j]

Exchange(h, x, h2, x2, i, j) ==
    /\ h2 \in Seq(Item) /\ Len(h2) = Len(h)
    /\ h2[i] = h[j] /\ h2[j] = h[i]
    /\ \A n \in 1 .. Len(h) : n # i /\ n # j => h2[n] = h[n]
    /\ DOMAIN x2 = DOMAIN x /\ Exact(h2, x2)
    /\ Same(h, x, h2, x2, DOMAIN x)

\* A swap keeps the items, their timestamps and the exactness of index.
LEMMA Swapped ==
    ASSUME NEW h \in Seq(Item), NEW x, Exact(h, x),
           NEW i \in 1 .. Len(h), NEW j \in 1 .. Len(h), i # j,
           NEW h2, NEW x2, Exchanged(h, x, h2, x2, i, j)
    PROVE  Exchange(h, x, h2, x2, i, j)
<1>0. /\ h2 = [h EXCEPT ![i] = h[j], ![j] = h[i]]
      /\ x2 = [x EXCEPT ![h[j].idx] = i, ![h[i].idx] = j]
  BY DEF Exchanged
<1>1. h2 \in Seq(Item) /\ Len(h2) = Len(h)
  BY <1>0, ItemAt
<1>2. h2[i] = h[j] /\ h2[j] = h[i]
  BY <1>0
<1>3. ASSUME NEW n \in 1 .. Len(h), n # i, n # j PROVE h2[n] = h[n]
  BY <1>0, <1>3
<1>4. /\ h[i].idx \in DOMAIN x /\ h[j].idx \in DOMAIN x
      /\ x[h[i].idx] = i /\ x[h[j].idx] = j /\ h[i].idx # h[j].idx
  BY DEF Exact
<1>5. DOMAIN x2 = DOMAIN x
  BY <1>0
<1>6. x2[h[j].idx] = i /\ x2[h[i].idx] = j
  BY <1>0, <1>4
<1>7. ASSUME NEW y \in DOMAIN x, y # h[i].idx, y # h[j].idx PROVE x2[y] = x[y]
  BY <1>0, <1>7
<1>8. ASSUME NEW n \in 1 .. Len(h), n # i, n # j
      PROVE  h[n].idx \in DOMAIN x /\ h[n].idx # h[i].idx /\ h[n].idx # h[j].idx
  BY <1>8, <1>4 DEF Exact
<1>9. ASSUME NEW y \in DOMAIN x PROVE x2[y] \in 1 .. Len(h) /\ h2[x2[y]].idx = y
  <2>1. CASE y = h[i].idx BY <2>1, <1>2, <1>6
  <2>2. CASE y = h[j].idx BY <2>2, <1>2, <1>6
  <2>3. CASE y # h[i].idx /\ y # h[j].idx
    <3>1. x2[y] = x[y] /\ x[y] \in 1 .. Len(h) /\ h[x[y]].idx = y
      BY <2>3, <1>7 DEF Exact
    <3>2. x[y] # i /\ x[y] # j
      BY <2>3, <3>1
    <3> QED BY <1>3, <3>1, <3>2
  <2> QED BY <2>1, <2>2, <2>3
<1>10. ASSUME NEW n \in 1 .. Len(h) PROVE h2[n].idx \in DOMAIN x /\ x2[h2[n].idx] = n
  <2>1. CASE n = i BY <2>1, <1>2, <1>4, <1>6
  <2>2. CASE n = j BY <2>2, <1>2, <1>4, <1>6
  <2>3. CASE n # i /\ n # j
    <3>1. x2[h[n].idx] = x[h[n].idx]
      BY <2>3, <1>7, <1>8
    <3> QED BY <2>3, <3>1, <1>3 DEF Exact
  <2> QED BY <2>1, <2>2, <2>3
<1>11. Exact(h2, x2)
  BY <1>1, <1>5, <1>9, <1>10 DEF Exact
<1>12. Same(h, x, h2, x2, DOMAIN x)
  <2> SUFFICES ASSUME NEW y \in DOMAIN x PROVE h2[x2[y]].ts = h[x[y]].ts
    BY DEF Same
  <2>1. PICK n \in 1 .. Len(h) : y = h[n].idx /\ x[y] = n
    BY DEF Exact
  <2>2. CASE n = i BY <2>1, <2>2, <1>2, <1>6
  <2>3. CASE n = j BY <2>1, <2>3, <1>2, <1>6
  <2>4. CASE n # i /\ n # j
    <3>1. x2[y] = n
      BY <2>1, <2>4, <1>7, <1>8
    <3> QED BY <2>1, <2>4, <3>1, <1>3
  <2> QED BY <2>2, <2>3, <2>4
<1> QED BY <1>1, <1>2, <1>3, <1>5, <1>11, <1>12 DEF Exchange

\* A round of percolate_up: the hole moves to the parent.
LEMMA RoundUp ==
    ASSUME NEW h, NEW x, NEW a, Heap(h, x, "up", a),
           a > 1, Less(h[a], h[Parent(a)]),
           NEW h2, NEW x2, Exchanged(h, x, h2, x2, a, Parent(a))
    PROVE  /\ Heap(h2, x2, "up", Parent(a))
           /\ DOMAIN x2 = DOMAIN x /\ Same(h, x, h2, x2, DOMAIN x)
<1> DEFINE p == Parent(a)
<1>1. h \in Seq(Item) /\ a \in 1 .. Len(h) /\ Exact(h, x)
  BY DEF Heap, Hole
<1>2. p \in 1 .. Len(h) /\ p < a
  BY <1>1, ParentFacts
<1> HIDE DEF p
<1>3. /\ h2 \in Seq(Item) /\ Len(h2) = Len(h)
      /\ h2[a] = h[p] /\ h2[p] = h[a]
      /\ \A n \in 1 .. Len(h) : n # a /\ n # p => h2[n] = h[n]
      /\ DOMAIN x2 = DOMAIN x /\ Exact(h2, x2)
      /\ Same(h, x, h2, x2, DOMAIN x)
  <2>1. Exchanged(h, x, h2, x2, a, p) /\ a # p
    BY <1>1, <1>2 DEF p
  <2>2. Exchange(h, x, h2, x2, a, p)
    BY <1>1, <1>2, <2>1, Swapped
  <2> QED BY <2>2 DEF Exchange
<1>4. ASSUME NEW i \in 2 .. Len(h), i # a PROVE ~ Less(h[i], h[Parent(i)])
  BY <1>4 DEF Heap, Tree
<1>5. ASSUME NEW i \in 2 .. Len(h), Parent(i) = a PROVE ~ Less(h[i], h[p])
  BY <1>1, <1>5 DEF Heap, Hole, p
<1>6. ASSUME NEW i \in 1 .. Len(h) PROVE h[i] \in Item
  BY <1>1, ItemAt
<1>7. ASSUME NEW i \in 2 .. Len(h), i # p PROVE ~ Less(h2[i], h2[Parent(i)])
  <2>1. Parent(i) \in 1 .. Len(h) /\ Parent(i) < i
    BY ParentFacts, <1>1
  <2>2. CASE i = a
    <3>1. Less(h[a], h[p])
      BY DEF p
    <3>2. ~ Less(h[p], h[a])
      BY <3>1, <1>1, <1>2, <1>6, LessOrder
    <3>3. h2[i] = h[p] /\ h2[Parent(i)] = h[a]
      BY <2>2, <1>3 DEF p
    <3> QED BY <3>2, <3>3
  <2>3. CASE i # a /\ Parent(i) = a
    <3>1. h2[i] = h[i] /\ h2[Parent(i)] = h[p]
      BY <2>3, <1>3, <1>7
    <3> QED BY <3>1, <2>3, <1>5
  <2>4. CASE i # a /\ Parent(i) = p
    <3>1. h2[i] = h[i] /\ h2[Parent(i)] = h[a]
      BY <2>4, <1>3, <1>7
    <3>2. ~ Less(h[i], h[p])
      BY <2>4, <1>4
    <3>3. Less(h[a], h[p])
      BY DEF p
    <3>4. ~ Less(h[p], h[a])
      BY <3>3, <1>1, <1>2, <1>6, LessOrder
    <3> QED BY <3>1, <3>2, <3>4, <1>1, <1>2, <1>6, LessOrder
  <2>5. CASE i # a /\ Parent(i) # a /\ Parent(i) # p
    <3>1. h2[i] = h[i] /\ h2[Parent(i)] = h[Parent(i)]
      BY <2>1, <2>5, <1>3, <1>7
    <3> QED BY <3>1, <2>5, <1>4
  <2> QED BY <2>2, <2>3, <2>4, <2>5
<1>8. ASSUME NEW i \in 2 .. Len(h), Parent(i) = p, p > 1
      PROVE  ~ Less(h2[i], h2[Parent(p)])
  <2>1. Parent(p) \in 1 .. Len(h) /\ Parent(p) < p
    BY <1>2, <1>8, ParentFacts
  <2>2. h2[Parent(p)] = h[Parent(p)] /\ ~ Less(h[p], h[Parent(p)])
    BY <2>1, <1>2, <1>3, <1>4, <1>8
  <2>3. CASE i = a
    BY <2>2, <2>3, <1>3
  <2>4. CASE i # a
    <3>1. i # p
      BY <1>8, ParentFacts
    <3>2. h2[i] = h[i] /\ ~ Less(h[i], h[p])
      BY <2>4, <3>1, <1>3, <1>4, <1>8
    <3> QED BY <2>1, <2>2, <3>2, <1>2, <1>6, LessOrder
  <2> QED BY <2>3, <2>4
<1>9. Tree(h2, "up", p)
  BY <1>3, <1>7 DEF Tree
<1>10. Hole(h2, "up", p)
  BY <1>2, <1>3, <1>8 DEF Hole
<1> QED BY <1>2, <1>3, <1>9, <1>10 DEF Heap, p

\* A round of percolate_down: the hole moves to the smaller child.
LEMMA RoundDown ==
    ASSUME NEW h, NEW x, NEW a, Heap(h, x, "down", a),
           NEW c \in 2 .. Len(h), Parent(c) = a, Less(h[c], h[a]),
           \A i \in 2 .. Len(h) : Parent(i) = a => ~ Less(h[i], h[c]),
           NEW h2, NEW x2, Exchanged(h, x, h2, x2, a, c)
    PROVE  /\ Heap(h2, x2, "down", c)
           /\ DOMAIN x2 = DOMAIN x /\ Same(h, x, h2, x2, DOMAIN x)
<1>1. h \in Seq(Item) /\ a \in 1 .. Len(h) /\ Exact(h, x)
  BY DEF Heap, Hole
<1>2. c \in 1 .. Len(h) /\ a < c
  BY <1>1, ParentFacts
<1>3. /\ h2 \in Seq(Item) /\ Len(h2) = Len(h)
      /\ h2[a] = h[c] /\ h2[c] = h[a]
      /\ \A n \in 1 .. Len(h) : n # a /\ n # c => h2[n] = h[n]
      /\ DOMAIN x2 = DOMAIN x /\ Exact(h2, x2)
      /\ Same(h, x, h2, x2, DOMAIN x)
  <2>1. a # c
    BY <1>1, <1>2
  <2>2. Exchange(h, x, h2, x2, a, c)
    BY <1>1, <1>2, <2>1, Swapped
  <2> QED BY <2>2 DEF Exchange
<1>4. ASSUME NEW i \in 2 .. Len(h), Parent(i) # a PROVE ~ Less(h[i], h[Parent(i)])
  BY <1>4 DEF Heap, Tree
<1>5. a > 1 => ~ Less(h[c], h[Parent(a)])
  BY <1>1 DEF Heap, Hole
<1>6. ASSUME NEW i \in 1 .. Len(h) PROVE h[i] \in Item
  BY <1>1, ItemAt
<1>7. ASSUME NEW i \in 2 .. Len(h), Parent(i) # c PROVE ~ Less(h2[i], h2[Parent(i)])
  <2>1. Parent(i) \in 1 .. Len(h) /\ Parent(i) < i
    BY ParentFacts, <1>1
  <2>2. CASE i = a
    <3>1. Parent(i) # a /\ Parent(i) # c
      BY <2>1, <2>2, <1>7
    <3>2. h2[i] = h[c] /\ h2[Parent(i)] = h[Parent(a)]
      BY <2>1, <2>2, <3>1, <1>3
    <3> QED BY <2>2, <3>2, <1>5
  <2>3. CASE i = c
    <3>1. h2[i] = h[a] /\ h2[Parent(i)] = h[c]
      BY <2>3, <1>3
    <3> QED BY <3>1, <1>1, <1>2, <1>6, LessOrder
  <2>4. CASE i # c /\ i # a /\ Parent(i) = a
    <3>1. h2[i] = h[i] /\ h2[Parent(i)] = h[c]
      BY <2>4, <1>3, <1>7
    <3> QED BY <3>1, <2>4
  <2>5. CASE i # c /\ i # a /\ Parent(i) # a
    <3>1. h2[i] = h[i] /\ h2[Parent(i)] = h[Parent(i)]
      BY <2>1, <2>5, <1>3, <1>7
    <3> QED BY <3>1, <2>5, <1>4
  <2> QED BY <2>2, <2>3, <2>4, <2>5
<1>8. ASSUME NEW i \in 2 .. Len(h), Parent(i) = c
      PROVE  ~ Less(h2[i], h2[Parent(c)])
  <2>1. i # c /\ i # a
    BY <1>1, <1>2, <1>8, ParentFacts
  <2>2. h2[i] = h[i] /\ h2[Parent(c)] = h[c]
    BY <2>1, <1>3
  <2>3. ~ Less(h[i], h[Parent(i)])
    BY <1>2, <1>4, <1>8
  <2> QED BY <2>2, <2>3, <1>8
<1>9. Tree(h2, "down", c)
  BY <1>3, <1>7 DEF Tree
<1>10. Hole(h2, "down", c)
  BY <1>2, <1>3, <1>8 DEF Hole
<1> QED BY <1>2, <1>3, <1>9, <1>10 DEF Heap

\* The loop that ends closes the hole.
LEMMA Closed ==
    ASSUME NEW h, NEW x, NEW w, NEW a, Heap(h, x, w, a),
           w = "up" => a = 1 \/ ~ Less(h[a], h[Parent(a)]),
           w = "down" => \A i \in 2 .. Len(h) : Parent(i) = a => ~ Less(h[i], h[a])
    PROVE  Heap(h, x, "none", 1)
<1>1. ASSUME NEW i \in 2 .. Len(h) PROVE ~ Less(h[i], h[Parent(i)])
  <2>1. CASE w = "up" /\ i = a
    BY <2>1
  <2>2. CASE w = "down" /\ Parent(i) = a
    BY <2>2
  <2>3. CASE ~ (w = "up" /\ i = a) /\ ~ (w = "down" /\ Parent(i) = a)
    BY <2>3 DEF Heap, Tree
  <2> QED BY <2>1, <2>2, <2>3
<1>2. Tree(h, "none", 1)
  BY <1>1 DEF Tree
<1>3. Hole(h, "none", 1)
  BY DEF Hole
<1> QED BY <1>2, <1>3 DEF Heap

---------------------------------------------------------------------------
(***************************************************************************)
(* push() and remove(), up to their percolations.                          *)
(***************************************************************************)

Added(h, x, h2, x2, t) == h2 = Append(h, t) /\ x2 = Put(x, t.idx, Len(h) + 1)

Grown(h, x, h2, x2, t) ==
    /\ Heap(h2, x2, "up", Len(h) + 1)
    /\ DOMAIN x2 = DOMAIN x \cup {t.idx}
    /\ Same(h, x, h2, x2, DOMAIN x)
    /\ h2[x2[t.idx]].ts = t.ts

\* An item is at the end, and has yet to rise.
LEMMA Pushed ==
    ASSUME NEW h, NEW x, Heap(h, x, "none", 1),
           NEW t \in Item, t.idx \notin DOMAIN x,
           NEW h2, NEW x2, Added(h, x, h2, x2, t)
    PROVE  Grown(h, x, h2, x2, t)
<1> DEFINE n == Len(h) + 1
<1>1. h \in Seq(Item) /\ Exact(h, x) /\ Tree(h, "none", 1) /\ Len(h) \in Nat
  BY DEF Heap
<1>2. h2 \in Seq(Item) /\ Len(h2) = n /\ n \in Nat \ {0}
  BY <1>1 DEF Added
<1>3. h2[n] = t /\ \A j \in 1 .. Len(h) : h2[j] = h[j]
  BY <1>1 DEF Added
<1>4. /\ DOMAIN x2 = DOMAIN x \cup {t.idx} /\ x2[t.idx] = n
      /\ \A y \in DOMAIN x : x2[y] = x[y]
  BY DEF Added, Put
<1>5. Exact(h2, x2)
  <2>1. ASSUME NEW j \in 1 .. n PROVE h2[j].idx \in DOMAIN x2 /\ x2[h2[j].idx] = j
    <3>1. CASE j = n
      BY <3>1, <1>3, <1>4
    <3>2. CASE j # n
      <4>1. j \in 1 .. Len(h)
        BY <1>1, <3>2
      <4>2. h2[j] = h[j] /\ h[j].idx \in DOMAIN x /\ x[h[j].idx] = j
        BY <4>1, <1>1, <1>3 DEF Exact
      <4> QED BY <4>2, <1>4
    <3> QED BY <3>1, <3>2
  <2>2. ASSUME NEW y \in DOMAIN x2 PROVE x2[y] \in 1 .. n /\ h2[x2[y]].idx = y
    <3>1. CASE y = t.idx
      BY <3>1, <1>2, <1>3, <1>4
    <3>2. CASE y # t.idx
      <4>1. y \in DOMAIN x /\ x2[y] = x[y]
        BY <3>2, <1>4
      <4>2. x[y] \in 1 .. Len(h) /\ h[x[y]].idx = y
        BY <4>1, <1>1 DEF Exact
      <4> QED BY <4>1, <4>2, <1>1, <1>3
    <3> QED BY <3>1, <3>2
  <2> QED BY <1>2, <2>1, <2>2 DEF Exact
<1>6. ASSUME NEW j \in 2 .. n, j # n PROVE ~ Less(h2[j], h2[Parent(j)])
  <2>1. j \in 2 .. Len(h)
    BY <1>1, <1>6
  <2>2. Parent(j) \in 1 .. Len(h)
    BY <2>1, <1>1, ParentFacts
  <2>3. h2[j] = h[j] /\ h2[Parent(j)] = h[Parent(j)]
    BY <2>1, <2>2, <1>3
  <2> QED BY <2>1, <2>3, <1>1 DEF Tree
<1>7. Tree(h2, "up", n)
  BY <1>2, <1>6 DEF Tree
<1>8. ASSUME NEW j \in 2 .. n PROVE Parent(j) # n
  BY <1>1, ParentFacts
<1>9. Hole(h2, "up", n)
  BY <1>1, <1>2, <1>8 DEF Hole
<1>10. Same(h, x, h2, x2, DOMAIN x)
  <2>1. ASSUME NEW y \in DOMAIN x PROVE h2[x2[y]].ts = h[x[y]].ts
    <3>1. x2[y] = x[y] /\ x[y] \in 1 .. Len(h)
      BY <1>1, <1>4 DEF Exact
    <3> QED BY <3>1, <1>3
  <2> QED BY <2>1 DEF Same
<1> QED BY <1>2, <1>3, <1>4, <1>5, <1>7, <1>9, <1>10 DEF Heap, Grown

\* The item of y has been taken out, and the last one is in its place.
Taken(h, x, h2, x2, w2, y) ==
    /\ h2 = [j \in 1 .. Len(h) - 1 |-> IF j = x[y] THEN h[Len(h)] ELSE h[j]]
    /\ x2 = [z \in DOMAIN x \ {y} |-> IF z = h[Len(h)].idx THEN x[y] ELSE x[z]]
    /\ w2 = IF x[y] < Len(h) THEN Settle(h[Len(h)], h[x[y]]) ELSE "none"

\* An item that takes the place of a removed one leaves a hole on one side of
\* it only.
LEMMA TakenOut ==
    ASSUME NEW h, NEW x, Heap(h, x, "none", 1),
           NEW y \in DOMAIN x, NEW h2, NEW x2, NEW w2, Taken(h, x, h2, x2, w2, y)
    PROVE  /\ Heap(h2, x2, w2, x[y])
           /\ DOMAIN x2 = DOMAIN x \ {y}
           /\ Same(h, x, h2, x2, DOMAIN x \ {y})
<1> DEFINE i == x[y]
           n == Len(h)
<1>1. h \in Seq(Item) /\ Exact(h, x) /\ Tree(h, "none", 1) /\ n \in Nat
  BY DEF Heap
<1>2. i \in 1 .. n /\ h[i].idx = y /\ n \in 1 .. n /\ i <= n /\ i >= 1
  BY <1>1 DEF Exact
<1>3. /\ h2 = [j \in 1 .. n - 1 |-> IF j = i THEN h[n] ELSE h[j]]
      /\ x2 = [z \in DOMAIN x \ {y} |-> IF z = h[n].idx THEN i ELSE x[z]]
      /\ w2 = IF i < n THEN Settle(h[n], h[i]) ELSE "none"
  BY DEF Taken
<1>4. /\ \A j \in 1 .. n : h[j] \in Item /\ h[j].idx \in DOMAIN x /\ x[h[j].idx] = j
      /\ \A z \in DOMAIN x : x[z] \in 1 .. n /\ h[x[z]].idx = z
  BY <1>1, ItemAt DEF Exact
<1> HIDE DEF i, n
<1>5. h2 \in Seq(Item) /\ Len(h2) = n - 1
  <2>1. \A j \in 1 .. n - 1 : h2[j] \in Item
    BY <1>1, <1>2, <1>3, <1>4
  <2> QED BY <1>1, <1>2, <1>3, <2>1
<1>6. /\ \A j \in 1 .. n - 1 : j # i => h2[j] = h[j]
      /\ i < n => h2[i] = h[n]
  BY <1>1, <1>2, <1>3
<1>7. DOMAIN x2 = DOMAIN x \ {y}
  BY <1>3
<1>8. ASSUME NEW z \in DOMAIN x \ {y}
      PROVE  /\ x2[z] \in 1 .. n - 1
             /\ h2[x2[z]] = h[x[z]]
  <2>1. x[z] \in 1 .. n /\ h[x[z]].idx = z /\ x[z] # i
    BY <1>2, <1>4
  <2>2. CASE z = h[n].idx
    <3>1. x[z] = n /\ i < n /\ x2[z] = i
      BY <2>1, <2>2, <1>1, <1>2, <1>3, <1>4
    <3> QED BY <3>1, <1>1, <1>2, <1>6
  <2>3. CASE z # h[n].idx
    <3>1. x[z] # n /\ x2[z] = x[z]
      BY <2>1, <2>3, <1>3
    <3> QED BY <2>1, <3>1, <1>1, <1>6
  <2> QED BY <2>2, <2>3
<1>9. Same(h, x, h2, x2, DOMAIN x \ {y})
  BY <1>8 DEF Same
<1>10. Exact(h2, x2)
  <2>1. ASSUME NEW j \in 1 .. n - 1 PROVE h2[j].idx \in DOMAIN x2 /\ x2[h2[j].idx] = j
    <3>1. CASE j = i
      <4>1. h2[j] = h[n] /\ h[n].idx \in DOMAIN x /\ x[h[n].idx] = n /\ i # n
        BY <3>1, <1>1, <1>2, <1>4, <1>6
      <4>2. h[n].idx # y
        BY <4>1, <1>2, <1>4
      <4> QED BY <3>1, <4>1, <4>2, <1>3
    <3>2. CASE j # i
      <4>1. h2[j] = h[j] /\ h[j].idx \in DOMAIN x /\ x[h[j].idx] = j /\ j # n
        BY <3>2, <1>1, <1>4, <1>6
      <4>2. h[j].idx # y /\ h[j].idx # h[n].idx
        BY <3>2, <4>1, <1>2, <1>4
      <4> QED BY <4>1, <4>2, <1>3
    <3> QED BY <3>1, <3>2
  <2>2. ASSUME NEW z \in DOMAIN x2 PROVE x2[z] \in 1 .. n - 1 /\ h2[x2[z]].idx = z
    BY <1>4, <1>7, <1>8
  <2> QED BY <1>5, <2>1, <2>2 DEF Exact
<1>11. ASSUME NEW j \in 2 .. n PROVE ~ Less(h[j], h[Parent(j)]) /\ Parent(j) \in 1 .. n /\ Parent(j) < j
  <2>1. ~ Less(h[j], h[Parent(j)])
    BY <1>1 DEF Tree, n
  <2> QED BY <2>1, <1>1, ParentFacts
<1>12. ASSUME NEW j \in 2 .. n - 1, j # i, Parent(j) # i
       PROVE  ~ Less(h2[j], h2[Parent(j)])
  <2>1. j \in 2 .. n /\ Parent(j) \in 1 .. n - 1
    BY <1>1, <1>11
  <2>2. h2[j] = h[j] /\ h2[Parent(j)] = h[Parent(j)]
    BY <2>1, <1>1, <1>6, <1>12
  <2> QED BY <2>1, <2>2, <1>11
<1>13. CASE i = n
  <2>1. w2 = "none"
    BY <1>1, <1>3, <1>13
  <2>2. ASSUME NEW j \in 2 .. n - 1 PROVE j # i /\ Parent(j) # i
    BY <1>1, <1>11, <1>13
  <2>3. Tree(h2, w2, i)
    BY <2>2, <1>5, <1>12 DEF Tree
  <2>4. Hole(h2, w2, i)
    BY <2>1 DEF Hole
  <2> QED BY <2>1, <2>3, <2>4, <1>2, <1>5, <1>7, <1>9, <1>10 DEF Heap, i
<1>14. CASE i # n
  <2>1. i \in 1 .. n - 1 /\ i < n /\ h2[i] = h[n] /\ w2 = Settle(h[n], h[i])
    BY <1>1, <1>2, <1>3, <1>6, <1>14
  <2>2. h[i] \in Item /\ h[n] \in Item
    BY <1>2, <1>4
  <2>3. ASSUME NEW j \in 2 .. n - 1, Parent(j) = i
        PROVE  h2[j] = h[j] /\ ~ Less(h[j], h[i]) /\ h[j] \in Item
    <3>1. j \in 2 .. n /\ j \in 1 .. n /\ j # i
      BY <1>1, <1>11, <2>3
    <3> QED BY <3>1, <1>4, <1>6, <1>11, <2>3
  <2>4. ASSUME i > 1
        PROVE  /\ Parent(i) \in 1 .. n - 1 /\ h2[Parent(i)] = h[Parent(i)]
               /\ ~ Less(h[i], h[Parent(i)]) /\ h[Parent(i)] \in Item
    <3>1. i \in 2 .. n
      BY <1>1, <2>1, <2>4
    <3>2. Parent(i) \in 1 .. n /\ Parent(i) < i /\ ~ Less(h[i], h[Parent(i)])
      BY <3>1, <1>11
    <3>3. Parent(i) \in 1 .. n - 1 /\ Parent(i) # i
      BY <3>2, <1>1, <2>1
    <3> QED BY <3>2, <3>3, <1>4, <1>6
  <2>5. Hole(h2, w2, i)
    <3>1. ASSUME NEW j \in 2 .. n - 1, Parent(j) = i, i > 1
          PROVE  ~ Less(h2[j], h2[Parent(i)])
      BY <2>2, <2>3, <2>4, <3>1, LessOrder
    <3> QED BY <2>1, <3>1, <1>5 DEF Hole
  <2>6. CASE Less(h[n], h[i])
    <3>1. w2 = "up"
      BY <2>1, <2>6 DEF Settle
    <3>2. ASSUME NEW j \in 2 .. n - 1, j # i PROVE ~ Less(h2[j], h2[Parent(j)])
      <4>1. CASE Parent(j) = i
        <5>1. ~ Less(h[i], h[n])
          BY <2>2, <2>6, LessOrder
        <5> QED BY <4>1, <5>1, <2>1, <2>2, <2>3, LessOrder
      <4>2. CASE Parent(j) # i
        BY <4>2, <3>2, <1>12
      <4> QED BY <4>1, <4>2
    <3>3. Tree(h2, w2, i)
      BY <3>1, <3>2, <1>5 DEF Tree
    <3> QED BY <3>1, <3>3, <2>5, <1>2, <1>5, <1>7, <1>9, <1>10 DEF Heap, i
  <2>7. CASE ~ Less(h[n], h[i])
    <3>1. w2 = "down"
      BY <2>1, <2>7 DEF Settle
    <3>2. ASSUME NEW j \in 2 .. n - 1, Parent(j) # i PROVE ~ Less(h2[j], h2[Parent(j)])
      <4>1. CASE j = i
        BY <4>1, <2>1, <2>2, <2>4, <2>7, LessOrder
      <4>2. CASE j # i
        BY <4>2, <3>2, <1>12
      <4> QED BY <4>1, <4>2
    <3>3. Tree(h2, w2, i)
      BY <3>1, <3>2, <1>5 DEF Tree
    <3> QED BY <3>1, <3>3, <2>5, <1>2, <1>5, <1>7, <1>9, <1>10 DEF Heap, i
  <2> QED BY <2>6, <2>7
<1> QED BY <1>13, <1>14

---------------------------------------------------------------------------
(***************************************************************************)
(* The invariant.                                                          *)
(***************************************************************************)

\* What a call has in hand.
LEMMA CallType ==
    ASSUME call \in Calls
    PROVE  /\ call.part \in {"ready", "discard", "insert", "replace", "store", "pop"}
           /\ call.part = "ready" <=> call = Ready
           /\ call.part = "insert" => call.key \in Key /\ call.idx \in Index
           /\ call.part = "replace" =>
                  call.key \in Key /\ call.ts \in Time /\ call.old_ts \in Time
                  /\ call.name \in Names
           /\ call.part = "store" =>
                  call.key \in Key /\ call.idx \in Index /\ call.old_ts \in Time
                  /\ call.name \in Names
           /\ call.part = "pop" => call.idx \in Index /\ call.ts \in Time
<1>1. CASE call = Ready
  BY <1>1 DEF Ready
<1>2. CASE call = [part |-> "discard"]
  BY <1>2 DEF Ready
<1>3. CASE call \in [part : {"insert"}, key : Key, idx : Index]
  BY <1>3 DEF Ready
<1>4. CASE call \in [part : {"replace"}, key : Key, ts : Time, old_ts : Time, name : Names]
  BY <1>4 DEF Ready
<1>5. CASE call \in [part : {"store"}, key : Key, idx : Index, old_ts : Time, name : Names]
  BY <1>5 DEF Ready
<1>6. CASE call \in [part : {"pop"}, idx : Index, ts : Time]
  BY <1>6 DEF Ready
<1> QED BY <1>1, <1>2, <1>3, <1>4, <1>5, <1>6 DEF Calls

LEMMA SmallerChildFacts ==
    ASSUME items \in Seq(Item), NEW a \in Nat \ {0}, 2 * a <= Len(items)
    PROVE  /\ SmallerChild(a) \in 2 .. Len(items) /\ Parent(SmallerChild(a)) = a
           /\ \A i \in 2 .. Len(items) :
                  Parent(i) = a => ~ Less(items[i], items[SmallerChild(a)])
<1> DEFINE c == SmallerChild(a)
<1>1. Len(items) \in Nat
  OBVIOUS
<1>2. CASE 2 * a + 1 <= Len(items) /\ Less(items[2 * a + 1], items[2 * a])
  <2>1. c = 2 * a + 1
    BY <1>2 DEF SmallerChild
  <2>2. c \in 2 .. Len(items) /\ Parent(c) = a
    BY <1>1, <1>2, <2>1, ChildFacts
  <2>3. items[2 * a] \in Item /\ items[2 * a + 1] \in Item
    BY <1>1, <1>2, ItemAt
  <2>4. ASSUME NEW i \in 2 .. Len(items), Parent(i) = a PROVE ~ Less(items[i], items[c])
    <3>1. i = 2 * a \/ i = 2 * a + 1
      BY <2>4, <1>1, ParentFacts
    <3> QED BY <3>1, <2>1, <2>3, <1>2, LessOrder
  <2> QED BY <2>2, <2>4
<1>3. CASE ~ (2 * a + 1 <= Len(items) /\ Less(items[2 * a + 1], items[2 * a]))
  <2>1. c = 2 * a
    BY <1>3 DEF SmallerChild
  <2>2. c \in 2 .. Len(items) /\ Parent(c) = a
    BY <1>1, <2>1, ChildFacts
  <2>3. items[2 * a] \in Item
    BY <1>1, ItemAt
  <2>4. ASSUME NEW i \in 2 .. Len(items), Parent(i) = a PROVE ~ Less(items[i], items[c])
    <3>1. i = 2 * a \/ i = 2 * a + 1
      BY <2>4, <1>1, ParentFacts
    <3>2. CASE i = 2 * a
      BY <3>2, <2>1, <2>3, LessOrder
    <3>3. CASE i = 2 * a + 1
      BY <3>3, <2>1, <1>1, <1>3
    <3> QED BY <3>1, <3>2, <3>3
  <2> QED BY <2>2, <2>4
<1> QED BY <1>2, <1>3

\* When the loops are over the heap is ordered.
LEMMA SettledHeap ==
    ASSUME Inv, Settled
    PROVE  Heap(items, index, "none", 1)
<1>1. Heap(items, index, way, at) /\ items \in Seq(Item) /\ at \in Nat \ {0}
  BY DEF Inv, Heap
<1>2. way = "up" => at = 1 \/ ~ Less(items[at], items[Parent(at)])
  BY <1>1 DEF Settled, Rises
<1>3. ASSUME way = "down", NEW i \in 2 .. Len(items), Parent(i) = at
      PROVE  ~ Less(items[i], items[at])
  <2>1. i = 2 * at \/ i = 2 * at + 1
    BY <1>1, <1>3, ParentFacts
  <2>2. 2 * at <= Len(items) /\ at \in 1 .. Len(items)
    BY <1>1, <2>1
  <2>3. /\ SmallerChild(at) \in 2 .. Len(items)
        /\ ~ Less(items[i], items[SmallerChild(at)])
    BY <1>1, <1>3, <2>2, SmallerChildFacts
  <2>4. ~ Less(items[SmallerChild(at)], items[at])
    BY <1>3, <2>2 DEF Settled, Sinks
  <2>5. /\ items[i] \in Item /\ items[at] \in Item
        /\ items[SmallerChild(at)] \in Item
    BY <1>1, <2>2, <2>3, ItemAt
  <2> QED BY <2>3, <2>4, <2>5, LessOrder
<1> QED BY <1>1, <1>2, <1>3, Closed

LEMMA ReadyHeap ==
    ASSUME Inv, call = Ready
    PROVE  Heap(items, index, "none", 1)
<1>1. Settled
  BY DEF Inv, Settled, Rises, Sinks
<1> QED BY <1>1, SettledHeap

\* The rounds left in a percolation, at most.
Rounds == IF way = "up" THEN at ELSE Len(items) - at

LEMMA Round ==
    ASSUME Inv, PercolateUp \/ PercolateDown
    PROVE  /\ Heap(items', index', way', at')
           /\ DOMAIN index' = DOMAIN index
           /\ Same(items, index, items', index', DOMAIN index)
           /\ Rounds \in Nat /\ Rounds' \in Nat /\ Rounds' < Rounds
<1>1. /\ Heap(items, index, way, at) /\ items \in Seq(Item) /\ at \in Nat \ {0}
      /\ Len(items) \in Nat
  BY DEF Inv, Heap
<1>2. CASE PercolateUp
  <2>1. /\ way = "up" /\ at > 1 /\ Less(items[at], items[Parent(at)])
        /\ way' = "up" /\ at' = Parent(at)
        /\ Exchanged(items, index, items', index', at, Parent(at))
    BY <1>2 DEF PercolateUp, Rises, Swap, Exchanged
  <2>2. /\ Heap(items', index', "up", Parent(at))
        /\ DOMAIN index' = DOMAIN index
        /\ Same(items, index, items', index', DOMAIN index)
    BY <1>1, <2>1, RoundUp
  <2>3. at' \in Nat /\ at' < at
    BY <1>1, <2>1, ParentFacts
  <2> QED BY <1>1, <2>1, <2>2, <2>3 DEF Rounds
<1>3. CASE PercolateDown
  <2> DEFINE c == SmallerChild(at)
  <2>1. /\ way = "down" /\ 2 * at <= Len(items) /\ Less(items[c], items[at])
        /\ way' = "down" /\ at' = c
        /\ items' = [items EXCEPT ![at] = items[c], ![c] = items[at]]
        /\ Exchanged(items, index, items', index', at, c)
    BY <1>3 DEF PercolateDown, Sinks, Swap, Exchanged
  <2>2. /\ c \in 2 .. Len(items) /\ Parent(c) = at
        /\ \A i \in 2 .. Len(items) : Parent(i) = at => ~ Less(items[i], items[c])
    BY <1>1, <2>1, SmallerChildFacts
  <2> HIDE DEF c
  <2>3. /\ Heap(items', index', "down", c)
        /\ DOMAIN index' = DOMAIN index
        /\ Same(items, index, items', index', DOMAIN index)
    BY <1>1, <2>1, <2>2, RoundDown
  <2>4. at < c /\ c \in Nat
    BY <1>1, <2>2, ParentFacts
  <2>5. Len(items') = Len(items)
    BY <1>1, <2>1
  <2> QED BY <1>1, <2>1, <2>2, <2>3, <2>4, <2>5 DEF Rounds
<1> QED BY <1>2, <1>3

\* Which entries are where does not depend on the places of the items.
LEMMA EntriesKept ==
    ASSUME NEW c, NEW m, NEW s, NEW h, NEW x, NEW h2, NEW x2,
           Entries(c, m, s, h, x),
           DOMAIN x2 = DOMAIN x, Same(h, x, h2, x2, DOMAIN x)
    PROVE  Entries(c, m, s, h2, x2)
<1>1. ASSUME c.part = "store"
      PROVE  \E ts \in Time : h2[x2[c.idx]].ts = Later(ts, c.old_ts, c.name)
  BY <1>1 DEF Entries, Same
<1>2. ASSUME c.part = "pop"
      PROVE  \A y \in DOMAIN x2 : c.ts <= h2[x2[y]].ts
  BY <1>2 DEF Entries, Same
<1> QED BY <1>1, <1>2 DEF Entries

LEMMA PushStep ==
    ASSUME Heap(items, index, "none", 1), NEW t \in Item, t.idx \notin DOMAIN index,
           Push(t)
    PROVE  /\ Heap(items', index', way', at')
           /\ DOMAIN index' = DOMAIN index \cup {t.idx}
           /\ Same(items, index, items', index', DOMAIN index)
           /\ items'[index'[t.idx]].ts = t.ts
<1>1. Added(items, index, items', index', t) /\ way' = "up" /\ at' = Len(items) + 1
  BY DEF Push, Added
<1>2. Grown(items, index, items', index', t)
  BY <1>1, Pushed
<1> QED BY <1>1, <1>2 DEF Grown

LEMMA RemoveStep ==
    ASSUME Heap(items, index, "none", 1), NEW y \in DOMAIN index, Remove(y)
    PROVE  /\ Heap(items', index', way', at')
           /\ DOMAIN index' = DOMAIN index \ {y}
           /\ Same(items, index, items', index', DOMAIN index \ {y})
<1>1. Taken(items, index, items', index', way', y) /\ at' = index[y]
  BY DEF Remove, Taken
<1> QED BY <1>1, TakenOut

LEMMA ReturnStep ==
    ASSUME Heap(items, index, "none", 1), Return, UNCHANGED heapVars
    PROVE  /\ Heap(items', index', way', at')
           /\ index' = index /\ items' = items /\ call' = Ready /\ way' = "none"
BY DEF Return, heapVars

\* The timestamp of an entry in the heap is a time.
LEMMA TimeType ==
    ASSUME Heap(items, index, way, at), NEW y \in DOMAIN index
    PROVE  TimeOf(y) \in Time
<1>1. items \in Seq(Item) /\ index[y] \in 1 .. Len(items)
  BY DEF Heap, Exact
<1> QED BY <1>1, ItemAt DEF TimeOf

LEMMA InvInit == Init => Inv
<1> SUFFICES ASSUME Init PROVE Inv
  OBVIOUS
<1>1. /\ items = <<>> /\ DOMAIN index = {} /\ DOMAIN map = {} /\ DOMAIN slab = {}
      /\ call = Ready /\ way = "none" /\ at = 1
  BY DEF Init
<1>2. Len(items) = 0 /\ items \in Seq(Item)
  BY <1>1
<1>3. Heap(items, index, way, at)
  BY <1>1, <1>2 DEF Heap, Exact, Tree, Hole
<1>4. Linked(map, slab, DOMAIN map)
  BY <1>1 DEF Linked
<1>5. call \in Calls /\ call.part = "ready"
  BY <1>1 DEF Calls, Ready
<1>6. Entries(call, map, slab, items, index)
  BY <1>1, <1>4, <1>5 DEF Entries
<1> QED BY <1>1, <1>3, <1>5, <1>6 DEF Inv

LEMMA InvInsert ==
    ASSUME Inv, NEW k \in Key, NEW ts \in Time, Insert(k, ts)
    PROVE  Inv'
<1>1. PICK idx \in Vacant(slab) :
        /\ Push([ts |-> ts, idx |-> idx])
        /\ call' = [part |-> "insert", key |-> k, idx |-> idx]
  BY DEF Insert
<1>2. call = Ready /\ map' = map /\ slab' = slab
  BY DEF Insert
<1>3. /\ DOMAIN map \subseteq Key
      /\ Linked(map, slab, DOMAIN map) /\ DOMAIN index = DOMAIN slab
  BY <1>2 DEF Inv, Entries, Ready
<1> DEFINE t == [ts |-> ts, idx |-> idx]
<1>4. t \in Item /\ t.idx = idx /\ idx \in Index /\ idx \notin DOMAIN slab
  BY DEF Item, Vacant
<1>5. Push(t) /\ t.idx \notin DOMAIN index
  BY <1>1, <1>3, <1>4
<1> HIDE DEF t
<1>6. Heap(items', index', way', at') /\ DOMAIN index' = DOMAIN index \cup {idx}
  BY <1>2, <1>4, <1>5, ReadyHeap, PushStep
<1>7. /\ call' \in Calls /\ call' # Ready
      /\ call'.part = "insert" /\ call'.idx = idx
  BY <1>1, <1>4 DEF Calls, Ready
<1>8. Entries(call', map', slab', items', index')
  BY <1>2, <1>3, <1>4, <1>6, <1>7 DEF Entries
<1> QED BY <1>6, <1>7, <1>8 DEF Inv

\* An entry of a new index for k, in place of the old one if there was one.
LEMMA LinkedPut ==
    ASSUME NEW m, NEW s, NEW k, NEW idx, NEW K,
           K \subseteq DOMAIN m, Linked(m, s, K), idx \notin DOMAIN s, k \notin K,
           DOMAIN m = K \cup {k} \/ DOMAIN m = K
    PROVE  Linked(Put(m, k, idx), Put(s, idx, k), K \cup {k})
<1> DEFINE m2 == Put(m, k, idx)
           s2 == Put(s, idx, k)
<1>1. /\ DOMAIN m2 = K \cup {k} /\ m2[k] = idx
      /\ \A j \in K : m2[j] = m[j]
  BY DEF Put
<1>2. /\ DOMAIN s2 = DOMAIN s \cup {idx} /\ s2[idx] = k
      /\ \A y \in DOMAIN s : s2[y] = s[y]
  BY DEF Put
<1> HIDE DEF m2, s2
<1>3. /\ DOMAIN s = {m[j] : j \in K}
      /\ \A j \in K : m[j] \in DOMAIN s /\ s[m[j]] = j
  BY DEF Linked
<1>4. DOMAIN s2 = {m2[j] : j \in K \cup {k}}
  <2>1. \A y \in DOMAIN s2 : \E j \in K \cup {k} : y = m2[j]
    BY <1>1, <1>2, <1>3
  <2>2. \A j \in K \cup {k} : m2[j] \in DOMAIN s2
    BY <1>1, <1>2, <1>3
  <2> QED BY <2>1, <2>2
<1>5. \A j \in K \cup {k} : s2[m2[j]] = j
  BY <1>1, <1>2, <1>3
<1>6. Linked(m2, s2, K \cup {k})
  BY <1>1, <1>4, <1>5 DEF Linked
<1> QED BY <1>6 DEF m2, s2

\* The entry of k leaves the slab.
LEMMA LinkedDrop ==
    ASSUME NEW m, NEW s, NEW K, NEW k \in K, Linked(m, s, K)
    PROVE  Linked(m, Drop(s, m[k]), K \ {k})
<1> DEFINE s2 == Drop(s, m[k])
<1>1. DOMAIN s2 = DOMAIN s \ {m[k]} /\ \A y \in DOMAIN s2 : s2[y] = s[y]
  BY DEF Drop
<1> HIDE DEF s2
<1>2. /\ K \subseteq DOMAIN m /\ DOMAIN s = {m[j] : j \in K}
      /\ \A j \in K : m[j] \in DOMAIN s /\ s[m[j]] = j
  BY DEF Linked
<1>3. \A j \in K \ {k} : m[j] # m[k] /\ m[j] \in DOMAIN s2 /\ s2[m[j]] = j
  BY <1>1, <1>2
<1>4. \A y \in DOMAIN s2 : \E j \in K \ {k} : y = m[j]
  BY <1>1, <1>2
<1>5. DOMAIN s2 = {m[j] : j \in K \ {k}}
  BY <1>3, <1>4
<1>6. Linked(m, s2, K \ {k})
  BY <1>2, <1>3, <1>5 DEF Linked
<1> QED BY <1>6 DEF s2

\* The order in which the slab gets one entry and loses another does not
\* matter.
LEMMA PutDrop ==
    ASSUME NEW s, NEW o, NEW idx, o # idx, NEW k
    PROVE  Put(Drop(s, o), idx, k) = Drop(Put(s, idx, k), o)
<1> DEFINE f == Put(Drop(s, o), idx, k)
           g == Drop(Put(s, idx, k), o)
           D == (DOMAIN s \cup {idx}) \ {o}
<1>1. f = [y \in D |-> IF y = idx THEN k ELSE s[y]]
  BY DEF Put, Drop
<1>2. g = [y \in D |-> IF y = idx THEN k ELSE s[y]]
  BY DEF Put, Drop
<1> QED BY <1>1, <1>2

LEMMA InvInserted ==
    ASSUME Inv, Inserted
    PROVE  Inv'
<1> DEFINE k == call.key
           idx == call.idx
           stored == Put(slab, idx, k)
<1>1. call.part = "insert" /\ map' = Put(map, k, idx) /\ Settled
  BY DEF Inserted
<1>2. k \in Key /\ idx \in Index
  BY <1>1, CallType DEF Inv
<1>3. Heap(items, index, "none", 1)
  BY <1>1, SettledHeap
<1>4. /\ DOMAIN map \subseteq Key /\ Linked(map, slab, DOMAIN map)
      /\ idx \notin DOMAIN slab /\ DOMAIN index = DOMAIN slab \cup {idx}
  BY <1>1 DEF Inv, Entries
<1>5. DOMAIN map' \subseteq Key /\ DOMAIN map' = DOMAIN map \cup {k}
  BY <1>1, <1>2, <1>4 DEF Put
<1>6. CASE k \in DOMAIN map
  <2> DEFINE o == map[k]
             K == DOMAIN map \ {k}
  <2>1. Remove(o) /\ slab' = Drop(stored, o) /\ call' = [part |-> "discard"]
    BY <1>6 DEF Inserted, OldRemoved
  <2>2. o \in DOMAIN slab /\ o # idx /\ o \in DOMAIN index
    BY <1>4, <1>6 DEF Linked
  <2>3. Heap(items', index', way', at') /\ DOMAIN index' = DOMAIN index \ {o}
    BY <2>1, <2>2, <1>3, RemoveStep
  <2>4. Linked(map, Drop(slab, o), K)
    BY <1>4, <1>6, LinkedDrop
  <2>5. idx \notin DOMAIN Drop(slab, o) /\ DOMAIN map = K \cup {k}
    BY <1>4, <1>6 DEF Drop
  <2>6. Linked(Put(map, k, idx), Put(Drop(slab, o), idx, k), K \cup {k})
    BY <2>4, <2>5, LinkedPut
  <2>7. Linked(map', slab', DOMAIN map')
    BY <2>1, <2>2, <2>5, <2>6, <1>1, <1>5, PutDrop
  <2>8. DOMAIN slab' = (DOMAIN slab \cup {idx}) \ {o}
    BY <2>1 DEF Put, Drop
  <2>9. DOMAIN index' = DOMAIN slab'
    BY <2>3, <2>8, <1>4
  <2>10. call' \in Calls /\ call' # Ready /\ call'.part = "discard"
    BY <2>1 DEF Calls, Ready
  <2>11. Entries(call', map', slab', items', index')
    BY <2>7, <2>9, <2>10, <1>5 DEF Entries
  <2> QED BY <2>3, <2>10, <2>11 DEF Inv
<1>7. CASE k \notin DOMAIN map
  <2>1. slab' = stored /\ Return /\ UNCHANGED heapVars
    BY <1>7 DEF Inserted
  <2>2. /\ Heap(items', index', way', at')
        /\ index' = index /\ call' = Ready /\ way' = "none"
    BY <2>1, <1>3, ReturnStep
  <2>3. Linked(Put(map, k, idx), Put(slab, idx, k), DOMAIN map \cup {k})
    BY <1>4, <1>7, LinkedPut
  <2>4. Linked(map', slab', DOMAIN map')
    BY <2>1, <2>3, <1>1, <1>5
  <2>5. DOMAIN slab' = DOMAIN slab \cup {idx}
    BY <2>1 DEF Put
  <2>6. call' \in Calls /\ call'.part = "ready"
    BY <2>2 DEF Calls, Ready
  <2>7. Entries(call', map', slab', items', index')
    BY <2>2, <2>4, <2>5, <2>6, <1>4, <1>5 DEF Entries
  <2> QED BY <2>2, <2>6, <2>7 DEF Inv
<1> QED BY <1>6, <1>7

LEMMA InvDiscarded ==
    ASSUME Inv, Discarded
    PROVE  Inv'
<1>1. /\ call.part = "discard" /\ Settled /\ Return /\ UNCHANGED heapVars
      /\ map' = map /\ slab' = slab
  BY DEF Discarded
<1>2. /\ Heap(items', index', way', at')
      /\ items' = items /\ index' = index /\ call' = Ready /\ way' = "none"
  BY <1>1, SettledHeap, ReturnStep
<1>3. call' \in Calls /\ call'.part = "ready"
  BY <1>2 DEF Calls, Ready
<1>4. Entries(call', map', slab', items', index')
  BY <1>1, <1>2, <1>3 DEF Inv, Entries
<1> QED BY <1>2, <1>3, <1>4 DEF Inv

LEMMA InvUpdate ==
    ASSUME Inv, NEW k \in Key, NEW ts \in Time, NEW name \in Names, Update(k, ts, name)
    PROVE  Inv'
<1> DEFINE o == map[k]
<1>1. /\ call = Ready /\ k \in DOMAIN map /\ slab' = Drop(slab, o) /\ Remove(o)
      /\ call' = [part |-> "replace", key |-> k, ts |-> ts, old_ts |-> TimeOf(o),
                  name |-> name]
      /\ map' = map
  BY DEF Update
<1>2. /\ DOMAIN map \subseteq Key
      /\ Linked(map, slab, DOMAIN map) /\ DOMAIN index = DOMAIN slab
  BY <1>1 DEF Inv, Entries, Ready
<1>3. o \in DOMAIN index
  BY <1>1, <1>2 DEF Linked
<1>4. Heap(items', index', way', at') /\ DOMAIN index' = DOMAIN index \ {o}
  BY <1>1, <1>3, ReadyHeap, RemoveStep
<1>5. Linked(map, slab', DOMAIN map \ {k})
  BY <1>1, <1>2, LinkedDrop
<1>6. DOMAIN index' = DOMAIN slab'
  BY <1>1, <1>2, <1>4 DEF Drop
<1>7. TimeOf(o) \in Time
  BY <1>3, TimeType DEF Inv
<1>8. /\ call' \in Calls /\ call' # Ready
      /\ call'.part = "replace" /\ call'.key = k
  BY <1>1, <1>7 DEF Calls, Ready
<1>9. Entries(call', map', slab', items', index')
  BY <1>1, <1>2, <1>5, <1>6, <1>8 DEF Entries
<1> QED BY <1>4, <1>8, <1>9 DEF Inv

LEMMA InvReplaced ==
    ASSUME Inv, Replaced
    PROVE  Inv'
<1> DEFINE new == Later(call.ts, call.old_ts, call.name)
<1>1. PICK idx \in Vacant(slab) :
        /\ Push([ts |-> new, idx |-> idx])
        /\ call' = [part |-> "store", key |-> call.key, idx |-> idx,
                    old_ts |-> call.old_ts, name |-> call.name]
  BY DEF Replaced
<1>2. call.part = "replace" /\ Settled /\ map' = map /\ slab' = slab
  BY DEF Replaced
<1>3. /\ call.key \in Key /\ call.ts \in Time /\ call.old_ts \in Time
      /\ call.name \in Names
  BY <1>2, CallType DEF Inv
<1>4. /\ DOMAIN map \subseteq Key /\ call.key \in DOMAIN map
      /\ Linked(map, slab, DOMAIN map \ {call.key}) /\ DOMAIN index = DOMAIN slab
  BY <1>2 DEF Inv, Entries
<1> DEFINE t == [ts |-> new, idx |-> idx]
<1>5. new \in Time
  BY <1>3 DEF Later
<1>6. t \in Item /\ t.idx = idx /\ t.ts = new /\ idx \in Index /\ idx \notin DOMAIN slab
  BY <1>5 DEF Item, Vacant
<1>7. Push(t) /\ t.idx \notin DOMAIN index
  BY <1>1, <1>4, <1>6
<1> HIDE DEF t
<1>8. /\ Heap(items', index', way', at') /\ DOMAIN index' = DOMAIN index \cup {idx}
      /\ items'[index'[idx]].ts = new
  BY <1>2, <1>6, <1>7, SettledHeap, PushStep
<1>9. /\ call' \in Calls /\ call' # Ready
      /\ call'.part = "store" /\ call'.key = call.key /\ call'.idx = idx
      /\ call'.old_ts = call.old_ts /\ call'.name = call.name
  BY <1>1, <1>3, <1>6 DEF Calls, Ready
<1>10. \E ts \in Time : items'[index'[idx]].ts = Later(ts, call'.old_ts, call'.name)
  BY <1>3, <1>8, <1>9
<1>11. Entries(call', map', slab', items', index')
  BY <1>2, <1>4, <1>6, <1>8, <1>9, <1>10 DEF Entries
<1> QED BY <1>8, <1>9, <1>11 DEF Inv

LEMMA InvStored ==
    ASSUME Inv, Stored
    PROVE  Inv'
<1> DEFINE k == call.key
           idx == call.idx
           K == DOMAIN map \ {k}
<1>1. /\ call.part = "store" /\ Settled /\ map' = Put(map, k, idx)
      /\ slab' = Put(slab, idx, k) /\ Return /\ UNCHANGED heapVars
  BY DEF Stored
<1>2. /\ DOMAIN map \subseteq Key /\ k \in DOMAIN map /\ Linked(map, slab, K)
      /\ idx \notin DOMAIN slab /\ DOMAIN index = DOMAIN slab \cup {idx}
  BY <1>1 DEF Inv, Entries
<1>3. DOMAIN map = K \cup {k} /\ DOMAIN map' = DOMAIN map
  BY <1>1, <1>2 DEF Put
<1>4. Linked(Put(map, k, idx), Put(slab, idx, k), K \cup {k})
  BY <1>2, <1>3, LinkedPut
<1>5. Linked(map', slab', DOMAIN map')
  BY <1>1, <1>3, <1>4
<1>6. /\ Heap(items', index', way', at')
      /\ index' = index /\ call' = Ready /\ way' = "none"
  BY <1>1, SettledHeap, ReturnStep
<1>7. DOMAIN slab' = DOMAIN slab \cup {idx}
  BY <1>1 DEF Put
<1>8. call' \in Calls /\ call'.part = "ready"
  BY <1>6 DEF Calls, Ready
<1>9. Entries(call', map', slab', items', index')
  BY <1>2, <1>3, <1>5, <1>6, <1>7, <1>8 DEF Entries
<1> QED BY <1>6, <1>8, <1>9 DEF Inv

\* The root of an ordered heap has the least timestamp of the entries.
LEMMA TopLeast ==
    ASSUME Heap(items, index, "none", 1), items # <<>>, NEW y \in DOMAIN index
    PROVE  items[1].ts <= TimeOf(y)
<1>1. items \in Seq(Item) /\ Tree(items, "none", 1) /\ index[y] \in 1 .. Len(items)
  BY DEF Heap, Exact
<1> QED BY <1>1, RootLeast DEF TimeOf

LEMMA InvPop ==
    ASSUME Inv, Pop
    PROVE  Inv'
<1> DEFINE o == items[1].idx
<1>1. /\ call = Ready /\ items # <<>> /\ Remove(o)
      /\ call' = [part |-> "pop", idx |-> o, ts |-> items[1].ts]
      /\ map' = map /\ slab' = slab
  BY DEF Pop
<1>2. /\ DOMAIN map \subseteq Key
      /\ Linked(map, slab, DOMAIN map) /\ DOMAIN index = DOMAIN slab
  BY <1>1 DEF Inv, Entries, Ready
<1>3. Heap(items, index, "none", 1)
  BY <1>1, ReadyHeap
<1>4. items \in Seq(Item) /\ 1 \in 1 .. Len(items) /\ o \in DOMAIN index
  <2>1. items \in Seq(Item) /\ Exact(items, index)
    BY <1>3 DEF Heap
  <2>2. 1 \in 1 .. Len(items)
    BY <2>1, <1>1
  <2> QED BY <2>1, <2>2 DEF Exact
<1>5. items[1].ts \in Time /\ o \in Index
  BY <1>4, ItemAt
<1>6. /\ Heap(items', index', way', at') /\ DOMAIN index' = DOMAIN index \ {o}
      /\ Same(items, index, items', index', DOMAIN index \ {o})
  BY <1>1, <1>3, <1>4, RemoveStep
<1>7. /\ call' \in Calls /\ call' # Ready
      /\ call'.part = "pop" /\ call'.idx = o /\ call'.ts = items[1].ts
  BY <1>1, <1>5 DEF Calls, Ready
<1>8. ASSUME NEW y \in DOMAIN index' PROVE call'.ts <= items'[index'[y]].ts
  <2>1. items[1].ts <= items[index[y]].ts
    BY <1>1, <1>3, <1>6, TopLeast DEF TimeOf
  <2>2. items'[index'[y]].ts = items[index[y]].ts
    BY <1>6 DEF Same
  <2> QED BY <2>1, <2>2, <1>7
<1>9. Entries(call', map', slab', items', index')
  BY <1>1, <1>2, <1>4, <1>6, <1>7, <1>8 DEF Entries
<1> QED BY <1>6, <1>7, <1>9 DEF Inv

LEMMA InvPopped ==
    ASSUME Inv, Popped
    PROVE  Inv'
<1> DEFINE o == call.idx
           k == slab[o]
<1>1. /\ call.part = "pop" /\ Settled /\ slab' = Drop(slab, o) /\ map' = Drop(map, k)
      /\ Return /\ UNCHANGED heapVars
  BY DEF Popped
<1>2. /\ DOMAIN map \subseteq Key /\ Linked(map, slab, DOMAIN map)
      /\ o \in DOMAIN slab /\ DOMAIN index = DOMAIN slab \ {o}
  BY <1>1 DEF Inv, Entries
<1>3. k \in DOMAIN map /\ map[k] = o
  BY <1>2 DEF Linked
<1>4. Linked(map, slab', DOMAIN map \ {k})
  BY <1>1, <1>2, <1>3, LinkedDrop
<1>5. DOMAIN map' = DOMAIN map \ {k} /\ \A j \in DOMAIN map' : map'[j] = map[j]
  BY <1>1 DEF Drop
<1>6. Linked(map', slab', DOMAIN map')
  <2>1. {map'[j] : j \in DOMAIN map'} = {map[j] : j \in DOMAIN map \ {k}}
    BY <1>5
  <2> QED BY <2>1, <1>4, <1>5 DEF Linked
<1>7. /\ Heap(items', index', way', at')
      /\ index' = index /\ call' = Ready /\ way' = "none"
  BY <1>1, SettledHeap, ReturnStep
<1>8. DOMAIN slab' = DOMAIN slab \ {o}
  BY <1>1 DEF Drop
<1>9. call' \in Calls /\ call'.part = "ready"
  BY <1>7 DEF Calls, Ready
<1>10. Entries(call', map', slab', items', index')
  BY <1>2, <1>5, <1>6, <1>7, <1>8, <1>9 DEF Entries
<1> QED BY <1>7, <1>9, <1>10 DEF Inv

LEMMA InvRound ==
    ASSUME Inv, PercolateUp \/ PercolateDown
    PROVE  Inv'
<1>1. /\ Heap(items', index', way', at') /\ DOMAIN index' = DOMAIN index
      /\ Same(items, index, items', index', DOMAIN index)
  BY Round
<1>2. map' = map /\ slab' = slab /\ call' = call /\ way' = way
  BY DEF PercolateUp, PercolateDown, Swap
<1>3. Entries(call, map, slab, items', index')
  BY <1>1, EntriesKept DEF Inv
<1> QED BY <1>1, <1>2, <1>3 DEF Inv

LEMMA InvSame ==
    ASSUME Inv, UNCHANGED <<items, index, map, slab, call, way, at>>
    PROVE  Inv'
BY DEF Inv, Heap, Exact, Tree, Hole, Entries, Linked

LEMMA InvNext == Inv /\ [Next]_vars => Inv'
<1> SUFFICES ASSUME Inv, [Next]_vars PROVE Inv'
  OBVIOUS
<1>1. ASSUME NEW k \in Key, NEW ts \in Time, Insert(k, ts) PROVE Inv'
  BY <1>1, InvInsert
<1>2. ASSUME NEW k \in Key, NEW ts \in Time,
             NEW name \in {"update", "update_if_smaller"}, Update(k, ts, name)
      PROVE  Inv'
  BY <1>2, InvUpdate DEF Names
<1>3. ASSUME Inserted PROVE Inv'    BY <1>3, InvInserted
<1>4. ASSUME Discarded PROVE Inv'   BY <1>4, InvDiscarded
<1>5. ASSUME Replaced PROVE Inv'    BY <1>5, InvReplaced
<1>6. ASSUME Stored PROVE Inv'      BY <1>6, InvStored
<1>7. ASSUME Pop PROVE Inv'         BY <1>7, InvPop
<1>8. ASSUME Popped PROVE Inv'      BY <1>8, InvPopped
<1>9. ASSUME PopNothing PROVE Inv'
  <2>1. UNCHANGED <<items, index, map, slab, call, way, at>>
    BY <1>9 DEF PopNothing, heapVars
  <2> QED BY <2>1, InvSame
<1>10. ASSUME PercolateUp \/ PercolateDown PROVE Inv'
  BY <1>10, InvRound
<1>11. ASSUME UNCHANGED vars PROVE Inv'
  <2>1. UNCHANGED <<items, index, map, slab, call, way, at>>
    BY <1>11 DEF vars
  <2> QED BY <2>1, InvSame
<1> QED BY <1>1, <1>2, <1>3, <1>4, <1>5, <1>6, <1>7, <1>8, <1>9, <1>10, <1>11 DEF Next

\* The order of the heap, the index and the entries, through every step.
THEOREM Invariance == Spec => []Inv
BY InvInit, InvNext, PTL DEF Spec

---------------------------------------------------------------------------
(***************************************************************************)
(* The properties.                                                         *)
(***************************************************************************)

LEMMA InvConsistent == Inv => Consistent
<1> SUFFICES ASSUME Inv PROVE Consistent
  OBVIOUS
<1>1. items \in Seq(Item) /\ Exact(items, index) /\ DOMAIN items = 1 .. Len(items)
  BY DEF Inv, Heap
<1>2. DOMAIN index = {items[i].idx : i \in DOMAIN items}
  <2>1. \A y \in DOMAIN index : \E i \in DOMAIN items : y = items[i].idx
    BY <1>1 DEF Exact
  <2>2. \A i \in DOMAIN items : items[i].idx \in DOMAIN index
    BY <1>1 DEF Exact
  <2> QED BY <2>1, <2>2
<1>3. ASSUME NEW i \in DOMAIN items PROVE index[items[i].idx] = i
  BY <1>1 DEF Exact
<1>4. ASSUME NEW i \in DOMAIN items, Settled, i > 1
      PROVE  ~ Less(items[i], items[Parent(i)])
  <2>1. Tree(items, "none", 1)
    BY <1>4, SettledHeap DEF Heap
  <2>2. i \in 2 .. Len(items)
    BY <1>1, <1>4
  <2> QED BY <2>1, <2>2 DEF Tree
<1> QED BY <1>2, <1>3, <1>4 DEF Consistent

LEMMA InvEntries == Inv => EntriesMatch
<1> SUFFICES ASSUME Inv, call = Ready
             PROVE  /\ DOMAIN index = DOMAIN slab
                    /\ DOMAIN slab = {map[k] : k \in DOMAIN map}
                    /\ \A k \in DOMAIN map : slab[map[k]] = k
  BY DEF EntriesMatch
<1>1. Linked(map, slab, DOMAIN map) /\ DOMAIN index = DOMAIN slab
  BY DEF Inv, Entries, Ready
<1> QED BY <1>1 DEF Linked

\* The heap of heap.rs is consistent in the sense of assert_consistent(),
\* which release builds skip, whatever calls were made: index follows the items
\* through every round, and a percolation that ends leaves no item less than
\* its parent.
THEOREM ConsistentAlways == Spec => []Consistent
BY Invariance, InvConsistent, PTL

\* Between calls every key of HeapMap has one entry in the slab and one item in
\* the heap, and there are no others: the unwrap()s of get, peek and pop find
\* what they look for.
THEOREM EntriesMatchAlways == Spec => []EntriesMatch
BY Invariance, InvEntries, PTL

\* Every round of percolate_up and percolate_down has fewer rounds left than the
\* one before: the loops of heap.rs end.
THEOREM PercolationsEnd ==
    Spec => [][PercolateUp \/ PercolateDown =>
                   Rounds \in Nat /\ Rounds' \in Nat /\ Rounds' < Rounds]_vars
<1>1. Inv /\ [Next]_vars =>
        [PercolateUp \/ PercolateDown =>
             Rounds \in Nat /\ Rounds' \in Nat /\ Rounds' < Rounds]_vars
  BY Round
<1> QED BY <1>1, Invariance, PTL DEF Spec

---------------------------------------------------------------------------
(***************************************************************************)
(* The refinement: a call changes the deadlines in its last step with      *)
(* effect on them, and in no other.                                        *)
(***************************************************************************)

DeadlineOf == [k \in DOMAIN map |-> Deadline(k)]

\* The deadline of a key in every part of a call.
LEMMA DeadlineNow ==
    ASSUME NEW k
    PROVE  /\ call.part \in {"ready", "discard", "insert"} => Deadline(k) = TimeOf(map[k])
           /\ call.part \in {"replace", "store"} =>
                  Deadline(k) = IF k = call.key THEN call.old_ts ELSE TimeOf(map[k])
           /\ call.part = "pop" =>
                  Deadline(k) = IF call.idx = map[k] THEN call.ts ELSE TimeOf(map[k])
BY DEF Deadline

LEMMA DeadlineNext ==
    ASSUME NEW k
    PROVE  /\ call'.part \in {"ready", "discard", "insert"} =>
                  Deadline(k)' = items'[index'[map'[k]]].ts
           /\ call'.part \in {"replace", "store"} =>
                  Deadline(k)' = IF k = call'.key THEN call'.old_ts
                                 ELSE items'[index'[map'[k]]].ts
           /\ call'.part = "pop" =>
                  Deadline(k)' = IF call'.idx = map'[k] THEN call'.ts
                                 ELSE items'[index'[map'[k]]].ts
BY DEF Deadline, TimeOf

LEMMA SameDeadlines ==
    ASSUME map' = map, last' = last, \A k \in DOMAIN map : Deadline(k)' = Deadline(k)
    PROVE  DeadlineOf' = DeadlineOf /\ last' = last
BY DEF DeadlineOf

\* The steps that leave the deadlines as they are.
LEMMA QuietInsert ==
    ASSUME Inv, NEW k \in Key, NEW ts \in Time, Insert(k, ts)
    PROVE  DeadlineOf' = DeadlineOf /\ last' = last
<1>1. PICK idx \in Vacant(slab) :
        /\ Push([ts |-> ts, idx |-> idx])
        /\ call' = [part |-> "insert", key |-> k, idx |-> idx]
  BY DEF Insert
<1>2. call = Ready /\ map' = map /\ slab' = slab /\ last' = last
  BY DEF Insert
<1>3. Linked(map, slab, DOMAIN map) /\ DOMAIN index = DOMAIN slab
  BY <1>2 DEF Inv, Entries, Ready
<1> DEFINE t == [ts |-> ts, idx |-> idx]
<1>4. t \in Item /\ t.idx = idx /\ idx \notin DOMAIN slab
  BY DEF Item, Vacant
<1>5. Push(t) /\ t.idx \notin DOMAIN index
  BY <1>1, <1>3, <1>4
<1> HIDE DEF t
<1>6. Same(items, index, items', index', DOMAIN index)
  BY <1>2, <1>4, <1>5, ReadyHeap, PushStep
<1>7. ASSUME NEW j \in DOMAIN map PROVE Deadline(j)' = Deadline(j)
  <2>1. map[j] \in DOMAIN index
    BY <1>3 DEF Linked
  <2>2. Deadline(j) = items[index[map[j]]].ts
    BY <1>2, DeadlineNow DEF Ready, TimeOf
  <2>3. Deadline(j)' = items'[index'[map[j]]].ts
    BY <1>1, <1>2, DeadlineNext
  <2> QED BY <2>1, <2>2, <2>3, <1>6 DEF Same
<1> QED BY <1>2, <1>7, SameDeadlines

LEMMA QuietUpdate ==
    ASSUME Inv, NEW k \in Key, NEW ts \in Time, NEW name \in Names, Update(k, ts, name)
    PROVE  DeadlineOf' = DeadlineOf /\ last' = last
<1> DEFINE o == map[k]
<1>1. /\ call = Ready /\ k \in DOMAIN map /\ Remove(o)
      /\ call' = [part |-> "replace", key |-> k, ts |-> ts, old_ts |-> TimeOf(o),
                  name |-> name]
      /\ map' = map /\ last' = last
  BY DEF Update
<1>2. Linked(map, slab, DOMAIN map) /\ DOMAIN index = DOMAIN slab
  BY <1>1 DEF Inv, Entries, Ready
<1>3. \A j \in DOMAIN map : map[j] \in DOMAIN index /\ (j # k => map[j] # o)
  BY <1>1, <1>2 DEF Linked
<1>4. Same(items, index, items', index', DOMAIN index \ {o})
  BY <1>1, <1>3, ReadyHeap, RemoveStep
<1>5. ASSUME NEW j \in DOMAIN map PROVE Deadline(j)' = Deadline(j)
  <2>1. Deadline(j) = items[index[map[j]]].ts
    BY <1>1, DeadlineNow DEF Ready, TimeOf
  <2>2. call'.part = "replace" /\ call'.key = k /\ call'.old_ts = items[index[o]].ts
    BY <1>1 DEF TimeOf
  <2>3. Deadline(j)' = IF j = k THEN items[index[o]].ts ELSE items'[index'[map[j]]].ts
    BY <2>2, <1>1, DeadlineNext
  <2>4. CASE j = k
    BY <2>1, <2>3, <2>4
  <2>5. CASE j # k
    BY <2>1, <2>3, <2>5, <1>3, <1>4 DEF Same
  <2> QED BY <2>4, <2>5
<1> QED BY <1>1, <1>5, SameDeadlines

LEMMA QuietReplaced ==
    ASSUME Inv, Replaced
    PROVE  DeadlineOf' = DeadlineOf /\ last' = last
<1> DEFINE new == Later(call.ts, call.old_ts, call.name)
<1>1. PICK idx \in Vacant(slab) :
        /\ Push([ts |-> new, idx |-> idx])
        /\ call' = [part |-> "store", key |-> call.key, idx |-> idx,
                    old_ts |-> call.old_ts, name |-> call.name]
  BY DEF Replaced
<1>2. call.part = "replace" /\ Settled /\ map' = map /\ slab' = slab /\ last' = last
  BY DEF Replaced
<1>3. call.ts \in Time /\ call.old_ts \in Time
  BY <1>2, CallType DEF Inv
<1>4. Linked(map, slab, DOMAIN map \ {call.key}) /\ DOMAIN index = DOMAIN slab
  BY <1>2 DEF Inv, Entries
<1> DEFINE t == [ts |-> new, idx |-> idx]
<1>5. new \in Time
  BY <1>3 DEF Later
<1>6. t \in Item /\ t.idx = idx /\ idx \notin DOMAIN slab
  BY <1>5 DEF Item, Vacant
<1>7. Push(t) /\ t.idx \notin DOMAIN index
  BY <1>1, <1>4, <1>6
<1> HIDE DEF t
<1>8. Same(items, index, items', index', DOMAIN index)
  BY <1>2, <1>6, <1>7, SettledHeap, PushStep
<1>9. ASSUME NEW j \in DOMAIN map PROVE Deadline(j)' = Deadline(j)
  <2>1. Deadline(j) = IF j = call.key THEN call.old_ts ELSE items[index[map[j]]].ts
    BY <1>2, DeadlineNow DEF TimeOf
  <2>2. call'.part = "store" /\ call'.key = call.key /\ call'.old_ts = call.old_ts
    BY <1>1
  <2>3. Deadline(j)' = IF j = call.key THEN call.old_ts ELSE items'[index'[map[j]]].ts
    BY <2>2, <1>2, DeadlineNext
  <2>4. CASE j = call.key
    BY <2>1, <2>3, <2>4
  <2>5. CASE j # call.key
    <3>1. map[j] \in DOMAIN index
      BY <2>5, <1>4 DEF Linked
    <3> QED BY <2>1, <2>3, <2>5, <3>1, <1>8 DEF Same
  <2> QED BY <2>4, <2>5
<1> QED BY <1>2, <1>9, SameDeadlines

LEMMA QuietDiscarded ==
    ASSUME Inv, Discarded
    PROVE  DeadlineOf' = DeadlineOf /\ last' = last
<1>1. /\ call.part = "discard" /\ call' = Ready /\ items' = items /\ index' = index
      /\ map' = map /\ last' = last
  BY DEF Discarded, Return, heapVars
<1>2. ASSUME NEW j \in DOMAIN map PROVE Deadline(j)' = Deadline(j)
  <2>1. Deadline(j) = items[index[map[j]]].ts
    BY <1>1, DeadlineNow DEF TimeOf
  <2>2. Deadline(j)' = items[index[map[j]]].ts
    BY <1>1, DeadlineNext DEF Ready
  <2> QED BY <2>1, <2>2
<1> QED BY <1>1, <1>2, SameDeadlines

LEMMA QuietPop ==
    ASSUME Inv, Pop
    PROVE  DeadlineOf' = DeadlineOf /\ last' = last
<1> DEFINE o == items[1].idx
<1>1. /\ call = Ready /\ items # <<>> /\ Remove(o)
      /\ call' = [part |-> "pop", idx |-> o, ts |-> items[1].ts]
      /\ map' = map /\ last' = last
  BY DEF Pop
<1>2. Linked(map, slab, DOMAIN map) /\ DOMAIN index = DOMAIN slab
  BY <1>1 DEF Inv, Entries, Ready
<1>3. Heap(items, index, "none", 1)
  BY <1>1, ReadyHeap
<1>4. o \in DOMAIN index /\ index[o] = 1
  <2>1. items \in Seq(Item) /\ Exact(items, index)
    BY <1>3 DEF Heap
  <2>2. 1 \in 1 .. Len(items)
    BY <2>1, <1>1
  <2> QED BY <2>1, <2>2 DEF Exact
<1>5. Same(items, index, items', index', DOMAIN index \ {o})
  BY <1>1, <1>3, <1>4, RemoveStep
<1>6. ASSUME NEW j \in DOMAIN map PROVE Deadline(j)' = Deadline(j)
  <2>1. Deadline(j) = items[index[map[j]]].ts
    BY <1>1, DeadlineNow DEF Ready, TimeOf
  <2>2. call'.part = "pop" /\ call'.idx = o /\ call'.ts = items[1].ts
    BY <1>1
  <2>3. Deadline(j)' = IF o = map[j] THEN items[1].ts ELSE items'[index'[map[j]]].ts
    BY <2>2, <1>1, DeadlineNext
  <2>4. CASE o = map[j]
    BY <2>1, <2>3, <2>4, <1>4
  <2>5. CASE o # map[j]
    <3>1. map[j] \in DOMAIN index \ {o}
      BY <2>5, <1>2 DEF Linked
    <3> QED BY <2>1, <2>3, <2>5, <3>1, <1>5 DEF Same
  <2> QED BY <2>4, <2>5
<1> QED BY <1>1, <1>6, SameDeadlines

LEMMA QuietRound ==
    ASSUME Inv, PercolateUp \/ PercolateDown
    PROVE  DeadlineOf' = DeadlineOf /\ last' = last
<1>1. Same(items, index, items', index', DOMAIN index)
  BY Round
<1>2. map' = map /\ slab' = slab /\ call' = call /\ last' = last
  BY DEF PercolateUp, PercolateDown, Swap
<1>3. Entries(call, map, slab, items, index)
  BY DEF Inv
<1>4. call.part \in {"ready", "discard", "insert", "replace", "store", "pop"}
  BY CallType DEF Inv
<1>5. ASSUME NEW j \in DOMAIN map PROVE Deadline(j)' = Deadline(j)
  <2>1. CASE call.part \in {"ready", "discard", "insert"}
    <3>1. map[j] \in DOMAIN index
      BY <2>1, <1>3 DEF Entries, Linked
    <3>2. Deadline(j) = items[index[map[j]]].ts /\ Deadline(j)' = items'[index'[map[j]]].ts
      BY <2>1, <1>2, DeadlineNow, DeadlineNext DEF TimeOf
    <3> QED BY <3>1, <3>2, <1>1 DEF Same
  <2>2. CASE call.part \in {"replace", "store"}
    <3>1. j # call.key => map[j] \in DOMAIN index
      BY <2>2, <1>3 DEF Entries, Linked
    <3>2. /\ Deadline(j) = IF j = call.key THEN call.old_ts ELSE items[index[map[j]]].ts
          /\ Deadline(j)' = IF j = call.key THEN call.old_ts ELSE items'[index'[map[j]]].ts
      BY <2>2, <1>2, DeadlineNow, DeadlineNext DEF TimeOf
    <3> QED BY <3>1, <3>2, <1>1 DEF Same
  <2>3. CASE call.part = "pop"
    <3>1. call.idx # map[j] => map[j] \in DOMAIN index
      BY <2>3, <1>3 DEF Entries, Linked
    <3>2. /\ Deadline(j) = IF call.idx = map[j] THEN call.ts ELSE items[index[map[j]]].ts
          /\ Deadline(j)' = IF call.idx = map[j] THEN call.ts ELSE items'[index'[map[j]]].ts
      BY <2>3, <1>2, DeadlineNow, DeadlineNext DEF TimeOf
    <3> QED BY <3>1, <3>2, <1>1 DEF Same
  <2> QED BY <2>1, <2>2, <2>3, <1>4
<1> QED BY <1>2, <1>5, SameDeadlines

\* The deadlines with k at ts.
With(k, ts) == [x \in DOMAIN map \cup {k} |-> IF x = k THEN ts ELSE Deadline(x)]

\* The steps in which a call has its effect.
LEMMA EffectInsert ==
    ASSUME Inv, Inserted
    PROVE  /\ call.key \in Key
           /\ \E ts \in Time : DeadlineOf' = With(call.key, ts)
           /\ last' = <<"insert">>
<1> DEFINE k == call.key
           idx == call.idx
           ts == TimeOf(idx)
<1>1. /\ call.part = "insert" /\ map' = Put(map, k, idx) /\ Settled
      /\ last' = <<"insert">>
  BY DEF Inserted
<1>2. k \in Key
  BY <1>1, CallType DEF Inv
<1>3. /\ Linked(map, slab, DOMAIN map)
      /\ idx \notin DOMAIN slab /\ DOMAIN index = DOMAIN slab \cup {idx}
  BY <1>1 DEF Inv, Entries
<1>4. ts \in Time
  BY <1>3, TimeType DEF Inv
<1>5. /\ DOMAIN map' = DOMAIN map \cup {k} /\ map'[k] = idx
      /\ \A j \in DOMAIN map : j # k => map'[j] = map[j]
  BY <1>1 DEF Put
<1>6. /\ call'.part \in {"ready", "discard"}
      /\ \A y \in DOMAIN index :
             (k \in DOMAIN map => y # map[k]) => items'[index'[y]].ts = TimeOf(y)
  <2>1. CASE k \in DOMAIN map
    <3>1. Remove(map[k]) /\ call' = [part |-> "discard"]
      BY <2>1 DEF Inserted
    <3>2. map[k] \in DOMAIN index
      BY <2>1, <1>3 DEF Linked
    <3>3. Same(items, index, items', index', DOMAIN index \ {map[k]})
      BY <3>1, <3>2, <1>1, SettledHeap, RemoveStep
    <3> QED BY <2>1, <3>1, <3>3 DEF Same, TimeOf
  <2>2. CASE k \notin DOMAIN map
    <3>1. call' = Ready /\ items' = items /\ index' = index
      BY <2>2 DEF Inserted, Return, heapVars
    <3> QED BY <2>2, <3>1 DEF Ready, TimeOf
  <2> QED BY <2>1, <2>2
<1>7. ASSUME NEW x \in DOMAIN map \cup {k}
      PROVE  Deadline(x)' = IF x = k THEN ts ELSE Deadline(x)
  <2>1. Deadline(x)' = items'[index'[map'[x]]].ts
    BY <1>6, DeadlineNext
  <2>2. CASE x = k
    <3>1. k \in DOMAIN map => idx # map[k]
      BY <1>3 DEF Linked
    <3>2. items'[index'[idx]].ts = ts
      BY <3>1, <1>3, <1>6
    <3> QED BY <2>1, <2>2, <3>2, <1>5
  <2>3. CASE x # k
    <3>1. x \in DOMAIN map /\ map'[x] = map[x] /\ map[x] \in DOMAIN index
      BY <2>3, <1>3, <1>5 DEF Linked
    <3>2. k \in DOMAIN map => map[x] # map[k]
      BY <2>3, <3>1, <1>3 DEF Linked
    <3>3. items'[index'[map[x]]].ts = TimeOf(map[x])
      BY <3>1, <3>2, <1>6
    <3>4. Deadline(x) = TimeOf(map[x])
      BY <1>1, DeadlineNow
    <3> QED BY <2>1, <2>3, <3>1, <3>3, <3>4
  <2> QED BY <2>2, <2>3
<1>8. DeadlineOf' = With(k, ts)
  BY <1>5, <1>7 DEF DeadlineOf, With
<1> QED BY <1>1, <1>2, <1>4, <1>8

LEMMA EffectStored ==
    ASSUME Inv, Stored
    PROVE  /\ call.key \in Key /\ call.key \in DOMAIN map
           /\ call.name \in Names
           /\ \E ts \in Time :
                  DeadlineOf' = With(call.key, Later(ts, Deadline(call.key), call.name))
           /\ last' = <<call.name>>
<1> DEFINE k == call.key
           idx == call.idx
<1>1. /\ call.part = "store" /\ Settled /\ map' = Put(map, k, idx)
      /\ items' = items /\ index' = index /\ call' = Ready /\ last' = <<call.name>>
  BY DEF Stored, Return, heapVars
<1>2. k \in Key /\ call.name \in Names
  BY <1>1, CallType DEF Inv
<1>3. /\ k \in DOMAIN map
      /\ \E ts \in Time : items[index[idx]].ts = Later(ts, call.old_ts, call.name)
  BY <1>1 DEF Inv, Entries
<1>4. PICK ts \in Time : items[index[idx]].ts = Later(ts, call.old_ts, call.name)
  BY <1>3
<1>5. /\ DOMAIN map' = DOMAIN map \cup {k} /\ map'[k] = idx
      /\ \A j \in DOMAIN map : j # k => map'[j] = map[j]
  BY <1>1 DEF Put
<1>6. Deadline(k) = call.old_ts
  BY <1>1, DeadlineNow
<1> DEFINE new == Later(ts, Deadline(k), call.name)
<1>7. ASSUME NEW x \in DOMAIN map \cup {k}
      PROVE  Deadline(x)' = IF x = k THEN new ELSE Deadline(x)
  <2>1. Deadline(x)' = items[index[map'[x]]].ts
    BY <1>1, DeadlineNext DEF Ready
  <2>2. CASE x = k
    BY <2>1, <2>2, <1>4, <1>5, <1>6
  <2>3. CASE x # k
    <3>1. Deadline(x) = items[index[map[x]]].ts
      BY <2>3, <1>1, DeadlineNow DEF TimeOf
    <3> QED BY <2>1, <2>3, <3>1, <1>5
  <2> QED BY <2>2, <2>3
<1>8. DeadlineOf' = With(k, new)
  BY <1>5, <1>7 DEF DeadlineOf, With
<1> QED BY <1>1, <1>2, <1>3, <1>8

LEMMA EffectPopped ==
    ASSUME Inv, Popped
    PROVE  \E k \in DOMAIN map :
               /\ \A x \in DOMAIN map : Deadline(k) <= Deadline(x)
               /\ DeadlineOf' = [x \in DOMAIN map \ {k} |-> Deadline(x)]
               /\ last' = <<"pop", k, Deadline(k)>>
<1> DEFINE o == call.idx
           k == slab[o]
<1>1. /\ call.part = "pop" /\ Settled /\ map' = Drop(map, k) /\ call' = Ready
      /\ items' = items /\ index' = index /\ last' = <<"pop", k, call.ts>>
  BY DEF Popped, Return, heapVars
<1>2. /\ Linked(map, slab, DOMAIN map)
      /\ o \in DOMAIN slab /\ DOMAIN index = DOMAIN slab \ {o}
      /\ \A y \in DOMAIN index : call.ts <= items[index[y]].ts
  BY <1>1 DEF Inv, Entries
<1>3. call.ts \in Int
  BY <1>1, CallType, HeapAssumption DEF Inv
<1>4. k \in DOMAIN map /\ map[k] = o
  BY <1>2 DEF Linked
<1>5. ASSUME NEW x \in DOMAIN map, x # k
      PROVE  map[x] \in DOMAIN index /\ Deadline(x) = items[index[map[x]]].ts
  <2>1. map[x] \in DOMAIN slab /\ map[x] # o
    BY <1>2, <1>5 DEF Linked
  <2> QED BY <2>1, <1>1, <1>2, DeadlineNow DEF TimeOf
<1>6. Deadline(k) = call.ts
  BY <1>1, <1>4, DeadlineNow
<1>7. ASSUME NEW x \in DOMAIN map PROVE Deadline(k) <= Deadline(x)
  <2>1. CASE x = k
    BY <2>1, <1>3, <1>6
  <2>2. CASE x # k
    BY <2>2, <1>2, <1>5, <1>6
  <2> QED BY <2>1, <2>2
<1>8. DOMAIN map' = DOMAIN map \ {k} /\ \A x \in DOMAIN map' : map'[x] = map[x]
  BY <1>1 DEF Drop
<1>9. ASSUME NEW x \in DOMAIN map \ {k} PROVE Deadline(x)' = Deadline(x)
  <2>1. Deadline(x)' = items[index[map'[x]]].ts
    BY <1>1, DeadlineNext DEF Ready
  <2> QED BY <2>1, <1>5, <1>8
<1>10. DeadlineOf' = [x \in DOMAIN map \ {k} |-> Deadline(x)]
  BY <1>8, <1>9 DEF DeadlineOf
<1> QED BY <1>1, <1>4, <1>6, <1>7, <1>10

LEMMA EffectPopNothing ==
    ASSUME Inv, PopNothing
    PROVE  DOMAIN map = {} /\ DeadlineOf' = DeadlineOf /\ last' = <<"pop">>
<1>1. /\ call = Ready /\ items = <<>> /\ last' = <<"pop">>
      /\ UNCHANGED <<items, index, map, call>>
  BY DEF PopNothing, heapVars
<1>2. /\ Linked(map, slab, DOMAIN map) /\ DOMAIN index = DOMAIN slab
      /\ Exact(items, index)
  BY <1>1 DEF Inv, Entries, Ready, Heap
<1>3. DOMAIN index = {}
  BY <1>1, <1>2 DEF Exact
<1>4. DOMAIN map = {}
  BY <1>2, <1>3 DEF Linked
<1>5. DeadlineOf' = DeadlineOf
  BY <1>1 DEF DeadlineOf, Deadline, TimeOf
<1> QED BY <1>1, <1>4, <1>5

LEMMA RefinesInit == Init => Deadlines!Init
<1> SUFFICES ASSUME Init PROVE Deadlines!Init
  OBVIOUS
<1>1. DOMAIN map = {} /\ last = <<"new">>
  BY DEF Init
<1>2. [k \in DOMAIN map |-> Deadline(k)] = [k \in {} |-> 0]
  BY <1>1
<1> QED BY <1>1, <1>2 DEF Deadlines!Init

LEMMA RefinesNext == Inv /\ [Next]_vars => [Deadlines!Next]_(Deadlines!vars)
<1> SUFFICES ASSUME Inv, [Next]_vars PROVE [Deadlines!Next]_(Deadlines!vars)
  OBVIOUS
<1> DEFINE Goal == [Deadlines!Next]_(Deadlines!vars)
<1>1. ASSUME DeadlineOf' = DeadlineOf, last' = last PROVE Goal
  BY <1>1 DEF Deadlines!vars, DeadlineOf
<1>2. ASSUME NEW k \in Key, NEW ts \in Time, Insert(k, ts) PROVE Goal
  BY <1>1, <1>2, QuietInsert
<1>3. ASSUME NEW k \in Key, NEW ts \in Time,
             NEW name \in {"update", "update_if_smaller"}, Update(k, ts, name)
      PROVE  Goal
  BY <1>1, <1>3, QuietUpdate DEF Names
<1>4. ASSUME Inserted PROVE Goal
  <2>1. PICK ts \in Time : DeadlineOf' = With(call.key, ts)
    BY <1>4, EffectInsert
  <2>2. call.key \in Key /\ last' = <<"insert">>
    BY <1>4, EffectInsert
  <2>3. Deadlines!Insert(call.key, ts)
    BY <2>1, <2>2 DEF Deadlines!Insert, Deadlines!With, Deadlines!Present, DeadlineOf, With
  <2> QED BY <2>2, <2>3 DEF Deadlines!Next
<1>5. ASSUME Stored PROVE Goal
  <2> DEFINE k == call.key
  <2>1. PICK ts \in Time :
          DeadlineOf' = With(k, Later(ts, Deadline(k), call.name))
    BY <1>5, EffectStored
  <2>2. /\ k \in Key /\ k \in DOMAIN map /\ last' = <<call.name>>
        /\ call.name \in Names
    BY <1>5, EffectStored
  <2>3. CASE call.name = "update"
    <3>1. DeadlineOf' = With(k, ts)
      BY <2>1, <2>3 DEF Later
    <3>2. Deadlines!Update(k, ts)
      BY <2>2, <2>3, <3>1 DEF Deadlines!Update, Deadlines!With, Deadlines!Present, DeadlineOf, With
    <3> QED BY <2>2, <3>2 DEF Deadlines!Next
  <2>4. CASE call.name = "update_if_smaller"
    <3> DEFINE d == Deadline(k)
    <3>1. d \in Int /\ ts \in Int
      <4>1. call.part = "store"
        BY <1>5 DEF Stored
      <4>2. d = call.old_ts /\ call.old_ts \in Time
        BY <4>1, DeadlineNow, CallType DEF Inv
      <4> QED BY <4>2, HeapAssumption
    <3>2. Later(ts, d, call.name) = IF d < ts THEN ts ELSE d
      BY <2>4, <3>1 DEF Later
    <3>3. DeadlineOf' = With(k, IF d < ts THEN ts ELSE d)
      BY <2>1, <3>2
    <3>4. Deadlines!UpdateIfSmaller(k, ts)
      BY <2>2, <2>4, <3>3
      DEF Deadlines!UpdateIfSmaller, Deadlines!With, Deadlines!Present, DeadlineOf, With
    <3> QED BY <2>2, <3>4 DEF Deadlines!Next
  <2> QED BY <2>2, <2>3, <2>4 DEF Names
<1>6. ASSUME Popped PROVE Goal
  <2>1. PICK k \in DOMAIN map :
          /\ \A x \in DOMAIN map : Deadline(k) <= Deadline(x)
          /\ DeadlineOf' = [x \in DOMAIN map \ {k} |-> Deadline(x)]
          /\ last' = <<"pop", k, Deadline(k)>>
    BY <1>6, EffectPopped
  <2>2. Deadlines!Pop
    BY <2>1 DEF Deadlines!Pop, Deadlines!Present, DeadlineOf
  <2> QED BY <2>2 DEF Deadlines!Next
<1>7. ASSUME PopNothing PROVE Goal
  <2>1. Deadlines!PopNothing
    BY <1>7, EffectPopNothing DEF Deadlines!PopNothing, Deadlines!Present, DeadlineOf
  <2> QED BY <2>1 DEF Deadlines!Next
<1>8. ASSUME Replaced PROVE Goal
  BY <1>1, <1>8, QuietReplaced
<1>9. ASSUME Discarded PROVE Goal
  BY <1>1, <1>9, QuietDiscarded
<1>10. ASSUME Pop PROVE Goal
  BY <1>1, <1>10, QuietPop
<1>11. ASSUME PercolateUp \/ PercolateDown PROVE Goal
  BY <1>1, <1>11, QuietRound
<1>12. ASSUME UNCHANGED vars PROVE Goal
  <2>1. DeadlineOf' = DeadlineOf /\ last' = last
    BY <1>12 DEF vars, DeadlineOf, Deadline, TimeOf
  <2> QED BY <2>1, <1>1
<1> HIDE DEF Goal
<1>13. Goal
  BY <1>2, <1>3, <1>4, <1>5, <1>6, <1>7, <1>8, <1>9, <1>10, <1>11, <1>12 DEF Next
<1> QED BY <1>13 DEF Goal

\* HeapMap implements DeadlineMap: a call of insert, update, update_if_smaller or
\* pop changes the deadlines once, as the call of that name should, and pop hands
\* out a key with a least deadline, whatever calls came before.
THEOREM Refinement == Spec => ImplementsDeadlineMap
BY RefinesInit, RefinesNext, Invariance, PTL
DEF Spec, ImplementsDeadlineMap, Deadlines!Spec
===========================================================================
