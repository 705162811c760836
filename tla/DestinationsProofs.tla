------------------------- MODULE DestinationsProofs -------------------------
(***************************************************************************)
(* Proofs about Destinations, for any destinations, requests, sizes of the *)
(* queues and numbers of reloads.                                          *)
(*                                                                         *)
(* A request has one place: the codec's state says whether it waits in a   *)
(* queue, is on a wire, or is done with, and the queues and wires hold it  *)
(* accordingly, once and in one pool.  From this follow that it is         *)
(* answered once, and that the gauges, which are only ever counted up and  *)
(* down, count what there is and never fall below zero.                    *)
(***************************************************************************)
EXTENDS Destinations, FiniteSetTheorems, SequenceTheorems, TLAPS

---------------------------------------------------------------------------
(***************************************************************************)
(* Sequences without repetition, and the set of what is in them.           *)
(***************************************************************************)

Distinct(q) == \A i, j \in 1 .. Len(q) : q[i] = q[j] => i = j

LEMMA RangeIs ==
    ASSUME NEW S, NEW q \in Seq(S)
    PROVE  /\ \A x : x \in Range(q) <=> \E i \in 1 .. Len(q) : x = q[i]
           /\ Range(q) \subseteq S
           /\ Len(q) \in Nat
<1>1. DOMAIN q = 1 .. Len(q) /\ Len(q) \in Nat OBVIOUS
<1>2. \A i \in 1 .. Len(q) : q[i] \in S OBVIOUS
<1> QED BY <1>1, <1>2 DEF Range

LEMMA NoneIn ==
    ASSUME NEW S
    PROVE  /\ <<>> \in Seq(S) /\ Range(<<>>) = {} /\ Distinct(<<>>)
           /\ \A q \in Seq(S) : q # <<>> => Range(q) # {}
<1>1. <<>> \in Seq(S) /\ Len(<<>>) = 0 /\ 1 .. 0 = {} OBVIOUS
<1>2. Range(<<>>) = {} BY <1>1, RangeIs
<1>3. ASSUME NEW q \in Seq(S), q # <<>> PROVE Range(q) # {}
  <2>1. 1 \in 1 .. Len(q) BY <1>3
  <2> QED BY <2>1, RangeIs
<1> QED BY <1>1, <1>2, <1>3 DEF Distinct

LEMMA Taken1 ==
    ASSUME NEW S, NEW q \in Seq(S), q # <<>>, Distinct(q)
    PROVE  /\ Head(q) \in Range(q) /\ Head(q) \in S
           /\ Tail(q) \in Seq(S) /\ Distinct(Tail(q))
           /\ Range(Tail(q)) = Range(q) \ {Head(q)}
<1> DEFINE t == Tail(q)  h == Head(q)
<1>1. /\ t \in Seq(S) /\ h \in S /\ h = q[1] /\ 1 \in 1 .. Len(q)
      /\ Len(q) \in Nat /\ Len(t) = Len(q) - 1
      /\ \A i \in 1 .. Len(t) : i + 1 \in 1 .. Len(q) /\ t[i] = q[i + 1]
    OBVIOUS
<1>2. \A i \in 1 .. Len(q) : i = 1 \/ (i - 1 \in 1 .. Len(t) /\ t[i - 1] = q[i])
    BY <1>1
<1> HIDE DEF t, h
<1>3. Distinct(t)
  <2>1. ASSUME NEW i \in 1 .. Len(t), NEW j \in 1 .. Len(t), t[i] = t[j]
        PROVE  i = j
    <3>1. i + 1 = j + 1 BY <1>1, <2>1 DEF Distinct
    <3>2. i \in Int /\ j \in Int OBVIOUS
    <3> QED BY <3>1, <3>2
  <2> QED BY <2>1 DEF Distinct
<1>4. h \in Range(q) BY <1>1, RangeIs
<1>5. ASSUME NEW x PROVE x \in Range(t) <=> x \in Range(q) /\ x # h
  <2>1. ASSUME x \in Range(t) PROVE x \in Range(q) /\ x # h
    <3>1. PICK i \in 1 .. Len(t) : x = t[i] BY <1>1, <2>1, RangeIs
    <3>2. x = q[i + 1] /\ i + 1 \in 1 .. Len(q) /\ i + 1 # 1 BY <1>1, <3>1
    <3>3. x \in Range(q) BY <3>2, RangeIs
    <3>4. x # q[1] BY <1>1, <3>2 DEF Distinct
    <3> QED BY <1>1, <3>3, <3>4
  <2>2. ASSUME x \in Range(q), x # h PROVE x \in Range(t)
    <3>1. PICK i \in 1 .. Len(q) : x = q[i] BY <2>2, RangeIs
    <3>2. i - 1 \in 1 .. Len(t) /\ x = t[i - 1] BY <1>1, <1>2, <2>2, <3>1
    <3> QED BY <1>1, <3>2, RangeIs
  <2> QED BY <2>1, <2>2
<1>6. Range(t) = Range(q) \ {h} BY <1>5
<1> QED BY <1>1, <1>3, <1>4, <1>6 DEF t, h

LEMMA Added1 ==
    ASSUME NEW S, NEW q \in Seq(S), NEW x \in S, Distinct(q), x \notin Range(q)
    PROVE  /\ Append(q, x) \in Seq(S) /\ Distinct(Append(q, x))
           /\ Range(Append(q, x)) = Range(q) \cup {x}
<1> DEFINE a == Append(q, x)
<1>1. /\ a \in Seq(S) /\ Len(q) \in Nat /\ Len(a) = Len(q) + 1
      /\ \A i \in 1 .. Len(q) : a[i] = q[i]
      /\ a[Len(q) + 1] = x
    OBVIOUS
<1> HIDE DEF a
<1>2. \A i \in 1 .. Len(a) : i \in Nat /\ (i \in 1 .. Len(q) \/ i = Len(q) + 1)
    BY <1>1
<1>3. \A i \in 1 .. Len(q) : q[i] # x BY RangeIs
<1>4. Distinct(a)
  <2>1. ASSUME NEW i \in 1 .. Len(a), NEW j \in 1 .. Len(a), a[i] = a[j]
        PROVE  i = j
    <3>1. i \in 1 .. Len(q) <=> j \in 1 .. Len(q) BY <1>1, <1>2, <1>3, <2>1
    <3> QED BY <1>1, <1>2, <2>1, <3>1 DEF Distinct
  <2> QED BY <2>1 DEF Distinct
<1>5. ASSUME NEW y PROVE y \in Range(a) <=> y \in Range(q) \/ y = x
  <2>1. y \in Range(a) <=> \E i \in 1 .. Len(a) : y = a[i] BY <1>1, RangeIs
  <2>2. y \in Range(q) <=> \E i \in 1 .. Len(q) : y = q[i] BY RangeIs
  <2>3. \A i \in 1 .. Len(q) : i \in 1 .. Len(a) BY <1>1
  <2>4. Len(q) + 1 \in 1 .. Len(a) BY <1>1
  <2> QED BY <1>1, <1>2, <2>1, <2>2, <2>3, <2>4
<1>6. Range(a) = Range(q) \cup {x} BY <1>5
<1> QED BY <1>1, <1>4, <1>6 DEF a

LEMMA Joined ==
    ASSUME NEW S, NEW q \in Seq(S), NEW m \in Seq(S), Distinct(q), Distinct(m),
           Range(q) \cap Range(m) = {}
    PROVE  /\ q \o m \in Seq(S) /\ Distinct(q \o m)
           /\ Range(q \o m) = Range(q) \cup Range(m)
<1> DEFINE a == q \o m
<1>1. /\ a \in Seq(S) /\ Len(q) \in Nat /\ Len(m) \in Nat
      /\ Len(a) = Len(q) + Len(m)
      /\ \A i \in 1 .. Len(q) : a[i] = q[i]
      /\ \A i \in 1 .. Len(m) : a[Len(q) + i] = m[i]
      /\ \A i \in 1 .. Len(a) :
            \/ i \in 1 .. Len(q) /\ a[i] = q[i]
            \/ i - Len(q) \in 1 .. Len(m) /\ a[i] = m[i - Len(q)]
    OBVIOUS
<1> HIDE DEF a
<1>2. \A i \in 1 .. Len(q), j \in 1 .. Len(m) : q[i] # m[j] BY RangeIs
<1>3. ASSUME NEW i \in 1 .. Len(a), NEW j \in 1 .. Len(a), a[i] = a[j]
      PROVE  i = j
  <2>1. CASE i \in 1 .. Len(q) /\ a[i] = q[i]
    <3>1. j \in 1 .. Len(q) /\ a[j] = q[j] BY <1>1, <1>2, <1>3, <2>1
    <3> QED BY <1>3, <2>1, <3>1 DEF Distinct
  <2>2. CASE i - Len(q) \in 1 .. Len(m) /\ a[i] = m[i - Len(q)]
    <3>1. j - Len(q) \in 1 .. Len(m) /\ a[j] = m[j - Len(q)]
        BY <1>1, <1>2, <1>3, <2>2
    <3>2. i - Len(q) = j - Len(q) BY <1>3, <2>2, <3>1 DEF Distinct
    <3>3. i \in Int /\ j \in Int OBVIOUS
    <3> QED BY <1>1, <3>2, <3>3
  <2> QED BY <1>1, <2>1, <2>2
<1>4. ASSUME NEW y PROVE y \in Range(a) <=> y \in Range(q) \/ y \in Range(m)
  <2>1. y \in Range(a) <=> \E i \in 1 .. Len(a) : y = a[i] BY <1>1, RangeIs
  <2>2. y \in Range(q) <=> \E i \in 1 .. Len(q) : y = q[i] BY RangeIs
  <2>3. y \in Range(m) <=> \E i \in 1 .. Len(m) : y = m[i] BY RangeIs
  <2>4. \A i \in 1 .. Len(q) : i \in 1 .. Len(a) BY <1>1
  <2>5. \A i \in 1 .. Len(m) : Len(q) + i \in 1 .. Len(a) BY <1>1
  <2> QED BY <1>1, <2>1, <2>2, <2>3, <2>4, <2>5
<1>5. Range(a) = Range(q) \cup Range(m) BY <1>4
<1> QED BY <1>1, <1>3, <1>5 DEF a, Distinct

\* A finite set in some order
LEMMA Ordered ==
    ASSUME NEW S, IsFiniteSet(S)
    PROVE  /\ SetToSeq(S) \in Seq(S) /\ Distinct(SetToSeq(S))
           /\ Range(SetToSeq(S)) = S
<1> DEFINE D == 1 .. Cardinality(S)  f == SetToSeq(S)
<1>1. Cardinality(S) \in Nat /\ ExistsBijection(D, S) BY FS_CardinalityType
<1>2. \E g \in [D -> S] : IsInjective(g)
    BY <1>1 DEF ExistsBijection, Bijection, Injection
<1>3. f \in [D -> S] /\ IsInjective(f) BY <1>2 DEF SetToSeq
<1>4. IsFiniteSet(D) /\ Cardinality(D) = Cardinality(S)
  <2>1. /\ 1 \in Int /\ Cardinality(S) \in Int
        /\ IF 1 > Cardinality(S) THEN Cardinality(S) = 0
           ELSE Cardinality(S) - 1 + 1 = Cardinality(S)
      BY <1>1
  <2> QED BY <2>1, FS_Interval
<1>5. f \in Injection(D, S) BY <1>3 DEF Injection
<1> HIDE DEF f
<1>6. f \in Surjection(D, S)
  <2> HIDE DEF D
  <2> QED BY <1>4, <1>5, FS_Injection
<1>7. f \in Seq(S) /\ Len(f) = Cardinality(S)
  <2>1. f \in Seq(S) BY <1>1, <1>3, SeqDef
  <2>2. DOMAIN f = 1 .. Len(f) /\ Len(f) \in Nat BY <2>1
  <2>3. DOMAIN f = D BY <1>3
  <2> QED BY <1>1, <2>1, <2>2, <2>3, LenProperties
<1>8. Distinct(f) BY <1>3, <1>7 DEF IsInjective, Distinct
<1>9. Range(f) = S BY <1>3, <1>6 DEF Surjection, Range
<1> QED BY <1>7, <1>8, <1>9 DEF f

---------------------------------------------------------------------------
(***************************************************************************)
(* The invariant.                                                          *)
(***************************************************************************)

Busy == {"Wait", "HeadersOk", "HeadersBad"}

\* A request is in one place of one pool, and its codec says in which.
PlaceOK ==
    /\ \A p \in Pools : Distinct(queue[p]) /\ Distinct(wire[p])
    /\ \A p, o \in Pools, r \in Requests :
        /\ r \in Range(queue[p]) /\ r \in Range(queue[o]) => p = o
        /\ r \in Range(wire[p]) /\ r \in Range(wire[o]) => p = o
    /\ \A r \in Requests : /\ codec[r] = "Init" <=> r \in Queued
                           /\ codec[r] \in Busy <=> r \in Sent

\* Only a connection that is up carries requests.
WireOK == \A p \in Pools : wire[p] # <<>> => link[p] = "up"

CodecOK(r) ==
    /\ codec[r] \in {"None", "Body"} => r \notin accepted /\ answers[r] = <<>>
    /\ codec[r] \in {"Init"} \cup Busy => r \in accepted /\ answers[r] = <<>>
    /\ codec[r] \in {"Void", "Dropped"} /\ r \in accepted \ Notices =>
            Len(answers[r]) = 1

CodecInv == \A r \in Requests : CodecOK(r)

\* A pool is made at most once for every reload, and a destination nothing
\* happened to has its pool.
TableOK(d) ==
    /\ plain[d] <= made[d]
    /\ made[d] + (IF notice THEN 1 ELSE 0) <= reloads + 1
    /\ d \notin touched =>
        d \in config /\ plain[d] # 0 /\ <<d, plain[d]>> \notin stopping

TableInv ==
    /\ \A d \in Dests : TableOK(d)
    /\ \A p \in stopping : p[2] <= made[p[1]]

\* The Context of a waiting request has its destination, if nothing happened
\* to that.
SeenOK ==
    \A r \in Proxied : codec[r] = "Body" /\ Dest(r) \notin touched => seen[r]

Inv ==
    /\ TypeOK /\ PlaceOK /\ WireOK /\ CodecInv /\ TableInv /\ SeenOK
    /\ GaugesCount /\ UndisturbedByReload

LEMMA DestIn ==
    ASSUME NEW r \in Requests
    PROVE  Dest(r) \in Dests
<1>1. Range(Handlers) \subseteq Dests BY RangeIs, DestinationAssumption
<1> QED BY <1>1, DestinationAssumption DEF Dest, Requests, Notices

LEMMA AllFinite ==
    /\ IsFiniteSet(Pools) /\ \A S \in SUBSET Pools : IsFiniteSet(S)
    /\ IsFiniteSet(Requests) /\ \A S \in SUBSET Requests : IsFiniteSet(S)
    /\ \A S : IsFiniteSet(S) => Cardinality(S) \in Nat
<1>1. IsFiniteSet(Pools)
  <2>1. IsFiniteSet(1 .. MaxReloads + 1)
    <3>1. 1 \in Int /\ MaxReloads + 1 \in Int BY DestinationAssumption
    <3> QED BY <3>1, FS_Interval
  <2> QED BY <2>1, FS_Product, DestinationAssumption DEF Pools
<1>2. IsFiniteSet(Requests)
  <2>1. Range(Handlers) \in SUBSET Dests BY RangeIs, DestinationAssumption
  <2>2. IsFiniteSet(Range(Handlers)) BY <2>1, FS_Subset, DestinationAssumption
  <2>3. IsFiniteSet(Notices)
      BY <2>2, FS_Product, DestinationAssumption DEF Notices
  <2>4. IsFiniteSet(Calls \cup Proxied) BY FS_Union, DestinationAssumption
  <2> QED BY <2>3, <2>4, FS_Union DEF Requests
<1> QED BY <1>1, <1>2, FS_Subset, FS_CardinalityType

\* One more and one less
LEMMA Counting ==
    ASSUME NEW S, IsFiniteSet(S), NEW x
    PROVE  /\ Cardinality(S) \in Nat
           /\ x \notin S => Cardinality(S \cup {x}) = Cardinality(S) + 1
           /\ x \in S => /\ Cardinality(S \ {x}) = Cardinality(S) - 1
                         /\ Cardinality(S) > 0
<1>1. Cardinality(S) \in Nat BY FS_CardinalityType
<1>2. x \notin S => Cardinality(S \cup {x}) = Cardinality(S) + 1
    BY FS_AddElement
<1>3. x \in S => Cardinality(S \ {x}) = Cardinality(S) - 1
    BY FS_RemoveElement
<1>4. x \in S => Cardinality(S) # 0 BY FS_EmptySet
<1> QED BY <1>1, <1>2, <1>3, <1>4

LEMMA CountingSets ==
    ASSUME NEW S, IsFiniteSet(S), NEW T, IsFiniteSet(T), S \cap T = {}
    PROVE  /\ Cardinality(S \cup T) = Cardinality(S) + Cardinality(T)
           /\ Cardinality(S) \in Nat /\ Cardinality(T) \in Nat
<1>1. Cardinality(S) \in Nat /\ Cardinality(T) \in Nat BY FS_CardinalityType
<1>2. Cardinality(S \cup T) =
        Cardinality(S) + Cardinality(T) - Cardinality(S \cap T)
    BY FS_Union
<1>3. Cardinality(S \cap T) = 0 BY FS_EmptySet
<1> QED BY <1>1, <1>2, <1>3

---------------------------------------------------------------------------
(***************************************************************************)
(* The parts of the invariant, and what leaves them alone.                 *)
(***************************************************************************)

At(s) == {p \in Pools : link[p] = s}
LinksCounted ==
    /\ gauges["CONNECTING"] = Cardinality(At("connecting"))
    /\ gauges["CONNECTED"] = Cardinality(At("up"))
    /\ gauges["BLACKLISTED"] = Cardinality(At("black"))
QueueCounted == gauges["REQUEST_QUEUE"] = Cardinality(Queued)
Open == {p \in Pools : p[2] <= made[p[1]]} \ closed
PoolsCounted == gauges["POOLS"] = Cardinality(Open)

\* The addresses in a state are those of open and of closed pools.
LEMMA AddressesSplit ==
    \A s : /\ Cardinality(At(s)) =
                Cardinality(Present(s)) + Cardinality(LeftBehind(s))
           /\ Cardinality(At(s)') =
                Cardinality(Present(s)') + Cardinality(LeftBehind(s)')
<1> SUFFICES ASSUME NEW s
             PROVE  /\ Cardinality(At(s)) =
                        Cardinality(Present(s)) + Cardinality(LeftBehind(s))
                    /\ Cardinality(At(s)') =
                        Cardinality(Present(s)') + Cardinality(LeftBehind(s)')
    OBVIOUS
<1>1. /\ At(s) = Present(s) \cup LeftBehind(s)
      /\ Present(s) \cap LeftBehind(s) = {}
      /\ Present(s) \in SUBSET Pools /\ LeftBehind(s) \in SUBSET Pools
    BY DEF At, Present, LeftBehind
<1>2. /\ At(s)' = Present(s)' \cup LeftBehind(s)'
      /\ Present(s)' \cap LeftBehind(s)' = {}
      /\ Present(s)' \in SUBSET Pools /\ LeftBehind(s)' \in SUBSET Pools
    BY DEF At, Present, LeftBehind
<1>3. /\ IsFiniteSet(Present(s)) /\ IsFiniteSet(LeftBehind(s))
      /\ IsFiniteSet(Present(s)') /\ IsFiniteSet(LeftBehind(s)')
    BY <1>1, <1>2, AllFinite
<1>4. Cardinality(At(s)) = Cardinality(Present(s)) + Cardinality(LeftBehind(s))
    BY <1>1, <1>3, CountingSets
<1>5. Cardinality(At(s)') =
        Cardinality(Present(s)') + Cardinality(LeftBehind(s)')
    BY <1>2, <1>3, CountingSets
<1> QED BY <1>4, <1>5

LEMMA GaugeParts ==
    /\ GaugesCount <=> LinksCounted /\ QueueCounted /\ PoolsCounted
    /\ GaugesCount' <=> LinksCounted' /\ QueueCounted' /\ PoolsCounted'
<1>1. GaugesCount <=> LinksCounted /\ QueueCounted /\ PoolsCounted
    BY AddressesSplit
    DEF GaugesCount, LinksCounted, QueueCounted, PoolsCounted, Open
<1>2. GaugesCount' <=> LinksCounted' /\ QueueCounted' /\ PoolsCounted'
    BY AddressesSplit
    DEF GaugesCount, LinksCounted, QueueCounted, PoolsCounted, Open
<1> QED BY <1>1, <1>2

\* What is counted is at least zero.
LEMMA GaugesTyped ==
    ASSUME GaugesCount', gauges' = [g \in Gauges |-> gauges'[g]]
    PROVE  gauges' \in [Gauges -> Nat]
<1>1. /\ At("connecting")' \in SUBSET Pools /\ At("up")' \in SUBSET Pools
      /\ At("black")' \in SUBSET Pools /\ Open' \in SUBSET Pools
      /\ Queued' \in SUBSET Requests
    BY DEF At, Open, Queued
<1>2. /\ Cardinality(At("connecting")') \in Nat
      /\ Cardinality(At("up")') \in Nat /\ Cardinality(At("black")') \in Nat
      /\ Cardinality(Open') \in Nat /\ Cardinality(Queued') \in Nat
    BY <1>1, AllFinite
<1>3. \A g \in Gauges : gauges'[g] \in Nat
    BY <1>2, GaugeParts DEF LinksCounted, QueueCounted, PoolsCounted, Gauges
<1> QED BY <1>3

LEMMA Frames ==
    ASSUME Inv
    PROVE  /\ UNCHANGED <<queue, wire, codec>> => PlaceOK'
           /\ UNCHANGED <<wire, link>> => WireOK'
           /\ UNCHANGED <<codec, answers, accepted>> => CodecInv'
           /\ UNCHANGED <<config, notice, touched, reloads, plain, made,
                          stopping>> => TableInv'
           /\ UNCHANGED <<codec, touched, seen>> => SeenOK'
           /\ UNCHANGED <<answers, touched>> => UndisturbedByReload'
           /\ UNCHANGED link /\
                (\A g \in {"CONNECTING", "CONNECTED", "BLACKLISTED"} :
                    gauges'[g] = gauges[g]) => LinksCounted'
           /\ UNCHANGED queue /\ gauges'["REQUEST_QUEUE"] =
                gauges["REQUEST_QUEUE"] => QueueCounted'
           /\ UNCHANGED <<made, closed>> /\ gauges'["POOLS"] = gauges["POOLS"]
                => PoolsCounted'
<1>1. UNCHANGED <<queue, wire, codec>> => PlaceOK'
    BY DEF Inv, PlaceOK, Queued, Sent
<1>2. UNCHANGED <<wire, link>> => WireOK' BY DEF Inv, WireOK
<1>3. UNCHANGED <<codec, answers, accepted>> => CodecInv'
    BY DEF Inv, CodecInv, CodecOK
<1>4. UNCHANGED <<config, notice, touched, reloads, plain, made, stopping>>
        => TableInv'
    BY DEF Inv, TableInv, TableOK
<1>5. UNCHANGED <<codec, touched, seen>> => SeenOK' BY DEF Inv, SeenOK
<1>6. UNCHANGED <<answers, touched>> => UndisturbedByReload'
    BY DEF Inv, UndisturbedByReload
<1>7. LinksCounted /\ QueueCounted /\ PoolsCounted BY GaugeParts DEF Inv
<1>8. UNCHANGED link /\
        (\A g \in {"CONNECTING", "CONNECTED", "BLACKLISTED"} :
            gauges'[g] = gauges[g]) => LinksCounted'
    BY <1>7 DEF LinksCounted, At
<1>9. UNCHANGED queue /\ gauges'["REQUEST_QUEUE"] = gauges["REQUEST_QUEUE"]
        => QueueCounted'
    BY <1>7 DEF QueueCounted, Queued
<1>10. UNCHANGED <<made, closed>> /\ gauges'["POOLS"] = gauges["POOLS"]
        => PoolsCounted'
    BY <1>7 DEF PoolsCounted, Open
<1> QED BY <1>1, <1>2, <1>3, <1>4, <1>5, <1>6, <1>8, <1>9, <1>10

---------------------------------------------------------------------------
(***************************************************************************)
(* Connections of the pools.                                               *)
(***************************************************************************)

LinkState == {"idle", "connecting", "up", "black"}

\* The gauge that counts connections in a state
GaugeOf(s) == IF s = "connecting" THEN {"CONNECTING"}
              ELSE IF s = "up" THEN {"CONNECTED"}
              ELSE IF s = "black" THEN {"BLACKLISTED"} ELSE {}

LEMMA LinkMoved ==
    ASSUME TypeOK, LinksCounted, NEW p \in Pools, NEW v \in LinkState,
           link[p] # v, link' = [link EXCEPT ![p] = v],
           Counted(GaugeOf(v), GaugeOf(link[p]))
    PROVE  /\ LinksCounted'
           /\ gauges' = [g \in Gauges |-> gauges'[g]]
           /\ link' \in [Pools -> LinkState]
           /\ \A g \in {"POOLS", "REQUEST_QUEUE"} : gauges'[g] = gauges[g]
<1>1. /\ link \in [Pools -> LinkState] /\ gauges \in [Gauges -> Nat]
      /\ link[p] \in LinkState
    BY DEF TypeOK, LinkState
<1>2. \A s : IsFiniteSet(At(s))
  <2>1. \A s : At(s) \in SUBSET Pools BY DEF At
  <2> QED BY <2>1, AllFinite
<1>3. \A s : /\ s = v => At(s)' = At(s) \cup {p} /\ p \notin At(s)
             /\ s = link[p] => At(s)' = At(s) \ {p} /\ p \in At(s)
             /\ s # v /\ s # link[p] => At(s)' = At(s)
    BY <1>1 DEF At
<1>4. \A s : /\ Cardinality(At(s)) \in Nat
             /\ Cardinality(At(s)') = Cardinality(At(s)) +
                    (IF s = v THEN 1 ELSE 0) - (IF s = link[p] THEN 1 ELSE 0)
  <2> SUFFICES ASSUME NEW s
               PROVE  /\ Cardinality(At(s)) \in Nat
                      /\ Cardinality(At(s)') = Cardinality(At(s)) +
                            (IF s = v THEN 1 ELSE 0)
                                - (IF s = link[p] THEN 1 ELSE 0)
      OBVIOUS
  <2>1. /\ Cardinality(At(s)) \in Nat
        /\ p \notin At(s) =>
                Cardinality(At(s) \cup {p}) = Cardinality(At(s)) + 1
        /\ p \in At(s) => Cardinality(At(s) \ {p}) = Cardinality(At(s)) - 1
      BY <1>2, Counting
  <2>2. CASE s = v
    <3>1. At(s)' = At(s) \cup {p} /\ p \notin At(s) BY <1>3, <2>2
    <3>2. Cardinality(At(s)') = Cardinality(At(s)) + 1 BY <2>1, <3>1
    <3> QED BY <2>1, <2>2, <3>2
  <2>3. CASE s = link[p] BY <1>3, <2>1, <2>3
  <2>4. CASE s # v /\ s # link[p]
    <3>1. At(s)' = At(s) BY <1>3, <2>4
    <3> QED BY <2>1, <2>4, <3>1
  <2> QED BY <2>2, <2>3, <2>4
<1>5. \A g \in Gauges : gauges'[g] = gauges[g] +
        (IF g \in GaugeOf(v) THEN 1 ELSE 0)
            - (IF g \in GaugeOf(link[p]) THEN 1 ELSE 0)
    BY DEF Counted
<1>6. ASSUME NEW s \in {"connecting", "up", "black"}, NEW g \in Gauges,
             GaugeOf(s) = {g}, gauges[g] = Cardinality(At(s))
      PROVE  gauges'[g] = Cardinality(At(s)')
  <2>1. \A t \in LinkState : g \in GaugeOf(t) <=> t = s
      BY <1>6 DEF GaugeOf, LinkState
  <2> QED BY <1>1, <1>4, <1>5, <1>6, <2>1
<1>7. /\ GaugeOf("connecting") = {"CONNECTING"} /\ "CONNECTING" \in Gauges
      /\ GaugeOf("up") = {"CONNECTED"} /\ "CONNECTED" \in Gauges
      /\ GaugeOf("black") = {"BLACKLISTED"} /\ "BLACKLISTED" \in Gauges
    BY DEF GaugeOf, Gauges
<1>8. LinksCounted' BY <1>6, <1>7 DEF LinksCounted
<1>9. \A g \in {"POOLS", "REQUEST_QUEUE"} : gauges'[g] = gauges[g]
  <2>1. \A g \in {"POOLS", "REQUEST_QUEUE"}, t \in LinkState :
            g \in Gauges /\ g \notin GaugeOf(t)
      BY DEF GaugeOf, LinkState, Gauges
  <2> QED BY <1>1, <1>5, <2>1
<1>10. gauges' = [g \in Gauges |-> gauges'[g]] BY DEF Counted
<1>11. link' \in [Pools -> LinkState] BY <1>1
<1> QED BY <1>8, <1>9, <1>10, <1>11

LEMMA LinkStep ==
    ASSUME Inv, NEW p \in Pools, NEW v \in LinkState,
           link[p] # v, link[p] # "up", link' = [link EXCEPT ![p] = v],
           Counted(GaugeOf(v), GaugeOf(link[p])), activity' = NoActivity,
           UNCHANGED <<configVars, tableVars, queue, wire, requestVars>>
    PROVE  Inv'
<1> USE DEF configVars, tableVars, requestVars
<1>1. TypeOK /\ LinksCounted BY GaugeParts DEF Inv
<1>2. /\ LinksCounted'
      /\ gauges' = [g \in Gauges |-> gauges'[g]]
      /\ link' \in [Pools -> LinkState]
      /\ \A g \in {"POOLS", "REQUEST_QUEUE"} : gauges'[g] = gauges[g]
    BY <1>1, LinkMoved
<1>3. /\ PlaceOK' /\ CodecInv' /\ TableInv' /\ SeenOK'
      /\ UndisturbedByReload' /\ QueueCounted' /\ PoolsCounted'
    BY <1>2, Frames
<1>4. GaugesCount' BY <1>2, <1>3, GaugeParts
<1>5. TypeOK'
  <2>1. gauges' \in [Gauges -> Nat] BY <1>2, <1>4, GaugesTyped
  <2> QED BY <1>1, <1>2, <2>1 DEF TypeOK, LinkState
<1>6. WireOK'
  <2>1. link \in [Pools -> LinkState] BY <1>1 DEF TypeOK, LinkState
  <2>2. \A o \in Pools : o # p => link'[o] = link[o] BY <2>1
  <2>3. wire[p] = <<>> BY DEF Inv, WireOK
  <2> QED BY <2>2, <2>3 DEF Inv, WireOK
<1> QED BY <1>3, <1>4, <1>5, <1>6 DEF Inv

LEMMA LinkStepsKeep ==
    ASSUME Inv, NEW p \in Pools, activity' = NoActivity,
           \/ Attempt(p) \/ ConnectionAbort(p) \/ ConnectionError(p)
           \/ BlacklistRemove(p) \/ Connection(p)
    PROVE  Inv'
<1>1. /\ "idle" \in LinkState /\ "connecting" \in LinkState
      /\ "up" \in LinkState /\ "black" \in LinkState
    BY DEF LinkState
<1>2. /\ GaugeOf("idle") = {} /\ GaugeOf("connecting") = {"CONNECTING"}
      /\ GaugeOf("up") = {"CONNECTED"} /\ GaugeOf("black") = {"BLACKLISTED"}
    BY DEF GaugeOf
<1>3. CASE Attempt(p) BY <1>1, <1>2, <1>3, LinkStep DEF Attempt
<1>4. CASE ConnectionAbort(p) BY <1>1, <1>2, <1>4, LinkStep DEF ConnectionAbort
<1>5. CASE ConnectionError(p) BY <1>1, <1>2, <1>5, LinkStep DEF ConnectionError
<1>6. CASE BlacklistRemove(p) BY <1>1, <1>2, <1>6, LinkStep DEF BlacklistRemove
<1>7. CASE Connection(p)
    BY <1>1, <1>2, <1>7, LinkStep DEF Connection, Established
<1> QED BY <1>3, <1>4, <1>5, <1>6, <1>7

---------------------------------------------------------------------------
(***************************************************************************)
(* Requests on their way.                                                  *)
(***************************************************************************)

\* Where requests are
LEMMA Places ==
    ASSUME Inv
    PROVE  /\ \A p \in Pools :
                /\ queue[p] \in Seq(Requests) /\ wire[p] \in Seq(Requests)
                /\ Range(queue[p]) \subseteq Requests
                /\ Range(wire[p]) \subseteq Requests
                /\ Distinct(queue[p]) /\ Distinct(wire[p])
                /\ \A r \in Range(queue[p]) : codec[r] = "Init"
                /\ \A r \in Range(wire[p]) : codec[r] \in Busy
           /\ \A p, o \in Pools, r \in Requests :
                /\ r \in Range(queue[p]) /\ r \in Range(queue[o]) => p = o
                /\ r \in Range(wire[p]) /\ r \in Range(wire[o]) => p = o
           /\ \A r \in Requests :
                /\ codec[r] = "Init" <=> \E p \in Pools : r \in Range(queue[p])
                /\ codec[r] \in Busy <=> \E p \in Pools : r \in Range(wire[p])
<1>1. \A p \in Pools :
        /\ queue[p] \in Seq(Requests) /\ wire[p] \in Seq(Requests)
        /\ Distinct(queue[p]) /\ Distinct(wire[p])
    BY DEF Inv, TypeOK, PlaceOK
<1>2. \A p \in Pools : /\ Range(queue[p]) \subseteq Requests
                       /\ Range(wire[p]) \subseteq Requests
    BY <1>1, RangeIs
<1>3. \A r \in Requests :
        /\ codec[r] = "Init" <=> \E p \in Pools : r \in Range(queue[p])
        /\ codec[r] \in Busy <=> \E p \in Pools : r \in Range(wire[p])
    BY DEF Inv, PlaceOK, Queued, Sent
<1>4. \A p \in Pools : /\ \A r \in Range(queue[p]) : codec[r] = "Init"
                       /\ \A r \in Range(wire[p]) : codec[r] \in Busy
    BY <1>2, <1>3
<1> QED BY <1>1, <1>2, <1>3, <1>4 DEF Inv, PlaceOK

LEMMA ForwardKeeps ==
    ASSUME Inv, NEW p \in Pools, Forward(p), activity' = NoActivity
    PROVE  Inv'
<1> USE DEF configVars, tableVars
<1> DEFINE r == Head(queue[p])
           q == queue[p]
           w == wire[p]
<1>1. /\ q \in Seq(Requests) /\ q # <<>> /\ Distinct(q)
      /\ w \in Seq(Requests) /\ Distinct(w)
    BY Places DEF Forward
<1>2. /\ r \in Requests /\ r \in Range(q)
      /\ Tail(q) \in Seq(Requests) /\ Distinct(Tail(q))
      /\ Range(Tail(q)) = Range(q) \ {r}
    BY <1>1, Taken1
<1>3. codec[r] = "Init" /\ codec[r] \notin Busy BY <1>2, Places DEF Busy
<1>4. r \notin Range(w) BY <1>2, <1>3, Places
<1>5. /\ Append(w, r) \in Seq(Requests) /\ Distinct(Append(w, r))
      /\ Range(Append(w, r)) = Range(w) \cup {r}
    BY <1>1, <1>2, <1>4, Added1
<1>6. /\ queue' = [queue EXCEPT ![p] = Tail(q)]
      /\ wire' = [wire EXCEPT ![p] = Append(w, r)]
      /\ codec' = [codec EXCEPT ![r] = "Wait"]
      /\ Counted({}, {"REQUEST_QUEUE"}) /\ link[p] = "up"
      /\ UNCHANGED <<configVars, tableVars, link, answers, seen, lenient,
                     accepted>>
    BY DEF Forward
<1>7. /\ TypeOK /\ queue \in [Pools -> Seq(Requests)]
      /\ wire \in [Pools -> Seq(Requests)] /\ codec \in [Requests -> CodecStates]
      /\ gauges \in [Gauges -> Nat]
    BY DEF Inv, TypeOK
<1> HIDE DEF r, q, w
<1>8. \A o \in Pools :
        /\ queue'[o] = IF o = p THEN Tail(q) ELSE queue[o]
        /\ wire'[o] = IF o = p THEN Append(w, r) ELSE wire[o]
    BY <1>6, <1>7
<1>9. \A s \in Requests : codec'[s] = IF s = r THEN "Wait" ELSE codec[s]
    BY <1>6, <1>7
<1>10. \A o \in Pools, s \in Requests :
        /\ s \in Range(queue'[o]) <=> s \in Range(queue[o]) /\ s # r
        /\ s \in Range(wire'[o]) <=>
                s \in Range(wire[o]) \/ (o = p /\ s = r)
  <2>1. \A o \in Pools : r \in Range(queue[o]) => o = p
      BY <1>2, Places DEF q
  <2> QED BY <1>2, <1>5, <1>8, <2>1 DEF q, w
<1>11. PlaceOK'
  <2>1. \A o \in Pools : Distinct(queue'[o]) /\ Distinct(wire'[o])
      BY <1>2, <1>5, <1>8, Places
  <2>2. \A o \in Pools : r \notin Range(wire[o]) BY <1>2, <1>3, Places
  <2>3. \A o, u \in Pools, s \in Requests :
            /\ s \in Range(queue'[o]) /\ s \in Range(queue'[u]) => o = u
            /\ s \in Range(wire'[o]) /\ s \in Range(wire'[u]) => o = u
      BY <1>10, <2>2, Places
  <2>4. \A s \in Requests :
            /\ codec'[s] = "Init" <=> \E o \in Pools : s \in Range(queue'[o])
            /\ codec'[s] \in Busy <=> \E o \in Pools : s \in Range(wire'[o])
    <3> SUFFICES ASSUME NEW s \in Requests
                 PROVE  /\ codec'[s] = "Init" <=>
                                \E o \in Pools : s \in Range(queue'[o])
                        /\ codec'[s] \in Busy <=>
                                \E o \in Pools : s \in Range(wire'[o])
        OBVIOUS
    <3>1. CASE s = r
      <4>1. codec'[s] = "Wait" /\ "Wait" \in Busy BY <1>9, <3>1 DEF Busy
      <4>2. /\ \A o \in Pools : s \notin Range(queue'[o])
            /\ s \in Range(wire'[p])
          BY <1>10, <3>1
      <4> QED BY <4>1, <4>2
    <3>2. CASE s # r
        BY <1>9, <1>10, <3>2, Places
    <3> QED BY <3>1, <3>2
  <2> QED BY <2>1, <2>3, <2>4 DEF PlaceOK, Queued, Sent
<1>12. WireOK'
    BY <1>6, <1>8 DEF Inv, WireOK
<1>13. CodecInv'
  <2>1. CodecInv BY DEF Inv
  <2>2. r \in accepted /\ answers[r] = <<>>
      BY <1>2, <1>3, <2>1 DEF CodecInv, CodecOK
  <2> QED BY <1>6, <1>9, <2>1, <2>2 DEF CodecInv, CodecOK, Busy
<1>14. SeenOK'
  <2>1. \A s \in Proxied : s \in Requests BY DEF Requests
  <2> QED BY <1>6, <1>9, <2>1 DEF Inv, SeenOK
<1>15. \A g \in Gauges : gauges'[g] = gauges[g] -
            (IF g = "REQUEST_QUEUE" THEN 1 ELSE 0)
    BY <1>6, <1>7 DEF Counted
<1>16. \A g \in {"CONNECTING", "CONNECTED", "BLACKLISTED", "POOLS"} :
            gauges'[g] = gauges[g]
    BY <1>7, <1>15 DEF Gauges
<1>17. QueueCounted'
  <2>1. Queued' = Queued \ {r} BY <1>10 DEF Queued
  <2>2. r \in Queued BY <1>2 DEF Queued, q
  <2>3. IsFiniteSet(Queued)
    <3>1. Queued \in SUBSET Requests BY DEF Queued
    <3> QED BY <3>1, AllFinite
  <2>4. Cardinality(Queued') = Cardinality(Queued) - 1
      BY <2>1, <2>2, <2>3, Counting
  <2>5. gauges'["REQUEST_QUEUE"] = gauges["REQUEST_QUEUE"] - 1
      BY <1>15 DEF Gauges
  <2> QED BY <2>4, <2>5, GaugeParts DEF Inv, QueueCounted
<1>18. TableInv' /\ UndisturbedByReload' /\ LinksCounted' /\ PoolsCounted'
    BY <1>6, <1>16, Frames
<1>19. GaugesCount' BY <1>17, <1>18, GaugeParts
<1>20. TypeOK'
  <2>1. gauges' = [g \in Gauges |-> gauges'[g]] BY <1>6 DEF Counted
  <2>2. gauges' \in [Gauges -> Nat] BY <1>19, <2>1, GaugesTyped
  <2>3. /\ queue' \in [Pools -> Seq(Requests)]
        /\ wire' \in [Pools -> Seq(Requests)]
      BY <1>2, <1>5, <1>6, <1>7
  <2>4. codec' \in [Requests -> CodecStates]
      BY <1>6, <1>7 DEF CodecStates
  <2> QED BY <1>6, <1>7, <2>2, <2>3, <2>4 DEF TypeOK
<1> QED BY <1>11, <1>12, <1>13, <1>14, <1>18, <1>19, <1>20 DEF Inv

\* Answers that say a destination is missing
Missing == {"PoolError", "404", "500"}

\* Requests leave the wire of a pool and are answered.
LEMMA Leaving ==
    ASSUME Inv, NEW p \in Pools, NEW gone, gone \subseteq Range(wire[p]),
           NEW w \in Seq(Requests), Distinct(w), Range(w) = Range(wire[p]) \ gone,
           NEW final \in {"Void", "Dropped"},
           wire' = [wire EXCEPT ![p] = w],
           codec' = [r \in Requests |-> IF r \in gone THEN final ELSE codec[r]],
           answers' = [r \in Requests |-> answers'[r]],
           \A r \in Requests \ gone : answers'[r] = answers[r],
           \A r \in gone : /\ answers'[r] \in Seq(Answers)
                           /\ r \notin Notices => Len(answers'[r]) = 1
                           /\ Range(answers'[r]) \cap Missing = {},
           UNCHANGED <<queue, accepted, seen, touched>>
    PROVE  /\ PlaceOK' /\ CodecInv' /\ SeenOK' /\ UndisturbedByReload'
           /\ wire' \in [Pools -> Seq(Requests)]
           /\ codec' \in [Requests -> CodecStates]
           /\ answers' \in [Requests -> Seq(Answers)]
<1>1. /\ wire \in [Pools -> Seq(Requests)] /\ codec \in [Requests -> CodecStates]
      /\ answers \in [Requests -> Seq(Answers)]
    BY DEF Inv, TypeOK
<1>2. gone \subseteq Requests /\ \A r \in gone : codec[r] \in Busy
    BY Places
<1>3. \A o \in Pools : wire'[o] = IF o = p THEN w ELSE wire[o] BY <1>1
<1>4. \A o \in Pools, r \in Requests :
        r \in Range(wire'[o]) <=> r \in Range(wire[o]) /\ r \notin gone
  <2>1. \A o \in Pools, r \in Requests :
            r \in Range(wire[o]) /\ r \in gone => o = p
      BY Places
  <2> QED BY <1>3, <2>1
<1>5. \A r \in Requests : codec'[r] = IF r \in gone THEN final ELSE codec[r]
    OBVIOUS
<1>6. final \notin Busy /\ final # "Init" /\ final \in CodecStates
    BY DEF Busy, CodecStates
<1>7. PlaceOK'
  <2>1. \A o \in Pools : Distinct(queue'[o]) /\ Distinct(wire'[o])
      BY <1>3, Places
  <2>2. \A o, u \in Pools, r \in Requests :
            /\ r \in Range(queue'[o]) /\ r \in Range(queue'[u]) => o = u
            /\ r \in Range(wire'[o]) /\ r \in Range(wire'[u]) => o = u
      BY <1>4, Places
  <2>3. \A r \in Requests : codec[r] \in Busy => codec[r] # "Init"
      BY DEF Busy
  <2>4. \A r \in Requests :
            codec'[r] = "Init" <=> \E o \in Pools : r \in Range(queue'[o])
      BY <1>2, <1>5, <1>6, <2>3, Places
  <2>5. \A r \in Requests :
            codec'[r] \in Busy <=> \E o \in Pools : r \in Range(wire'[o])
      BY <1>4, <1>5, <1>6, Places
  <2> QED BY <2>1, <2>2, <2>4, <2>5 DEF PlaceOK, Queued, Sent
<1>8. CodecInv'
  <2> SUFFICES ASSUME NEW r \in Requests PROVE CodecOK(r)' BY DEF CodecInv
  <2>1. CodecOK(r) BY DEF Inv, CodecInv
  <2>2. CASE r \in gone
    <3>1. codec'[r] \in {"Void", "Dropped"} BY <1>5, <2>2
    <3> QED BY <2>2, <3>1 DEF CodecOK, Busy
  <2>3. CASE r \notin gone
      BY <1>5, <2>1, <2>3 DEF CodecOK
  <2> QED BY <2>2, <2>3
<1>9. SeenOK'
  <2>1. \A r \in Proxied : r \in Requests BY DEF Requests
  <2> QED BY <1>5, <2>1 DEF Inv, SeenOK
<1>10. UndisturbedByReload'
  <2>1. \A r \in Calls \cup Proxied : r \in Requests BY DEF Requests
  <2> QED BY <2>1 DEF Inv, UndisturbedByReload, Missing
<1>11. wire' \in [Pools -> Seq(Requests)] BY <1>1
<1>12. codec' \in [Requests -> CodecStates] BY <1>1, <1>6
<1>13. answers' \in [Requests -> Seq(Answers)]
  <2>1. \A r \in Requests : answers'[r] \in Seq(Answers) BY <1>1
  <2> QED BY <2>1
<1> QED BY <1>7, <1>8, <1>9, <1>10, <1>11, <1>12, <1>13

\* One answer
LEMMA OneAnswer ==
    ASSUME NEW a \in Answers
    PROVE  <<a>> \in Seq(Answers) /\ Len(<<a>>) = 1 /\ Range(<<a>>) = {a}
<1> DEFINE q == <<a>>
<1>1. q \in Seq(Answers) /\ Len(q) = 1 /\ q[1] = a OBVIOUS
<1>2. 1 .. 1 = {1} OBVIOUS
<1> HIDE DEF q
<1>3. \A x : x \in Range(q) <=> \E i \in 1 .. Len(q) : x = q[i]
    BY <1>1, RangeIs
<1>4. Range(q) = {a} BY <1>1, <1>2, <1>3
<1> QED BY <1>1, <1>4 DEF q

LEMMA Kinds ==
    ASSUME NEW r \in Requests
    PROVE  /\ r \in Calls => r \notin Proxied /\ r \notin Notices
           /\ r \in Proxied => r \notin Calls /\ r \notin Notices
           /\ r \notin Calls /\ r \notin Proxied => r \in Notices
BY DestinationAssumption DEF Requests

\* What a dropped codec says
LEMMA DropSays ==
    ASSUME NEW r \in Requests, codec[r] \in Busy
    PROVE  /\ Drop(r) \in Seq(Answers) /\ Range(Drop(r)) \cap Missing = {}
           /\ r \notin Notices => Len(Drop(r)) = 1
<1>1. /\ "HttpError" \in Answers \ Missing /\ "502" \in Answers \ Missing
    BY DEF Answers, Missing
<1>2. CASE r \in Calls
  <2>1. Drop(r) = <<"HttpError">> BY <1>2, Kinds DEF Drop, DropCall, Busy
  <2> QED BY <1>1, <2>1, OneAnswer
<1>3. CASE r \in Proxied
  <2>1. Drop(r) = <<"502">> BY <1>3, Kinds DEF Drop
  <2> QED BY <1>1, <2>1, OneAnswer
<1>4. CASE r \notin Calls /\ r \notin Proxied
  <2>1. Drop(r) = <<>> /\ r \in Notices BY <1>4, Kinds DEF Drop
  <2> QED BY <2>1, NoneIn
<1> QED BY <1>2, <1>3, <1>4

LEMMA ReplySays ==
    ASSUME NEW r \in Requests, codec[r] \in {"HeadersOk", "HeadersBad"},
           NEW json \in BOOLEAN
    PROVE  /\ Reply(r, json) \in Seq(Answers)
           /\ Range(Reply(r, json)) \cap Missing = {}
           /\ r \notin Notices => Len(Reply(r, json)) = 1
<1>1. \A a \in {"Result", "JsonError", "HttpError", "Response"} :
        a \in Answers \ Missing
    BY DEF Answers, Missing
<1>2. CASE r \in Calls
  <2>1. PICK a \in {"Result", "JsonError", "HttpError"} :
            CallReply(codec[r], json) = <<a>>
      BY DEF CallReply
  <2>2. Reply(r, json) = <<a>> \o <<>> BY <1>2, <2>1, Kinds DEF Reply, DropCall
  <2>3. <<a>> \in Seq(Answers) BY <1>1, OneAnswer
  <2>4. Reply(r, json) = <<a>> BY <2>2, <2>3, ConcatEmptySeq
  <2> QED BY <1>1, <2>4, OneAnswer
<1>3. CASE r \in Proxied
  <2>1. Reply(r, json) = <<"Response">> BY <1>3, Kinds DEF Reply
  <2> QED BY <1>1, <2>1, OneAnswer
<1>4. CASE r \notin Calls /\ r \notin Proxied
  <2>1. Reply(r, json) = <<>> /\ r \in Notices BY <1>4, Kinds DEF Reply
  <2> QED BY <2>1, NoneIn
<1> QED BY <1>2, <1>3, <1>4

LEMMA HangupKeeps ==
    ASSUME Inv, NEW p \in Pools, link[p] = "up", Hangup(p),
           activity' = NoActivity
    PROVE  Inv'
<1> USE DEF configVars, tableVars
<1> DEFINE gone == Range(wire[p])
<1>1. /\ TypeOK /\ LinksCounted /\ answers \in [Requests -> Seq(Answers)]
    BY GaugeParts DEF Inv, TypeOK
<1>2. /\ link' = [link EXCEPT ![p] = "idle"]
      /\ wire' = [wire EXCEPT ![p] = <<>>]
      /\ codec' = [r \in Requests |->
                    IF r \in gone THEN "Dropped" ELSE codec[r]]
      /\ answers' = [r \in Requests |-> IF r \in gone
                        THEN answers[r] \o Drop(r) ELSE answers[r]]
      /\ Counted({}, {"CONNECTED"})
      /\ UNCHANGED <<configVars, tableVars, queue, seen, lenient, accepted>>
    BY DEF Hangup
<1>3. gone \subseteq Requests /\ \A r \in gone : codec[r] \in Busy BY Places
<1>4. <<>> \in Seq(Requests) /\ Distinct(<<>>) /\ Range(<<>>) = gone \ gone
    BY NoneIn
<1> HIDE DEF gone
<1>5. \A r \in Requests : answers'[r] =
            IF r \in gone THEN answers[r] \o Drop(r) ELSE answers[r]
    BY <1>2
<1>6. ASSUME NEW r \in gone
      PROVE  /\ answers'[r] \in Seq(Answers)
             /\ r \notin Notices => Len(answers'[r]) = 1
             /\ Range(answers'[r]) \cap Missing = {}
  <2>1. r \in Requests /\ codec[r] \in Busy BY <1>3
  <2>2. answers[r] = <<>> BY <2>1 DEF Inv, CodecInv, CodecOK
  <2>3. /\ Drop(r) \in Seq(Answers) /\ Range(Drop(r)) \cap Missing = {}
        /\ r \notin Notices => Len(Drop(r)) = 1
      BY <2>1, DropSays
  <2>4. answers'[r] = Drop(r)
    <3>1. <<>> \o Drop(r) = Drop(r) BY <2>3, ConcatEmptySeq
    <3> QED BY <1>5, <2>1, <2>2, <3>1
  <2> QED BY <2>3, <2>4
<1>7. answers' = [r \in Requests |-> answers'[r]] BY <1>2
<1>8. /\ PlaceOK' /\ CodecInv' /\ SeenOK' /\ UndisturbedByReload'
      /\ wire' \in [Pools -> Seq(Requests)]
      /\ codec' \in [Requests -> CodecStates]
      /\ answers' \in [Requests -> Seq(Answers)]
  <2>1. \A r \in Requests \ gone : answers'[r] = answers[r] BY <1>5
  <2>2. "Dropped" \in {"Void", "Dropped"} OBVIOUS
  <2>3. UNCHANGED <<queue, accepted, seen, touched>> BY <1>2
  <2>4. gone \subseteq Range(wire[p]) /\ Range(<<>>) = Range(wire[p]) \ gone
      BY <1>4 DEF gone
  <2> QED BY <1>2, <1>4, <1>6, <1>7, <2>1, <2>2, <2>3, <2>4, Leaving
<1>9. /\ LinksCounted'
      /\ gauges' = [g \in Gauges |-> gauges'[g]]
      /\ link' \in [Pools -> LinkState]
      /\ \A g \in {"POOLS", "REQUEST_QUEUE"} : gauges'[g] = gauges[g]
  <2>1. "idle" \in LinkState BY DEF LinkState
  <2>2. Counted(GaugeOf("idle"), GaugeOf(link[p])) BY <1>2 DEF GaugeOf
  <2> QED BY <1>1, <1>2, <2>1, <2>2, LinkMoved
<1>10. TableInv' /\ QueueCounted' /\ PoolsCounted' BY <1>2, <1>9, Frames
<1>11. GaugesCount' BY <1>9, <1>10, GaugeParts
<1>12. WireOK'
  <2>1. link \in [Pools -> LinkState] /\ wire \in [Pools -> Seq(Requests)]
      BY <1>1 DEF TypeOK, LinkState
  <2>2. \A o \in Pools : o # p => link'[o] = link[o] /\ wire'[o] = wire[o]
      BY <1>2, <2>1
  <2>3. wire'[p] = <<>> BY <1>2, <2>1
  <2> QED BY <2>2, <2>3 DEF Inv, WireOK
<1>13. TypeOK'
  <2>1. gauges' \in [Gauges -> Nat] BY <1>9, <1>11, GaugesTyped
  <2> QED BY <1>1, <1>2, <1>8, <1>9, <2>1 DEF TypeOK, LinkState
<1> QED BY <1>8, <1>10, <1>11, <1>12, <1>13 DEF Inv

LEMMA DataReceivedKeeps ==
    ASSUME Inv, NEW p \in Pools, NEW json \in BOOLEAN, DataReceived(p, json),
           activity' = NoActivity
    PROVE  Inv'
<1> USE DEF configVars, tableVars
<1> DEFINE r == Head(wire[p])
           w == Tail(wire[p])
<1>1. TypeOK /\ answers \in [Requests -> Seq(Answers)]
        /\ codec \in [Requests -> CodecStates]
        /\ wire \in [Pools -> Seq(Requests)]
    BY DEF Inv, TypeOK
<1>2. /\ wire[p] # <<>> /\ codec[r] \in {"HeadersOk", "HeadersBad"}
      /\ wire' = [wire EXCEPT ![p] = w]
      /\ codec' = [codec EXCEPT ![r] = "Void"]
      /\ answers' = [answers EXCEPT ![r] = answers[r] \o Reply(r, json)]
      /\ UNCHANGED <<configVars, tableVars, queue, link, gauges, seen, lenient,
                     accepted>>
    BY DEF DataReceived
<1>3. /\ r \in Range(wire[p]) /\ r \in Requests
      /\ w \in Seq(Requests) /\ Distinct(w) /\ Range(w) = Range(wire[p]) \ {r}
    BY <1>2, Places, Taken1
<1> HIDE DEF r, w
<1>4. /\ Reply(r, json) \in Seq(Answers)
      /\ Range(Reply(r, json)) \cap Missing = {}
      /\ r \notin Notices => Len(Reply(r, json)) = 1
    BY <1>2, <1>3, ReplySays
<1>5. answers[r] = <<>>
    BY <1>2, <1>3 DEF Inv, CodecInv, CodecOK, Busy
<1>6. answers'[r] = Reply(r, json)
  <2>1. <<>> \o Reply(r, json) = Reply(r, json) BY <1>4, ConcatEmptySeq
  <2> QED BY <1>1, <1>2, <1>3, <1>5, <2>1
<1>7. /\ PlaceOK' /\ CodecInv' /\ SeenOK' /\ UndisturbedByReload'
      /\ wire' \in [Pools -> Seq(Requests)]
      /\ codec' \in [Requests -> CodecStates]
      /\ answers' \in [Requests -> Seq(Answers)]
  <2> DEFINE gone == {r}
  <2>1. /\ gone \subseteq Range(wire[p]) /\ Range(w) = Range(wire[p]) \ gone
      BY <1>3
  <2>2. codec' = [s \in Requests |-> IF s \in gone THEN "Void" ELSE codec[s]]
      BY <1>1, <1>2, <1>3
  <2>3. /\ answers' = [s \in Requests |-> answers'[s]]
        /\ \A s \in Requests \ gone : answers'[s] = answers[s]
      BY <1>1, <1>2, <1>3
  <2>4. \A s \in gone : /\ answers'[s] \in Seq(Answers)
                        /\ s \notin Notices => Len(answers'[s]) = 1
                        /\ Range(answers'[s]) \cap Missing = {}
      BY <1>4, <1>6
  <2>5. "Void" \in {"Void", "Dropped"} OBVIOUS
  <2>6. UNCHANGED <<queue, accepted, seen, touched>> BY <1>2
  <2> HIDE DEF gone
  <2> QED BY <1>2, <1>3, <2>1, <2>2, <2>3, <2>4, <2>5, <2>6, Leaving
<1>8. TableInv' /\ LinksCounted' /\ QueueCounted' /\ PoolsCounted'
    BY <1>2, Frames
<1>9. GaugesCount' BY <1>8, GaugeParts
<1>10. WireOK'
    BY <1>1, <1>2 DEF Inv, WireOK
<1>11. TypeOK' BY <1>1, <1>2, <1>7 DEF TypeOK
<1> QED BY <1>7, <1>8, <1>9, <1>10, <1>11 DEF Inv

LEMMA HeadersReceivedKeeps ==
    ASSUME Inv, NEW p \in Pools, NEW ok \in BOOLEAN, NEW type \in ContentTypes,
           HeadersReceived(p, ok, type), activity' = NoActivity
    PROVE  Inv'
<1> USE DEF configVars, tableVars, poolVars
<1> DEFINE r == Head(wire[p])
           state == IF ok THEN "HeadersOk" ELSE "HeadersBad"
<1>1. wire[p] # <<>> /\ codec[r] = "Wait" BY DEF HeadersReceived
<1>2. r \in Range(wire[p]) /\ r \in Requests BY <1>1, Places, Taken1
<1>3. link[p] = "up" BY <1>1 DEF Inv, WireOK
<1>4. CASE Hangup(p) BY <1>3, <1>4, HangupKeeps
<1>5. CASE /\ codec' = [codec EXCEPT ![r] = state]
           /\ UNCHANGED <<configVars, tableVars, poolVars, answers, seen,
                          lenient, accepted>>
  <2>1. TypeOK /\ codec \in [Requests -> CodecStates] BY DEF Inv, TypeOK
  <2>2. state \in Busy /\ state \in CodecStates BY DEF Busy, CodecStates
  <2> HIDE DEF r, state
  <2>3. \A s \in Requests : codec'[s] = IF s = r THEN state ELSE codec[s]
      BY <1>5, <2>1
  <2>4. \A s \in Requests : /\ codec'[s] = "Init" <=> codec[s] = "Init"
                            /\ codec'[s] \in Busy <=> codec[s] \in Busy
                            /\ s # r => codec'[s] = codec[s]
      BY <1>1, <1>2, <2>2, <2>3 DEF Busy
  <2>5. PlaceOK'
    <3>1. Queued' = Queued /\ Sent' = Sent BY <1>5 DEF Queued, Sent
    <3> QED BY <1>5, <2>4, <3>1 DEF Inv, PlaceOK
  <2>6. CodecInv'
    <3> SUFFICES ASSUME NEW s \in Requests PROVE CodecOK(s)' BY DEF CodecInv
    <3>1. CodecOK(s) BY DEF Inv, CodecInv
    <3>2. CASE s = r
        BY <1>1, <1>5, <2>2, <2>3, <3>1, <3>2 DEF CodecOK, Busy
    <3>3. CASE s # r BY <1>5, <2>4, <3>1, <3>3 DEF CodecOK
    <3> QED BY <3>2, <3>3
  <2>7. SeenOK'
    <3>1. \A s \in Proxied : s \in Requests BY DEF Requests
    <3>2. state # "Body" BY <2>2 DEF Busy
    <3> QED BY <1>5, <2>3, <3>1, <3>2 DEF Inv, SeenOK
  <2>8. /\ TableInv' /\ LinksCounted' /\ QueueCounted' /\ PoolsCounted'
        /\ WireOK' /\ UndisturbedByReload'
      BY <1>5, Frames
  <2>9. GaugesCount' BY <2>8, GaugeParts
  <2>10. TypeOK'
    <3>1. codec' \in [Requests -> CodecStates] BY <1>5, <2>1, <2>2
    <3> QED BY <1>5, <2>1, <3>1 DEF TypeOK
  <2> QED BY <2>5, <2>6, <2>7, <2>8, <2>9, <2>10 DEF Inv
<1> QED BY <1>4, <1>5 DEF HeadersReceived

---------------------------------------------------------------------------
(***************************************************************************)
(* Requests are taken or refused.                                          *)
(***************************************************************************)

Activity == {NoActivity} \cup (MinIdle .. Max({MinIdle, MaxIdle}))

LEMMA ClampIn ==
    ASSUME NEW n \in Nat
    PROVE  Clamp(n) \in Activity
<1>1. MinIdle \in Nat /\ MaxIdle \in Nat BY DestinationAssumption
<1>2. \A a, b \in Nat : /\ Min({a, b}) \in {a, b} /\ Min({a, b}) <= a
                        /\ Min({a, b}) <= b
  <2> SUFFICES ASSUME NEW a \in Nat, NEW b \in Nat
               PROVE  /\ Min({a, b}) \in {a, b} /\ Min({a, b}) <= a
                      /\ Min({a, b}) <= b
      OBVIOUS
  <2>1. \E x \in {a, b} : \A y \in {a, b} : x <= y
    <3>1. a <= b \/ b <= a OBVIOUS
    <3> QED BY <3>1
  <2> QED BY <2>1 DEF Min
<1>3. \A a, b \in Nat : /\ Max({a, b}) \in {a, b} /\ Max({a, b}) >= a
                        /\ Max({a, b}) >= b
  <2> SUFFICES ASSUME NEW a \in Nat, NEW b \in Nat
               PROVE  /\ Max({a, b}) \in {a, b} /\ Max({a, b}) >= a
                      /\ Max({a, b}) >= b
      OBVIOUS
  <2>1. \E x \in {a, b} : \A y \in {a, b} : x >= y
    <3>1. a >= b \/ b >= a OBVIOUS
    <3> QED BY <3>1
  <2> QED BY <2>1 DEF Max
<1> DEFINE m == Min({n, MaxIdle})
           c == Max({MinIdle, m})
           top == Max({MinIdle, MaxIdle})
<1>4. m \in Nat /\ m <= MaxIdle BY <1>1, <1>2
<1>5. top \in Nat /\ top >= MinIdle /\ top >= MaxIdle BY <1>1, <1>3
<1> HIDE DEF m, top
<1>6. c \in {MinIdle, m} /\ c >= MinIdle BY <1>1, <1>3, <1>4
<1> HIDE DEF c
<1>7. c \in MinIdle .. top BY <1>1, <1>4, <1>5, <1>6
<1> QED BY <1>7 DEF Clamp, Activity, m, c, top

\* Where a request fails
LEMMA OutcomeIs ==
    ASSUME NEW d, NEW known \in BOOLEAN
    PROVE  LET o == Outcome(d, known) IN
           /\ o \in {"NoDestination", "NoPool", "Err", "NotReady", "Ready"}
           /\ o = "NoDestination" => ~ known
           /\ o = "NoPool" => plain[d] = 0
           /\ o = "Err" => <<d, plain[d]>> \in stopping
           /\ o = "Ready" => plain[d] # 0
<1>1. CASE ~ known
  <2>1. Outcome(d, known) = "NoDestination" BY <1>1 DEF Outcome
  <2> QED BY <1>1, <2>1
<1>2. CASE known /\ plain[d] = 0
  <2>1. Outcome(d, known) = "NoPool" BY <1>2 DEF Outcome
  <2> QED BY <1>2, <2>1
<1>3. CASE known /\ plain[d] # 0
  <2>1. Outcome(d, known) = StartSend(d) BY <1>3 DEF Outcome
  <2>2. /\ StartSend(d) \in {"Err", "NotReady", "Ready"}
        /\ StartSend(d) = "Err" => <<d, plain[d]>> \in stopping
      BY DEF StartSend
  <2> QED BY <1>3, <2>1, <2>2
<1> QED BY <1>1, <1>2, <1>3

\* A destination nothing happened to is only ever too busy.
LEMMA OnlyBusy ==
    ASSUME Inv, NEW d \in Dests, d \notin touched, NEW known \in BOOLEAN, known
    PROVE  Outcome(d, known) \in {"NotReady", "Ready"}
<1>1. d \in config /\ plain[d] # 0 /\ <<d, plain[d]>> \notin stopping
    BY DEF Inv, TableInv, TableOK
<1> QED BY <1>1, OutcomeIs

LEMMA TwoAnswers ==
    ASSUME NEW a \in Answers, NEW b \in Answers
    PROVE  /\ <<a>> \o <<b>> \in Seq(Answers) /\ Range(<<a>> \o <<b>>) = {a, b}
<1> DEFINE q == <<a>> \o <<b>>
<1>1. q \in Seq(Answers) /\ Len(q) = 2 /\ q[1] = a /\ q[2] = b OBVIOUS
<1>2. 1 .. 2 = {1, 2} OBVIOUS
<1> HIDE DEF q
<1>3. \A x : x \in Range(q) <=> \E i \in 1 .. Len(q) : x = q[i]
    BY <1>1, RangeIs
<1>4. Range(q) = {a, b} BY <1>1, <1>2, <1>3
<1> QED BY <1>1, <1>4 DEF q

LEMMA RefusalSays ==
    ASSUME NEW o \in {"NoDestination", "NoPool", "Err", "NotReady"}
    PROVE  /\ Rejection(o) \in Seq(Answers) /\ ErrorPage(o) \in Seq(Answers)
           /\ o = "NotReady" => /\ Range(Rejection(o)) \cap Missing = {}
                                /\ Range(ErrorPage(o)) \cap Missing = {}
<1>1. /\ {"PoolError", "PoolOverflow", "HttpError", "404", "503", "500"}
            \subseteq Answers
      /\ {"PoolOverflow", "HttpError", "503"} \cap Missing = {}
    BY DEF Answers, Missing
<1>2. DropCall("Init") = <<"HttpError">> BY DEF DropCall
<1>3. CASE o = "NoDestination"
  <2>1. Rejection(o) = <<"PoolError">> /\ ErrorPage(o) = <<"404">>
      BY <1>3 DEF Rejection, ErrorPage
  <2> QED BY <1>1, <1>3, <2>1, OneAnswer
<1>4. CASE o = "NoPool"
  <2>1. /\ Rejection(o) = <<"PoolError">> \o <<"HttpError">>
        /\ ErrorPage(o) = <<"404">>
      BY <1>2, <1>4 DEF Rejection, ErrorPage
  <2> QED BY <1>1, <1>4, <2>1, OneAnswer, TwoAnswers
<1>5. CASE o = "Err"
  <2>1. /\ Rejection(o) = <<"HttpError">> \o <<"PoolError">>
        /\ ErrorPage(o) = <<"500">>
      BY <1>2, <1>5 DEF Rejection, ErrorPage
  <2>2. Rejection(o) \in Seq(Answers) BY <1>1, <2>1, TwoAnswers
  <2>3. ErrorPage(o) \in Seq(Answers) BY <1>1, <2>1, OneAnswer
  <2> QED BY <1>5, <2>2, <2>3
<1>6. CASE o = "NotReady"
  <2>1. /\ Rejection(o) = <<"PoolOverflow">> \o <<"HttpError">>
        /\ ErrorPage(o) = <<"503">>
      BY <1>2, <1>6 DEF Rejection, ErrorPage
  <2>2. /\ Rejection(o) \in Seq(Answers)
        /\ Range(Rejection(o)) = {"PoolOverflow", "HttpError"}
      BY <1>1, <2>1, TwoAnswers
  <2>3. ErrorPage(o) \in Seq(Answers) /\ Range(ErrorPage(o)) = {"503"}
      BY <1>1, <2>1, OneAnswer
  <2> QED BY <1>1, <2>2, <2>3
<1> QED BY <1>3, <1>4, <1>5, <1>6

\* A request that no pool has is answered and forgotten.
LEMMA AnswerStep ==
    ASSUME Inv, NEW r \in Calls \cup Proxied, codec[r] \in {"None", "Body"},
           NEW a \in Seq(Answers),
           Range(a) \cap Missing # {} => Dest(r) \in touched,
           codec' = [codec EXCEPT ![r] = "Dropped"],
           answers' = [answers EXCEPT ![r] = a], activity' \in Activity,
           UNCHANGED <<configVars, tableVars, poolVars, seen, lenient, accepted>>
    PROVE  Inv'
<1> USE DEF configVars, tableVars, poolVars
<1>1. /\ TypeOK /\ codec \in [Requests -> CodecStates]
      /\ answers \in [Requests -> Seq(Answers)] /\ r \in Requests
    BY DEF Inv, TypeOK, Requests
<1>2. \A s \in Requests :
        /\ codec'[s] = IF s = r THEN "Dropped" ELSE codec[s]
        /\ answers'[s] = IF s = r THEN a ELSE answers[s]
    BY <1>1
<1>3. r \notin accepted BY <1>1 DEF Inv, CodecInv, CodecOK
<1>4. PlaceOK'
  <2>1. Queued' = Queued /\ Sent' = Sent BY DEF Queued, Sent
  <2>2. \A s \in Requests : /\ codec'[s] = "Init" <=> codec[s] = "Init"
                            /\ codec'[s] \in Busy <=> codec[s] \in Busy
      BY <1>2 DEF Busy
  <2> QED BY <2>1, <2>2 DEF Inv, PlaceOK
<1>5. CodecInv'
  <2> SUFFICES ASSUME NEW s \in Requests PROVE CodecOK(s)' BY DEF CodecInv
  <2>1. CodecOK(s) BY DEF Inv, CodecInv
  <2>2. CASE s = r BY <1>2, <1>3, <2>2 DEF CodecOK, Busy
  <2>3. CASE s # r BY <1>2, <2>1, <2>3 DEF CodecOK
  <2> QED BY <2>2, <2>3
<1>6. SeenOK'
  <2>1. \A s \in Proxied : s \in Requests BY DEF Requests
  <2> QED BY <1>2, <2>1 DEF Inv, SeenOK
<1>7. UndisturbedByReload'
  <2>1. \A s \in Calls \cup Proxied : s \in Requests BY DEF Requests
  <2> QED BY <1>2, <2>1 DEF Inv, UndisturbedByReload, Missing
<1>8. /\ TableInv' /\ LinksCounted' /\ QueueCounted' /\ PoolsCounted' /\ WireOK'
    BY Frames
<1>9. GaugesCount' BY <1>8, GaugeParts
<1>10. TypeOK'
  <2>1. codec' \in [Requests -> CodecStates] BY <1>1 DEF CodecStates
  <2>2. answers' \in [Requests -> Seq(Answers)] BY <1>1
  <2> QED BY <1>1, <2>1, <2>2 DEF TypeOK, Activity
<1> QED BY <1>4, <1>5, <1>6, <1>7, <1>8, <1>9, <1>10 DEF Inv

\* Requests are taken by the pools of their destinations; notices may be lost.
LEMMA EnqueueStep ==
    ASSUME Inv, NEW rs \in SUBSET Requests, NEW lost \in SUBSET Notices,
           \A r \in rs \cup lost : codec[r] \in {"None", "Body"},
           \A r \in rs : plain[Dest(r)] # 0,
           codec' = [r \in Requests |-> IF r \in rs THEN "Init"
                        ELSE IF r \in lost THEN "Dropped" ELSE codec[r]],
           Enqueue(rs), activity' \in Activity,
           UNCHANGED <<configVars, tableVars, answers, seen, lenient>>
    PROVE  Inv'
<1> USE DEF configVars, tableVars
<1> DEFINE pool(r) == <<Dest(r), plain[Dest(r)]>>
           here(p) == {r \in rs : pool(r) = p}
<1>1. /\ TypeOK /\ codec \in [Requests -> CodecStates]
      /\ queue \in [Pools -> Seq(Requests)] /\ accepted \subseteq Requests
      /\ lost \subseteq Requests /\ gauges \in [Gauges -> Nat]
    BY DEF Inv, TypeOK, Requests
<1>2. /\ queue' = [p \in Pools |-> queue[p] \o SetToSeq(here(p))]
      /\ gauges' = [gauges EXCEPT !["REQUEST_QUEUE"] =
                        gauges["REQUEST_QUEUE"] + Cardinality(rs)]
      /\ accepted' = accepted \cup rs /\ UNCHANGED <<wire, link>>
    BY DEF Enqueue
<1>3. \A r \in rs : pool(r) \in Pools
  <2> SUFFICES ASSUME NEW r \in rs PROVE pool(r) \in Pools OBVIOUS
  <2>1. /\ Dest(r) \in Dests /\ plain[Dest(r)] # 0 BY DestIn
  <2>2. plain[Dest(r)] \in 0 .. MaxReloads + 1 BY <1>1, <2>1 DEF TypeOK
  <2>3. plain[Dest(r)] \in 1 .. MaxReloads + 1 BY <2>1, <2>2
  <2> QED BY <2>1, <2>3 DEF Pools
<1>4. \A r \in Requests :
        codec'[r] = IF r \in rs THEN "Init"
                    ELSE IF r \in lost THEN "Dropped" ELSE codec[r]
    OBVIOUS
<1>5. \A r \in rs \cup lost :
        /\ r \in Requests /\ r \notin accepted /\ answers[r] = <<>>
        /\ codec[r] # "Init" /\ codec[r] \notin Busy
        /\ \A p \in Pools : r \notin Range(queue[p])
  <2>1. \A r \in rs \cup lost :
            r \in Requests /\ codec[r] # "Init" /\ codec[r] \notin Busy
      BY <1>1 DEF Busy
  <2>2. \A r \in rs \cup lost : r \notin accepted /\ answers[r] = <<>>
      BY <2>1 DEF Inv, CodecInv, CodecOK
  <2> QED BY <2>1, <2>2, Places
<1>6. ASSUME NEW p \in Pools
      PROVE  /\ queue'[p] \in Seq(Requests) /\ Distinct(queue'[p])
             /\ Range(queue'[p]) = Range(queue[p]) \cup here(p)
  <2>1. here(p) \in SUBSET Requests OBVIOUS
  <2>2. IsFiniteSet(here(p)) BY <2>1, AllFinite
  <2> DEFINE m == SetToSeq(here(p))
  <2>3. m \in Seq(here(p)) /\ Distinct(m) /\ Range(m) = here(p)
      BY <2>2, Ordered
  <2>4. m \in Seq(Requests) BY <2>1, <2>3, SeqMonotonic
  <2>5. queue'[p] = queue[p] \o m BY <1>2
  <2>6. Range(queue[p]) \cap Range(m) = {} BY <1>5, <2>3
  <2> HIDE DEF m, here
  <2> QED BY <2>3, <2>4, <2>5, <2>6, Places, Joined
<1>7. \A p \in Pools, r \in Requests :
        r \in Range(queue'[p]) <=>
            r \in Range(queue[p]) \/ (r \in rs /\ pool(r) = p)
    BY <1>6
<1> HIDE DEF here
<1>8. PlaceOK'
  <2>1. \A p \in Pools : Distinct(queue'[p]) /\ Distinct(wire'[p])
      BY <1>2, <1>6, Places
  <2>2. \A p, o \in Pools, r \in Requests :
            /\ r \in Range(queue'[p]) /\ r \in Range(queue'[o]) => p = o
            /\ r \in Range(wire'[p]) /\ r \in Range(wire'[o]) => p = o
    <3> SUFFICES ASSUME NEW p \in Pools, NEW o \in Pools, NEW r \in Requests
                 PROVE  /\ r \in Range(queue'[p]) /\ r \in Range(queue'[o])
                            => p = o
                        /\ r \in Range(wire'[p]) /\ r \in Range(wire'[o])
                            => p = o
        OBVIOUS
    <3>1. CASE r \in rs
      <4>1. r \notin Range(queue[p]) /\ r \notin Range(queue[o])
          BY <1>5, <3>1
      <4>2. r \in Range(queue'[p]) /\ r \in Range(queue'[o]) => p = o
        <5> HIDE DEF pool
        <5> QED BY <1>7, <4>1
      <4>3. r \in Range(wire'[p]) /\ r \in Range(wire'[o]) => p = o
          BY <1>2, Places
      <4> QED BY <4>2, <4>3
    <3>2. CASE r \notin rs BY <1>2, <1>7, <3>2, Places
    <3> QED BY <3>1, <3>2
  <2>3. ASSUME NEW r \in Requests
        PROVE  codec'[r] = "Init" <=> \E p \in Pools : r \in Range(queue'[p])
    <3>1. CASE r \in rs
      <4>1. codec'[r] = "Init" BY <1>4, <3>1
      <4>2. pool(r) \in Pools /\ r \in Range(queue'[pool(r)])
          BY <1>3, <1>7, <3>1
      <4> QED BY <4>1, <4>2
    <3>2. CASE r \notin rs
      <4>1. codec'[r] = "Init" <=> codec[r] = "Init"
          BY <1>4, <1>5, <3>2
      <4>2. \A p \in Pools : r \in Range(queue'[p]) <=> r \in Range(queue[p])
          BY <1>7, <3>2
      <4> QED BY <4>1, <4>2, Places
    <3> QED BY <3>1, <3>2
  <2>4. \A r \in Requests : codec'[r] \in Busy <=> codec[r] \in Busy
      BY <1>4, <1>5 DEF Busy
  <2>5. \A r \in Requests :
            codec'[r] \in Busy <=> \E p \in Pools : r \in Range(wire'[p])
      BY <1>2, <2>4, Places
  <2> QED BY <2>1, <2>2, <2>3, <2>5 DEF PlaceOK, Queued, Sent
<1>9. CodecInv'
  <2> SUFFICES ASSUME NEW r \in Requests PROVE CodecOK(r)' BY DEF CodecInv
  <2>1. CodecOK(r) BY DEF Inv, CodecInv
  <2>2. CASE r \in rs
    <3>1. codec'[r] = "Init" /\ r \in accepted' /\ answers'[r] = <<>>
        BY <1>2, <1>4, <1>5, <2>2
    <3> QED BY <3>1 DEF CodecOK
  <2>3. CASE r \notin rs /\ r \in lost
      BY <1>2, <1>4, <1>5, <2>3 DEF CodecOK, Busy
  <2>4. CASE r \notin rs /\ r \notin lost
      BY <1>2, <1>4, <2>1, <2>4 DEF CodecOK
  <2> QED BY <2>2, <2>3, <2>4
<1>10. SeenOK'
  <2>1. \A r \in Proxied : r \in Requests BY DEF Requests
  <2> QED BY <1>4, <2>1 DEF Inv, SeenOK
<1>11. /\ \A g \in {"CONNECTING", "CONNECTED", "BLACKLISTED", "POOLS"} :
            gauges'[g] = gauges[g]
       /\ gauges'["REQUEST_QUEUE"] = gauges["REQUEST_QUEUE"] + Cardinality(rs)
       /\ gauges' = [g \in Gauges |-> gauges'[g]]
    BY <1>1, <1>2 DEF Gauges
<1>12. QueueCounted'
  <2>1. Queued' = Queued \cup rs
    <3>1. \A r \in rs : \E p \in Pools : pool(r) = p BY <1>3
    <3> QED BY <1>7, <3>1 DEF Queued
  <2>2. Queued \cap rs = {} BY <1>5 DEF Queued
  <2>3. IsFiniteSet(Queued) /\ IsFiniteSet(rs)
    <3>1. Queued \in SUBSET Requests BY DEF Queued
    <3> QED BY <3>1, AllFinite
  <2>4. Cardinality(Queued') = Cardinality(Queued) + Cardinality(rs)
      BY <2>1, <2>2, <2>3, CountingSets
  <2> QED BY <1>11, <2>4, GaugeParts DEF Inv, QueueCounted
<1>13. /\ TableInv' /\ UndisturbedByReload' /\ LinksCounted' /\ PoolsCounted'
       /\ WireOK'
    BY <1>2, <1>11, Frames
<1>14. GaugesCount' BY <1>12, <1>13, GaugeParts
<1>15. TypeOK'
  <2>1. gauges' \in [Gauges -> Nat] BY <1>11, <1>14, GaugesTyped
  <2>2. queue' \in [Pools -> Seq(Requests)] BY <1>2, <1>6
  <2>3. codec' \in [Requests -> CodecStates] BY <1>1 DEF CodecStates
  <2>4. accepted' \subseteq Requests BY <1>1, <1>2
  <2> QED BY <1>1, <1>2, <2>1, <2>2, <2>3, <2>4 DEF TypeOK, Activity
<1> QED BY <1>8, <1>9, <1>10, <1>13, <1>14, <1>15 DEF Inv

\* A request is refused for want of its destination only if something
\* happened to that.
LEMMA Refused ==
    ASSUME Inv, NEW r \in Calls \cup Proxied, NEW known \in BOOLEAN,
           Dest(r) \notin touched => known,
           Outcome(Dest(r), known) # "Ready"
    PROVE  LET o == Outcome(Dest(r), known) IN
           /\ o \in {"NoDestination", "NoPool", "Err", "NotReady"}
           /\ Range(Rejection(o)) \cap Missing # {} => Dest(r) \in touched
           /\ Range(ErrorPage(o)) \cap Missing # {} => Dest(r) \in touched
<1> DEFINE o == Outcome(Dest(r), known)
<1>1. r \in Requests /\ Dest(r) \in Dests BY DestIn DEF Requests
<1>2. o \in {"NoDestination", "NoPool", "Err", "NotReady"} BY OutcomeIs
<1>3. Dest(r) \notin touched => o = "NotReady" BY <1>1, OnlyBusy
<1> HIDE DEF o
<1>4. Dest(r) \notin touched => /\ Range(Rejection(o)) \cap Missing = {}
                                /\ Range(ErrorPage(o)) \cap Missing = {}
    BY <1>2, <1>3, RefusalSays
<1> QED BY <1>2, <1>4 DEF o

LEMMA OneTaken ==
    ASSUME Inv, NEW r \in Calls \cup Proxied, codec[r] \in {"None", "Body"},
           NEW known \in BOOLEAN, Outcome(Dest(r), known) = "Ready",
           codec' = [codec EXCEPT ![r] = "Init"], Enqueue({r}),
           activity' \in Activity,
           UNCHANGED <<configVars, tableVars, answers, seen, lenient>>
    PROVE  Inv'
<1>1. r \in Requests /\ codec \in [Requests -> CodecStates]
    BY DEF Inv, TypeOK, Requests
<1>2. plain[Dest(r)] # 0 BY OutcomeIs
<1> DEFINE rs == {r}
           lost == {}
<1>3. codec' = [s \in Requests |-> IF s \in rs THEN "Init"
                        ELSE IF s \in lost THEN "Dropped" ELSE codec[s]]
    BY <1>1
<1>4. /\ rs \in SUBSET Requests /\ lost \in SUBSET Notices
      /\ \A s \in rs \cup lost : codec[s] \in {"None", "Body"}
      /\ \A s \in rs : plain[Dest(s)] # 0
    BY <1>1, <1>2
<1>5. Enqueue(rs) OBVIOUS
<1> HIDE DEF rs, lost
<1> QED BY <1>3, <1>4, <1>5, EnqueueStep

LEMMA MethodCallKeeps ==
    ASSUME Inv, NEW r \in Calls,
           NEW active \in {NoActivity} \cup (0 .. MaxIdle + 1),
           MethodCall(r, active)
    PROVE  Inv'
<1> DEFINE known == Dest(r) \in config
           o == Outcome(Dest(r), known)
<1>1. r \in Requests /\ Dest(r) \in Dests /\ r \in Calls \cup Proxied
    BY DestIn DEF Requests
<1>2. activity' \in Activity
  <2>1. CASE active = NoActivity
      BY <2>1 DEF MethodCall, Activity
  <2>2. CASE active # NoActivity
    <3>1. active \in Nat BY <2>2, DestinationAssumption
    <3>2. activity' = Clamp(active) BY <2>2 DEF MethodCall
    <3> QED BY <3>1, <3>2, ClampIn
  <2> QED BY <2>1, <2>2
<1>3. known \in BOOLEAN /\ (Dest(r) \notin touched => known)
  <2>1. Dest(r) \notin touched => Dest(r) \in config
      BY <1>1 DEF Inv, TableInv, TableOK
  <2>2. known \in BOOLEAN OBVIOUS
  <2> QED BY <2>1, <2>2
<1>4. codec[r] \in {"None", "Body"} BY DEF MethodCall
<1>5. UNCHANGED <<configVars, tableVars, seen, lenient>> BY DEF MethodCall
<1>6. \/ /\ o = "Ready" /\ codec' = [codec EXCEPT ![r] = "Init"]
         /\ Enqueue({r}) /\ UNCHANGED answers
      \/ /\ o # "Ready" /\ codec' = [codec EXCEPT ![r] = "Dropped"]
         /\ answers' = [answers EXCEPT ![r] = Rejection(o)]
         /\ UNCHANGED <<poolVars, accepted>>
    BY DEF MethodCall
<1> HIDE DEF known
<1>7. CASE /\ o = "Ready" /\ codec' = [codec EXCEPT ![r] = "Init"]
           /\ Enqueue({r}) /\ UNCHANGED answers
    BY <1>1, <1>2, <1>3, <1>4, <1>5, <1>7, OneTaken
<1>8. CASE /\ o # "Ready" /\ codec' = [codec EXCEPT ![r] = "Dropped"]
           /\ answers' = [answers EXCEPT ![r] = Rejection(o)]
           /\ UNCHANGED <<poolVars, accepted>>
  <2>1. /\ o \in {"NoDestination", "NoPool", "Err", "NotReady"}
        /\ Range(Rejection(o)) \cap Missing # {} => Dest(r) \in touched
      BY <1>1, <1>3, <1>8, Refused
  <2> HIDE DEF o
  <2>2. Rejection(o) \in Seq(Answers) BY <2>1, RefusalSays
  <2> QED BY <1>1, <1>2, <1>4, <1>5, <1>8, <2>1, <2>2, AnswerStep
<1> QED BY <1>6, <1>7, <1>8

LEMMA InvalidCallKeeps ==
    ASSUME Inv, NEW r \in Calls, InvalidCall(r), activity' = NoActivity
    PROVE  Inv'
<1>1. "ValidationError" \in Answers \ Missing BY DEF Answers, Missing
<1> DEFINE a == <<"ValidationError">>
<1>2. a \in Seq(Answers) /\ Range(a) \cap Missing = {} BY <1>1, OneAnswer
<1>3. /\ codec[r] \in {"None", "Body"} /\ r \in Calls \cup Proxied
      /\ codec' = [codec EXCEPT ![r] = "Dropped"]
      /\ answers' = [answers EXCEPT ![r] = a] /\ activity' \in Activity
      /\ UNCHANGED <<configVars, tableVars, poolVars, seen, lenient, accepted>>
    BY DEF InvalidCall, Activity
<1> HIDE DEF a
<1> QED BY <1>2, <1>3, AnswerStep

\* A proxied request waits for its body.
LEMMA BodyStep ==
    ASSUME Inv, NEW r \in Proxied, codec[r] = "None",
           codec' = [codec EXCEPT ![r] = "Body"],
           seen' = [seen EXCEPT ![r] = Dest(r) \in config],
           activity' = NoActivity,
           UNCHANGED <<configVars, tableVars, poolVars, answers, lenient, accepted>>
    PROVE  Inv'
<1> USE DEF configVars, tableVars, poolVars
<1>1. /\ TypeOK /\ codec \in [Requests -> CodecStates]
      /\ r \in Requests /\ seen \in [Proxied -> BOOLEAN]
    BY DEF Inv, TypeOK, Requests
<1>2. \A s \in Requests : codec'[s] = IF s = r THEN "Body" ELSE codec[s]
    BY <1>1
<1>3. PlaceOK'
  <2>1. Queued' = Queued /\ Sent' = Sent BY DEF Queued, Sent
  <2>2. \A s \in Requests : /\ codec'[s] = "Init" <=> codec[s] = "Init"
                            /\ codec'[s] \in Busy <=> codec[s] \in Busy
      BY <1>2 DEF Busy
  <2> QED BY <2>1, <2>2 DEF Inv, PlaceOK
<1>4. CodecInv'
  <2> SUFFICES ASSUME NEW s \in Requests PROVE CodecOK(s)' BY DEF CodecInv
  <2>1. CodecOK(s) BY DEF Inv, CodecInv
  <2>2. CASE s = r BY <1>2, <2>1, <2>2 DEF CodecOK, Busy
  <2>3. CASE s # r BY <1>2, <2>1, <2>3 DEF CodecOK
  <2> QED BY <2>2, <2>3
<1>5. SeenOK'
  <2> SUFFICES ASSUME NEW s \in Proxied, codec'[s] = "Body",
                      Dest(s) \notin touched
               PROVE  seen'[s]
      BY DEF SeenOK
  <2>1. s \in Requests /\ Dest(s) \in Dests BY DestIn DEF Requests
  <2>2. CASE s = r
    <3>1. Dest(s) \in config BY <2>1 DEF Inv, TableInv, TableOK
    <3> QED BY <1>1, <2>2, <3>1
  <2>3. CASE s # r BY <1>1, <1>2, <2>1, <2>3 DEF Inv, SeenOK
  <2> QED BY <2>2, <2>3
<1>6. /\ TableInv' /\ LinksCounted' /\ QueueCounted' /\ PoolsCounted' /\ WireOK'
      /\ UndisturbedByReload'
    BY Frames
<1>7. GaugesCount' BY <1>6, GaugeParts
<1>8. TypeOK'
  <2>1. codec' \in [Requests -> CodecStates] BY <1>1 DEF CodecStates
  <2>2. seen' \in [Proxied -> BOOLEAN]
    <3>1. (Dest(r) \in config) \in BOOLEAN OBVIOUS
    <3> QED BY <1>1, <3>1
  <2> QED BY <1>1, <2>1, <2>2 DEF TypeOK
<1> QED BY <1>3, <1>4, <1>5, <1>6, <1>7, <1>8 DEF Inv

LEMMA ProxyServeKeeps ==
    ASSUME Inv, NEW r \in Proxied, NEW host \in BOOLEAN, ProxyServe(r, host),
           activity' = NoActivity
    PROVE  Inv'
<1>1. CASE host
  <2>1. /\ codec[r] = "None" /\ codec' = [codec EXCEPT ![r] = "Body"]
        /\ seen' = [seen EXCEPT ![r] = Dest(r) \in config]
        /\ UNCHANGED <<configVars, tableVars, poolVars, answers, lenient,
                       accepted>>
      BY <1>1 DEF ProxyServe
  <2> QED BY <2>1, BodyStep
<1>2. CASE ~ host
  <2>1. "400" \in Answers \ Missing BY DEF Answers, Missing
  <2> DEFINE a == <<"400">>
  <2>2. a \in Seq(Answers) /\ Range(a) \cap Missing = {} BY <2>1, OneAnswer
  <2>3. /\ codec[r] \in {"None", "Body"} /\ r \in Calls \cup Proxied
        /\ codec' = [codec EXCEPT ![r] = "Dropped"]
        /\ answers' = [answers EXCEPT ![r] = a] /\ activity' \in Activity
        /\ UNCHANGED <<configVars, tableVars, poolVars, seen, lenient, accepted>>
      BY <1>2 DEF ProxyServe, Activity
  <2> HIDE DEF a
  <2> QED BY <2>2, <2>3, AnswerStep
<1> QED BY <1>1, <1>2

LEMMA ProxyBodyKeeps ==
    ASSUME Inv, NEW r \in Proxied, ProxyBody(r), activity' = NoActivity
    PROVE  Inv'
<1> DEFINE known == seen[r]
           o == Outcome(Dest(r), known)
<1>1. r \in Requests /\ Dest(r) \in Dests /\ r \in Calls \cup Proxied
    BY DestIn DEF Requests
<1>2. activity' \in Activity BY DEF Activity
<1>3. known \in BOOLEAN BY DEF Inv, TypeOK
<1>4. codec[r] = "Body" BY DEF ProxyBody
<1>5. Dest(r) \notin touched => known BY <1>4 DEF Inv, SeenOK
<1>6. UNCHANGED <<configVars, tableVars, seen, lenient>> BY DEF ProxyBody
<1>7. \/ /\ o = "Ready" /\ codec' = [codec EXCEPT ![r] = "Init"]
         /\ Enqueue({r}) /\ UNCHANGED answers
      \/ /\ o # "Ready" /\ codec' = [codec EXCEPT ![r] = "Dropped"]
         /\ answers' = [answers EXCEPT ![r] = ErrorPage(o)]
         /\ UNCHANGED <<poolVars, accepted>>
    BY DEF ProxyBody
<1> HIDE DEF known
<1>8. CASE /\ o = "Ready" /\ codec' = [codec EXCEPT ![r] = "Init"]
           /\ Enqueue({r}) /\ UNCHANGED answers
    BY <1>1, <1>2, <1>3, <1>4, <1>6, <1>8, OneTaken
<1>9. CASE /\ o # "Ready" /\ codec' = [codec EXCEPT ![r] = "Dropped"]
           /\ answers' = [answers EXCEPT ![r] = ErrorPage(o)]
           /\ UNCHANGED <<poolVars, accepted>>
  <2>1. /\ o \in {"NoDestination", "NoPool", "Err", "NotReady"}
        /\ Range(ErrorPage(o)) \cap Missing # {} => Dest(r) \in touched
      BY <1>1, <1>3, <1>5, <1>9, Refused
  <2> HIDE DEF o
  <2>2. ErrorPage(o) \in Seq(Answers) BY <2>1, RefusalSays
  <2> QED BY <1>1, <1>2, <1>4, <1>6, <1>9, <2>1, <2>2, AnswerStep
<1> QED BY <1>7, <1>8, <1>9

LEMMA SendInactivityKeeps ==
    ASSUME Inv, NEW s \in Sessions, SendInactivity(s), activity' = NoActivity
    PROVE  Inv'
<1> DEFINE own == {s} \X Range(Handlers)
           sent == {r \in own : Outcome(Dest(r), Dest(r) \in config) = "Ready"}
           lost == own \ sent
<1>1. own \subseteq Notices /\ own \subseteq Requests
    BY DEF Notices, Requests
<1>2. /\ \A r \in own : codec[r] = "None"
      /\ codec' = [r \in Requests |-> IF r \in sent THEN "Init"
                        ELSE IF r \in own THEN "Dropped" ELSE codec[r]]
      /\ Enqueue(sent)
      /\ UNCHANGED <<configVars, tableVars, answers, seen, lenient>>
    BY DEF SendInactivity
<1>3. \A r \in sent : plain[Dest(r)] # 0
  <2>1. \A r \in sent : (Dest(r) \in config) \in BOOLEAN OBVIOUS
  <2> QED BY <2>1, OutcomeIs
<1>4. sent \subseteq own OBVIOUS
<1> HIDE DEF sent, own
<1>5. codec' = [r \in Requests |-> IF r \in sent THEN "Init"
                        ELSE IF r \in lost THEN "Dropped" ELSE codec[r]]
    BY <1>2
<1>6. /\ sent \in SUBSET Requests /\ lost \in SUBSET Notices
      /\ \A r \in sent \cup lost : codec[r] \in {"None", "Body"}
    BY <1>1, <1>2, <1>4
<1>7. activity' \in Activity BY DEF Activity
<1> HIDE DEF lost
<1> QED BY <1>2, <1>3, <1>5, <1>6, <1>7, EnqueueStep

---------------------------------------------------------------------------
(***************************************************************************)
(* Pools come and go.                                                      *)
(***************************************************************************)

LEMMA OnePoolEach ==
    ASSUME NEW D, IsFiniteSet(D), NEW n
    PROVE  LET T == {<<d, n[d]>> : d \in D} IN
           IsFiniteSet(T) /\ Cardinality(T) = Cardinality(D)
<1> DEFINE T == {<<d, n[d]>> : d \in D}
           f == [d \in D |-> <<d, n[d]>>]
<1>1. f \in [D -> T] OBVIOUS
<1>2. IsInjective(f) BY DEF IsInjective
<1>3. \A t \in T : \E d \in D : f[d] = t OBVIOUS
<1> HIDE DEF T, f
<1>4. f \in Surjection(D, T) BY <1>1, <1>3 DEF Surjection
<1>5. f \in Injection(D, T) BY <1>1, <1>2 DEF Injection
<1> QED BY <1>4, <1>5, FS_Surjection DEF T

LEMMA InitOK == Init => Inv
<1> SUFFICES ASSUME Init PROVE Inv OBVIOUS
<1> USE DEF Init
<1>1. MaxReloads \in Nat BY DestinationAssumption
<1>2. Cardinality(Dests) \in Nat BY DestinationAssumption, FS_CardinalityType
<1>3. <<>> \in Seq(Requests) /\ <<>> \in Seq(Answers) /\ Distinct(<<>>)
        /\ Range(<<>>) = {}
    BY NoneIn
<1>4. Queued = {} /\ Sent = {} BY <1>3 DEF Queued, Sent
<1>5. TypeOK
  <2>1. 1 \in 0 .. MaxReloads + 1 /\ 0 \in 0 .. MaxReloads BY <1>1
  <2>2. gauges \in [Gauges -> Nat] BY <1>2
  <2>3. /\ queue \in [Pools -> Seq(Requests)] /\ wire \in [Pools -> Seq(Requests)]
        /\ answers \in [Requests -> Seq(Answers)]
      BY <1>3
  <2>4. codec \in [Requests -> CodecStates] BY DEF CodecStates
  <2> QED BY <2>1, <2>2, <2>3, <2>4 DEF TypeOK
<1>6. PlaceOK
  <2>1. \A p \in Pools : /\ queue[p] = <<>> /\ wire[p] = <<>>
      OBVIOUS
  <2>2. \A r \in Requests : codec[r] = "None" OBVIOUS
  <2>3. "None" \notin Busy BY DEF Busy
  <2> QED BY <1>3, <1>4, <2>1, <2>2, <2>3 DEF PlaceOK
<1>7. WireOK BY DEF WireOK
<1>8. CodecInv BY DEF CodecInv, CodecOK, Busy
<1>9. TableInv BY <1>1 DEF TableInv, TableOK
<1>10. SeenOK
  <2>1. \A r \in Proxied : r \in Requests BY DEF Requests
  <2> QED BY <2>1 DEF SeenOK
<1>11. UndisturbedByReload
  <2>1. \A r \in Calls \cup Proxied : r \in Requests BY DEF Requests
  <2> QED BY <1>3, <2>1 DEF UndisturbedByReload
<1>12. GaugesCount
  <2>1. Cardinality({}) = 0 BY FS_EmptySet
  <2>2. /\ At("connecting") = {} /\ At("up") = {} /\ At("black") = {}
      BY DEF At
  <2>3. LinksCounted BY <2>1, <2>2 DEF LinksCounted, Gauges
  <2>4. QueueCounted BY <1>4, <2>1 DEF QueueCounted, Gauges
  <2>5. PoolsCounted
    <3> DEFINE n == [d \in Dests |-> 1]
               T == {<<d, n[d]>> : d \in Dests}
    <3>1. Cardinality(T) = Cardinality(Dests)
      <4> HIDE DEF n
      <4> QED BY OnePoolEach, DestinationAssumption
    <3>2. \A p \in Pools : p[2] \in Int /\ p[2] >= 1 /\ p[1] \in Dests
                                /\ p = <<p[1], p[2]>>
        BY <1>1 DEF Pools
    <3>3. Open = T
      <4>1. ASSUME NEW p \in Open PROVE p \in T
        <5>1. p \in Pools /\ p[2] <= made[p[1]] BY DEF Open
        <5>2. p[2] = 1 BY <3>2, <5>1
        <5>3. p = <<p[1], n[p[1]]>> BY <3>2, <5>1, <5>2
        <5> QED BY <3>2, <5>1, <5>3
      <4>2. ASSUME NEW d \in Dests PROVE <<d, n[d]>> \in Open
        <5>1. <<d, 1>> \in Pools BY <1>1 DEF Pools
        <5> QED BY <5>1 DEF Open
      <4> QED BY <4>1, <4>2
    <3> QED BY <3>1, <3>3 DEF PoolsCounted, Gauges
  <2> QED BY <2>3, <2>4, <2>5, GaugeParts
<1> QED BY <1>5, <1>6, <1>7, <1>8, <1>9, <1>10, <1>11, <1>12 DEF Inv

LEMMA ReloadKeeps ==
    ASSUME Inv, NEW c \in SUBSET Dests, Reload(c), activity' = NoActivity
    PROVE  Inv'
<1> USE DEF tableVars, poolVars, requestVars
<1>1. /\ reloads < MaxReloads /\ config' = c /\ notice' = TRUE
      /\ touched' = touched \cup ((config \ c) \cup (c \ config))
      /\ reloads' = reloads + 1
      /\ UNCHANGED <<tableVars, poolVars, requestVars>>
    BY DEF Reload
<1>2. /\ TypeOK /\ reloads \in Nat /\ MaxReloads \in Nat
      /\ made \in [Dests -> 0 .. MaxReloads + 1]
    BY DestinationAssumption DEF Inv, TypeOK
<1>3. TableInv'
  <2>1. ASSUME NEW d \in Dests PROVE TableOK(d)'
    <3>1. TableOK(d) /\ made[d] \in Int BY <1>2 DEF Inv, TableInv
    <3>2. plain'[d] <= made'[d] BY <1>1, <3>1 DEF TableOK
    <3>3. made'[d] + (IF notice' THEN 1 ELSE 0) <= reloads' + 1
        BY <1>1, <1>2, <3>1 DEF TableOK
    <3>4. d \notin touched' => d \in config' /\ plain'[d] # 0
                                /\ <<d, plain'[d]>> \notin stopping'
        BY <1>1, <3>1 DEF TableOK
    <3> QED BY <3>2, <3>3, <3>4 DEF TableOK
  <2>2. \A p \in stopping' : p[2] <= made'[p[1]]
      BY <1>1 DEF Inv, TableInv
  <2> QED BY <2>1, <2>2 DEF TableInv
<1>4. /\ PlaceOK' /\ WireOK' /\ CodecInv' /\ LinksCounted' /\ QueueCounted'
      /\ PoolsCounted'
    BY <1>1, Frames
<1>5. GaugesCount' BY <1>4, GaugeParts
<1>6. SeenOK' BY <1>1 DEF Inv, SeenOK
<1>7. UndisturbedByReload' BY <1>1 DEF Inv, UndisturbedByReload
<1>8. TypeOK'
  <2>1. reloads' \in 0 .. MaxReloads BY <1>1, <1>2
  <2>2. config' \subseteq Dests /\ touched' \subseteq Dests
      BY <1>1, <1>2 DEF TypeOK
  <2> QED BY <1>1, <1>2, <2>1, <2>2 DEF TypeOK
<1> QED BY <1>3, <1>4, <1>5, <1>6, <1>7, <1>8 DEF Inv

LEMMA UpdateKeeps ==
    ASSUME Inv, Update, activity' = NoActivity
    PROVE  Inv'
<1> USE DEF requestVars
<1>1. /\ notice /\ notice' = FALSE
      /\ stopping' = stopping \cup {<<d, plain[d]>> : d \in ToDelete}
      /\ gauges' = [gauges EXCEPT !["POOLS"] =
                        gauges["POOLS"] + Cardinality(ToCreate)]
      /\ UNCHANGED <<config, touched, reloads, closed, queue, wire, link,
                     requestVars>>
    BY DEF Update
<1>2. /\ TypeOK /\ reloads \in Nat /\ reloads <= MaxReloads /\ MaxReloads \in Nat
      /\ made \in [Dests -> 0 .. MaxReloads + 1]
      /\ plain \in [Dests -> 0 .. MaxReloads + 1]
      /\ config \subseteq Dests /\ gauges \in [Gauges -> Nat]
      /\ stopping \subseteq Pools /\ closed \subseteq stopping
    BY DestinationAssumption DEF Inv, TypeOK
<1>3. /\ ToDelete \subseteq Dests /\ ToCreate \subseteq Dests
      /\ \A d \in ToDelete : plain[d] # 0 /\ d \notin config
      /\ \A d \in ToCreate : plain[d] = 0 /\ d \in config
    BY <1>2 DEF ToDelete, ToCreate
<1>4. \A d \in Dests :
        /\ made'[d] = IF d \in ToCreate THEN made[d] + 1 ELSE made[d]
        /\ d \in ToDelete => plain'[d] = 0
        /\ d \in ToCreate => plain'[d] = made[d] + 1
        /\ d \notin ToDelete /\ d \notin ToCreate => plain'[d] = plain[d]
  <2> SUFFICES ASSUME NEW d \in Dests
               PROVE  /\ made'[d] = IF d \in ToCreate THEN made[d] + 1 ELSE made[d]
                      /\ d \in ToDelete => plain'[d] = 0
                      /\ d \in ToCreate => plain'[d] = made[d] + 1
                      /\ d \notin ToDelete /\ d \notin ToCreate
                            => plain'[d] = plain[d]
      OBVIOUS
  <2>1. made'[d] = IF d \in ToCreate THEN made[d] + 1 ELSE made[d]
      BY DEF Update
  <2>2. plain'[d] = CASE d \in ToDelete -> 0
                      [] d \in ToCreate -> made[d] + 1
                      [] OTHER -> plain[d]
      BY DEF Update
  <2>3. ~ (d \in ToDelete /\ d \in ToCreate) BY <1>3
  <2> QED BY <2>1, <2>2, <2>3
<1>5. \A d \in Dests : /\ made[d] \in Nat /\ made[d] + 1 <= reloads + 1
                       /\ plain[d] \in Nat /\ plain[d] <= made[d]
  <2> SUFFICES ASSUME NEW d \in Dests
               PROVE  /\ made[d] \in Nat /\ made[d] + 1 <= reloads + 1
                      /\ plain[d] \in Nat /\ plain[d] <= made[d]
      OBVIOUS
  <2>1. made[d] \in Nat /\ plain[d] \in Nat BY <1>2
  <2>2. TableOK(d) BY DEF Inv, TableInv
  <2>3. (IF notice THEN 1 ELSE 0) = 1 BY <1>1
  <2> QED BY <2>1, <2>2, <2>3 DEF TableOK
<1>6. \A d \in Dests : <<d, plain[d]>> \in Pools \/ plain[d] = 0
  <2> SUFFICES ASSUME NEW d \in Dests, plain[d] # 0
               PROVE  <<d, plain[d]>> \in Pools
      OBVIOUS
  <2>1. plain[d] \in 1 .. MaxReloads + 1 BY <1>2, <1>5
  <2> QED BY <2>1 DEF Pools
<1>7. TableInv'
  <2>1. ASSUME NEW d \in Dests PROVE TableOK(d)'
    <3>1. TableOK(d) BY DEF Inv, TableInv
    <3>2. plain'[d] <= made'[d] BY <1>4, <1>5, <1>3
    <3>3. made'[d] + (IF notice' THEN 1 ELSE 0) <= reloads' + 1
        BY <1>1, <1>2, <1>4, <1>5
    <3>4. ASSUME d \notin touched'
          PROVE  d \in config' /\ plain'[d] # 0 /\ <<d, plain'[d]>> \notin stopping'
      <4>1. d \in config /\ plain[d] # 0 /\ <<d, plain[d]>> \notin stopping
          BY <1>1, <3>1, <3>4 DEF TableOK
      <4>2. d \notin ToDelete /\ d \notin ToCreate BY <1>3, <4>1
      <4>3. plain'[d] = plain[d] BY <1>4, <4>2
      <4>4. <<d, plain[d]>> \notin {<<e, plain[e]>> : e \in ToDelete}
          BY <4>2
      <4> QED BY <1>1, <4>1, <4>3, <4>4
    <3> QED BY <3>2, <3>3, <3>4 DEF TableOK
  <2>2. ASSUME NEW p \in stopping' PROVE p[2] <= made'[p[1]]
    <3>1. \A d \in Dests : made[d] <= made'[d] /\ made'[d] \in Nat BY <1>4, <1>5
    <3>2. CASE p \in stopping
      <4>1. p[1] \in Dests /\ p[2] \in Nat BY <1>2, <3>2 DEF Pools
      <4>2. p[2] <= made[p[1]] BY <3>2 DEF Inv, TableInv
      <4>3. made[p[1]] \in Nat BY <1>5, <4>1
      <4> QED BY <3>1, <4>1, <4>2, <4>3
    <3>3. CASE p \in {<<d, plain[d]>> : d \in ToDelete}
      <4>1. PICK d \in ToDelete : p = <<d, plain[d]>> BY <3>3
      <4>2. d \in Dests /\ p[1] = d /\ p[2] = plain[d] BY <1>3, <4>1
      <4> QED BY <1>5, <3>1, <4>2
    <3> QED BY <1>1, <3>2, <3>3
  <2> QED BY <2>1, <2>2 DEF TableInv
<1>8. PoolsCounted'
  <2> DEFINE n == [d \in ToCreate |-> made[d] + 1]
             T == {<<d, n[d]>> : d \in ToCreate}
  <2>1. IsFiniteSet(ToCreate) BY <1>3, FS_Subset, DestinationAssumption
  <2>2. IsFiniteSet(T) /\ Cardinality(T) = Cardinality(ToCreate)
      BY <2>1, OnePoolEach
  <2>3. \A p : p \in T <=> \E d \in ToCreate : p = <<d, made[d] + 1>> OBVIOUS
  <2> HIDE DEF T
  <2>4. IsFiniteSet(Open)
    <3>1. Open \in SUBSET Pools BY DEF Open
    <3> QED BY <3>1, AllFinite
  <2>5. \A p \in Pools : p[1] \in Dests /\ p[2] \in Nat /\ p = <<p[1], p[2]>>
      BY <1>2 DEF Pools
  <2>6. ASSUME NEW p \in T
        PROVE  /\ p \in Pools /\ p[1] \in ToCreate /\ p[1] \in Dests
               /\ p[2] = made[p[1]] + 1 /\ ~ (p[2] <= made[p[1]])
    <3>1. PICK d \in ToCreate : p = <<d, made[d] + 1>> BY <2>3
    <3>2. d \in Dests /\ made[d] \in Nat /\ made[d] + 1 <= MaxReloads + 1
        BY <1>2, <1>3, <1>5
    <3>3. made[d] + 1 \in 1 .. MaxReloads + 1 BY <1>2, <3>2
    <3>4. p \in Pools BY <3>1, <3>2, <3>3 DEF Pools
    <3>5. p[1] = d /\ p[2] = made[d] + 1 BY <3>1
    <3> QED BY <3>2, <3>4, <3>5
  <2>7. Open \cap T = {} BY <2>6 DEF Open
  <2>8. T \cap closed = {} BY <1>2, <2>6 DEF Inv, TableInv
  <2>9. Open' = Open \cup T
    <3>1. ASSUME NEW p \in Pools
          PROVE  p[2] <= made'[p[1]] <=> p[2] <= made[p[1]] \/ p \in T
      <4>1. p[1] \in Dests /\ p[2] \in Nat /\ made[p[1]] \in Nat
          BY <1>5, <2>5
      <4>2. CASE p[1] \in ToCreate
        <5>1. made'[p[1]] = made[p[1]] + 1 BY <1>4, <4>1, <4>2
        <5>2. p \in T <=> p[2] = made[p[1]] + 1
          <6>1. p \in T => p[2] = made[p[1]] + 1 BY <2>6
          <6>2. p[2] = made[p[1]] + 1 => p = <<p[1], made[p[1]] + 1>> BY <2>5
          <6> QED BY <2>3, <4>2, <6>1, <6>2
        <5> QED BY <4>1, <5>1, <5>2
      <4>3. CASE p[1] \notin ToCreate
          BY <1>4, <2>6, <4>1, <4>3
      <4> QED BY <4>2, <4>3
    <3>2. T \subseteq Pools BY <2>6
    <3> QED BY <1>1, <2>8, <3>1, <3>2 DEF Open
  <2>10. Cardinality(Open') = Cardinality(Open) + Cardinality(ToCreate)
      BY <2>2, <2>4, <2>7, <2>9, CountingSets
  <2>11. gauges'["POOLS"] = gauges["POOLS"] + Cardinality(ToCreate)
      BY <1>1, <1>2 DEF Gauges
  <2> QED BY <2>10, <2>11, GaugeParts DEF Inv, PoolsCounted
<1>9. \A g \in {"CONNECTING", "CONNECTED", "BLACKLISTED", "REQUEST_QUEUE"} :
        gauges'[g] = gauges[g]
    BY <1>1, <1>2 DEF Gauges
<1>10. /\ PlaceOK' /\ WireOK' /\ CodecInv' /\ LinksCounted' /\ QueueCounted'
       /\ SeenOK' /\ UndisturbedByReload'
    BY <1>1, <1>9, Frames
<1>11. GaugesCount' BY <1>8, <1>10, GaugeParts
<1>12. TypeOK'
  <2>1. gauges' = [g \in Gauges |-> gauges'[g]] BY <1>1, <1>2
  <2>2. gauges' \in [Gauges -> Nat] BY <1>11, <2>1, GaugesTyped
  <2>3. made' \in [Dests -> 0 .. MaxReloads + 1]
    <3>1. \A d \in Dests : made'[d] \in 0 .. MaxReloads + 1
        BY <1>2, <1>4, <1>5
    <3>2. made' = [d \in Dests |-> made'[d]] BY DEF Update
    <3> QED BY <3>1, <3>2
  <2>4. plain' \in [Dests -> 0 .. MaxReloads + 1]
    <3>1. \A d \in Dests : plain'[d] \in 0 .. MaxReloads + 1
      <4> SUFFICES ASSUME NEW d \in Dests
                   PROVE  plain'[d] \in 0 .. MaxReloads + 1
          OBVIOUS
      <4>1. CASE d \in ToDelete BY <1>2, <1>4, <4>1
      <4>2. CASE d \in ToCreate BY <1>2, <1>4, <1>5, <4>2
      <4>3. CASE d \notin ToDelete /\ d \notin ToCreate BY <1>2, <1>4, <4>3
      <4> QED BY <4>1, <4>2, <4>3
    <3>2. plain' = [d \in Dests |-> plain'[d]] BY DEF Update
    <3> QED BY <3>1, <3>2
  <2>5. stopping' \subseteq Pools /\ closed' \subseteq stopping'
      BY <1>1, <1>2, <1>3, <1>6
  <2> QED BY <1>1, <1>2, <2>2, <2>3, <2>4, <2>5 DEF TypeOK
<1> QED BY <1>7, <1>10, <1>11, <1>12 DEF Inv

LEMMA AddressesGoneKeeps ==
    ASSUME Inv, NEW p \in Pools, AddressesGone(p), activity' = NoActivity
    PROVE  Inv'
<1> USE DEF poolVars, requestVars
<1>1. /\ plain[p[1]] = p[2] /\ stopping' = stopping \cup {p}
      /\ touched' = touched \cup {p[1]}
      /\ UNCHANGED <<config, notice, reloads, plain, made, closed, poolVars,
                     requestVars>>
    BY DEF AddressesGone
<1>2. TypeOK /\ p[1] \in Dests /\ p = <<p[1], p[2]>> BY DEF Inv, TypeOK, Pools
<1>3. TableInv'
  <2>1. ASSUME NEW d \in Dests PROVE TableOK(d)'
    <3>1. TableOK(d) BY DEF Inv, TableInv
    <3>2. d # p[1] => <<d, plain[d]>> # p BY <1>2
    <3> QED BY <1>1, <3>1, <3>2 DEF TableOK
  <2>2. \A o \in stopping' : o[2] <= made'[o[1]]
      BY <1>1, <1>2 DEF Inv, TableInv, TableOK
  <2> QED BY <2>1, <2>2 DEF TableInv
<1>4. /\ PlaceOK' /\ WireOK' /\ CodecInv' /\ LinksCounted' /\ QueueCounted'
      /\ PoolsCounted'
    BY <1>1, Frames
<1>5. GaugesCount' BY <1>4, GaugeParts
<1>6. SeenOK' BY <1>1 DEF Inv, SeenOK
<1>7. UndisturbedByReload' BY <1>1 DEF Inv, UndisturbedByReload
<1>8. TypeOK' BY <1>1, <1>2 DEF TypeOK
<1> QED BY <1>3, <1>4, <1>5, <1>6, <1>7, <1>8 DEF Inv

LEMMA CloseKeeps ==
    ASSUME Inv, NEW p \in Pools, p \notin closed, Close(p),
           activity' = NoActivity
    PROVE  Inv'
<1> USE DEF configVars, requestVars
<1>1. /\ p \in stopping \ closed /\ closed' = closed \cup {p}
      /\ Counted({}, {"POOLS"})
      /\ UNCHANGED <<configVars, plain, made, stopping, queue, wire, link,
                     requestVars>>
    BY DEF Close
<1>2. TypeOK /\ gauges \in [Gauges -> Nat] BY DEF Inv, TypeOK
<1>3. \A g \in Gauges : gauges'[g] = gauges[g] - (IF g = "POOLS" THEN 1 ELSE 0)
    BY <1>1, <1>2 DEF Counted
<1>4. /\ \A g \in {"CONNECTING", "CONNECTED", "BLACKLISTED", "REQUEST_QUEUE"} :
            gauges'[g] = gauges[g]
      /\ gauges'["POOLS"] = gauges["POOLS"] - 1
    BY <1>2, <1>3 DEF Gauges
<1>5. /\ PlaceOK' /\ WireOK' /\ CodecInv' /\ TableInv' /\ LinksCounted'
      /\ QueueCounted' /\ SeenOK' /\ UndisturbedByReload'
    BY <1>1, <1>4, Frames
<1>6. PoolsCounted'
  <2>1. p \in Open BY <1>1 DEF Open, Inv, TableInv
  <2>2. Open' = Open \ {p} BY <1>1 DEF Open
  <2>3. IsFiniteSet(Open)
    <3>1. Open \in SUBSET Pools BY DEF Open
    <3> QED BY <3>1, AllFinite
  <2>4. Cardinality(Open') = Cardinality(Open) - 1
      BY <2>1, <2>2, <2>3, Counting
  <2> QED BY <1>4, <2>4, GaugeParts DEF Inv, PoolsCounted
<1>7. GaugesCount' BY <1>5, <1>6, GaugeParts
<1>8. TypeOK'
  <2>1. gauges' = [g \in Gauges |-> gauges'[g]] BY <1>1 DEF Counted
  <2>2. gauges' \in [Gauges -> Nat] BY <1>7, <2>1, GaugesTyped
  <2> QED BY <1>1, <1>2, <2>2 DEF TypeOK
<1> QED BY <1>5, <1>7, <1>8 DEF Inv

LEMMA StutterKeeps ==
    ASSUME Inv, UNCHANGED vars
    PROVE  Inv'
<1> USE DEF vars, configVars, tableVars, poolVars, requestVars
<1>1. /\ PlaceOK' /\ WireOK' /\ CodecInv' /\ TableInv' /\ LinksCounted'
      /\ QueueCounted' /\ PoolsCounted' /\ SeenOK' /\ UndisturbedByReload'
    BY Frames
<1>2. GaugesCount' BY <1>1, GaugeParts
<1>3. TypeOK' BY DEF Inv, TypeOK
<1> QED BY <1>1, <1>2, <1>3 DEF Inv

LEMMA NextKeeps == Inv /\ [Next]_vars => Inv'
<1> SUFFICES ASSUME Inv, [Next]_vars PROVE Inv' OBVIOUS
<1>1. ASSUME NEW r \in Calls, NEW active \in {NoActivity} \cup (0 .. MaxIdle + 1),
             MethodCall(r, active)
      PROVE  Inv'
    BY <1>1, MethodCallKeeps
<1>2. ASSUME NEW c \in SUBSET Dests, Reload(c), activity' = NoActivity
      PROVE  Inv'
    BY <1>2, ReloadKeeps
<1>3. ASSUME Update, activity' = NoActivity PROVE Inv' BY <1>3, UpdateKeeps
<1>4. ASSUME NEW r \in Calls, InvalidCall(r), activity' = NoActivity
      PROVE  Inv'
    BY <1>4, InvalidCallKeeps
<1>5. ASSUME NEW r \in Proxied, NEW host \in BOOLEAN, ProxyServe(r, host),
             activity' = NoActivity
      PROVE  Inv'
    BY <1>5, ProxyServeKeeps
<1>6. ASSUME NEW r \in Proxied, ProxyBody(r), activity' = NoActivity
      PROVE  Inv'
    BY <1>6, ProxyBodyKeeps
<1>7. ASSUME NEW s \in Sessions, SendInactivity(s), activity' = NoActivity
      PROVE  Inv'
    BY <1>7, SendInactivityKeeps
<1>8. ASSUME NEW p \in Pools, Work(p), activity' = NoActivity
      PROVE  Inv'
  <2>1. ASSUME NEW ok \in BOOLEAN, NEW type \in ContentTypes,
               HeadersReceived(p, ok, type)
        PROVE  Inv'
      BY <1>8, <2>1, HeadersReceivedKeeps
  <2>2. ASSUME NEW json \in BOOLEAN, DataReceived(p, json) PROVE Inv'
      BY <1>8, <2>2, DataReceivedKeeps
  <2>3. CASE Disconnect(p) BY <1>8, <2>3, HangupKeeps DEF Disconnect
  <2>4. CASE Forward(p) BY <1>8, <2>4, ForwardKeeps
  <2>5. CASE AddressesGone(p) BY <1>8, <2>5, AddressesGoneKeeps
  <2>6. CASE Close(p) BY <1>8, <2>6, CloseKeeps DEF Work
  <2>7. CASE \/ Attempt(p) \/ ConnectionAbort(p) \/ ConnectionError(p)
             \/ BlacklistRemove(p) \/ Connection(p)
      BY <1>8, <2>7, LinkStepsKeep
  <2> QED BY <1>8, <2>1, <2>2, <2>3, <2>4, <2>5, <2>6, <2>7 DEF Work
<1>9. CASE UNCHANGED vars BY <1>9, StutterKeeps
<1> QED BY <1>1, <1>2, <1>3, <1>4, <1>5, <1>6, <1>7, <1>8, <1>9 DEF Next

LEMMA Invariance == Spec => []Inv
BY InitOK, NextKeeps, PTL DEF Spec

---------------------------------------------------------------------------
(***************************************************************************)
(* Theorems.                                                               *)
(***************************************************************************)

\* Queues, wires, gauges and the table of pools keep their types: no gauge
\* of http_pools.rs falls below zero and no pool is numbered beyond the
\* number of reloads.
THEOREM TypeCorrect == Spec => []TypeOK
<1>1. Inv => TypeOK BY DEF Inv
<1> QED BY <1>1, Invariance, PTL

\* A call or proxied request that a pool has taken is answered exactly once
\* (CallCodec's Drop and data_received, the proxy's oneshot channel),
\* whatever happens to pool, connection and configuration meanwhile.
THEOREM AnsweredOnce == Spec => []AcceptedAnsweredOnce
<1>1. ASSUME Inv PROVE AcceptedAnsweredOnce
  <2> SUFFICES ASSUME NEW r \in accepted \ Notices
               PROVE  Len(answers[r]) = IF r \in Queued \cup Sent THEN 0 ELSE 1
      BY DEF AcceptedAnsweredOnce
  <2>1. r \in Requests /\ codec[r] \in CodecStates BY <1>1 DEF Inv, TypeOK
  <2>2. CodecOK(r) BY <1>1, <2>1 DEF Inv, CodecInv
  <2>3. /\ codec[r] = "Init" <=> r \in Queued
        /\ codec[r] \in Busy <=> r \in Sent
      BY <1>1, <2>1 DEF Inv, PlaceOK
  <2>4. CASE r \in Queued \cup Sent
    <3>1. answers[r] = <<>> BY <2>2, <2>3, <2>4 DEF CodecOK
    <3> QED BY <2>4, <3>1
  <2>5. CASE r \notin Queued \cup Sent
    <3>1. codec[r] \notin {"None", "Body"} BY <2>2 DEF CodecOK
    <3>2. codec[r] \in {"Void", "Dropped"}
        BY <2>1, <2>3, <2>5, <3>1 DEF CodecStates, Busy
    <3> QED BY <2>2, <2>5, <3>2 DEF CodecOK
  <2> QED BY <2>4, <2>5
<1>2. Inv => AcceptedAnsweredOnce BY <1>1
<1> QED BY <1>2, Invariance, PTL

\* HttpPools::update and the replacement of the configuration, which happen
\* at different times, refuse no request of a destination that was itself
\* neither added nor removed nor lost its addresses.
THEOREM ReloadsDisturbNothing == Spec => []UndisturbedByReload
<1>1. Inv => UndisturbedByReload BY DEF Inv
<1> QED BY <1>1, Invariance, PTL

\* In every order of the calls of Collect the gauges of http_pools.rs count
\* pools and waiting requests exactly, and are off in connections and
\* blacklisted addresses by exactly those of pools that closed.
THEOREM GaugesStayRight == Spec => []GaugesCount
<1>1. Inv => GaugesCount BY DEF Inv
<1> QED BY <1>1, Invariance, PTL
=============================================================================
