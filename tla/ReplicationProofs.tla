------------------------- MODULE ReplicationProofs -------------------------
(***************************************************************************)
(* Proofs about Replication, for any servers, operations, restarts, lost   *)
(* sockets and changes of the configuration.                               *)
(*                                                                         *)
(* Between two servers there may be any number of sockets, and actions may *)
(* wait on each of them.  That an action is applied once follows from two  *)
(* facts: a link leads through a socket whose other end is the server the  *)
(* link is for, so one request reaches one server through one socket, and  *)
(* an end that is not over belongs to the present start of its server, so  *)
(* what is applied and what waits are compared within one life of it.      *)
(***************************************************************************)
EXTENDS Replication, FiniteSetTheorems, SequenceTheorems, TLAPS

---------------------------------------------------------------------------
(***************************************************************************)
(* Sequences of messages.                                                  *)
(***************************************************************************)

Distinct(q) == \A i, j \in 1 .. Len(q) : q[i] = q[j] => i = j
Apart(q, r) == \A i \in 1 .. Len(q), j \in 1 .. Len(r) : q[i] # r[j]
Older(q, k) == \A i \in 1 .. Len(q) : q[i].request <= k

LatticeOf(m) == [m EXCEPT !.action = "Lattice"]

\* Every Attach of q has its Lattice before it in q, or in r.
Ready(q, r) ==
    \A i \in 1 .. Len(q) : q[i].action = "Attach" =>
        \/ \E j \in 1 .. i - 1 : q[j] = LatticeOf(q[i])
        \/ \E j \in 1 .. Len(r) : r[j] = LatticeOf(q[i])

\* What is for a connection is for one of server id.
Mine(q, id) ==
    \A i \in 1 .. Len(q) :
        q[i].action \in {"Subscribe", "Unsubscribe", "Attach", "Detach"} =>
            q[i].to = id

\* The elements of q \o m
LEMMA Joined ==
    ASSUME NEW q \in Seq(Message), NEW m \in Seq(Message)
    PROVE  /\ q \o m \in Seq(Message)
           /\ Len(q) \in Nat /\ Len(m) \in Nat
           /\ Len(q \o m) = Len(q) + Len(m)
           /\ \A i \in 1 .. Len(q) : (q \o m)[i] = q[i]
           /\ \A i \in 1 .. Len(m) : (q \o m)[Len(q) + i] = m[i]
           /\ \A i \in 1 .. Len(q \o m) :
                \/ i \in 1 .. Len(q) /\ (q \o m)[i] = q[i]
                \/ /\ i - Len(q) \in 1 .. Len(m)
                   /\ (q \o m)[i] = m[i - Len(q)]
OBVIOUS

LEMMA JoinedApart ==
    ASSUME NEW q \in Seq(Message), NEW m \in Seq(Message),
           NEW r \in Seq(Message), Apart(q, r), Apart(m, r)
    PROVE  Apart(q \o m, r)
<1> DEFINE a == q \o m
<1>1. \A i \in 1 .. Len(a) :
        \/ i \in 1 .. Len(q) /\ a[i] = q[i]
        \/ i - Len(q) \in 1 .. Len(m) /\ a[i] = m[i - Len(q)]
    BY Joined
<1> HIDE DEF a
<1>2. Apart(a, r) BY <1>1 DEF Apart
<1> QED BY <1>2 DEF a

LEMMA ApartSymmetric ==
    ASSUME NEW q, NEW r, Apart(q, r)
    PROVE  Apart(r, q)
BY DEF Apart

LEMMA JoinedDistinct ==
    ASSUME NEW q \in Seq(Message), NEW m \in Seq(Message),
           Distinct(q), Distinct(m), Apart(q, m)
    PROVE  Distinct(q \o m)
<1> DEFINE a == q \o m
<1>1. /\ Len(q) \in Nat
      /\ \A i \in 1 .. Len(a) :
            \/ i \in 1 .. Len(q) /\ a[i] = q[i]
            \/ i - Len(q) \in 1 .. Len(m) /\ a[i] = m[i - Len(q)]
    BY Joined
<1> HIDE DEF a
<1>2. ASSUME NEW i \in 1 .. Len(a), NEW j \in 1 .. Len(a), a[i] = a[j]
      PROVE  i = j
  <2>1. CASE i \in 1 .. Len(q) /\ a[i] = q[i]
    <3>1. j \in 1 .. Len(q) /\ a[j] = q[j]
        BY <1>1, <1>2, <2>1 DEF Apart
    <3> QED BY <1>2, <2>1, <3>1 DEF Distinct
  <2>2. CASE i - Len(q) \in 1 .. Len(m) /\ a[i] = m[i - Len(q)]
    <3>1. j - Len(q) \in 1 .. Len(m) /\ a[j] = m[j - Len(q)]
        BY <1>1, <1>2, <2>2 DEF Apart
    <3>2. i - Len(q) = j - Len(q) BY <1>2, <2>2, <3>1 DEF Distinct
    <3>3. i \in Int /\ j \in Int BY <1>1
    <3> QED BY <1>1, <3>2, <3>3
  <2> QED BY <1>1, <2>1, <2>2
<1> QED BY <1>2 DEF Distinct, a

LEMMA JoinedOlder ==
    ASSUME NEW q \in Seq(Message), NEW m \in Seq(Message), NEW k \in Nat,
           Older(q, k), Older(m, k + 1)
    PROVE  Older(q \o m, k + 1)
<1> DEFINE a == q \o m
<1>1. \A i \in 1 .. Len(a) :
        \/ i \in 1 .. Len(q) /\ a[i] = q[i]
        \/ i - Len(q) \in 1 .. Len(m) /\ a[i] = m[i - Len(q)]
    BY Joined
<1>2. \A i \in 1 .. Len(q) : q[i].request \in Nat
  <2>1. \A i \in 1 .. Len(q) : q[i] \in Message OBVIOUS
  <2> QED BY <2>1 DEF Message
<1> HIDE DEF a
<1>3. \A i \in 1 .. Len(q) : q[i].request <= k + 1 BY <1>2 DEF Older
<1>4. Older(a, k + 1) BY <1>1, <1>3 DEF Older
<1> QED BY <1>4 DEF a

\* Messages of a later request are new.
LEMMA LaterApart ==
    ASSUME NEW q \in Seq(Message), NEW m \in Seq(Message), NEW k \in Nat,
           Older(q, k), \A i \in 1 .. Len(m) : m[i].request = k + 1
    PROVE  Apart(q, m)
<1>1. \A i \in 1 .. Len(q) : q[i].request \in Nat
  <2>1. \A i \in 1 .. Len(q) : q[i] \in Message OBVIOUS
  <2> QED BY <2>1 DEF Message
<1> QED BY <1>1 DEF Older, Apart

LEMMA JoinedReady ==
    ASSUME NEW q \in Seq(Message), NEW m \in Seq(Message),
           NEW r \in Seq(Message), Ready(q, r), Ready(m, <<>>)
    PROVE  Ready(q \o m, r)
<1> DEFINE a == q \o m
<1>1. /\ Len(q) \in Nat
      /\ \A i \in 1 .. Len(q) : a[i] = q[i]
      /\ \A i \in 1 .. Len(m) : a[Len(q) + i] = m[i]
      /\ \A i \in 1 .. Len(a) :
            \/ i \in 1 .. Len(q) /\ a[i] = q[i]
            \/ i - Len(q) \in 1 .. Len(m) /\ a[i] = m[i - Len(q)]
    BY Joined
<1> HIDE DEF a
<1>2. ASSUME NEW i \in 1 .. Len(a), a[i].action = "Attach"
      PROVE  \/ \E j \in 1 .. i - 1 : a[j] = LatticeOf(a[i])
             \/ \E j \in 1 .. Len(r) : r[j] = LatticeOf(a[i])
  <2>1. CASE i \in 1 .. Len(q) /\ a[i] = q[i]
    <3>1. \A j \in 1 .. i - 1 : a[j] = q[j] BY <1>1, <2>1
    <3> QED BY <1>2, <2>1, <3>1 DEF Ready
  <2>2. CASE i - Len(q) \in 1 .. Len(m) /\ a[i] = m[i - Len(q)]
    <3>1. Len(<<>>) = 0 OBVIOUS
    <3>2. PICK j \in 1 .. (i - Len(q)) - 1 : m[j] = LatticeOf(a[i])
        BY <1>2, <2>2, <3>1 DEF Ready
    <3>3. /\ Len(q) + j \in 1 .. i - 1 /\ j \in 1 .. Len(m)
        BY <1>1, <2>2
    <3>4. a[Len(q) + j] = m[j] BY <1>1, <3>3
    <3> QED BY <3>2, <3>3, <3>4
  <2> QED BY <1>1, <2>1, <2>2
<1>3. Ready(a, r) BY <1>2 DEF Ready
<1> QED BY <1>3 DEF a

LEMMA ReadyWithMore ==
    ASSUME NEW q \in Seq(Message), NEW m \in Seq(Message),
           NEW r \in Seq(Message), Ready(q, r)
    PROVE  Ready(q, r \o m)
<1>1. \A j \in 1 .. Len(r) : j \in 1 .. Len(r \o m) /\ (r \o m)[j] = r[j]
    OBVIOUS
<1> QED BY <1>1 DEF Ready

LEMMA JoinedMine ==
    ASSUME NEW q \in Seq(Message), NEW m \in Seq(Message), NEW id,
           Mine(q, id), Mine(m, id)
    PROVE  Mine(q \o m, id)
<1> DEFINE a == q \o m
<1>1. \A i \in 1 .. Len(a) :
        \/ i \in 1 .. Len(q) /\ a[i] = q[i]
        \/ i - Len(q) \in 1 .. Len(m) /\ a[i] = m[i - Len(q)]
    BY Joined
<1> HIDE DEF a
<1>2. Mine(a, id) BY <1>1 DEF Mine
<1> QED BY <1>2 DEF a

\* The first message leaves q.
LEMMA Popped ==
    ASSUME NEW q \in Seq(Message), q # <<>>
    PROVE  /\ Head(q) \in Message /\ Tail(q) \in Seq(Message)
           /\ Head(q) = q[1] /\ 1 \in 1 .. Len(q)
           /\ \A i \in 1 .. Len(Tail(q)) :
                /\ i + 1 \in 1 .. Len(q) /\ Tail(q)[i] = q[i + 1]
           /\ \A i \in 1 .. Len(q) :
                i = 1 \/ (i - 1 \in 1 .. Len(Tail(q)) /\ q[i] = Tail(q)[i - 1])
OBVIOUS

LEMMA PoppedKeeps ==
    ASSUME NEW q \in Seq(Message), q # <<>>, Distinct(q)
    PROVE  /\ Distinct(Tail(q))
           /\ Apart(Tail(q), <<Head(q)>>)
           /\ \A k : Older(q, k) => Older(Tail(q), k)
           /\ \A r : Apart(q, r) => Apart(Tail(q), r)
           /\ \A r : Apart(q, r) => Apart(<<Head(q)>>, r)
<1> DEFINE t == Tail(q)  h == Head(q)  one == <<h>>
<1>1. /\ h = q[1] /\ 1 \in 1 .. Len(q)
      /\ \A i \in 1 .. Len(t) : /\ i + 1 \in 1 .. Len(q) /\ t[i] = q[i + 1]
    BY Popped
<1>2. Len(one) = 1 /\ one[1] = h OBVIOUS
<1>3. Len(one) = 1 => \A i \in 1 .. Len(one) : i = 1 OBVIOUS
<1> HIDE DEF t, h, one
<1>4. Distinct(t)
  <2>1. ASSUME NEW i \in 1 .. Len(t), NEW j \in 1 .. Len(t), t[i] = t[j]
        PROVE  i = j
    <3>1. i + 1 = j + 1 BY <1>1, <2>1 DEF Distinct
    <3>2. i \in Int /\ j \in Int OBVIOUS
    <3> QED BY <3>1, <3>2
  <2> QED BY <2>1 DEF Distinct
<1>5. Apart(t, one)
  <2>1. \A i \in 1 .. Len(t) : i + 1 # 1 OBVIOUS
  <2>2. \A i \in 1 .. Len(t) : t[i] # h BY <1>1, <2>1 DEF Distinct
  <2> QED BY <1>2, <1>3, <2>2 DEF Apart
<1>6. \A k : Older(q, k) => Older(t, k) BY <1>1 DEF Older
<1>7. \A r : Apart(q, r) => Apart(t, r) BY <1>1 DEF Apart
<1>8. \A r : Apart(q, r) => Apart(one, r) BY <1>1, <1>2, <1>3 DEF Apart
<1> QED BY <1>4, <1>5, <1>6, <1>7, <1>8 DEF t, h, one

\* The first message is applied, or it is no Lattice.
LEMMA PoppedReady ==
    ASSUME NEW q \in Seq(Message), q # <<>>, NEW r \in Seq(Message),
           Ready(q, r)
    PROVE  /\ Ready(Tail(q), Append(r, Head(q)))
           /\ Head(q).action # "Lattice" => Ready(Tail(q), r)
           /\ Head(q).action = "Attach" =>
                \E j \in 1 .. Len(r) : r[j] = LatticeOf(Head(q))
<1> DEFINE t == Tail(q)  h == Head(q)  s == Append(r, h)
<1>1. /\ h \in Message /\ h = q[1] /\ 1 \in 1 .. Len(q)
      /\ \A i \in 1 .. Len(t) : /\ i + 1 \in 1 .. Len(q) /\ t[i] = q[i + 1]
      /\ \A i \in 1 .. Len(q) :
            i = 1 \/ (i - 1 \in 1 .. Len(t) /\ q[i] = t[i - 1])
    BY Popped
<1>2. /\ \A j \in 1 .. Len(r) : j \in 1 .. Len(s) /\ s[j] = r[j]
      /\ Len(s) \in 1 .. Len(s) /\ s[Len(s)] = h
    BY <1>1
<1>3. \A x \in Message : LatticeOf(x).action = "Lattice"
    BY DEF LatticeOf, Message
<1>4. \A i \in 1 .. Len(q) : q[i] \in Message OBVIOUS
<1> HIDE DEF t, h, s
<1>5. ASSUME NEW i \in 1 .. Len(t), t[i].action = "Attach"
      PROVE  \/ \E j \in 1 .. i - 1 : t[j] = LatticeOf(t[i])
             \/ h = LatticeOf(t[i])
             \/ \E j \in 1 .. Len(r) : r[j] = LatticeOf(t[i])
  <2>1. i + 1 \in 1 .. Len(q) /\ q[i + 1] = t[i] /\ q[i + 1].action = "Attach"
      BY <1>1, <1>5
  <2>2. CASE \E j \in 1 .. Len(r) : r[j] = LatticeOf(t[i]) BY <2>2
  <2>3. CASE \E j \in 1 .. (i + 1) - 1 : q[j] = LatticeOf(t[i])
    <3>1. PICK j \in 1 .. (i + 1) - 1 : q[j] = LatticeOf(t[i]) BY <2>3
    <3>2. j \in 1 .. Len(q) /\ j \in Int BY <2>1
    <3>3. CASE j = 1 BY <1>1, <3>1, <3>3
    <3>4. CASE j # 1
      <4>1. j - 1 \in 1 .. i - 1 BY <3>2, <3>4
      <4>2. q[j] = t[j - 1] BY <1>1, <3>2, <3>4
      <4> QED BY <3>1, <4>1, <4>2
    <3> QED BY <3>3, <3>4
  <2> QED BY <2>1, <2>2, <2>3 DEF Ready
<1>6. Ready(t, s) BY <1>2, <1>5 DEF Ready
<1>7. h.action # "Lattice" => Ready(t, r)
  <2>1. \A i \in 1 .. Len(t) : t[i] \in Message BY <1>1, <1>4
  <2> QED BY <1>3, <1>5, <2>1 DEF Ready
<1>8. h.action = "Attach" => \E j \in 1 .. Len(r) : r[j] = LatticeOf(h)
  <2>1. 1 .. 1 - 1 = {} OBVIOUS
  <2> QED BY <1>1, <2>1 DEF Ready
<1> QED BY <1>6, <1>7, <1>8 DEF t, h, s

---------------------------------------------------------------------------
(***************************************************************************)
(* The messages of a request, and what its node keeps for itself.          *)
(***************************************************************************)

Msg(action, to) == [action |-> action, to |-> to, request |-> requests + 1]

LEMMA MessagesAre ==
    ASSUME TypeOK, requests < MaxRequests, NEW op \in Operation,
           NEW to \in ServerId
    PROVE  /\ op = "LatticeSubscribe" =>
                Messages(op, to) = <<Msg("Lattice", to), Msg("Attach", to)>>
           /\ op # "LatticeSubscribe" =>
                /\ Messages(op, to) = <<Msg(op, to)>>
                /\ op # "Attach" /\ Msg(op, to) \in Message
           /\ Msg("Lattice", to) \in Message /\ Msg("Attach", to) \in Message
<1>1. requests + 1 \in 1 .. MaxRequests
    BY ConfigAssumption DEF TypeOK
<1>2. \A a \in RemoteAction : Msg(a, to) \in Message
    BY <1>1 DEF Msg, Message
<1>3. /\ {"Lattice", "Attach"} \subseteq RemoteAction
      /\ op # "LatticeSubscribe" => op \in RemoteAction /\ op # "Attach"
    BY ConfigAssumption DEF RemoteAction, Operations
<1>4. op = "LatticeSubscribe" =>
        Messages(op, to) = <<Msg("Lattice", to), Msg("Attach", to)>>
    BY DEF Messages, RemoteActions, Msg
<1>5. op # "LatticeSubscribe" => Messages(op, to) = <<Msg(op, to)>>
    BY DEF Messages, RemoteActions, Msg
<1> QED BY <1>2, <1>3, <1>4, <1>5

\* One message alone, and a Lattice with its Attach.
LEMMA OneMessage ==
    ASSUME NEW m \in Message, m.action # "Attach"
    PROVE  /\ <<m>> \in Seq(Message) /\ Distinct(<<m>>)
           /\ Ready(<<m>>, <<>>)
           /\ \A i \in 1 .. Len(<<m>>) : <<m>>[i] = m
<1>1. /\ <<m>> \in Seq(Message)
      /\ \A i \in 1 .. Len(<<m>>) : i = 1 /\ <<m>>[i] = m
    OBVIOUS
<1> QED BY <1>1 DEF Distinct, Ready

LEMMA TwoMessages ==
    ASSUME NEW to \in ServerId, Msg("Lattice", to) \in Message,
           Msg("Attach", to) \in Message
    PROVE  LET q == <<Msg("Lattice", to), Msg("Attach", to)>> IN
           /\ q \in Seq(Message) /\ Distinct(q) /\ Ready(q, <<>>)
           /\ \A i \in 1 .. Len(q) :
                q[i] \in {Msg("Lattice", to), Msg("Attach", to)}
<1> DEFINE L == Msg("Lattice", to)  A == Msg("Attach", to)  q == <<L, A>>
<1>1. /\ L.action = "Lattice" /\ A.action = "Attach" /\ L = LatticeOf(A)
    BY DEF Msg, LatticeOf
<1> HIDE DEF L, A
<1>2. /\ q \in Seq(Message) /\ Len(q) = 2 /\ q[1] = L /\ q[2] = A
    BY DEF L, A
<1>3. \A i \in 1 .. Len(q) : i = 1 \/ i = 2 BY <1>2
<1> HIDE DEF q
<1>4. Distinct(q) BY <1>1, <1>2, <1>3 DEF Distinct
<1>5. 1 \in 1 .. 2 - 1 OBVIOUS
<1>6. Ready(q, <<>>) BY <1>1, <1>2, <1>3, <1>5 DEF Ready
<1> QED BY <1>2, <1>3, <1>4, <1>6 DEF q, L, A

LEMMA PairJoined ==
    ASSUME NEW S, NEW a \in S, NEW b \in S
    PROVE  <<a>> \o <<b>> = <<a, b>>
<1> DEFINE p == <<a>> \o <<b>>  q == <<a, b>>
<1>1. p \in Seq(S) /\ Len(p) = 2 /\ p[1] = a /\ p[2] = b OBVIOUS
<1>2. q \in Seq(S) /\ Len(q) = 2 /\ q[1] = a /\ q[2] = b OBVIOUS
<1> HIDE DEF p, q
<1>3. \A i \in 1 .. Len(p) : i = 1 \/ i = 2 BY <1>1
<1>4. p = q BY <1>1, <1>2, <1>3, SeqEqual
<1> QED BY <1>4 DEF p, q

\* Messages are new and distinct, and an Attach has its Lattice.
LEMMA MessagesNew ==
    ASSUME TypeOK, requests < MaxRequests, NEW op \in Operation,
           NEW to \in ServerId
    PROVE  LET q == Messages(op, to) IN
           /\ q \in Seq(Message) /\ Distinct(q) /\ Ready(q, <<>>)
           /\ \A i \in 1 .. Len(q) : q[i].request = requests + 1
<1>1. \A a : Msg(a, to).request = requests + 1 /\ Msg(a, to).action = a
    BY DEF Msg
<1>2. CASE op = "LatticeSubscribe"
  <2> DEFINE q == <<Msg("Lattice", to), Msg("Attach", to)>>
  <2>1. /\ Messages(op, to) = q
        /\ Msg("Lattice", to) \in Message /\ Msg("Attach", to) \in Message
      BY <1>2, MessagesAre
  <2>2. /\ q \in Seq(Message) /\ Distinct(q) /\ Ready(q, <<>>)
        /\ \A i \in 1 .. Len(q) :
                q[i] \in {Msg("Lattice", to), Msg("Attach", to)}
      BY <2>1, TwoMessages
  <2> HIDE DEF q
  <2> QED BY <1>1, <2>1, <2>2
<1>3. CASE op # "LatticeSubscribe"
  <2> DEFINE q == <<Msg(op, to)>>
  <2>1. Messages(op, to) = q /\ op # "Attach" /\ Msg(op, to) \in Message
      BY <1>3, MessagesAre
  <2>2. /\ q \in Seq(Message) /\ Distinct(q) /\ Ready(q, <<>>)
        /\ \A i \in 1 .. Len(q) : q[i] = Msg(op, to)
      BY <1>1, <2>1, OneMessage
  <2> HIDE DEF q
  <2> QED BY <1>1, <2>1, <2>2
<1> QED BY <1>2, <1>3

LEMMA LocalNew ==
    ASSUME TypeOK, requests < MaxRequests, NEW op \in Operation,
           NEW to \in ServerId, NEW n \in Node
    PROVE  LET q == Local(n, Messages(op, to)) IN
           /\ q \in Seq(Message) /\ Distinct(q) /\ Ready(q, <<>>)
           /\ \A i \in 1 .. Len(q) : q[i].request = requests + 1
           /\ Mine(q, Self(n))
<1>1. \A a : /\ Msg(a, to).request = requests + 1 /\ Msg(a, to).action = a
             /\ Msg(a, to).to = to
    BY DEF Msg
<1>2. /\ "Lattice" \notin Addressed /\ "Attach" \in Addressed
      /\ {"Subscribe", "Unsubscribe", "Attach", "Detach"} \subseteq Addressed
    BY DEF Addressed
<1>3. CASE Local(n, Messages(op, to)) = <<>>
    BY <1>3 DEF Distinct, Ready, Mine
<1>4. CASE /\ to = Self(n)
           /\ Local(n, Messages(op, to)) = Messages(op, to)
  <2> DEFINE q == Messages(op, to)
  <2>1. /\ q \in Seq(Message) /\ Distinct(q) /\ Ready(q, <<>>)
        /\ \A i \in 1 .. Len(q) : q[i].request = requests + 1
      BY MessagesNew
  <2>2. \A i \in 1 .. Len(q) : q[i].to = to
    <3>1. DOMAIN q = 1 .. Len(q) BY <2>1
    <3>2. \A i \in DOMAIN q : q[i].to = to BY DEF Messages
    <3> QED BY <3>1, <3>2
  <2> HIDE DEF q
  <2>3. Mine(q, Self(n)) BY <1>4, <2>2 DEF Mine
  <2> QED BY <1>4, <2>1, <2>3 DEF q
<1>5. ASSUME NEW a, a \notin Addressed, Msg(a, to) \in Message,
             Local(n, Messages(op, to)) = <<Msg(a, to)>>
      PROVE  LET q == Local(n, Messages(op, to)) IN
             /\ q \in Seq(Message) /\ Distinct(q) /\ Ready(q, <<>>)
             /\ \A i \in 1 .. Len(q) : q[i].request = requests + 1
             /\ Mine(q, Self(n))
  <2> DEFINE q == <<Msg(a, to)>>
  <2>1. a # "Attach" BY <1>2, <1>5
  <2>2. /\ q \in Seq(Message) /\ Distinct(q) /\ Ready(q, <<>>)
        /\ \A i \in 1 .. Len(q) : q[i] = Msg(a, to)
      BY <1>1, <1>5, <2>1, OneMessage
  <2> HIDE DEF q
  <2>3. Mine(q, Self(n)) BY <1>1, <1>2, <1>5, <2>2 DEF Mine
  <2>4. Local(n, Messages(op, to)) = q BY <1>5 DEF q
  <2> QED BY <1>1, <2>2, <2>3, <2>4
<1>6. CASE op = "LatticeSubscribe"
  <2>1. /\ Messages(op, to) = <<Msg("Lattice", to), Msg("Attach", to)>>
        /\ Msg("Lattice", to) \in Message /\ Msg("Attach", to) \in Message
      BY <1>6, MessagesAre
  <2> DEFINE L == Msg("Lattice", to)  A == Msg("Attach", to)
  <2>a. L.action = "Lattice" /\ A.action = "Attach" /\ A.to = to BY <1>1
  <2> HIDE DEF L, A
  <2>b. /\ 1 \in DOMAIN <<L, A>> /\ <<L, A>>[1] = L
        /\ 2 \in DOMAIN <<L, A>> /\ <<L, A>>[2] = A
        /\ <<L>> \o <<>> = <<L>>
      OBVIOUS
  <2>d. <<L>> \o <<A>> = <<L, A>> BY <2>1, PairJoined DEF L, A
  <2>c. Local(n, <<L, A>>) = <<L>> \o (IF to = Self(n) THEN <<A>> ELSE <<>>)
      BY <1>2, <2>a, <2>b DEF Local
  <2>2. to = Self(n) => Local(n, Messages(op, to)) = Messages(op, to)
      BY <2>1, <2>b, <2>c, <2>d DEF L, A
  <2>3. to # Self(n) => Local(n, Messages(op, to)) = <<Msg("Lattice", to)>>
      BY <2>1, <2>b, <2>c, <2>d DEF L, A
  <2> QED BY <1>2, <1>4, <1>5, <2>1, <2>2, <2>3
<1>7. CASE op # "LatticeSubscribe"
  <2>1. Messages(op, to) = <<Msg(op, to)>> /\ Msg(op, to) \in Message
      BY <1>7, MessagesAre
  <2>2. to = Self(n) => Local(n, Messages(op, to)) = Messages(op, to)
      BY <1>1, <2>1 DEF Local
  <2>3. to # Self(n) /\ op \in Addressed => Local(n, Messages(op, to)) = <<>>
      BY <1>1, <2>1 DEF Local
  <2>4. op \notin Addressed => Local(n, Messages(op, to)) = <<Msg(op, to)>>
      BY <1>1, <2>1 DEF Local
  <2> QED BY <1>3, <1>4, <1>5, <2>1, <2>2, <2>3, <2>4
<1> QED BY <1>6, <1>7

---------------------------------------------------------------------------
(***************************************************************************)
(* The invariant.                                                          *)
(***************************************************************************)

Chan(l, e) == sockets[l].chan[e]

Id(s, e) == IF e = "client" THEN s.client ELSE s.server

\* An end that is not over is one of the present start of its server; what
\* is not accepted, or is over, carries nothing.
Good(s) ==
    /\ s.phase = "connecting" => s.client = Self(s.client[1])
    /\ s.phase = "accepted" => s.client # s.server
    /\ \A e \in End :
        /\ s.phase # "accepted" => s.end[e] # "running" /\ s.chan[e] = <<>>
        /\ s.phase = "accepted" /\ s.end[e] # "ended" =>
                Id(s, e) = Self(Id(s, e)[1])
        /\ s.end[e] = "ended" => s.chan[e] = <<>>

SocketInv == \A l \in DOMAIN sockets : Good(sockets[l])

LinkOK(n, id) ==
    LET l == links[n][id] IN
    l # NoSocket => /\ sockets[l].phase = "accepted"
                    /\ {sockets[l].client, sockets[l].server} = {Self(n), id}

LinkInv == \A n \in Node, id \in ServerId : LinkOK(n, id)

\* What waits for server IdAt(l, e) at one end.
WaitOK(l, e) ==
    /\ Older(Chan(l, e), requests) /\ Distinct(Chan(l, e))
    /\ \A k \in DOMAIN sockets, f \in End : IdAt(k, f) = IdAt(l, e) =>
            (k = l /\ f = e) \/ Apart(Chan(l, e), Chan(k, f))
    /\ \A n \in Node : IdAt(l, e) = Self(n) =>
            /\ Apart(Chan(l, e), applied[n])
            /\ Ready(Chan(l, e), applied[n])

AppliedOK(n) ==
    /\ Older(applied[n], requests) /\ Distinct(applied[n])
    /\ Ready(applied[n], <<>>) /\ Mine(applied[n], Self(n))

MessageInv ==
    /\ \A l \in DOMAIN sockets, e \in End : WaitOK(l, e)
    /\ \A n \in Node : AppliedOK(n)

Inv == TypeOK /\ SocketInv /\ LinkInv /\ MessageInv

---------------------------------------------------------------------------
(***************************************************************************)
(* Sockets and links.                                                      *)
(***************************************************************************)

LEMMA SocketFields ==
    ASSUME TypeOK, NEW l \in DOMAIN sockets
    PROVE  /\ sockets[l] \in SocketState
           /\ sockets[l].peer \in Node
           /\ sockets[l].client \in ServerId /\ sockets[l].server \in ServerId
           /\ sockets[l].phase \in {"connecting", "accepted", "failed"}
           /\ sockets[l].end \in [End -> {"none", "running", "ended"}]
           /\ sockets[l].chan \in [End -> Seq(Message)]
           /\ \A e \in End : IdAt(l, e) \in ServerId /\ Other(e) \in End
           /\ DOMAIN sockets = 1 .. Len(sockets)
<1>1. sockets[l] \in SocketState /\ DOMAIN sockets = 1 .. Len(sockets)
    BY DEF TypeOK
<1> QED BY <1>1 DEF SocketState, IdAt, Other, End

LEMMA SelfIs ==
    ASSUME TypeOK, NEW n \in Node
    PROVE  Self(n) \in ServerId /\ Self(n)[1] = n /\ Self(n)[2] = start[n]
BY DEF TypeOK, Self, ServerId

\* One socket changes.
LEMMA OneSocket ==
    ASSUME TypeOK, NEW l \in DOMAIN sockets, NEW v \in SocketState,
           sockets' = [sockets EXCEPT ![l] = v]
    PROVE  /\ sockets' \in Seq(SocketState) /\ Len(sockets') = Len(sockets)
           /\ DOMAIN sockets' = DOMAIN sockets
           /\ \A k \in DOMAIN sockets :
                sockets'[k] = IF k = l THEN v ELSE sockets[k]
<1>1. sockets \in Seq(SocketState) /\ l \in 1 .. Len(sockets)
    BY DEF TypeOK
<1> QED BY <1>1, ExceptSeq

\* Links stay good when they are kept or dropped, accepted sockets keep their
\* ids, and a restarted node has no link.
LEMMA LinksKept ==
    ASSUME LinkInv,
           \A l \in DOMAIN sockets : sockets[l].phase = "accepted" =>
                /\ sockets'[l].phase = "accepted"
                /\ sockets'[l].client = sockets[l].client
                /\ sockets'[l].server = sockets[l].server,
           links \in [Node -> [ServerId -> {NoSocket} \cup DOMAIN sockets]],
           \A n \in Node, id \in ServerId :
                \/ links'[n][id] = NoSocket
                \/ links'[n][id] = links[n][id] /\ Self(n)' = Self(n)
    PROVE  LinkInv'
<1> SUFFICES ASSUME NEW n \in Node, NEW id \in ServerId,
                    links'[n][id] # NoSocket
             PROVE  LET l == links'[n][id] IN
                    /\ sockets'[l].phase = "accepted"
                    /\ {sockets'[l].client, sockets'[l].server} =
                            {Self(n)', id}
    BY DEF LinkInv, LinkOK
<1>1. /\ links'[n][id] = links[n][id] /\ Self(n)' = Self(n)
      /\ links[n][id] \in DOMAIN sockets /\ LinkOK(n, id)
    BY DEF LinkInv
<1> QED BY <1>1 DEF LinkOK

\* The types, once the links are known to be good
LEMMA TypedByLinks ==
    ASSUME LinkInv',
           start' \in [Node -> 0 .. MaxRestarts],
           wanted' \in [Node -> SUBSET Node], updates' \in 0 .. MaxUpdates,
           peers' \in [Node -> [Node -> PeerState]],
           links' \in [Node -> [ServerId -> {NoSocket} \cup DOMAIN sockets']],
           sockets' \in Seq(SocketState), Len(sockets') <= MaxSockets,
           requests' \in 0 .. MaxRequests, applied' \in [Node -> Seq(Message)]
    PROVE  TypeOK'
<1>1. \A n \in Node, id \in ServerId : links'[n][id] # NoSocket =>
        {sockets'[links'[n][id]].client, sockets'[links'[n][id]].server}
            = {<<n, start'[n]>>, id}
    BY DEF LinkInv, LinkOK, Self
<1> QED BY <1>1 DEF TypeOK

LEMMA OneChanged ==
    ASSUME TypeOK, SocketInv, NEW l \in DOMAIN sockets, NEW v \in SocketState,
           Good(v), sockets' = [sockets EXCEPT ![l] = v], UNCHANGED start
    PROVE  SocketInv'
<1>1. /\ DOMAIN sockets' = DOMAIN sockets
      /\ \A k \in DOMAIN sockets :
            sockets'[k] = IF k = l THEN v ELSE sockets[k]
    BY OneSocket
<1>2. ASSUME NEW k \in DOMAIN sockets' PROVE Good(sockets'[k])
    BY <1>1, <1>2 DEF SocketInv
<1>3. \A s : Good(s)' <=> Good(s) BY DEF Good, Self
<1> QED BY <1>2, <1>3 DEF SocketInv

\* A step that only changes one socket, and neither ids nor phase when it is
\* accepted
LEMMA OneSocketStep ==
    ASSUME TypeOK, SocketInv, LinkInv, NEW l \in DOMAIN sockets,
           NEW v \in SocketState,
           Good(v), sockets' = [sockets EXCEPT ![l] = v],
           sockets[l].phase = "accepted" =>
                /\ v.phase = "accepted" /\ v.client = sockets[l].client
                /\ v.server = sockets[l].server,
           UNCHANGED <<start, wanted, updates, peers, links, requests>>,
           applied' \in [Node -> Seq(Message)]
    PROVE  TypeOK' /\ SocketInv' /\ LinkInv'
<1>1. /\ sockets' \in Seq(SocketState) /\ Len(sockets') = Len(sockets)
      /\ DOMAIN sockets' = DOMAIN sockets
      /\ \A k \in DOMAIN sockets :
            sockets'[k] = IF k = l THEN v ELSE sockets[k]
    BY OneSocket
<1>2. SocketInv' BY OneChanged
<1>3. LinkInv'
  <2>1. links \in [Node -> [ServerId -> {NoSocket} \cup DOMAIN sockets]]
      BY DEF TypeOK
  <2>2. \A n \in Node, id \in ServerId :
            links'[n][id] = links[n][id] /\ Self(n)' = Self(n)
      BY DEF Self
  <2>3. \A k \in DOMAIN sockets : sockets[k].phase = "accepted" =>
            /\ sockets'[k].phase = "accepted"
            /\ sockets'[k].client = sockets[k].client
            /\ sockets'[k].server = sockets[k].server
      BY <1>1
  <2> QED BY <2>1, <2>2, <2>3, LinksKept
<1>4. TypeOK'
  <2>1. /\ start' \in [Node -> 0 .. MaxRestarts]
        /\ wanted' \in [Node -> SUBSET Node] /\ updates' \in 0 .. MaxUpdates
        /\ peers' \in [Node -> [Node -> PeerState]]
        /\ links' \in [Node -> [ServerId -> {NoSocket} \cup DOMAIN sockets']]
        /\ Len(sockets') <= MaxSockets /\ requests' \in 0 .. MaxRequests
      BY <1>1 DEF TypeOK
  <2> QED BY <1>1, <1>3, <2>1, TypedByLinks
<1> QED BY <1>2, <1>3, <1>4

LEMMA ConnectFailsOK ==
    ASSUME TypeOK, SocketInv, LinkInv, NEW l \in DOMAIN sockets,
           ConnectFails(l)
    PROVE  TypeOK' /\ SocketInv' /\ LinkInv'
<1> DEFINE v == [sockets[l] EXCEPT !.phase = "failed"]
<1>1. sockets[l] \in SocketState /\ Good(sockets[l])
    BY SocketFields DEF SocketInv
<1>2. v \in SocketState BY <1>1 DEF SocketState
<1>3. Good(v) BY <1>1 DEF Good, SocketState, ConnectFails
<1>4. sockets' = [sockets EXCEPT ![l] = v] BY DEF ConnectFails
<1>5. /\ sockets[l].phase # "accepted"
      /\ UNCHANGED <<start, wanted, updates, peers, links, requests>>
      /\ applied' \in [Node -> Seq(Message)]
    BY DEF ConnectFails, TypeOK
<1> HIDE DEF v
<1> QED BY <1>2, <1>3, <1>4, <1>5, OneSocketStep

LEMMA AcceptOK ==
    ASSUME TypeOK, SocketInv, LinkInv, NEW l \in DOMAIN sockets, Accept(l)
    PROVE  TypeOK' /\ SocketInv' /\ LinkInv'
<1> DEFINE p == sockets[l].peer
           v == [sockets[l] EXCEPT
                    !.phase = IF sockets[l].client = Self(p) THEN "failed"
                              ELSE "accepted",
                    !.server = Self(p)]
<1>1. sockets[l] \in SocketState /\ Good(sockets[l]) /\ p \in Node
    BY SocketFields DEF SocketInv
<1>2. Self(p) \in ServerId /\ Self(p)[1] = p BY <1>1, SelfIs
<1>3. v \in SocketState BY <1>1, <1>2 DEF SocketState
<1>4. Good(v) BY <1>1, <1>2 DEF Good, SocketState, Accept, Id, End
<1>5. sockets' = [sockets EXCEPT ![l] = v] BY DEF Accept
<1>6. /\ sockets[l].phase # "accepted"
      /\ UNCHANGED <<start, wanted, updates, peers, links, requests>>
      /\ applied' \in [Node -> Seq(Message)]
    BY DEF Accept, TypeOK
<1> HIDE DEF v
<1> QED BY <1>3, <1>4, <1>5, <1>6, OneSocketStep

LEMMA EndLostOK ==
    ASSUME TypeOK, SocketInv, LinkInv, NEW l \in DOMAIN sockets, NEW e \in End,
           EndLost(l, e)
    PROVE  TypeOK' /\ SocketInv' /\ LinkInv'
<1> DEFINE v == [sockets[l] EXCEPT !.end[e] = "ended", !.chan[e] = <<>>]
<1>1. sockets[l] \in SocketState /\ Good(sockets[l])
    BY SocketFields DEF SocketInv
<1>2. v \in SocketState
  <2>1. <<>> \in Seq(Message) OBVIOUS
  <2>2. /\ [sockets[l].end EXCEPT ![e] = "ended"]
                \in [End -> {"none", "running", "ended"}]
        /\ [sockets[l].chan EXCEPT ![e] = <<>>] \in [End -> Seq(Message)]
      BY <1>1, <2>1 DEF SocketState
  <2> QED BY <1>1, <2>2 DEF SocketState
<1>3. Good(v) BY <1>1 DEF Good, SocketState, EndLost, Id
<1>4. sockets' = [sockets EXCEPT ![l] = v] BY DEF EndLost
<1>5. /\ v.phase = sockets[l].phase /\ v.client = sockets[l].client
      /\ v.server = sockets[l].server
    BY <1>1 DEF SocketState
<1>6. /\ UNCHANGED <<start, wanted, updates, peers, links, requests>>
      /\ applied' \in [Node -> Seq(Message)]
    BY DEF EndLost, TypeOK
<1> HIDE DEF v
<1> QED BY <1>2, <1>3, <1>4, <1>5, <1>6, OneSocketStep

LEMMA DeliverOK ==
    ASSUME TypeOK, SocketInv, LinkInv, NEW l \in DOMAIN sockets, NEW e \in End,
           Deliver(l, e)
    PROVE  TypeOK' /\ SocketInv' /\ LinkInv'
<1> DEFINE v == [sockets[l] EXCEPT !.chan[e] = Tail(@)]
<1>1. /\ sockets[l] \in SocketState /\ Good(sockets[l])
      /\ sockets[l].chan[e] \in Seq(Message) /\ IdAt(l, e) \in ServerId
      /\ sockets[l].chan[e] # <<>> /\ sockets[l].end[e] = "running"
    BY SocketFields DEF SocketInv, Deliver
<1>2. /\ Head(sockets[l].chan[e]) \in Message
      /\ Tail(sockets[l].chan[e]) \in Seq(Message)
    BY <1>1
<1>3. v \in SocketState BY <1>1, <1>2 DEF SocketState
<1>4. Good(v) BY <1>1 DEF Good, SocketState, Id
<1>5. sockets' = [sockets EXCEPT ![l] = v] BY DEF Deliver
<1>6. /\ v.phase = sockets[l].phase /\ v.client = sockets[l].client
      /\ v.server = sockets[l].server
    BY <1>1 DEF SocketState
<1>7. UNCHANGED <<start, wanted, updates, peers, links, requests>>
    BY DEF Deliver
<1>8. applied' \in [Node -> Seq(Message)]
  <2> DEFINE n == IdAt(l, e)[1]  m == Head(sockets[l].chan[e])
  <2>1. n \in Node BY <1>1 DEF ServerId
  <2>2. applied \in [Node -> Seq(Message)] BY DEF TypeOK
  <2>3. Append(applied[n], m) \in Seq(Message) BY <1>2, <2>1, <2>2
  <2>4. \/ applied' = applied
        \/ applied' = [applied EXCEPT ![n] = Append(applied[n], m)]
      BY DEF Deliver
  <2> HIDE DEF n, m
  <2> QED BY <2>1, <2>2, <2>3, <2>4
<1> HIDE DEF v
<1> QED BY <1>3, <1>4, <1>5, <1>6, <1>7, <1>8, OneSocketStep

LEMMA AttachOK ==
    ASSUME TypeOK, SocketInv, LinkInv, NEW l \in DOMAIN sockets, NEW e \in End,
           Attach(l, e)
    PROVE  TypeOK' /\ SocketInv' /\ LinkInv'
<1> DEFINE v == [sockets[l] EXCEPT !.end[e] = "running"]
           n == IdAt(l, e)[1]
           remote == IdAt(l, Other(e))
<1>1. /\ sockets[l] \in SocketState /\ Good(sockets[l])
      /\ sockets[l].phase = "accepted" /\ sockets[l].end[e] = "none"
      /\ IdAt(l, e) \in ServerId /\ remote \in ServerId
      /\ sockets[l].peer \in Node
    BY SocketFields DEF SocketInv, Attach
<1>2. v \in SocketState BY <1>1 DEF SocketState
<1>3. Good(v) BY <1>1 DEF Good, SocketState, Id
<1>4. sockets' = [sockets EXCEPT ![l] = v] BY DEF Attach
<1>5. /\ v.phase = "accepted" /\ v.client = sockets[l].client
      /\ v.server = sockets[l].server
    BY <1>1 DEF SocketState
<1>6. /\ UNCHANGED <<start, wanted, updates, requests, applied>>
      /\ links' = [links EXCEPT ![n][remote] = l]
      /\ \/ peers' = peers
         \/ peers' = [peers EXCEPT
                        ![n][sockets[l].peer] = Connected(remote[2])]
    BY DEF Attach, RemoteId
<1>7. n \in Node /\ IdAt(l, e) = Self(n) /\ remote[2] \in 0 .. MaxRestarts
  <2>1. IdAt(l, e) = Id(sockets[l], e) BY DEF IdAt, Id
  <2> QED BY <1>1, <2>1 DEF Good, ServerId
<1> HIDE DEF v
<1>8. /\ sockets' \in Seq(SocketState) /\ Len(sockets') = Len(sockets)
      /\ DOMAIN sockets' = DOMAIN sockets
      /\ \A k \in DOMAIN sockets :
            sockets'[k] = IF k = l THEN v ELSE sockets[k]
    BY <1>2, <1>4, OneSocket
<1>9. SocketInv' BY <1>2, <1>3, <1>4, <1>6, OneChanged
<1>10. LinkInv'
  <2> SUFFICES ASSUME NEW m \in Node, NEW id \in ServerId PROVE LinkOK(m, id)'
      BY DEF LinkInv
  <2>1. Self(m)' = Self(m) BY <1>6 DEF Self
  <2>2. CASE m = n /\ id = remote
    <3>1. links'[m][id] = l BY <1>1, <1>6, <1>7, <2>2 DEF TypeOK
    <3>2. {sockets[l].client, sockets[l].server} = {Self(n), remote}
        BY <1>7 DEF IdAt, Other, End
    <3> QED BY <1>5, <1>8, <2>1, <2>2, <3>1, <3>2 DEF LinkOK
  <2>3. CASE ~ (m = n /\ id = remote)
    <3>1. links'[m][id] = links[m][id] /\ links[m][id] \in {NoSocket} \cup DOMAIN sockets
        BY <1>1, <1>6, <1>7, <2>3 DEF TypeOK
    <3>2. LinkOK(m, id) BY DEF LinkInv
    <3> QED BY <1>1, <1>5, <1>8, <2>1, <3>1, <3>2 DEF LinkOK
  <2> QED BY <2>2, <2>3
<1>11. TypeOK'
  <2>1. peers' \in [Node -> [Node -> PeerState]]
    <3>1. Connected(remote[2]) \in PeerState
        BY <1>7 DEF PeerState, Connected
    <3>2. peers \in [Node -> [Node -> PeerState]] BY DEF TypeOK
    <3>3. [peers[n] EXCEPT ![sockets[l].peer] = Connected(remote[2])]
            \in [Node -> PeerState]
        BY <1>1, <1>7, <3>1, <3>2
    <3> QED BY <1>6, <1>7, <3>2, <3>3
  <2>2. links' \in [Node -> [ServerId -> {NoSocket} \cup DOMAIN sockets']]
      BY <1>1, <1>6, <1>7, <1>8 DEF TypeOK
  <2>3. /\ start' \in [Node -> 0 .. MaxRestarts]
        /\ wanted' \in [Node -> SUBSET Node] /\ updates' \in 0 .. MaxUpdates
        /\ Len(sockets') <= MaxSockets /\ requests' \in 0 .. MaxRequests
        /\ applied' \in [Node -> Seq(Message)]
      BY <1>6, <1>8 DEF TypeOK
  <2> QED BY <1>8, <1>10, <2>1, <2>2, <2>3, TypedByLinks
<1> QED BY <1>9, <1>10, <1>11

\* The attempts of one reconnect
LEMMA AttemptsAre ==
    ASSUME TypeOK, NEW n \in Node, NEW again \in SUBSET Node
    PROVE  LET new == {NewSocket(n, p) : p \in again} IN
           SetToSeq(new) \in Seq(new)
<1> DEFINE new == {NewSocket(n, p) : p \in again}
           f == [p \in again |-> NewSocket(n, p)]
<1>1. IsFiniteSet(again) BY ConfigAssumption, FS_Subset
<1>2. f \in Surjection(again, new) BY DEF Surjection
<1>3. IsFiniteSet(new) BY <1>1, <1>2, FS_Surjection
<1> DEFINE D == 1 .. Cardinality(new)
<1>4. Cardinality(new) \in Nat /\ ExistsBijection(D, new)
    BY <1>3, FS_CardinalityType
<1>5. \E g \in [D -> new] : IsInjective(g)
    BY <1>4 DEF ExistsBijection, Bijection, Injection
<1> HIDE DEF new, f
<1>6. SetToSeq(new) \in [D -> new] BY <1>5 DEF SetToSeq
<1>7. ASSUME NEW g \in [D -> new] PROVE g \in Seq(new)
    BY <1>4, SeqDef
<1> QED BY <1>6, <1>7 DEF new

LEMMA ReconnectOK ==
    ASSUME TypeOK, SocketInv, LinkInv, NEW n \in Node, Reconnect(n)
    PROVE  /\ TypeOK' /\ SocketInv' /\ LinkInv'
           /\ \A k \in DOMAIN sockets' :
                \/ k \in DOMAIN sockets /\ sockets'[k] = sockets[k]
                \/ \E p \in Node : sockets'[k] = NewSocket(n, p)
<1> DEFINE removed == {p \in Node \ wanted[n] : peers[n][p] # Unknown}
           again == {p \in wanted[n] : Retry(n, p)}
           new == {NewSocket(n, p) : p \in again}
           attempts == SetToSeq(new)
<1>1. /\ UNCHANGED <<start, wanted, updates, requests, applied>>
      /\ sockets' = sockets \o attempts
      /\ Len(sockets) + Len(attempts) <= MaxSockets
      /\ peers' = [peers EXCEPT ![n] = [p \in Node |->
                    IF p \in removed THEN Unknown
                    ELSE IF p \in again THEN Connecting ELSE peers[n][p]]]
      /\ links' = [links EXCEPT ![n] = [id \in ServerId |->
                    IF /\ id[1] \in removed
                       /\ peers[n][id[1]] = Connected(id[2])
                    THEN NoSocket ELSE links[n][id]]]
    BY DEF Reconnect
<1>2. again \in SUBSET Node BY DEF TypeOK
<1> HIDE DEF removed, again
<1>3. attempts \in Seq(new) BY <1>2, AttemptsAre
<1>4. ASSUME NEW p \in Node
      PROVE  NewSocket(n, p) \in SocketState /\ Good(NewSocket(n, p))
  <2>1. Self(n) \in ServerId /\ Self(n)[1] = n BY SelfIs
  <2>2. <<p, 0>> \in ServerId BY ConfigAssumption DEF ServerId
  <2>3. /\ <<>> \in Seq(Message)
        /\ [e \in End |-> <<>>] \in [End -> Seq(Message)]
        /\ [e \in End |-> "none"] \in [End -> {"none", "running", "ended"}]
      OBVIOUS
  <2>4. NewSocket(n, p) \in SocketState
      BY <2>1, <2>2, <2>3 DEF NewSocket, SocketState
  <2>5. Good(NewSocket(n, p)) BY <2>1 DEF NewSocket, Good
  <2> QED BY <2>4, <2>5
<1>5. \A s \in new : s \in SocketState /\ Good(s) BY <1>2, <1>4
<1>6. \A s \in new : \E p \in Node : s = NewSocket(n, p) BY <1>2
<1> HIDE DEF new, attempts
<1>7. /\ sockets \in Seq(SocketState) /\ attempts \in Seq(SocketState)
      /\ \A i \in 1 .. Len(attempts) : attempts[i] \in new
    BY <1>3, <1>5 DEF TypeOK
<1>8. /\ sockets' \in Seq(SocketState) /\ Len(sockets') <= MaxSockets
      /\ DOMAIN sockets \subseteq DOMAIN sockets'
      /\ \A k \in DOMAIN sockets : sockets'[k] = sockets[k]
      /\ \A k \in DOMAIN sockets' : k \in DOMAIN sockets \/ sockets'[k] \in new
  <2>1. /\ sockets' \in Seq(SocketState)
        /\ Len(sockets') = Len(sockets) + Len(attempts)
        /\ DOMAIN sockets = 1 .. Len(sockets)
        /\ DOMAIN sockets' = 1 .. Len(sockets')
        /\ Len(sockets) \in Nat /\ Len(attempts) \in Nat
      BY <1>1, <1>7
  <2>2. \A k \in DOMAIN sockets : sockets'[k] = sockets[k] BY <1>1, <1>7
  <2>3. ASSUME NEW k \in DOMAIN sockets', k \notin DOMAIN sockets
        PROVE  sockets'[k] \in new
    <3>1. k - Len(sockets) \in 1 .. Len(attempts) BY <2>1, <2>3
    <3>2. sockets'[k] = attempts[k - Len(sockets)] BY <1>1, <1>7, <2>1, <2>3
    <3> QED BY <1>7, <3>1, <3>2
  <2> QED BY <1>1, <2>1, <2>2, <2>3
<1>9. SocketInv'
  <2>1. \A k \in DOMAIN sockets' : Good(sockets'[k])
      BY <1>5, <1>8 DEF SocketInv
  <2>2. \A s : Good(s)' <=> Good(s) BY <1>1 DEF Good, Self
  <2> QED BY <2>1, <2>2 DEF SocketInv
<1>10. /\ \A m \in Node, id \in ServerId :
            links'[m][id] = NoSocket \/ links'[m][id] = links[m][id]
       /\ links' \in [Node -> [ServerId -> {NoSocket} \cup DOMAIN sockets]]
    BY <1>1 DEF TypeOK
<1>11. LinkInv'
  <2>1. links \in [Node -> [ServerId -> {NoSocket} \cup DOMAIN sockets]]
      BY DEF TypeOK
  <2>2. \A m \in Node : Self(m)' = Self(m) BY <1>1 DEF Self
  <2> QED BY <1>8, <1>10, <2>1, <2>2, LinksKept
<1>12. TypeOK'
  <2>1. peers' \in [Node -> [Node -> PeerState]]
    <3>1. Unknown \in PeerState /\ Connecting \in PeerState
        BY ConfigAssumption DEF Unknown, Connecting, PeerState
    <3> QED BY <1>1, <3>1 DEF TypeOK
  <2>2. links' \in [Node -> [ServerId -> {NoSocket} \cup DOMAIN sockets']]
      BY <1>8, <1>10
  <2>3. /\ start' \in [Node -> 0 .. MaxRestarts]
        /\ wanted' \in [Node -> SUBSET Node] /\ updates' \in 0 .. MaxUpdates
        /\ requests' \in 0 .. MaxRequests /\ applied' \in [Node -> Seq(Message)]
      BY <1>1 DEF TypeOK
  <2> QED BY <1>8, <1>11, <2>1, <2>2, <2>3, TypedByLinks
<1> QED BY <1>6, <1>8, <1>9, <1>11, <1>12

LEMMA OthersOK ==
    ASSUME TypeOK, SocketInv, LinkInv,
           UNCHANGED <<start, links, sockets, requests, applied>>,
           wanted' \in [Node -> SUBSET Node], updates' \in 0 .. MaxUpdates,
           peers' \in [Node -> [Node -> PeerState]]
    PROVE  TypeOK' /\ SocketInv' /\ LinkInv'
<1>1. SocketInv'
  <2>1. \A s : Good(s)' <=> Good(s) BY DEF Good, Self
  <2> QED BY <2>1 DEF SocketInv
<1>2. LinkInv' BY DEF LinkInv, LinkOK, Self
<1> QED BY <1>1, <1>2 DEF TypeOK

LEMMA TimeOutOK ==
    ASSUME TypeOK, SocketInv, LinkInv, NEW n \in Node, NEW p \in Node,
           TimeOut(n, p)
    PROVE  TypeOK' /\ SocketInv' /\ LinkInv'
<1>1. TimedOut \in PeerState BY ConfigAssumption DEF TimedOut, PeerState
<1>2. peers' \in [Node -> [Node -> PeerState]]
    BY <1>1 DEF TimeOut, TypeOK
<1>3. /\ UNCHANGED <<start, links, sockets, requests, applied>>
      /\ wanted' \in [Node -> SUBSET Node] /\ updates' \in 0 .. MaxUpdates
    BY DEF TimeOut, TypeOK
<1> QED BY <1>2, <1>3, OthersOK

LEMMA UpdatePeersOK ==
    ASSUME TypeOK, SocketInv, LinkInv, NEW n \in Node, NEW list \in SUBSET Node,
           UpdatePeers(n, list)
    PROVE  TypeOK' /\ SocketInv' /\ LinkInv'
<1>1. /\ UNCHANGED <<start, links, sockets, requests, applied>>
      /\ peers' \in [Node -> [Node -> PeerState]]
      /\ wanted' \in [Node -> SUBSET Node]
    BY DEF UpdatePeers, TypeOK
<1>2. updates' \in 0 .. MaxUpdates
    BY ConfigAssumption DEF UpdatePeers, TypeOK
<1> QED BY <1>1, <1>2, OthersOK

\* Every socket changes on its own.
LEMMA AllSockets ==
    ASSUME TypeOK, DOMAIN sockets' = DOMAIN sockets,
           sockets' = [l \in DOMAIN sockets |-> sockets'[l]],
           \A l \in DOMAIN sockets : sockets'[l] \in SocketState
    PROVE  sockets' \in Seq(SocketState) /\ Len(sockets') = Len(sockets)
<1>1. /\ Len(sockets) \in Nat /\ DOMAIN sockets = 1 .. Len(sockets)
    BY DEF TypeOK
<1>2. sockets' \in [1 .. Len(sockets) -> SocketState] BY <1>1
<1>3. sockets' \in Seq(SocketState) BY <1>1, <1>2, SeqDef
<1>4. Len(sockets') \in Nat /\ 1 .. Len(sockets') = 1 .. Len(sockets)
    BY <1>1, <1>3
<1> QED BY <1>1, <1>3, <1>4, LenProperties

\* What a restart does to one socket
LEMMA RestartedSocket ==
    ASSUME TypeOK, SocketInv, NEW n \in Node, Restart(n),
           NEW l \in DOMAIN sockets
    PROVE  /\ sockets'[l] \in SocketState /\ Good(sockets[l])'
           /\ sockets'[l].client = sockets[l].client
           /\ sockets'[l].server = sockets[l].server
           /\ sockets[l].phase = "accepted" => sockets'[l].phase = "accepted"
           /\ \A e \in End : \/ Chan(l, e)' = Chan(l, e) /\ IdAt(l, e) # Self(n)
                             \/ Chan(l, e)' = <<>>
<1> DEFINE s == sockets[l]
           mine == {e \in End : IdAt(l, e) = Self(n)}
           E == [e \in End |-> IF e \in mine THEN "ended" ELSE s.end[e]]
           C == [e \in End |-> IF e \in mine THEN <<>> ELSE s.chan[e]]
<1>1. s \in SocketState /\ Good(s)
    BY SocketFields DEF SocketInv
<1>2. sockets'[l] = IF s.phase = "connecting"
                    THEN [s EXCEPT !.phase = IF s.client = Self(n) THEN "failed"
                                                                   ELSE @]
                    ELSE [s EXCEPT !.end = E, !.chan = C]
    BY <1>1 DEF Restart, SocketState
<1>3. /\ E \in [End -> {"none", "running", "ended"}]
      /\ C \in [End -> Seq(Message)]
  <2>1. <<>> \in Seq(Message) OBVIOUS
  <2> QED BY <1>1, <2>1 DEF SocketState
<1>4. \A e \in End : IdAt(l, e) = Id(s, e) BY DEF IdAt, Id
<1>5. \A id \in ServerId : /\ id[1] \in Node
                           /\ id = Self(id[1]) /\ id # Self(n) =>
                                id = <<id[1], start'[id[1]]>>
    BY DEF Restart, Self, ServerId, TypeOK
<1>6. \A e \in End : Id(s, e) \in ServerId BY <1>1 DEF Id, SocketState
<1>7. CASE s.phase = "connecting"
  <2>1. sockets'[l] = [s EXCEPT !.phase = IF s.client = Self(n) THEN "failed"
                                                                ELSE @]
      BY <1>2, <1>7
  <2>2. /\ sockets'[l] \in SocketState
        /\ sockets'[l].client = s.client /\ sockets'[l].server = s.server
        /\ sockets'[l].end = s.end /\ sockets'[l].chan = s.chan
        /\ sockets'[l].phase = IF s.client = Self(n) THEN "failed"
                               ELSE "connecting"
      BY <1>1, <1>7, <2>1 DEF SocketState
  <2>3. \A e \in End : s.end[e] # "running" /\ s.chan[e] = <<>>
      BY <1>1, <1>7 DEF Good
  <2>4. s.client = Self(n) \/ s.client = <<s.client[1], start'[s.client[1]]>>
      BY <1>1, <1>5, <1>7 DEF Good, SocketState
  <2>5. Good(sockets[l])' BY <2>2, <2>3, <2>4 DEF Good, Self
  <2> QED BY <1>7, <2>2, <2>3, <2>5 DEF Chan
<1>8. CASE s.phase # "connecting"
  <2>1. sockets'[l] = [s EXCEPT !.end = E, !.chan = C] BY <1>2, <1>8
  <2> HIDE DEF E, C
  <2>2. /\ sockets'[l] \in SocketState
        /\ sockets'[l].client = s.client /\ sockets'[l].server = s.server
        /\ sockets'[l].end = E /\ sockets'[l].chan = C
        /\ sockets'[l].phase = s.phase
      BY <1>1, <1>3, <2>1 DEF SocketState
  <2>3. \A e \in End :
            \/ Id(s, e) = Self(n) /\ E[e] = "ended" /\ C[e] = <<>>
            \/ Id(s, e) # Self(n) /\ E[e] = s.end[e] /\ C[e] = s.chan[e]
      BY <1>4 DEF E, C
  <2>4. \A e \in End : Id(sockets'[l], e) = Id(s, e) BY <2>2 DEF Id
  <2>5. \A e \in End : s.phase = "accepted" /\ E[e] # "ended" =>
            Id(s, e) = <<Id(s, e)[1], start'[Id(s, e)[1]]>>
      BY <1>1, <1>5, <1>6, <2>3 DEF Good
  <2>6. \A e \in End : /\ E[e] = "ended" => C[e] = <<>>
                       /\ s.phase # "accepted" =>
                            E[e] # "running" /\ C[e] = <<>>
      BY <1>1, <2>3 DEF Good
  <2>7. s.phase = "accepted" => s.client # s.server BY <1>1 DEF Good
  <2>8. Good(sockets[l])'
      BY <1>8, <2>2, <2>4, <2>5, <2>6, <2>7 DEF Good, Self
  <2>9. \A e \in End : \/ Chan(l, e)' = Chan(l, e) /\ IdAt(l, e) # Self(n)
                       \/ Chan(l, e)' = <<>>
      BY <1>4, <2>2, <2>3 DEF Chan
  <2> QED BY <1>8, <2>2, <2>8, <2>9
<1> QED BY <1>7, <1>8

LEMMA RestartOK ==
    ASSUME TypeOK, SocketInv, LinkInv, NEW n \in Node, Restart(n)
    PROVE  TypeOK' /\ SocketInv' /\ LinkInv'
<1>1. /\ DOMAIN sockets' = DOMAIN sockets
      /\ sockets' = [l \in DOMAIN sockets |-> sockets'[l]]
    BY DEF Restart
<1>2. /\ sockets' \in Seq(SocketState) /\ Len(sockets') = Len(sockets)
    BY <1>1, RestartedSocket, AllSockets
<1>3. SocketInv' BY <1>1, RestartedSocket DEF SocketInv
<1>4. /\ \A m \in Node, id \in ServerId :
            \/ links'[m][id] = NoSocket
            \/ links'[m][id] = links[m][id] /\ Self(m)' = Self(m)
      /\ links \in [Node -> [ServerId -> {NoSocket} \cup DOMAIN sockets]]
      /\ links' \in [Node -> [ServerId -> {NoSocket} \cup DOMAIN sockets']]
    BY <1>1 DEF Restart, TypeOK, Self
<1>5. LinkInv' BY <1>4, RestartedSocket, LinksKept
<1>6. TypeOK'
  <2>1. peers' \in [Node -> [Node -> PeerState]]
    <3>1. Unknown \in PeerState BY ConfigAssumption DEF Unknown, PeerState
    <3> QED BY <3>1 DEF Restart, TypeOK
  <2>2. start' \in [Node -> 0 .. MaxRestarts]
    <3>1. start[n] + 1 \in 0 .. MaxRestarts
      <4>1. start[n] \in 0 .. MaxRestarts /\ start[n] < MaxRestarts
          BY DEF Restart, TypeOK
      <4>2. MaxRestarts \in Nat BY ConfigAssumption
      <4> QED BY <4>1, <4>2
    <3> QED BY <3>1 DEF Restart, TypeOK
  <2>3. applied' \in [Node -> Seq(Message)]
    <3>1. <<>> \in Seq(Message) OBVIOUS
    <3> QED BY <3>1 DEF Restart, TypeOK
  <2>4. /\ wanted' \in [Node -> SUBSET Node] /\ updates' \in 0 .. MaxUpdates
        /\ requests' \in 0 .. MaxRequests /\ Len(sockets') <= MaxSockets
      BY <1>2 DEF Restart, TypeOK
  <2> QED BY <1>2, <1>4, <1>5, <2>1, <2>2, <2>3, <2>4, TypedByLinks
<1> QED BY <1>3, <1>5, <1>6

\* A request reaches a server through one socket only, one that is accepted
\* and leads to another server.
LEMMA ReachedOnce ==
    ASSUME TypeOK, SocketInv, NEW n \in Node, NEW l \in DOMAIN sockets,
           NEW e \in End, <<l, Other(e)>> \in Reached(n)
    PROVE  /\ sockets[l].phase = "accepted" /\ IdAt(l, e) # Self(n)
           /\ \A k \in DOMAIN sockets, f \in End :
                <<k, Other(f)>> \in Reached(n) /\ IdAt(k, f) = IdAt(l, e) =>
                    k = l /\ f = e
<1>1. \A f \in End : Other(f) \in End /\ Other(Other(f)) = f /\ Other(f) # f
    BY DEF Other, End
<1>2. ASSUME NEW k \in DOMAIN sockets, NEW f \in End,
             <<k, Other(f)>> \in Reached(n)
      PROVE  /\ IdAt(k, Other(f)) = Self(n) /\ links[n][IdAt(k, f)] = k
             /\ sockets[k].phase = "accepted" /\ IdAt(k, f) # Self(n)
  <2>1. /\ IdAt(k, Other(f)) = Self(n) /\ links[n][IdAt(k, f)] = k
        /\ sockets[k].end[Other(f)] = "running"
      BY <1>1, <1>2 DEF Reached
  <2>2. Good(sockets[k]) BY DEF SocketInv
  <2>3. sockets[k].phase = "accepted" BY <1>1, <2>1, <2>2 DEF Good
  <2>4. sockets[k].client # sockets[k].server BY <2>2, <2>3 DEF Good
  <2>5. IdAt(k, f) # Self(n) BY <2>1, <2>4 DEF IdAt, Other, End
  <2> QED BY <2>1, <2>3, <2>5
<1>3. ASSUME NEW k \in DOMAIN sockets, NEW f \in End,
             <<k, Other(f)>> \in Reached(n), IdAt(k, f) = IdAt(l, e)
      PROVE  k = l /\ f = e
  <2>1. k = l BY <1>2, <1>3
  <2>2. f = e \/ f = Other(e) BY DEF Other, End
  <2> QED BY <1>2, <1>3, <2>1, <2>2
<1> QED BY <1>2, <1>3

\* What a request does to one socket
LEMMA RequestedSocket ==
    ASSUME TypeOK, SocketInv, NEW n \in Node, NEW op \in Operation,
           NEW to \in ServerId, Request(n, op, to), NEW l \in DOMAIN sockets
    PROVE  /\ sockets'[l] \in SocketState /\ Good(sockets[l])'
           /\ sockets'[l].client = sockets[l].client
           /\ sockets'[l].server = sockets[l].server
           /\ sockets'[l].phase = sockets[l].phase
           /\ \A e \in End :
                \/ Chan(l, e)' = Chan(l, e)
                \/ /\ <<l, Other(e)>> \in Reached(n)
                   /\ sockets[l].end[e] # "ended"
                   /\ Chan(l, e)' = Chan(l, e) \o Messages(op, to)
<1> DEFINE s == sockets[l]
           msgs == Messages(op, to)
           C == [e \in End |->
                    IF <<l, Other(e)>> \in Reached(n) /\ s.end[e] # "ended"
                    THEN s.chan[e] \o msgs ELSE s.chan[e]]
<1>1. s \in SocketState /\ Good(s) BY SocketFields DEF SocketInv
<1>2. sockets'[l] = [s EXCEPT !.chan = C] BY <1>1 DEF Request, SocketState
<1>3. msgs \in Seq(Message) BY MessagesNew DEF Request
<1> HIDE DEF msgs
<1>4. C \in [End -> Seq(Message)]
  <2>1. \A e \in End : /\ s.chan[e] \in Seq(Message)
                       /\ s.chan[e] \o msgs \in Seq(Message)
      BY <1>1, <1>3 DEF SocketState
  <2> QED BY <2>1
<1>5. \A e \in End :
        \/ C[e] = s.chan[e]
        \/ /\ <<l, Other(e)>> \in Reached(n)
           /\ s.end[e] # "ended" /\ C[e] = s.chan[e] \o msgs
    OBVIOUS
<1> HIDE DEF C
<1>6. /\ sockets'[l] \in SocketState
      /\ sockets'[l].client = s.client /\ sockets'[l].server = s.server
      /\ sockets'[l].end = s.end /\ sockets'[l].phase = s.phase
      /\ sockets'[l].chan = C
    BY <1>1, <1>2, <1>4 DEF SocketState
<1>7. \A e \in End : s.phase # "accepted" \/ s.end[e] = "ended" =>
        C[e] = s.chan[e]
    BY <1>5, ReachedOnce
<1>8. Good(sockets[l])'
  <2>1. \A id : Self(id)' = Self(id) BY DEF Request, Self
  <2>2. \A e \in End : Id(sockets'[l], e) = Id(s, e) BY <1>6 DEF Id
  <2> QED BY <1>1, <1>6, <1>7, <2>1, <2>2 DEF Good
<1> QED BY <1>5, <1>6, <1>8 DEF Chan, msgs

LEMMA RequestOK ==
    ASSUME TypeOK, SocketInv, LinkInv, NEW n \in Node, NEW op \in Operation,
           NEW to \in ServerId, Request(n, op, to)
    PROVE  TypeOK' /\ SocketInv' /\ LinkInv'
<1>1. /\ DOMAIN sockets' = DOMAIN sockets
      /\ sockets' = [l \in DOMAIN sockets |-> sockets'[l]]
    BY DEF Request
<1>2. /\ sockets' \in Seq(SocketState) /\ Len(sockets') = Len(sockets)
    BY <1>1, RequestedSocket, AllSockets
<1>3. SocketInv' BY <1>1, RequestedSocket DEF SocketInv
<1>4. /\ \A m \in Node, id \in ServerId :
            \/ links'[m][id] = NoSocket
            \/ links'[m][id] = links[m][id] /\ Self(m)' = Self(m)
      /\ links \in [Node -> [ServerId -> {NoSocket} \cup DOMAIN sockets]]
      /\ links' \in [Node -> [ServerId -> {NoSocket} \cup DOMAIN sockets']]
    BY <1>1 DEF Request, TypeOK, Self
<1>5. LinkInv' BY <1>4, RequestedSocket, LinksKept
<1>6. TypeOK'
  <2>1. requests' \in 0 .. MaxRequests
      BY ConfigAssumption DEF Request, TypeOK
  <2>2. applied' \in [Node -> Seq(Message)]
    <3> DEFINE q == Local(n, Messages(op, to))
    <3>1. q \in Seq(Message) BY LocalNew DEF Request
    <3>2. applied \in [Node -> Seq(Message)] BY DEF TypeOK
    <3>3. applied' = [applied EXCEPT ![n] = applied[n] \o q] BY DEF Request
    <3> HIDE DEF q
    <3>4. applied[n] \o q \in Seq(Message) BY <3>1, <3>2
    <3> QED BY <3>2, <3>3, <3>4
  <2>3. /\ start' \in [Node -> 0 .. MaxRestarts]
        /\ wanted' \in [Node -> SUBSET Node] /\ updates' \in 0 .. MaxUpdates
        /\ peers' \in [Node -> [Node -> PeerState]]
        /\ Len(sockets') <= MaxSockets
      BY <1>2 DEF Request, TypeOK
  <2> QED BY <1>2, <1>4, <1>5, <2>1, <2>2, <2>3, TypedByLinks
<1> QED BY <1>3, <1>5, <1>6

---------------------------------------------------------------------------
(***************************************************************************)
(* Messages.                                                               *)
(***************************************************************************)

LEMMA Nothing ==
    /\ Distinct(<<>>) /\ \A k : Older(<<>>, k) /\ Mine(<<>>, k)
    /\ \A r : Apart(<<>>, r) /\ Apart(r, <<>>) /\ Ready(<<>>, r)
<1>1. Len(<<>>) = 0 /\ 1 .. 0 = {} OBVIOUS
<1> QED BY <1>1 DEF Distinct, Older, Apart, Ready, Mine

LEMMA ChanTypes ==
    ASSUME TypeOK
    PROVE  /\ \A l \in DOMAIN sockets, e \in End : Chan(l, e) \in Seq(Message)
           /\ \A n \in Node : applied[n] \in Seq(Message)
           /\ requests \in Nat
<1>1. \A l \in DOMAIN sockets, e \in End : Chan(l, e) \in Seq(Message)
    BY SocketFields DEF Chan
<1>2. requests \in Nat BY ConfigAssumption DEF TypeOK
<1> QED BY <1>1, <1>2 DEF TypeOK

\* Nothing is sent: sockets keep what they carry or lose it, and a node keeps
\* what it has applied or, with a new id, forgets it.
LEMMA MessagesKept ==
    ASSUME MessageInv, requests' = requests,
           \A l \in DOMAIN sockets', e \in End :
                \/ Chan(l, e)' = <<>>
                \/ /\ l \in DOMAIN sockets
                   /\ Chan(l, e)' = Chan(l, e) /\ IdAt(l, e)' = IdAt(l, e),
           \A n \in Node :
                \/ applied'[n] = applied[n] /\ Self(n)' = Self(n)
                \/ /\ applied'[n] = <<>>
                   /\ \A l \in DOMAIN sockets', e \in End :
                        IdAt(l, e)' = Self(n)' => Chan(l, e)' = <<>>
    PROVE  MessageInv'
<1>1. ASSUME NEW l \in DOMAIN sockets', NEW e \in End
      PROVE  WaitOK(l, e)'
  <2>1. CASE Chan(l, e)' = <<>>
      BY <2>1, Nothing DEF WaitOK
  <2>2. CASE /\ Chan(l, e)' # <<>> /\ l \in DOMAIN sockets
             /\ Chan(l, e)' = Chan(l, e) /\ IdAt(l, e)' = IdAt(l, e)
    <3>1. WaitOK(l, e) BY <1>1, <2>2 DEF MessageInv
    <3>2. ASSUME NEW k \in DOMAIN sockets', NEW f \in End,
                 IdAt(k, f)' = IdAt(l, e)', ~ (k = l /\ f = e)
          PROVE  Apart(Chan(l, e)', Chan(k, f)')
        BY <2>2, <3>1, <3>2, Nothing DEF WaitOK
    <3>3. ASSUME NEW n \in Node, IdAt(l, e)' = Self(n)'
          PROVE  /\ Apart(Chan(l, e)', applied'[n])
                 /\ Ready(Chan(l, e)', applied'[n])
        BY <1>1, <2>2, <3>1, <3>3 DEF WaitOK
    <3> QED BY <2>2, <3>1, <3>2, <3>3 DEF WaitOK
  <2> QED BY <1>1, <2>1, <2>2
<1>2. ASSUME NEW n \in Node PROVE AppliedOK(n)'
    BY <1>2, Nothing DEF AppliedOK, MessageInv
<1> QED BY <1>1, <1>2 DEF MessageInv

\* Nothing is sent and nobody restarts.
LEMMA MessagesKeptHere ==
    ASSUME MessageInv, UNCHANGED <<start, requests, applied>>,
           \A l \in DOMAIN sockets', e \in End :
                \/ Chan(l, e)' = <<>>
                \/ /\ l \in DOMAIN sockets
                   /\ Chan(l, e)' = Chan(l, e) /\ IdAt(l, e)' = IdAt(l, e)
    PROVE  MessageInv'
<1>1. \A n \in Node : applied'[n] = applied[n] /\ Self(n)' = Self(n)
    BY DEF Self
<1> QED BY <1>1, MessagesKept

\* One more message is applied.
LEMMA AppendedKeeps ==
    ASSUME NEW q \in Seq(Message), NEW m \in Message, Distinct(q),
           Apart(<<m>>, q), Ready(q, <<>>),
           m.action = "Attach" => \E j \in 1 .. Len(q) : q[j] = LatticeOf(m)
    PROVE  /\ Append(q, m) \in Seq(Message) /\ Distinct(Append(q, m))
           /\ Ready(Append(q, m), <<>>)
           /\ \A k : Older(q, k) /\ m.request <= k => Older(Append(q, m), k)
           /\ \A id : Mine(q, id) /\ Mine(<<m>>, id) => Mine(Append(q, m), id)
           /\ \A r : Apart(r, q) /\ Apart(<<m>>, r) => Apart(r, Append(q, m))
           /\ \A r : Ready(r, q) => Ready(r, Append(q, m))
<1> DEFINE a == Append(q, m)  one == <<m>>
<1>1. /\ a \in Seq(Message) /\ Len(q) \in Nat /\ Len(a) = Len(q) + 1
      /\ \A i \in 1 .. Len(q) : a[i] = q[i]
      /\ a[Len(q) + 1] = m
    OBVIOUS
<1>2. Len(one) = 1 /\ one[1] = m /\ 1 \in 1 .. Len(one) OBVIOUS
<1> HIDE DEF a, one
<1>3. \A i \in 1 .. Len(a) : i \in Nat /\ (i \in 1 .. Len(q) \/ i = Len(q) + 1)
    BY <1>1
<1>4. \A i \in 1 .. Len(q) : i \in 1 .. Len(a) /\ q[i] # m
    BY <1>1, <1>2 DEF Apart, one
<1>5. Distinct(a)
  <2>1. ASSUME NEW i \in 1 .. Len(a), NEW j \in 1 .. Len(a), a[i] = a[j]
        PROVE  i = j
    <3>1. i \in 1 .. Len(q) <=> j \in 1 .. Len(q) BY <1>1, <1>3, <1>4, <2>1
    <3> QED BY <1>1, <1>3, <2>1, <3>1 DEF Distinct
  <2> QED BY <2>1 DEF Distinct
<1>6. Ready(a, <<>>)
  <2>1. Len(<<>>) = 0 /\ 1 .. 0 = {} OBVIOUS
  <2>2. ASSUME NEW i \in 1 .. Len(a), a[i].action = "Attach"
        PROVE  \E j \in 1 .. i - 1 : a[j] = LatticeOf(a[i])
    <3>1. CASE i \in 1 .. Len(q)
      <4>1. PICK j \in 1 .. i - 1 : q[j] = LatticeOf(q[i])
          BY <1>1, <2>1, <2>2, <3>1 DEF Ready
      <4>2. j \in 1 .. Len(q) BY <1>1, <3>1
      <4> QED BY <1>1, <3>1, <4>1, <4>2
    <3>2. CASE i = Len(q) + 1
      <4>1. PICK j \in 1 .. Len(q) : q[j] = LatticeOf(m)
          BY <1>1, <2>2, <3>2
      <4>2. j \in 1 .. i - 1 BY <1>1, <3>2
      <4> QED BY <1>1, <3>2, <4>1, <4>2
    <3> QED BY <1>3, <3>1, <3>2
  <2> QED BY <2>2 DEF Ready
<1>7. \A k : Older(q, k) /\ m.request <= k => Older(a, k)
    BY <1>1, <1>3 DEF Older
<1>8. \A id : Mine(q, id) /\ Mine(one, id) => Mine(a, id)
    BY <1>1, <1>2, <1>3 DEF Mine
<1>9. \A r : Apart(r, q) /\ Apart(one, r) => Apart(r, a)
    BY <1>1, <1>2, <1>3 DEF Apart
<1>10. \A r : Ready(r, q) => Ready(r, a)
  <2> SUFFICES ASSUME NEW r, Ready(r, q) PROVE Ready(r, a) OBVIOUS
  <2>1. \A j \in 1 .. Len(q) : j \in 1 .. Len(a) /\ a[j] = q[j]
      BY <1>1, <1>4
  <2> QED BY <2>1 DEF Ready
<1> QED BY <1>1, <1>5, <1>6, <1>7, <1>8, <1>9, <1>10 DEF a, one

LEMMA DeliverKeeps ==
    ASSUME Inv, NEW l \in DOMAIN sockets, NEW e \in End, Deliver(l, e)
    PROVE  MessageInv'
<1> DEFINE q == Chan(l, e)
           m == Head(q)
           n == IdAt(l, e)[1]
<1>1. TypeOK /\ SocketInv /\ MessageInv BY DEF Inv
<1>2. /\ sockets[l] \in SocketState /\ IdAt(l, e) \in ServerId
      /\ Good(sockets[l])
    BY <1>1, SocketFields DEF SocketInv
<1>3. /\ q \in Seq(Message) /\ q # <<>>
      /\ \A k \in DOMAIN sockets, f \in End : Chan(k, f) \in Seq(Message)
      /\ \A p \in Node : applied[p] \in Seq(Message)
    BY <1>1, ChanTypes DEF Deliver, Chan
<1>4. n \in Node /\ IdAt(l, e) = Self(n)
  <2>1. IdAt(l, e) = Id(sockets[l], e) BY DEF IdAt, Id
  <2>2. sockets[l].end[e] = "running" BY DEF Deliver
  <2> QED BY <1>2, <2>1, <2>2 DEF Good, ServerId
<1>5. /\ DOMAIN sockets' = DOMAIN sockets
      /\ \A k \in DOMAIN sockets, f \in End :
            /\ IdAt(k, f)' = IdAt(k, f)
            /\ Chan(k, f)' = IF k = l /\ f = e THEN Tail(q) ELSE Chan(k, f)
  <2> DEFINE v == [sockets[l] EXCEPT !.chan[e] = Tail(@)]
  <2>1. /\ sockets' = [sockets EXCEPT ![l] = v] BY DEF Deliver
  <2>2. Tail(sockets[l].chan[e]) \in Seq(Message) BY <1>3 DEF Chan
  <2>3. v \in SocketState BY <1>2, <2>2 DEF SocketState
  <2>4. /\ v.client = sockets[l].client /\ v.server = sockets[l].server
        /\ \A f \in End : v.chan[f] = IF f = e THEN Tail(q) ELSE Chan(l, f)
      BY <1>2 DEF SocketState, Chan
  <2> HIDE DEF v, q
  <2>5. /\ DOMAIN sockets' = DOMAIN sockets
        /\ \A k \in DOMAIN sockets :
                sockets'[k] = IF k = l THEN v ELSE sockets[k]
      BY <1>1, <2>1, <2>3, OneSocket
  <2>6. ASSUME NEW k \in DOMAIN sockets, NEW f \in End
        PROVE  /\ IdAt(k, f)' = IdAt(k, f)
               /\ Chan(k, f)' = IF k = l /\ f = e THEN Tail(q) ELSE Chan(k, f)
    <3>1. sockets'[k].client = sockets[k].client
        /\ sockets'[k].server = sockets[k].server
        BY <2>4, <2>5
    <3>2. sockets'[k].chan[f] =
            IF k = l /\ f = e THEN Tail(q) ELSE Chan(k, f)
        BY <2>4, <2>5 DEF Chan
    <3> QED BY <3>1, <3>2 DEF IdAt, Chan
  <2> QED BY <2>5, <2>6
<1>6. /\ \A p \in Node : Self(p)' = Self(p)
      /\ requests' = requests
      /\ \A p \in Node : p # n => applied'[p] = applied[p]
      /\ \/ applied'[n] = applied[n] /\ m.action # "Lattice"
         \/ /\ applied'[n] = Append(applied[n], m)
            /\ m.action \in {"Subscribe", "Unsubscribe", "Attach", "Detach"} =>
                    m.to = Self(n)
  <2>1. /\ start' = start /\ requests' = requests
        /\ applied' = IF Taken(n, m)
                      THEN [applied EXCEPT ![n] = Append(applied[n], m)]
                      ELSE applied
      BY DEF Deliver, Chan
  <2>2. applied \in [Node -> Seq(Message)] BY <1>1 DEF TypeOK
  <2> HIDE DEF m, n
  <2>3. \A p \in Node : Self(p)' = Self(p) BY <2>1 DEF Self
  <2>4. CASE Taken(n, m) BY <1>4, <2>1, <2>2, <2>3, <2>4 DEF Taken
  <2>5. CASE ~ Taken(n, m)
      BY <1>4, <2>1, <2>2, <2>3, <2>5 DEF Taken
  <2> QED BY <2>4, <2>5
<1>7. WaitOK(l, e) /\ AppliedOK(n) BY <1>1, <1>4 DEF MessageInv
<1>8. /\ Distinct(q) /\ Older(q, requests)
      /\ Apart(q, applied[n]) /\ Ready(q, applied[n])
    BY <1>4, <1>7 DEF WaitOK
<1>9. /\ m \in Message /\ m = q[1] /\ 1 \in 1 .. Len(q)
      /\ Tail(q) \in Seq(Message)
    BY <1>3, Popped
<1>10. /\ Distinct(Tail(q)) /\ Apart(Tail(q), <<m>>)
       /\ \A k : Older(q, k) => Older(Tail(q), k)
       /\ \A r : Apart(q, r) => Apart(Tail(q), r) /\ Apart(<<m>>, r)
    BY <1>3, <1>8, PoppedKeeps
<1>11. /\ Ready(Tail(q), Append(applied[n], m))
       /\ m.action # "Lattice" => Ready(Tail(q), applied[n])
       /\ m.action = "Attach" =>
            \E j \in 1 .. Len(applied[n]) : applied[n][j] = LatticeOf(m)
    BY <1>3, <1>4, <1>8, PoppedReady
<1> DEFINE a == applied[n]
<1>12. /\ Distinct(a) /\ Ready(a, <<>>) /\ Older(a, requests)
       /\ Mine(a, Self(n)) /\ Apart(<<m>>, a) /\ m.request <= requests
    BY <1>7, <1>8, <1>9, <1>10 DEF AppliedOK, Older
<1>13. /\ Distinct(Append(a, m)) /\ Ready(Append(a, m), <<>>)
       /\ Older(Append(a, m), requests)
       /\ Mine(<<m>>, Self(n)) => Mine(Append(a, m), Self(n))
       /\ \A r : Apart(r, a) /\ Apart(<<m>>, r) => Apart(r, Append(a, m))
       /\ \A r : Ready(r, a) => Ready(r, Append(a, m))
  <2> HIDE DEF m, n, q, a
  <2>1. a \in Seq(Message) BY <1>3, <1>4 DEF a
  <2>2. m.action = "Attach" => \E j \in 1 .. Len(a) : a[j] = LatticeOf(m)
      BY <1>11 DEF a
  <2> QED BY <1>9, <1>12, <2>1, <2>2, AppendedKeeps
<1>14. (m.action \in {"Subscribe", "Unsubscribe", "Attach", "Detach"} =>
                m.to = Self(n)) => Mine(<<m>>, Self(n))
  <2>1. \A i \in 1 .. Len(<<m>>) : <<m>>[i] = m OBVIOUS
  <2> QED BY <2>1 DEF Mine
<1> HIDE DEF q, m, n, a
<1>15. ASSUME NEW k \in DOMAIN sockets', NEW f \in End
       PROVE  WaitOK(k, f)'
  <2>1. k \in DOMAIN sockets /\ WaitOK(k, f)
      BY <1>1, <1>5 DEF MessageInv
  <2>2. Older(Chan(k, f)', requests') /\ Distinct(Chan(k, f)')
      BY <1>5, <1>6, <1>8, <1>10, <2>1 DEF WaitOK
  <2>3. ASSUME NEW j \in DOMAIN sockets', NEW g \in End,
               IdAt(j, g)' = IdAt(k, f)', ~ (j = k /\ g = f)
        PROVE  Apart(Chan(k, f)', Chan(j, g)')
    <3>1. /\ j \in DOMAIN sockets /\ IdAt(j, g) = IdAt(k, f)
        BY <1>5, <2>1, <2>3
    <3>2. Apart(Chan(k, f), Chan(j, g)) /\ Apart(Chan(j, g), Chan(k, f))
        BY <2>1, <2>3, <3>1, ApartSymmetric DEF WaitOK
    <3>3. CASE k = l /\ f = e
        BY <1>5, <1>10, <2>3, <3>1, <3>2, <3>3 DEF q
    <3>4. CASE j = l /\ g = e
      <4>1. Apart(Tail(q), Chan(k, f)) BY <1>10, <3>2, <3>4 DEF q
      <4>2. Chan(k, f)' = Chan(k, f) /\ Chan(j, g)' = Tail(q)
          BY <1>5, <2>1, <2>3, <3>1, <3>4
      <4> QED BY <4>1, <4>2, ApartSymmetric
    <3>5. CASE ~ (k = l /\ f = e) /\ ~ (j = l /\ g = e)
        BY <1>5, <2>1, <3>1, <3>2, <3>5
    <3> QED BY <3>3, <3>4, <3>5
  <2>4. ASSUME NEW p \in Node, IdAt(k, f)' = Self(p)'
        PROVE  /\ Apart(Chan(k, f)', applied'[p])
               /\ Ready(Chan(k, f)', applied'[p])
    <3>1. /\ IdAt(k, f) = Self(p) /\ Apart(Chan(k, f), applied[p])
          /\ Ready(Chan(k, f), applied[p])
        BY <1>5, <1>6, <2>1, <2>4 DEF WaitOK
    <3>2. CASE p # n
      <4>1. Self(p) # Self(n) BY <3>2 DEF Self
      <4>2. Chan(k, f)' = Chan(k, f) BY <1>4, <1>5, <2>1, <3>1, <4>1
      <4> QED BY <1>6, <3>1, <3>2, <4>2
    <3>3. CASE p = n /\ k = l /\ f = e
      <4>1. Chan(k, f)' = Tail(q) BY <1>5, <2>1, <3>3
      <4>2. Apart(Tail(q), a) /\ Apart(<<m>>, Tail(q))
          BY <1>8, <1>10, ApartSymmetric DEF a
      <4>3. Apart(Tail(q), Append(a, m)) BY <1>13, <4>2
      <4> QED BY <1>6, <1>11, <3>3, <4>1, <4>2, <4>3 DEF a
    <3>4. CASE p = n /\ ~ (k = l /\ f = e)
      <4>1. Chan(k, f)' = Chan(k, f) BY <1>5, <2>1, <3>4
      <4>2. Apart(q, Chan(k, f))
          BY <1>4, <1>7, <2>1, <3>1, <3>4 DEF WaitOK, q
      <4>3. Apart(<<m>>, Chan(k, f)) BY <1>10, <4>2
      <4> QED BY <1>6, <1>13, <3>1, <3>4, <4>1, <4>3 DEF a
    <3> QED BY <3>2, <3>3, <3>4
  <2> QED BY <2>2, <2>3, <2>4 DEF WaitOK
<1>16. ASSUME NEW p \in Node PROVE AppliedOK(p)'
  <2>1. CASE p # n BY <1>1, <1>6, <2>1 DEF AppliedOK, MessageInv
  <2>2. CASE p = n
    <3>1. CASE applied'[n] = applied[n]
        BY <1>6, <1>7, <2>2, <3>1 DEF AppliedOK
    <3>2. CASE /\ applied'[n] = Append(a, m)
               /\ m.action \in {"Subscribe", "Unsubscribe", "Attach", "Detach"}
                    => m.to = Self(n)
        BY <1>6, <1>13, <1>14, <2>2, <3>2 DEF AppliedOK
    <3> QED BY <1>6, <3>1, <3>2 DEF a
  <2> QED BY <2>1, <2>2
<1> QED BY <1>15, <1>16 DEF MessageInv

LEMMA OlderStays ==
    ASSUME NEW q \in Seq(Message), NEW k \in Nat, Older(q, k)
    PROVE  Older(q, k + 1)
<1>1. \A i \in 1 .. Len(q) : q[i].request \in Nat
  <2>1. \A i \in 1 .. Len(q) : q[i] \in Message OBVIOUS
  <2> QED BY <2>1 DEF Message
<1> QED BY <1>1 DEF Older

LEMMA RequestKeeps ==
    ASSUME Inv, NEW n \in Node, NEW op \in Operation, NEW to \in ServerId,
           Request(n, op, to)
    PROVE  MessageInv'
<1> DEFINE q == Messages(op, to)
           own == Local(n, q)
           k0 == requests
<1>1. TypeOK /\ SocketInv /\ MessageInv /\ requests < MaxRequests
    BY DEF Inv, Request
<1>2. /\ q \in Seq(Message) /\ Distinct(q) /\ Ready(q, <<>>)
      /\ \A i \in 1 .. Len(q) : q[i].request = k0 + 1
    BY <1>1, MessagesNew
<1>3. /\ own \in Seq(Message) /\ Distinct(own) /\ Ready(own, <<>>)
      /\ \A i \in 1 .. Len(own) : own[i].request = k0 + 1
      /\ Mine(own, Self(n))
    BY <1>1, LocalNew
<1>4. /\ \A l \in DOMAIN sockets, e \in End : Chan(l, e) \in Seq(Message)
      /\ \A p \in Node : applied[p] \in Seq(Message)
      /\ k0 \in Nat
    BY <1>1, ChanTypes
<1>5. /\ \A p \in Node : Self(p)' = Self(p)
      /\ requests' = k0 + 1 /\ DOMAIN sockets' = DOMAIN sockets
      /\ applied'[n] = applied[n] \o own
      /\ \A p \in Node : p # n => applied'[p] = applied[p]
  <2>1. applied \in [Node -> Seq(Message)] BY <1>1 DEF TypeOK
  <2> QED BY <2>1 DEF Request, Self
<1>6. ASSUME NEW l \in DOMAIN sockets, NEW e \in End
      PROVE  /\ IdAt(l, e)' = IdAt(l, e)
             /\ \/ Chan(l, e)' = Chan(l, e)
                \/ /\ <<l, Other(e)>> \in Reached(n)
                   /\ Chan(l, e)' = Chan(l, e) \o q
    BY <1>1, RequestedSocket DEF IdAt
<1> HIDE DEF q, own, k0
<1>7. Older(q, k0 + 1) /\ Older(own, k0 + 1)
  <2>1. k0 + 1 <= k0 + 1 BY <1>4
  <2> QED BY <1>2, <1>3, <2>1 DEF Older
<1>8. ASSUME NEW l \in DOMAIN sockets, NEW e \in End
      PROVE  /\ Older(Chan(l, e), k0) /\ Distinct(Chan(l, e))
             /\ Apart(Chan(l, e), q) /\ Apart(q, Chan(l, e))
             /\ Apart(Chan(l, e), own) /\ Apart(own, Chan(l, e))
  <2>1. Older(Chan(l, e), k0) /\ Distinct(Chan(l, e))
      BY <1>1 DEF MessageInv, WaitOK, k0
  <2>2. Apart(Chan(l, e), q) /\ Apart(Chan(l, e), own)
      BY <1>2, <1>3, <1>4, <2>1, LaterApart
  <2> QED BY <2>1, <2>2, ApartSymmetric
<1>9. ASSUME NEW p \in Node
      PROVE  /\ Older(applied[p], k0) /\ Distinct(applied[p])
             /\ Ready(applied[p], <<>>) /\ Mine(applied[p], Self(p))
             /\ Apart(applied[p], q) /\ Apart(q, applied[p])
             /\ Apart(applied[p], own) /\ Apart(own, applied[p])
  <2>1. /\ Older(applied[p], k0) /\ Distinct(applied[p])
        /\ Ready(applied[p], <<>>) /\ Mine(applied[p], Self(p))
      BY <1>1 DEF MessageInv, AppliedOK, k0
  <2>2. Apart(applied[p], q) /\ Apart(applied[p], own)
      BY <1>2, <1>3, <1>4, <2>1, LaterApart
  <2> QED BY <2>1, <2>2, ApartSymmetric
<1>10. ASSUME NEW l \in DOMAIN sockets', NEW e \in End
       PROVE  WaitOK(l, e)'
  <2>1. l \in DOMAIN sockets /\ WaitOK(l, e)
      BY <1>1, <1>5 DEF MessageInv
  <2>2. Older(Chan(l, e)', requests') /\ Distinct(Chan(l, e)')
    <3>1. Older(Chan(l, e), k0 + 1) BY <1>4, <1>8, <2>1, OlderStays
    <3>2. Older(Chan(l, e) \o q, k0 + 1)
        BY <1>2, <1>4, <1>7, <1>8, <2>1, JoinedOlder
    <3>3. Distinct(Chan(l, e) \o q)
        BY <1>2, <1>4, <1>8, <2>1, JoinedDistinct
    <3> QED BY <1>5, <1>6, <1>8, <2>1, <3>1, <3>2, <3>3
  <2>3. ASSUME NEW j \in DOMAIN sockets', NEW f \in End,
               IdAt(j, f)' = IdAt(l, e)', ~ (j = l /\ f = e)
        PROVE  Apart(Chan(l, e)', Chan(j, f)')
    <3>1. /\ j \in DOMAIN sockets /\ IdAt(j, f) = IdAt(l, e)
        BY <1>5, <1>6, <2>1, <2>3
    <3>2. Apart(Chan(l, e), Chan(j, f)) /\ Apart(Chan(j, f), Chan(l, e))
        BY <2>1, <2>3, <3>1, ApartSymmetric DEF WaitOK
    <3>3. Apart(Chan(l, e) \o q, Chan(j, f))
        BY <1>2, <1>4, <1>8, <2>1, <3>1, <3>2, JoinedApart
    <3>4. Apart(Chan(j, f) \o q, Chan(l, e))
        BY <1>2, <1>4, <1>8, <2>1, <3>1, <3>2, JoinedApart
    <3>5. Apart(Chan(l, e), Chan(j, f) \o q) BY <3>4, ApartSymmetric
    <3>6. ~ (/\ <<l, Other(e)>> \in Reached(n)
             /\ <<j, Other(f)>> \in Reached(n))
        BY <1>1, <2>1, <2>3, <3>1, ReachedOnce
    <3> QED BY <1>6, <2>1, <3>1, <3>2, <3>3, <3>5, <3>6
  <2>4. ASSUME NEW p \in Node, IdAt(l, e)' = Self(p)'
        PROVE  /\ Apart(Chan(l, e)', applied'[p])
               /\ Ready(Chan(l, e)', applied'[p])
    <3>1. /\ IdAt(l, e) = Self(p) /\ Apart(Chan(l, e), applied[p])
          /\ Ready(Chan(l, e), applied[p])
        BY <1>5, <1>6, <2>1, <2>4 DEF WaitOK
    <3>2. CASE p = n
      <4>1. Chan(l, e)' = Chan(l, e)
          BY <1>1, <1>6, <2>1, <3>1, <3>2, ReachedOnce
      <4>2. Apart(applied[n], Chan(l, e)) BY <3>1, <3>2, ApartSymmetric
      <4>3. Apart(applied[n] \o own, Chan(l, e))
          BY <1>3, <1>4, <1>8, <2>1, <4>2, JoinedApart
      <4>4. Ready(Chan(l, e), applied[n] \o own)
          BY <1>3, <1>4, <2>1, <3>1, <3>2, ReadyWithMore
      <4> QED BY <1>5, <3>2, <4>1, <4>3, <4>4, ApartSymmetric
    <3>3. CASE p # n
      <4>1. Apart(Chan(l, e) \o q, applied[p])
          BY <1>2, <1>4, <1>9, <2>1, <3>1, JoinedApart
      <4>2. Ready(Chan(l, e) \o q, applied[p])
          BY <1>2, <1>4, <2>1, <3>1, JoinedReady
      <4> QED BY <1>5, <1>6, <2>1, <3>1, <3>3, <4>1, <4>2
    <3> QED BY <3>2, <3>3
  <2> QED BY <2>2, <2>3, <2>4 DEF WaitOK
<1>11. ASSUME NEW p \in Node PROVE AppliedOK(p)'
  <2>1. CASE p # n
    <3>1. Older(applied[p], k0 + 1) BY <1>4, <1>9, OlderStays
    <3> QED BY <1>5, <1>9, <2>1, <3>1 DEF AppliedOK
  <2>2. CASE p = n
    <3>1. <<>> \in Seq(Message) OBVIOUS
    <3>2. Older(applied[n] \o own, k0 + 1)
        BY <1>3, <1>4, <1>7, <1>9, JoinedOlder
    <3>3. Distinct(applied[n] \o own)
        BY <1>3, <1>4, <1>9, JoinedDistinct
    <3>4. Ready(applied[n] \o own, <<>>)
        BY <1>3, <1>4, <1>9, <3>1, JoinedReady
    <3>5. Mine(applied[n] \o own, Self(n))
        BY <1>3, <1>4, <1>9, JoinedMine
    <3> QED BY <1>5, <2>2, <3>2, <3>3, <3>4, <3>5 DEF AppliedOK
  <2> QED BY <2>1, <2>2
<1> QED BY <1>10, <1>11 DEF MessageInv

\* Steps of one socket that send nothing
LEMMA OneSocketKeeps ==
    ASSUME Inv, NEW l \in DOMAIN sockets, NEW v \in SocketState,
           sockets' = [sockets EXCEPT ![l] = v],
           UNCHANGED <<start, requests, applied>>,
           \A e \in End :
                \/ v.chan[e] = <<>>
                \/ /\ v.chan[e] = sockets[l].chan[e]
                   /\ v.client = sockets[l].client
                   /\ v.server = sockets[l].server
    PROVE  MessageInv'
<1>1. TypeOK /\ MessageInv BY DEF Inv
<1>2. /\ DOMAIN sockets' = DOMAIN sockets
      /\ \A k \in DOMAIN sockets :
            sockets'[k] = IF k = l THEN v ELSE sockets[k]
    BY <1>1, OneSocket
<1>3. ASSUME NEW k \in DOMAIN sockets', NEW e \in End
      PROVE  \/ Chan(k, e)' = <<>>
             \/ /\ k \in DOMAIN sockets
                /\ Chan(k, e)' = Chan(k, e) /\ IdAt(k, e)' = IdAt(k, e)
  <2>1. CASE k = l BY <1>2, <2>1 DEF Chan, IdAt
  <2>2. CASE k # l BY <1>2, <1>3, <2>2 DEF Chan, IdAt
  <2> QED BY <2>1, <2>2
<1> QED BY <1>1, <1>3, MessagesKeptHere

LEMMA SocketStepsKeep ==
    ASSUME Inv, NEW l \in DOMAIN sockets, NEW e \in End,
           ConnectFails(l) \/ Accept(l) \/ Attach(l, e) \/ EndLost(l, e)
    PROVE  MessageInv'
<1>1. TypeOK /\ SocketInv /\ sockets[l] \in SocketState /\ Good(sockets[l])
    BY SocketFields DEF Inv, SocketInv
<1>2. CASE ConnectFails(l)
  <2> DEFINE v == [sockets[l] EXCEPT !.phase = "failed"]
  <2>1. /\ v \in SocketState /\ v.chan = sockets[l].chan
        /\ v.client = sockets[l].client /\ v.server = sockets[l].server
      BY <1>1 DEF SocketState
  <2>2. /\ sockets' = [sockets EXCEPT ![l] = v]
        /\ UNCHANGED <<start, requests, applied>>
      BY <1>2 DEF ConnectFails
  <2> HIDE DEF v
  <2> QED BY <2>1, <2>2, OneSocketKeeps
<1>3. CASE Accept(l)
  <2> DEFINE p == sockets[l].peer
             v == [sockets[l] EXCEPT
                    !.phase = IF sockets[l].client = Self(p) THEN "failed"
                              ELSE "accepted",
                    !.server = Self(p)]
  <2>1. Self(p) \in ServerId BY <1>1, SocketFields, SelfIs
  <2>2. v \in SocketState /\ v.chan = sockets[l].chan
      BY <1>1, <2>1 DEF SocketState
  <2>3. \A f \in End : sockets[l].chan[f] = <<>> BY <1>1, <1>3 DEF Good, Accept
  <2>4. /\ sockets' = [sockets EXCEPT ![l] = v]
        /\ UNCHANGED <<start, requests, applied>>
      BY <1>3 DEF Accept
  <2> HIDE DEF v
  <2>5. \A f \in End : v.chan[f] = <<>> BY <2>2, <2>3
  <2> QED BY <2>2, <2>4, <2>5, OneSocketKeeps
<1>4. CASE Attach(l, e)
  <2> DEFINE v == [sockets[l] EXCEPT !.end[e] = "running"]
  <2>1. /\ v \in SocketState /\ v.chan = sockets[l].chan
        /\ v.client = sockets[l].client /\ v.server = sockets[l].server
      BY <1>1 DEF SocketState
  <2>2. /\ sockets' = [sockets EXCEPT ![l] = v]
        /\ UNCHANGED <<start, requests, applied>>
      BY <1>4 DEF Attach
  <2> HIDE DEF v
  <2> QED BY <2>1, <2>2, OneSocketKeeps
<1>5. CASE EndLost(l, e)
  <2> DEFINE v == [sockets[l] EXCEPT !.end[e] = "ended", !.chan[e] = <<>>]
  <2>1. v \in SocketState
    <3>1. <<>> \in Seq(Message) OBVIOUS
    <3>2. /\ [sockets[l].end EXCEPT ![e] = "ended"]
                \in [End -> {"none", "running", "ended"}]
          /\ [sockets[l].chan EXCEPT ![e] = <<>>] \in [End -> Seq(Message)]
        BY <1>1, <3>1 DEF SocketState
    <3> QED BY <1>1, <3>2 DEF SocketState
  <2>2. /\ v.client = sockets[l].client /\ v.server = sockets[l].server
        /\ \A f \in End : v.chan[f] = <<>> \/ v.chan[f] = sockets[l].chan[f]
      BY <1>1 DEF SocketState
  <2>3. /\ sockets' = [sockets EXCEPT ![l] = v]
        /\ UNCHANGED <<start, requests, applied>>
      BY <1>5 DEF EndLost
  <2> HIDE DEF v
  <2> QED BY <2>1, <2>2, <2>3, OneSocketKeeps
<1> QED BY <1>2, <1>3, <1>4, <1>5

LEMMA ReconnectKeeps ==
    ASSUME Inv, NEW n \in Node, Reconnect(n)
    PROVE  MessageInv'
<1>1. \A k \in DOMAIN sockets' :
        \/ k \in DOMAIN sockets /\ sockets'[k] = sockets[k]
        \/ \E p \in Node : sockets'[k] = NewSocket(n, p)
    BY ReconnectOK DEF Inv
<1>2. MessageInv /\ UNCHANGED <<start, requests, applied>>
    BY DEF Inv, Reconnect
<1>3. ASSUME NEW k \in DOMAIN sockets', NEW e \in End
      PROVE  \/ Chan(k, e)' = <<>>
             \/ /\ k \in DOMAIN sockets
                /\ Chan(k, e)' = Chan(k, e) /\ IdAt(k, e)' = IdAt(k, e)
  <2>1. CASE k \in DOMAIN sockets /\ sockets'[k] = sockets[k]
      BY <2>1 DEF Chan, IdAt
  <2>2. CASE \E p \in Node : sockets'[k] = NewSocket(n, p)
      BY <2>2 DEF Chan, NewSocket
  <2> QED BY <1>1, <2>1, <2>2
<1> QED BY <1>2, <1>3, MessagesKeptHere

\* What waits on a socket is for a server that runs; a server that restarts
\* has a new id, which nothing waits for yet.
LEMMA RestartKeeps ==
    ASSUME Inv, NEW n \in Node, Restart(n)
    PROVE  MessageInv'
<1>1. TypeOK /\ SocketInv /\ MessageInv BY DEF Inv
<1>2. /\ requests' = requests /\ DOMAIN sockets' = DOMAIN sockets
      /\ applied'[n] = <<>> /\ start'[n] # start[n]
      /\ \A p \in Node : p # n =>
            applied'[p] = applied[p] /\ Self(p)' = Self(p)
  <2>1. /\ start' = [start EXCEPT ![n] = start[n] + 1]
        /\ applied' = [applied EXCEPT ![n] = <<>>]
        /\ requests' = requests /\ DOMAIN sockets' = DOMAIN sockets
      BY DEF Restart
  <2>2. /\ start \in [Node -> 0 .. MaxRestarts]
        /\ applied \in [Node -> Seq(Message)]
      BY <1>1 DEF TypeOK
  <2>3. start'[n] # start[n]
    <3>1. start'[n] = start[n] + 1 /\ start[n] \in Int BY <2>1, <2>2
    <3> QED BY <3>1
  <2> QED BY <2>1, <2>2, <2>3 DEF Self
<1>3. ASSUME NEW l \in DOMAIN sockets, NEW e \in End
      PROVE  /\ IdAt(l, e)' = IdAt(l, e)
             /\ \/ Chan(l, e)' = Chan(l, e) /\ IdAt(l, e) # Self(n)
                \/ Chan(l, e)' = <<>>
    BY <1>1, RestartedSocket DEF IdAt
<1>4. ASSUME NEW l \in DOMAIN sockets', NEW e \in End,
             IdAt(l, e)' = Self(n)'
      PROVE  Chan(l, e)' = <<>>
  <2> SUFFICES ASSUME Chan(l, e)' # <<>> PROVE FALSE OBVIOUS
  <2>1. /\ l \in DOMAIN sockets /\ IdAt(l, e) = Self(n)'
        /\ IdAt(l, e) # Self(n) /\ Chan(l, e) # <<>>
      BY <1>2, <1>3, <1>4
  <2>2. Good(sockets[l]) BY <1>1, <2>1 DEF SocketInv
  <2>3. Id(sockets[l], e) = Self(Id(sockets[l], e)[1])
      BY <2>1, <2>2 DEF Good, Chan
  <2>4. Id(sockets[l], e) = <<n, start'[n]>> BY <2>1 DEF Id, IdAt, Self
  <2> QED BY <1>2, <2>3, <2>4 DEF Self
<1>5. \A l \in DOMAIN sockets', e \in End :
        \/ Chan(l, e)' = <<>>
        \/ /\ l \in DOMAIN sockets
           /\ Chan(l, e)' = Chan(l, e) /\ IdAt(l, e)' = IdAt(l, e)
    BY <1>2, <1>3
<1>6. \A p \in Node :
        \/ applied'[p] = applied[p] /\ Self(p)' = Self(p)
        \/ /\ applied'[p] = <<>>
           /\ \A l \in DOMAIN sockets', e \in End :
                IdAt(l, e)' = Self(p)' => Chan(l, e)' = <<>>
    BY <1>2, <1>4
<1> QED BY <1>1, <1>2, <1>5, <1>6, MessagesKept

\* Steps that leave sockets and processors alone
LEMMA OthersKeep ==
    ASSUME MessageInv, UNCHANGED <<start, sockets, requests, applied>>
    PROVE  MessageInv'
<1>1. \A l \in DOMAIN sockets', e \in End :
        /\ l \in DOMAIN sockets
        /\ Chan(l, e)' = Chan(l, e) /\ IdAt(l, e)' = IdAt(l, e)
    BY DEF Chan, IdAt
<1> QED BY <1>1, MessagesKeptHere

---------------------------------------------------------------------------
(***************************************************************************)
(* The theorems.                                                           *)
(***************************************************************************)

LEMMA InitInv ==
    ASSUME Init
    PROVE  Inv
<1>1. DOMAIN sockets = {} /\ sockets \in Seq(SocketState) /\ Len(sockets) = 0
    BY DEF Init
<1>2. LinkInv
  <2>1. \A n \in Node, id \in ServerId : links[n][id] = NoSocket BY DEF Init
  <2> QED BY <2>1 DEF LinkInv, LinkOK
<1>3. TypeOK
  <2>1. Unknown \in PeerState BY ConfigAssumption DEF Unknown, PeerState
  <2>2. <<>> \in Seq(Message) OBVIOUS
  <2>3. /\ start \in [Node -> 0 .. MaxRestarts]
        /\ updates \in 0 .. MaxUpdates /\ requests \in 0 .. MaxRequests
        /\ Len(sockets) <= MaxSockets
      BY <1>1, ConfigAssumption DEF Init
  <2>4. /\ wanted \in [Node -> SUBSET Node]
        /\ peers \in [Node -> [Node -> PeerState]]
        /\ links \in [Node -> [ServerId -> {NoSocket} \cup DOMAIN sockets]]
        /\ applied \in [Node -> Seq(Message)]
      BY <2>1, <2>2, ConfigAssumption DEF Init
  <2>5. \A n \in Node, id \in ServerId : links[n][id] = NoSocket BY DEF Init
  <2> QED BY <1>1, <2>3, <2>4, <2>5 DEF TypeOK
<1>4. SocketInv BY <1>1 DEF SocketInv
<1>5. MessageInv
  <2>1. \A n \in Node : AppliedOK(n) BY Nothing DEF Init, AppliedOK
  <2> QED BY <1>1, <2>1 DEF MessageInv
<1> QED BY <1>2, <1>3, <1>4, <1>5 DEF Inv

LEMMA StepInv ==
    ASSUME Inv, [Next]_vars
    PROVE  Inv'
<1>1. TypeOK /\ SocketInv /\ LinkInv /\ MessageInv BY DEF Inv
<1>2. ASSUME NEW n \in Node, Reconnect(n) PROVE Inv'
    BY <1>1, <1>2, ReconnectOK, ReconnectKeeps DEF Inv
<1>3. ASSUME NEW n \in Node, Restart(n) PROVE Inv'
    BY <1>1, <1>3, RestartOK, RestartKeeps DEF Inv
<1>4. ASSUME NEW n \in Node, NEW p \in Node, TimeOut(n, p) PROVE Inv'
  <2>1. UNCHANGED <<start, sockets, requests, applied>> BY <1>4 DEF TimeOut
  <2> QED BY <1>1, <1>4, <2>1, TimeOutOK, OthersKeep DEF Inv
<1>5. ASSUME NEW n \in Node, NEW list \in SUBSET Node, UpdatePeers(n, list)
      PROVE  Inv'
  <2>1. UNCHANGED <<start, sockets, requests, applied>>
      BY <1>5 DEF UpdatePeers
  <2> QED BY <1>1, <1>5, <2>1, UpdatePeersOK, OthersKeep DEF Inv
<1>6. ASSUME NEW l \in DOMAIN sockets, ConnectFails(l) \/ Accept(l)
      PROVE  Inv'
  <2>1. "client" \in End BY DEF End
  <2>2. MessageInv' BY <1>6, <2>1, SocketStepsKeep
  <2> QED BY <1>1, <1>6, <2>2, ConnectFailsOK, AcceptOK DEF Inv
<1>7. ASSUME NEW l \in DOMAIN sockets, NEW e \in End,
             Attach(l, e) \/ EndLost(l, e)
      PROVE  Inv'
  <2>1. MessageInv' BY <1>7, SocketStepsKeep
  <2> QED BY <1>1, <1>7, <2>1, AttachOK, EndLostOK DEF Inv
<1>8. ASSUME NEW l \in DOMAIN sockets, NEW e \in End, Deliver(l, e)
      PROVE  Inv'
    BY <1>1, <1>8, DeliverOK, DeliverKeeps DEF Inv
<1>9. ASSUME NEW n \in Node, NEW op \in Operation, NEW to \in Node,
             Request(n, op, Self(to))
      PROVE  Inv'
  <2>1. Self(to) \in ServerId BY <1>1, SelfIs
  <2> QED BY <1>1, <1>9, <2>1, RequestOK, RequestKeeps DEF Inv
<1>10. CASE UNCHANGED vars
  <2>1. /\ UNCHANGED <<start, links, sockets, requests, applied>>
        /\ UNCHANGED <<wanted, updates, peers>>
      BY <1>10 DEF vars
  <2>2. /\ wanted' \in [Node -> SUBSET Node] /\ updates' \in 0 .. MaxUpdates
        /\ peers' \in [Node -> [Node -> PeerState]]
      BY <1>1, <2>1 DEF TypeOK
  <2> QED BY <1>1, <2>1, <2>2, OthersOK, OthersKeep DEF Inv
<1> QED BY <1>2, <1>3, <1>4, <1>5, <1>6, <1>7, <1>8, <1>9, <1>10 DEF Next

LEMMA Invariance == Spec => []Inv
BY InitInv, StepInv, PTL DEF Spec

\* Types, and links that lead where they are said to lead: the socket kept
\* for a server has this server's present id at one end and that server's at
\* the other, whatever was attached, replaced, lost or restarted.
THEOREM TypeCorrect == Spec => []TypeOK
<1>1. Inv => TypeOK BY DEF Inv
<1> QED BY <1>1, Invariance, PTL

LEMMA AppliedDomain ==
    ASSUME TypeOK, NEW n \in Node
    PROVE  applied[n] \in Seq(Message) /\ DOMAIN applied[n] = 1 .. Len(applied[n])
BY DEF TypeOK

\* No action is given to a processor twice (remote_send and Incoming of
\* session.rs), whatever sockets two servers have between them.
THEOREM AppliedAtMostOnce == Spec => []AppliedOnce
<1>1. Inv => AppliedOnce
  <2> SUFFICES ASSUME Inv, NEW n \in Node,
                      NEW i \in DOMAIN applied[n], NEW j \in DOMAIN applied[n],
                      applied[n][i] = applied[n][j]
               PROVE  i = j
      BY DEF AppliedOnce
  <2>1. Distinct(applied[n]) /\ DOMAIN applied[n] = 1 .. Len(applied[n])
      BY AppliedDomain DEF Inv, MessageInv, AppliedOK
  <2> QED BY <2>1 DEF Distinct
<1> QED BY <1>1, Invariance, PTL

\* An Attach finds its lattice, on whatever server and through whatever
\* socket it comes.
THEOREM LatticeComesFirst == Spec => []LatticeBeforeAttach
<1>1. Inv => LatticeBeforeAttach
  <2> SUFFICES ASSUME Inv, NEW n \in Node, NEW i \in DOMAIN applied[n],
                      applied[n][i].action = "Attach"
               PROVE  \E j \in 1 .. i - 1 :
                        applied[n][j] = [applied[n][i] EXCEPT
                                            !.action = "Lattice"]
      BY DEF LatticeBeforeAttach
  <2>1. Ready(applied[n], <<>>) /\ DOMAIN applied[n] = 1 .. Len(applied[n])
      BY AppliedDomain DEF Inv, MessageInv, AppliedOK
  <2>2. Len(<<>>) = 0 /\ 1 .. 0 = {} OBVIOUS
  <2> QED BY <2>1, <2>2 DEF Ready, LatticeOf
<1> QED BY <1>1, Invariance, PTL
=============================================================================
