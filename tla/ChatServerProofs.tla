-------------------------- MODULE ChatServerProofs --------------------------
(***************************************************************************)
(* Proofs about ChatServer, for any set of connections, any number of      *)
(* configuration changes and of publications.                              *)
(*                                                                         *)
(* The argument follows the events of one connection through the queue:    *)
(* the reactor thread sends NewConnection, Associate and Disconnect in     *)
(* this order and each at most once (Order), so that what the processor    *)
(* thread still has to hear tells what the pool's maps may hold (Story).   *)
(* Before the first change of the configuration the pool's own event is    *)
(* ahead of all of them, and every one finds the pool it is for (Steady).  *)
(***************************************************************************)
EXTENDS ChatServer, TLAPS

---------------------------------------------------------------------------
(***************************************************************************)
(* Queues.                                                                 *)
(***************************************************************************)

In(q, e) == \E i \in 1 .. Len(q) : q[i] = e

\* The events of c come in the order of its life, each at most once.
InOrder(q, c) ==
    \A i, j \in 1 .. Len(q) : i < j =>
        /\ q[j] = NewConnection(c) =>
            q[i] \notin {NewConnection(c), Associate(c), Disconnect(c)}
        /\ q[j] = Associate(c) => q[i] \notin {Associate(c), Disconnect(c)}
        /\ q[j] = Disconnect(c) => q[i] # Disconnect(c)

\* Events of two connections, or of two kinds, differ.
LEMMA EventsDiffer ==
    ASSUME NEW c, NEW d, NEW g
    PROVE  /\ NewConnection(c) = NewConnection(d) <=> c = d
           /\ Associate(c) = Associate(d) <=> c = d
           /\ Disconnect(c) = Disconnect(d) <=> c = d
           /\ NewConnection(c) # Associate(d)
           /\ NewConnection(c) # Disconnect(d)
           /\ Associate(c) # Disconnect(d)
           /\ NewSessionPool(g) \notin
                {NewConnection(c), Associate(c), Disconnect(c)}
           /\ StopSessionPool \notin
                {NewConnection(c), Associate(c), Disconnect(c)}
           /\ StopSessionPool # NewSessionPool(g)
<1>1. /\ NewConnection(c).action = "NewConnection"
      /\ NewConnection(c).conn = c /\ NewConnection(d).conn = d
      /\ Associate(c).action = "Associate"
      /\ Associate(d).action = "Associate"
      /\ Associate(c).conn = c /\ Associate(d).conn = d
      /\ Disconnect(c).action = "Disconnect"
      /\ Disconnect(d).action = "Disconnect"
      /\ Disconnect(c).conn = c /\ Disconnect(d).conn = d
      /\ NewSessionPool(g).action = "NewSessionPool"
      /\ StopSessionPool.action = "StopSessionPool"
    BY DEF NewConnection, Associate, Disconnect, NewSessionPool,
           StopSessionPool
<1>2. /\ c = d => NewConnection(c) = NewConnection(d)
      /\ c = d => Associate(c) = Associate(d)
      /\ c = d => Disconnect(c) = Disconnect(d)
    OBVIOUS
<1> QED BY <1>1, <1>2

\* What an event is, by its action.
LEMMA EventKinds ==
    ASSUME NEW e \in Event
    PROVE  /\ e.action = "NewSessionPool" =>
                e.pool \in Generation /\ e = NewSessionPool(e.pool)
           /\ e.action = "StopSessionPool" => e = StopSessionPool
           /\ e.action = "NewConnection" =>
                e.conn \in Cid /\ e = NewConnection(e.conn)
           /\ e.action = "Associate" =>
                e.conn \in Cid /\ e = Associate(e.conn)
           /\ e.action = "Disconnect" =>
                e.conn \in Cid /\ e = Disconnect(e.conn)
BY DEF Event, NewConnection, Associate, Disconnect, NewSessionPool,
       StopSessionPool

\* Sending adds an event, or a message, at the end.
LEMMA Appended ==
    ASSUME NEW S, NEW q \in Seq(S), NEW e \in S
    PROVE  /\ q \o <<e>> \in Seq(S)
           /\ q \o <<e>> # <<>>
           /\ Len(q \o <<e>>) = Len(q) + 1
           /\ \A i \in 1 .. Len(q) : (q \o <<e>>)[i] = q[i]
           /\ (q \o <<e>>)[Len(q) + 1] = e
OBVIOUS

LEMMA AppendedIn ==
    ASSUME NEW S, NEW q \in Seq(S), NEW e \in S
    PROVE  \A f : In(q \o <<e>>, f) <=> In(q, f) \/ f = e
<1> DEFINE r == q \o <<e>>
<1>1. /\ Len(q) \in Nat /\ Len(r) = Len(q) + 1
      /\ \A i \in 1 .. Len(q) : r[i] = q[i]
      /\ r[Len(q) + 1] = e
    BY Appended
<1> HIDE DEF r
<1>2. \A i : i \in 1 .. Len(r) <=> i \in 1 .. Len(q) \/ i = Len(q) + 1
    BY <1>1
<1>3. \A f : In(r, f) <=> In(q, f) \/ f = e
    BY <1>1, <1>2 DEF In
<1> QED BY <1>3 DEF r

\* Order is kept when the event belongs to no connection, or when those of
\* its connection that must not come earlier are not queued.
LEMMA AppendedInOrder ==
    ASSUME NEW q \in Seq(Event), NEW e \in Event, NEW c, InOrder(q, c),
           e = NewConnection(c) =>
             /\ ~ In(q, NewConnection(c)) /\ ~ In(q, Associate(c))
             /\ ~ In(q, Disconnect(c)),
           e = Associate(c) =>
             ~ In(q, Associate(c)) /\ ~ In(q, Disconnect(c)),
           e = Disconnect(c) => ~ In(q, Disconnect(c))
    PROVE  InOrder(q \o <<e>>, c)
<1> DEFINE r == q \o <<e>>
<1>1. /\ Len(q) \in Nat /\ Len(r) = Len(q) + 1
      /\ \A i \in 1 .. Len(q) : r[i] = q[i]
      /\ r[Len(q) + 1] = e
    BY Appended
<1> HIDE DEF r
<1>2. \A i, j \in 1 .. Len(r) : i < j =>
        /\ i \in 1 .. Len(q) /\ r[i] = q[i]
        /\ \/ j \in 1 .. Len(q) /\ r[j] = q[j]
           \/ r[j] = e
    BY <1>1
<1>3. InOrder(r, c) BY <1>2 DEF InOrder, In
<1> QED BY <1>3 DEF r

\* Handling takes it from the front.
LEMMA Taken ==
    ASSUME NEW S, NEW q \in Seq(S), q # <<>>
    PROVE  /\ Head(q) \in S /\ Tail(q) \in Seq(S)
           /\ Head(q) = q[1]
           /\ Len(q) \in Nat \ {0} /\ Len(Tail(q)) = Len(q) - 1
           /\ \A i \in 1 .. Len(Tail(q)) : Tail(q)[i] = q[i + 1]
OBVIOUS

LEMMA TakenIn ==
    ASSUME NEW S, NEW q \in Seq(S), q # <<>>
    PROVE  \A f : In(q, f) <=> f = Head(q) \/ In(Tail(q), f)
<1> DEFINE t == Tail(q)
<1>1. /\ Len(q) \in Nat \ {0} /\ Len(t) = Len(q) - 1
      /\ \A i \in 1 .. Len(t) : t[i] = q[i + 1]
      /\ Head(q) = q[1]
    BY Taken
<1> HIDE DEF t
<1>2. /\ 1 \in 1 .. Len(q)
      /\ \A i \in 1 .. Len(t) : i + 1 \in 1 .. Len(q)
      /\ \A i \in 1 .. Len(q) :
            i = 1 \/ (i - 1 \in 1 .. Len(t) /\ t[i - 1] = q[i])
    BY <1>1
<1>3. ASSUME NEW f PROVE In(q, f) <=> f = Head(q) \/ In(t, f)
    BY <1>1, <1>2 DEF In
<1> QED BY <1>3 DEF t

LEMMA TakenInOrder ==
    ASSUME NEW q \in Seq(Event), q # <<>>, NEW c, InOrder(q, c)
    PROVE  /\ InOrder(Tail(q), c)
           /\ Head(q) = NewConnection(c) => ~ In(Tail(q), NewConnection(c))
           /\ Head(q) = Associate(c) =>
                /\ ~ In(Tail(q), NewConnection(c))
                /\ ~ In(Tail(q), Associate(c))
           /\ Head(q) = Disconnect(c) =>
                /\ ~ In(Tail(q), NewConnection(c))
                /\ ~ In(Tail(q), Associate(c))
                /\ ~ In(Tail(q), Disconnect(c))
<1> DEFINE t == Tail(q)
<1>1. /\ Len(q) \in Nat \ {0} /\ Len(t) = Len(q) - 1
      /\ \A i \in 1 .. Len(t) : t[i] = q[i + 1]
      /\ Head(q) = q[1]
    BY Taken
<1> HIDE DEF t
<1>2. /\ 1 \in 1 .. Len(q)
      /\ \A i \in 1 .. Len(t) : i + 1 \in 1 .. Len(q) /\ 1 < i + 1
      /\ \A i, j \in 1 .. Len(t) : i < j => i + 1 < j + 1
    BY <1>1
<1>3. InOrder(t, c) BY <1>1, <1>2 DEF InOrder
<1>4. \A j \in 1 .. Len(t) :
        /\ t[j] = NewConnection(c) =>
            q[1] \notin {NewConnection(c), Associate(c), Disconnect(c)}
        /\ t[j] = Associate(c) => q[1] \notin {Associate(c), Disconnect(c)}
        /\ t[j] = Disconnect(c) => q[1] # Disconnect(c)
    BY <1>1, <1>2 DEF InOrder
<1> QED BY <1>1, <1>3, <1>4 DEF In, t

---------------------------------------------------------------------------
(***************************************************************************)
(* The invariant.                                                          *)
(***************************************************************************)

\* The generations made so far are 1 .. m: as many as the changes allow.
Made(m) ==
    /\ \A g \in Generation : inactivity[g] # "none" <=> g <= m
    /\ worker <= m /\ m <= reloads + 1
    /\ worker = NoPool \/ ~ configured => m <= reloads

GenerationsLeft == \E m \in Generation : Made(m)

Known(c) == c \in pending \cup connections

\* The part of c's life that is over for the reactor thread, against what
\* the pool holds and what its queue still has.
Story(c) ==
    /\ task[c] = "none" =>
        auth[c] = "none" /\ ~ Known(c) /\ ~ In(queue, NewConnection(c))
    /\ In(queue, NewConnection(c)) => ~ Known(c)
    /\ auth[c] # "answered" =>
        /\ task[c] \in {"none", "upgrading", "waiting", "failed"}
        /\ c \notin connections /\ ~ In(queue, Associate(c))
        /\ ~ In(channel[c], "Hello")
    /\ task[c] # "closed" => ~ In(queue, Disconnect(c))
    /\ panics = {} /\ task[c] = "closed" =>
        \/ ~ Known(c) /\ ~ In(queue, NewConnection(c))
        \/ In(queue, Disconnect(c))

ConnInv == \A c \in Cid : InOrder(queue, c) /\ Story(c)

Inv == TypeOK /\ GenerationsLeft /\ ConnInv

\* Send of one event
LEMMA SendOne ==
    ASSUME NEW e, Send(<<e>>)
    PROVE  \/ panics' = panics /\ queue' = queue \o <<e>>
           \/ /\ panics' = panics \cup {"Error invoking processor"}
              /\ queue' = queue
BY DEF Send

LEMMA SentType ==
    ASSUME TypeOK, NEW C, NEW m \in ConnectionMessage
    PROVE  Sent(C, m) \in [Cid -> Seq(ConnectionMessage)]
<1>1. \A x \in Cid : /\ channel[x] \in Seq(ConnectionMessage)
                     /\ Append(channel[x], m) \in Seq(ConnectionMessage)
    BY DEF TypeOK
<1> QED BY <1>1 DEF Sent

LEMMA SentTo ==
    ASSUME TypeOK, NEW C, NEW m \in ConnectionMessage, NEW d \in Cid
    PROVE  /\ \/ Sent(C, m)[d] = channel[d]
              \/ d \in C /\ Sent(C, m)[d] = Append(channel[d], m)
           /\ In(Sent(C, m)[d], "Hello") =>
                In(channel[d], "Hello") \/ (d \in C /\ m = "Hello")
<1>1. \/ Sent(C, m)[d] = channel[d]
      \/ d \in C /\ Sent(C, m)[d] = Append(channel[d], m)
    BY DEF Sent
<1>2. Append(channel[d], m) = channel[d] \o <<m>>
    BY DEF TypeOK
<1>3. In(Append(channel[d], m), "Hello") =>
        In(channel[d], "Hello") \/ m = "Hello"
    BY <1>2, AppendedIn DEF TypeOK
<1> QED BY <1>1, <1>3

---------------------------------------------------------------------------
(***************************************************************************)
(* Generations.                                                            *)
(***************************************************************************)

\* CreatePool finds a generation: the one after those made.
LEMMA NextGeneration ==
    ASSUME TypeOK, NEW m \in Generation, Made(m), CreatePool
    PROVE  /\ m + 1 \in Generation /\ worker' = m + 1
           /\ inactivity' = [inactivity EXCEPT ![m + 1] = "running"]
           /\ Send(<<NewSessionPool(m + 1)>>)
<1> USE BoundAssumption DEF Generation, NoPool
<1> DEFINE First(x) == /\ inactivity[x] = "none"
                       /\ \A y \in 1 .. x - 1 : inactivity[y] # "none"
           g == CHOOSE x \in Generation : First(x)
<1>1. /\ worker = NoPool /\ configured /\ worker' = g
      /\ inactivity' = [inactivity EXCEPT ![g] = "running"]
      /\ Send(<<NewSessionPool(g)>>)
    BY DEF CreatePool
<1>2. m + 1 \in Generation /\ First(m + 1)
    BY <1>1 DEF Made, TypeOK
<1>3. \A x \in Generation : First(x) => x = m + 1
    BY DEF Made
<1>4. g = m + 1 BY <1>2, <1>3
<1> QED BY <1>1, <1>2, <1>4

LEMMA GenerationStep ==
    ASSUME TypeOK, GenerationsLeft, [Next]_vars
    PROVE  GenerationsLeft'
<1> PICK m \in Generation : Made(m) BY DEF GenerationsLeft
<1> USE BoundAssumption DEF Generation, NoPool
<1>1. CASE UNCHANGED configVars
  <2>1. Made(m)' BY <1>1 DEF Made, configVars
  <2> QED BY <2>1 DEF GenerationsLeft
<1>2. CASE TryUpdate
  <2>1. Made(m)' BY <1>2 DEF TryUpdate, Made, TypeOK
  <2> QED BY <2>1 DEF GenerationsLeft
<1>3. CASE RemovePool
  <2>1. /\ inactivity' = [inactivity EXCEPT ![worker] = "stopping"]
        /\ worker \in Generation /\ worker' = NoPool /\ ~ configured
        /\ UNCHANGED <<configured, reloads>>
      BY <1>3 DEF RemovePool, TypeOK
  <2>2. inactivity[worker] # "none" BY <2>1 DEF Made
  <2>3. Made(m)' BY <2>1, <2>2 DEF Made, TypeOK
  <2> QED BY <2>3 DEF GenerationsLeft
<1>4. CASE CreatePool
  <2>1. /\ worker = NoPool /\ configured
        /\ UNCHANGED <<configured, reloads>>
      BY <1>4 DEF CreatePool
  <2>2. /\ m + 1 \in Generation /\ worker' = m + 1
        /\ inactivity' = [inactivity EXCEPT ![m + 1] = "running"]
      BY <1>4, NextGeneration
  <2>3. Made(m + 1)' BY <2>1, <2>2 DEF Made, TypeOK
  <2> QED BY <2>2, <2>3 DEF GenerationsLeft
<1>5. CASE KeepPools
    BY <1>5 DEF KeepPools, GenerationsLeft, Made
<1>6. ASSUME NEW g \in Generation, InactivityExits(g)
      PROVE  GenerationsLeft'
  <2>1. Made(m)' BY <1>6 DEF InactivityExits, Made, TypeOK
  <2> QED BY <2>1 DEF GenerationsLeft
<1>7. ASSUME NEW c \in Cid, ConnectionStep(c)
      PROVE  UNCHANGED configVars
    BY <1>7 DEF ConnectionStep, Serve, Authorized, Refused, Hijack,
        UpgradeLost, FirstMessage, Deliver, CloseFrame, LoopEnds
<1>8. CASE ProcessorStep
    BY <1>1, <1>8 DEF ProcessorStep, Cleanup, Timeout, BatchDone, Handle,
        Publish, OutOfSync
<1>9. CASE UNCHANGED vars BY <1>1, <1>9 DEF vars
<1> QED
    BY <1>1, <1>2, <1>3, <1>4, <1>5, <1>6, <1>7, <1>8, <1>9
    DEF Next, ConfigStep

---------------------------------------------------------------------------
(***************************************************************************)
(* Types.  That a connection is in one map only needs the order of events: *)
(* NewConnection meets no entry of its connection.                         *)
(***************************************************************************)

\* What Send keeps of the types.
LEMMA SendType ==
    ASSUME TypeOK, NEW e \in Event, Send(<<e>>)
    PROVE  /\ queue' \in Seq(Event)
           /\ panics' \in SUBSET (ProcessorPanic \cup ReactorPanic)
<1>1. queue \o <<e>> \in Seq(Event) BY DEF TypeOK
<1>2. "Error invoking processor" \in ReactorPanic BY DEF ReactorPanic
<1> QED BY <1>1, <1>2, SendOne DEF TypeOK

LEMMA TypeStep ==
    ASSUME Inv, [Next]_vars
    PROVE  TypeOK'
<1> TypeOK BY DEF Inv
<1>t. \A c \in Cid : /\ NewConnection(c) \in Event /\ Associate(c) \in Event
                     /\ Disconnect(c) \in Event
    BY DEF Event
<1>1. ASSUME NEW c \in Cid, ConnectionStep(c) PROVE TypeOK'
  <2>1. CASE Serve(c)
    <3>1. /\ queue' \in Seq(Event)
          /\ panics' \in SUBSET (ProcessorPanic \cup ReactorPanic)
        BY <2>1, <1>t, SendType DEF Serve
    <3>2. Complaint \in Seq(ConnectionMessage)
        BY DEF Complaint, ConnectionMessage
    <3>3. channel' \in [Cid -> Seq(ConnectionMessage)]
        BY <2>1, <3>2 DEF Serve, TypeOK
    <3> QED BY <2>1, <3>1, <3>3
        DEF Serve, TypeOK, configVars, poolVars, Task, Auth
  <2>2. CASE Authorized(c)
    <3>1. /\ queue' \in Seq(Event)
          /\ panics' \in SUBSET (ProcessorPanic \cup ReactorPanic)
        BY <2>2, <1>t, SendType DEF Authorized, Introduction
    <3>2. channel' \in [Cid -> Seq(ConnectionMessage)]
        BY <2>2, SentType DEF Authorized, ConnectionMessage
    <3> QED BY <2>2, <3>1, <3>2
        DEF Authorized, TypeOK, configVars, poolVars, Auth
  <2>3. CASE Refused(c)
    <3>1. channel' \in [Cid -> Seq(ConnectionMessage)]
        BY <2>3, SentType DEF Refused, ConnectionMessage
    <3> QED BY <2>3, <3>1 DEF Refused, TypeOK, configVars, poolVars, Auth
  <2>4. CASE Hijack(c)
      BY <2>4 DEF Hijack, TypeOK, configVars, poolVars, Task, ReactorPanic
  <2>5. CASE UpgradeLost(c)
      BY <2>5 DEF UpgradeLost, TypeOK, configVars, poolVars, Task
  <2>6. CASE FirstMessage(c)
    <3> DEFINE S == Seq(ConnectionMessage)
    <3>a. /\ <<>> \in S /\ <<"Hello">> \in S /\ <<"FatalError">> \in S
          /\ channel[c] # <<>> => Tail(channel[c]) \in S
        BY DEF TypeOK, ConnectionMessage
    <3>b. channel \in [Cid -> S] /\ wire \in [Cid -> S]
        BY DEF TypeOK
    <3>c. /\ \/ channel' = channel
             \/ channel[c] # <<>>
                /\ channel' = [channel EXCEPT ![c] = Tail(channel[c])]
             \/ channel' = [channel EXCEPT ![c] = <<>>]
          /\ \/ wire' = wire
             \/ wire' = [wire EXCEPT ![c] = <<>>]
             \/ wire' = [wire EXCEPT ![c] = <<"Hello">>]
             \/ wire' = [wire EXCEPT ![c] = <<"FatalError">>]
        BY <2>6, <3>b DEF FirstMessage
    <3> HIDE DEF S
    <3>1. channel' \in [Cid -> S] BY <3>a, <3>b, <3>c
    <3>2. wire' \in [Cid -> S] BY <3>a, <3>b, <3>c
    <3>3. task' \in [Cid -> Task]
        BY <2>6 DEF FirstMessage, TypeOK, Task
    <3>4. panics' \in SUBSET (ProcessorPanic \cup ReactorPanic)
        BY <2>6 DEF FirstMessage, TypeOK, ReactorPanic
    <3> QED BY <2>6, <3>1, <3>2, <3>3, <3>4
        DEF S, FirstMessage, TypeOK, configVars, poolVars
  <2>7. CASE Deliver(c)
    <3>1. channel' \in [Cid -> Seq(ConnectionMessage)]
        BY <2>7 DEF Deliver, TypeOK
    <3>2. Append(wire[c], Head(channel[c])) \in Seq(ConnectionMessage)
        BY <2>7 DEF Deliver, TypeOK
    <3>3. wire' \in [Cid -> Seq(ConnectionMessage)]
        BY <2>7, <3>2 DEF Deliver, TypeOK
    <3> QED BY <2>7, <3>1, <3>3 DEF Deliver, TypeOK, configVars, poolVars
  <2>8. CASE CloseFrame(c)
    <3>1. channel' \in [Cid -> Seq(ConnectionMessage)]
        BY <2>8, SentType DEF CloseFrame, ConnectionMessage
    <3> QED BY <2>8, <3>1 DEF CloseFrame, TypeOK, configVars, poolVars, Task
  <2>9. CASE LoopEnds(c)
    <3>1. /\ queue' \in Seq(Event)
          /\ panics' \in SUBSET (ProcessorPanic \cup ReactorPanic)
        BY <2>9, <1>t, SendType DEF LoopEnds, Goodbye
    <3> QED BY <2>9, <3>1 DEF LoopEnds, TypeOK, configVars, poolVars, Task
  <2> QED BY <1>1, <2>1, <2>2, <2>3, <2>4, <2>5, <2>6, <2>7, <2>8, <2>9
      DEF ConnectionStep
<1>2. CASE Cleanup
    BY <1>2 DEF Cleanup, TypeOK, configVars, poolVars, connVars,
        ProcessorPanic
<1>3. CASE Timeout
    BY <1>3 DEF Timeout, TypeOK, configVars, poolVars, connVars
<1>4. CASE BatchDone
    BY <1>4 DEF BatchDone, TypeOK, configVars, poolVars, connVars
<1>5. CASE Handle
  <2> DEFINE e == Head(queue)
  <2>1. e \in Event /\ queue' \in Seq(Event)
      BY <1>5, Taken DEF Handle, TypeOK
  <2>2. /\ UNCHANGED <<configured, notified, reloads, worker, inactivity,
                       task, auth, wire>>
        /\ pc' \in {"cleanup", "recv", "drain"}
      BY <1>5 DEF Handle, configVars
  <2>3. CASE HandleNewSessionPool(e)
      BY <2>1, <2>2, <2>3, EventKinds DEF HandleNewSessionPool, TypeOK
  <2>4. CASE HandleStopSessionPool(e)
    <3>1. channel' \in [Cid -> Seq(ConnectionMessage)]
        BY <2>4, SentType DEF HandleStopSessionPool, ConnectionMessage, TypeOK
    <3> QED BY <2>1, <2>2, <2>4, <3>1 DEF HandleStopSessionPool, TypeOK
  <2>5. CASE HandleNewConnection(e)
    <3>1. e.conn \in Cid /\ e = NewConnection(e.conn)
        BY <2>1, <2>5, EventKinds DEF HandleNewConnection
    <3>2. In(queue, NewConnection(e.conn))
        BY <1>5, <3>1, TakenIn DEF Handle, TypeOK
    <3>3. e.conn \notin connections
        BY <3>1, <3>2 DEF Inv, ConnInv, Story, Known
    <3> QED BY <2>1, <2>2, <2>5, <3>1, <3>3 DEF HandleNewConnection, TypeOK
  <2>6. CASE HandleAssociate(e)
    <3>1. e.conn \in Cid
        BY <2>1, <2>6, EventKinds DEF HandleAssociate
    <3>2. channel' \in [Cid -> Seq(ConnectionMessage)]
        BY <2>6, SentType DEF HandleAssociate, ConnectionMessage, TypeOK
    <3>3. /\ pending' \in SUBSET Cid /\ connections' \in SUBSET Cid
          /\ pending' \cap connections' = {} /\ buffered' \subseteq pending'
          /\ dropped' \in SUBSET Cid
        BY <2>6, <3>1 DEF HandleAssociate, NoLongerPending, TypeOK
    <3> QED BY <2>1, <2>2, <2>6, <3>2, <3>3 DEF HandleAssociate, TypeOK
  <2>7. CASE HandleDisconnect(e)
    <3>1. panics' \in SUBSET (ProcessorPanic \cup ReactorPanic)
        BY <2>7 DEF HandleDisconnect, TypeOK, ProcessorPanic
    <3> QED BY <2>1, <2>2, <2>7, <3>1 DEF HandleDisconnect, TypeOK
  <2> QED BY <1>5, <2>3, <2>4, <2>5, <2>6, <2>7 DEF Handle
<1>6. ASSUME NEW C \in SUBSET (pending \cup connections), Publish(C)
      PROVE  TypeOK'
  <2>1. channel' \in [Cid -> Seq(ConnectionMessage)]
      BY <1>6, SentType DEF Publish, ConnectionMessage
  <2> QED BY <1>6, <2>1 DEF Publish, TypeOK, configVars
<1>7. CASE TryUpdate
    BY <1>7, BoundAssumption
    DEF TryUpdate, TypeOK, poolVars, connVars, Notice
<1>8. CASE RemovePool
  <2>1. StopSessionPool \in Event BY DEF Event
  <2>2. /\ queue' \in Seq(Event)
        /\ panics' \in SUBSET (ProcessorPanic \cup ReactorPanic)
      BY <1>8, <2>1, SendType DEF RemovePool
  <2> QED BY <1>8, <2>2 DEF RemovePool, TypeOK, poolVars, connVars, Handler
<1>9. CASE CreatePool
  <2>1. PICK m \in Generation : Made(m) BY DEF Inv, GenerationsLeft
  <2>2. /\ m + 1 \in Generation /\ worker' = m + 1
        /\ inactivity' = [inactivity EXCEPT ![m + 1] = "running"]
        /\ Send(<<NewSessionPool(m + 1)>>)
      BY <1>9, <2>1, NextGeneration
  <2>3. NewSessionPool(m + 1) \in Event BY <2>2 DEF Event
  <2>4. /\ queue' \in Seq(Event)
        /\ panics' \in SUBSET (ProcessorPanic \cup ReactorPanic)
      BY <2>2, <2>3, SendType
  <2>5. /\ worker' \in Generation \cup {NoPool}
        /\ inactivity' \in [Generation -> Handler]
      BY <2>2 DEF TypeOK, Handler
  <2>6. /\ notified' \in BOOLEAN
        /\ UNCHANGED <<configured, reloads, pc, pool, pending, connections,
                       dropped, buffered, published, task, auth, channel,
                       wire>>
      BY <1>9 DEF CreatePool, poolVars, connVars
  <2> QED BY <2>4, <2>5, <2>6 DEF TypeOK
<1>10. CASE KeepPools
    BY <1>10 DEF KeepPools, TypeOK, poolVars, connVars
<1>11. ASSUME NEW g \in Generation, InactivityExits(g)
       PROVE  TypeOK'
    BY <1>11 DEF InactivityExits, TypeOK, poolVars, connVars, Handler
<1>12. CASE UNCHANGED vars
    BY <1>12 DEF vars, configVars, poolVars, connVars, TypeOK
<1>13. CASE OutOfSync
    BY <1>13 DEF OutOfSync, TypeOK, ProcessorPanic, configVars, poolVars,
        connVars
<1> QED
    BY <1>1, <1>2, <1>3, <1>4, <1>5, <1>6, <1>7, <1>8, <1>9, <1>10, <1>11,
       <1>12, <1>13
    DEF Next, ConfigStep, ProcessorStep

---------------------------------------------------------------------------
(***************************************************************************)
(* Connections.                                                            *)
(***************************************************************************)

\* A step that neither moves d on nor adds to the maps or to the queue
\* anything of d.
LEMMA StoryKept ==
    ASSUME NEW d \in Cid, Story(d),
           task'[d] = task[d], auth'[d] = auth[d],
           In(channel'[d], "Hello") => In(channel[d], "Hello"),
           Known(d)' => Known(d), d \in connections' => d \in connections,
           In(queue', NewConnection(d)) <=> In(queue, NewConnection(d)),
           In(queue', Associate(d)) <=> In(queue, Associate(d)),
           In(queue', Disconnect(d)) <=> In(queue, Disconnect(d)),
           panics' = {} => panics = {}
    PROVE  Story(d)'
BY DEF Story

\* An event of another connection, or of the pool, is sent.
LEMMA OtherSent ==
    ASSUME TypeOK, NEW e \in Event, Send(<<e>>), NEW d \in Cid,
           e \notin {NewConnection(d), Associate(d), Disconnect(d)},
           InOrder(queue, d)
    PROVE  /\ InOrder(queue', d)
           /\ In(queue', NewConnection(d)) <=> In(queue, NewConnection(d))
           /\ In(queue', Associate(d)) <=> In(queue, Associate(d))
           /\ In(queue', Disconnect(d)) <=> In(queue, Disconnect(d))
           /\ panics' = {} => panics = {}
<1>1. queue \in Seq(Event) BY DEF TypeOK
<1>2. CASE queue' = queue /\ panics' = panics \cup {"Error invoking processor"}
    BY <1>2
<1>3. CASE queue' = queue \o <<e>> /\ panics' = panics
  <2>1. InOrder(queue \o <<e>>, d) BY <1>1, AppendedInOrder
  <2>2. \A f : In(queue \o <<e>>, f) <=> In(queue, f) \/ f = e
      BY <1>1, AppendedIn
  <2> QED BY <1>3, <2>1, <2>2
<1> QED BY <1>2, <1>3, SendOne

LEMMA ConnectionsFollowed ==
    ASSUME Inv, [Next]_vars
    PROVE  ConnInv'
<1> SUFFICES ASSUME NEW d \in Cid PROVE InOrder(queue', d) /\ Story(d)'
    BY DEF ConnInv
<1> TypeOK /\ InOrder(queue, d) /\ Story(d) /\ queue \in Seq(Event)
    BY DEF Inv, ConnInv, TypeOK
<1>t. \A c \in Cid : /\ NewConnection(c) \in Event /\ Associate(c) \in Event
                     /\ Disconnect(c) \in Event
    BY DEF Event
<1>1. CASE Serve(d)
  <2>1. /\ ~ Known(d) /\ ~ In(queue, NewConnection(d))
        /\ ~ In(queue, Associate(d)) /\ ~ In(queue, Disconnect(d))
        /\ ~ In(channel[d], "Hello")
      BY <1>1 DEF Serve, Story
  <2>2. /\ ~ In(queue', Associate(d)) /\ ~ In(queue', Disconnect(d))
        /\ InOrder(queue', d)
    <3>1. InOrder(queue \o <<NewConnection(d)>>, d)
        BY <1>t, <2>1, AppendedInOrder, EventsDiffer
    <3>2. \A f : In(queue \o <<NewConnection(d)>>, f) <=>
                    In(queue, f) \/ f = NewConnection(d)
        BY <1>t, AppendedIn
    <3>3. queue' = queue \/ queue' = queue \o <<NewConnection(d)>>
        BY <1>1, SendOne DEF Serve
    <3>4. NewConnection(d) \notin {Associate(d), Disconnect(d)}
        BY EventsDiffer
    <3> QED BY <2>1, <3>1, <3>2, <3>3, <3>4
  <2>3. task'[d] = "upgrading" /\ ~ Known(d)' /\ d \notin connections'
      BY <1>1, <2>1 DEF Serve, Known, poolVars, TypeOK
  <2>4. auth'[d] # "answered" => ~ In(channel'[d], "Hello")
      BY <1>1, <2>1 DEF Serve, TypeOK
  <2> QED BY <2>2, <2>3, <2>4 DEF Story
<1>2. CASE Authorized(d)
  <2>1. /\ task[d] \in {"upgrading", "waiting", "failed"}
        /\ ~ In(queue, Associate(d)) /\ ~ In(queue, Disconnect(d))
      BY <1>2 DEF Authorized, Story
  <2>2. /\ ~ In(queue', Disconnect(d))
        /\ In(queue', NewConnection(d)) <=> In(queue, NewConnection(d))
        /\ InOrder(queue', d)
    <3>1. InOrder(queue \o <<Associate(d)>>, d)
        BY <1>t, <2>1, AppendedInOrder, EventsDiffer
    <3>2. \A f : In(queue \o <<Associate(d)>>, f) <=>
                    In(queue, f) \/ f = Associate(d)
        BY <1>t, AppendedIn
    <3>3. queue' = queue \/ queue' = queue \o <<Associate(d)>>
        BY <1>2, SendOne DEF Authorized, Introduction
    <3>4. Associate(d) \notin {NewConnection(d), Disconnect(d)}
        BY EventsDiffer
    <3> QED BY <2>1, <3>1, <3>2, <3>3, <3>4
  <2>3. auth'[d] = "answered" /\ task'[d] = task[d] /\ Known(d)' = Known(d)
      BY <1>2 DEF Authorized, Known, poolVars, TypeOK
  <2> QED BY <2>1, <2>2, <2>3 DEF Story
<1>3. CASE LoopEnds(d)
  <2>1. auth[d] = "answered" /\ ~ In(queue, Disconnect(d))
      BY <1>3 DEF LoopEnds, Story
  <2>2. /\ panics' = {} => In(queue', Disconnect(d))
        /\ In(queue', NewConnection(d)) <=> In(queue, NewConnection(d))
        /\ InOrder(queue', d)
    <3>1. InOrder(queue \o <<Disconnect(d)>>, d)
        BY <1>t, <2>1, AppendedInOrder, EventsDiffer
    <3>2. \A f : In(queue \o <<Disconnect(d)>>, f) <=>
                    In(queue, f) \/ f = Disconnect(d)
        BY <1>t, AppendedIn
    <3> QED BY <1>3, <2>1, <3>1, <3>2, SendOne, EventsDiffer
        DEF LoopEnds, Goodbye
  <2>3. auth'[d] = "answered" /\ task'[d] = "closed" /\ Known(d)' = Known(d)
      BY <1>3, <2>1 DEF LoopEnds, Known, poolVars, TypeOK
  <2> QED BY <2>2, <2>3 DEF Story
<1>4. CASE Refused(d) \/ Hijack(d) \/ UpgradeLost(d) \/ FirstMessage(d)
            \/ Deliver(d) \/ CloseFrame(d)
  <2>1. /\ queue' = queue /\ Known(d)' = Known(d)
        /\ connections' = connections /\ (panics' = {} => panics = {})
      BY <1>4 DEF Refused, Hijack, UpgradeLost, FirstMessage, Deliver,
          CloseFrame, Known, poolVars
  <2>2. CASE Refused(d)
    <3>1. auth'[d] = "answered" /\ task' = task
        BY <2>2 DEF Refused, TypeOK
    <3>2. auth[d] = "asked" BY <2>2 DEF Refused
    <3> QED BY <2>1, <3>1, <3>2 DEF Story
  <2>3. CASE Hijack(d)
    <3>1. /\ auth' = auth /\ channel' = channel /\ task[d] = "upgrading"
          /\ task'[d] \in {"upgrading", "waiting"}
        BY <2>3 DEF Hijack, TypeOK
    <3> QED BY <2>1, <3>1 DEF Story
  <2>4. CASE UpgradeLost(d)
    <3>1. /\ auth' = auth /\ task[d] = "upgrading" /\ task'[d] = "failed"
          /\ channel'[d] = <<>>
        BY <2>4 DEF UpgradeLost, TypeOK
    <3>2. ~ In(<<>>, "Hello") BY DEF In
    <3> QED BY <2>1, <3>1, <3>2 DEF Story
  <2>5. CASE FirstMessage(d)
    <3>0. channel[d] \in Seq(ConnectionMessage) BY DEF TypeOK
    <3>1. /\ auth' = auth /\ task[d] = "waiting" /\ channel[d] # <<>>
          /\ \/ Head(channel[d]) = "Hello" /\ task'[d] = "open"
             \/ task'[d] = "failed" /\ channel'[d] = <<>>
             \/ task'[d] = task[d] /\ channel'[d] = channel[d]
        BY <2>5 DEF FirstMessage, TypeOK
    <3>2. Head(channel[d]) = "Hello" => In(channel[d], "Hello")
        BY <3>0, <3>1, TakenIn
    <3>3. ~ In(<<>>, "Hello") BY DEF In
    <3>4. task'[d] = "open" => auth[d] = "answered"
        BY <3>1, <3>2 DEF Story
    <3> QED BY <2>1, <3>1, <3>3, <3>4 DEF Story
  <2>6. CASE Deliver(d)
    <3>0. channel[d] \in Seq(ConnectionMessage) BY DEF TypeOK
    <3>1. /\ auth' = auth /\ task' = task /\ channel[d] # <<>>
          /\ channel'[d] = Tail(channel[d])
        BY <2>6 DEF Deliver, TypeOK
    <3>2. In(channel'[d], "Hello") => In(channel[d], "Hello")
        BY <3>0, <3>1, TakenIn
    <3> QED BY <2>1, <3>1, <3>2, StoryKept
  <2>7. CASE CloseFrame(d)
    <3>1. /\ auth' = auth /\ task[d] = "open" /\ task'[d] = "closing"
        BY <2>7 DEF CloseFrame, TypeOK
    <3> QED BY <2>1, <3>1 DEF Story
  <2> QED BY <1>4, <2>2, <2>3, <2>4, <2>5, <2>6, <2>7
<1>5. ASSUME NEW c \in Cid, c # d, ConnectionStep(c)
      PROVE  InOrder(queue', d) /\ Story(d)'
  <2>1. \A e \in {NewConnection(c), Associate(c), Disconnect(c)} :
            e \notin {NewConnection(d), Associate(d), Disconnect(d)}
      BY <1>5, EventsDiffer
  <2>2. /\ task'[d] = task[d] /\ auth'[d] = auth[d]
        /\ Known(d)' = Known(d) /\ connections' = connections
      BY <1>5 DEF ConnectionStep, Serve, Authorized, Refused, Hijack,
          UpgradeLost, FirstMessage, Deliver, CloseFrame, LoopEnds,
          Known, poolVars, TypeOK
  <2>3. channel'[d] = channel[d]
    <3>1. \A m : Sent({c}, m)[d] = channel[d] BY <1>5 DEF Sent
    <3> QED BY <1>5, <3>1 DEF ConnectionStep, Serve, Authorized, Refused,
            Hijack, UpgradeLost, FirstMessage, Deliver, CloseFrame,
            LoopEnds, TypeOK
  <2>4. CASE UNCHANGED queue /\ (panics' = {} => panics = {})
      BY <2>2, <2>3, <2>4, StoryKept
  <2>5. CASE \E e \in {NewConnection(c), Associate(c), Disconnect(c)} :
                Send(<<e>>)
    <3>1. PICK e \in {NewConnection(c), Associate(c), Disconnect(c)} :
                Send(<<e>>)
        BY <2>5
    <3>2. e \in Event BY <1>t
    <3> QED BY <2>1, <2>2, <2>3, <3>1, <3>2, OtherSent, StoryKept
  <2> QED BY <1>5, <2>4, <2>5 DEF ConnectionStep, Serve, Authorized, Refused,
          Hijack, UpgradeLost, FirstMessage, Deliver, CloseFrame, LoopEnds,
          Introduction, Goodbye
<1>6. CASE Cleanup \/ Timeout \/ BatchDone \/ OutOfSync
  <2>1. /\ UNCHANGED <<queue, pending, connections, task, auth, channel>>
        /\ panics' = {} => panics = {}
      BY <1>6 DEF Cleanup, Timeout, BatchDone, OutOfSync, poolVars, connVars
  <2> QED BY <2>1, StoryKept DEF Known
<1>7. CASE Handle
  <2> DEFINE e == Head(queue)
  <2>1. /\ e \in Event /\ queue' = Tail(queue) /\ queue # <<>>
        /\ UNCHANGED <<task, auth>>
      BY <1>7, Taken DEF Handle
  <2>2. \A f : In(queue, f) <=> f = e \/ In(queue', f)
      BY <2>1, TakenIn
  <2>3. /\ InOrder(queue', d)
        /\ e = NewConnection(d) => ~ In(queue', NewConnection(d))
        /\ e = Associate(d) =>
             ~ In(queue', NewConnection(d)) /\ ~ In(queue', Associate(d))
        /\ e = Disconnect(d) =>
             /\ ~ In(queue', NewConnection(d))
             /\ ~ In(queue', Associate(d)) /\ ~ In(queue', Disconnect(d))
      BY <2>1, TakenInOrder
  <2> HIDE DEF e
  <2>4. CASE HandleNewSessionPool(e)
    <3>1. ~ Known(d)' /\ d \notin connections' /\ UNCHANGED <<panics, channel>>
        BY <2>4 DEF HandleNewSessionPool, Known
    <3>2. e \notin {NewConnection(d), Associate(d), Disconnect(d)}
        BY <2>1, <2>4, EventKinds, EventsDiffer DEF HandleNewSessionPool
    <3> QED BY <2>1, <2>2, <2>3, <3>1, <3>2, StoryKept
  <2>5. CASE HandleStopSessionPool(e)
    <3>1. /\ ~ Known(d)' /\ d \notin connections' /\ UNCHANGED panics
          /\ channel' = Sent(pending \cup connections, "StopSock")
        BY <2>5 DEF HandleStopSessionPool, Known
    <3>2. e \notin {NewConnection(d), Associate(d), Disconnect(d)}
        BY <2>1, <2>5, EventKinds, EventsDiffer DEF HandleStopSessionPool
    <3>3. "StopSock" \in ConnectionMessage BY DEF ConnectionMessage
    <3>4. In(channel'[d], "Hello") => In(channel[d], "Hello")
        BY <3>1, <3>3, SentTo
    <3> QED BY <2>1, <2>2, <2>3, <3>1, <3>2, <3>4, StoryKept
  <2>6. CASE HandleNewConnection(e)
    <3>1. PICK c \in Cid : c = e.conn /\ e = NewConnection(c)
        BY <2>1, <2>6, EventKinds DEF HandleNewConnection
    <3>2. /\ UNCHANGED <<panics, connections, channel>>
          /\ pending' = pending \/ pending' = pending \cup {c}
        BY <2>6, <3>1 DEF HandleNewConnection
    <3>3. CASE c = d
      <4>1. e = NewConnection(d) BY <3>1, <3>3
      <4>2. /\ ~ In(queue', NewConnection(d))
            /\ In(queue', Associate(d)) <=> In(queue, Associate(d))
            /\ In(queue', Disconnect(d)) <=> In(queue, Disconnect(d))
            /\ In(queue, NewConnection(d))
          BY <2>2, <2>3, <4>1, EventsDiffer
      <4>3. task[d] # "none" BY <4>2 DEF Story
      <4> QED BY <2>1, <2>3, <3>2, <4>2, <4>3 DEF Story
    <3>4. CASE c # d
      <4>1. e \notin {NewConnection(d), Associate(d), Disconnect(d)}
          BY <3>1, <3>4, EventsDiffer
      <4>2. Known(d)' = Known(d) BY <3>2, <3>4 DEF Known
      <4> QED BY <2>1, <2>2, <2>3, <3>2, <4>1, <4>2, StoryKept
    <3> QED BY <3>3, <3>4
  <2>7. CASE HandleAssociate(e)
    <3>1. PICK c \in Cid : c = e.conn /\ e = Associate(c)
        BY <2>1, <2>7, EventKinds DEF HandleAssociate
    <3>2. /\ UNCHANGED panics
          /\ pending' \cup connections' \subseteq pending \cup connections
          /\ connections' \subseteq connections \cup {c}
        BY <2>7, <3>1 DEF HandleAssociate, NoLongerPending
    <3>3. In(channel'[d], "Hello") => In(channel[d], "Hello")
      <4>1. \/ channel' = channel
            \/ channel' = Sent(buffered \cap {c}, "Publish")
          BY <2>7, <3>1 DEF HandleAssociate
      <4>2. "Publish" \in ConnectionMessage BY DEF ConnectionMessage
      <4>3. In(Sent(buffered \cap {c}, "Publish")[d], "Hello") =>
                In(channel[d], "Hello")
          BY <4>2, SentTo
      <4> QED BY <4>1, <4>3
    <3>4. Known(d)' => Known(d) BY <3>2 DEF Known
    <3>5. CASE c = d
      <4>1. e = Associate(d) BY <3>1, <3>5
      <4>2. /\ In(queue', NewConnection(d)) <=> In(queue, NewConnection(d))
            /\ In(queue', Disconnect(d)) <=> In(queue, Disconnect(d))
            /\ In(queue, Associate(d))
          BY <2>2, <4>1, EventsDiffer
      <4>3. auth[d] = "answered" BY <4>2 DEF Story
      <4> QED BY <2>1, <2>3, <3>2, <3>4, <4>2, <4>3 DEF Story
    <3>6. CASE c # d
      <4>1. e \notin {NewConnection(d), Associate(d), Disconnect(d)}
          BY <3>1, <3>6, EventsDiffer
      <4>2. d \in connections' => d \in connections BY <3>2, <3>6
      <4> QED BY <2>1, <2>2, <2>3, <3>2, <3>3, <3>4, <4>1, <4>2, StoryKept
    <3> QED BY <3>5, <3>6
  <2>8. CASE HandleDisconnect(e)
    <3>1. PICK c \in Cid : c = e.conn /\ e = Disconnect(c)
        BY <2>1, <2>8, EventKinds DEF HandleDisconnect
    <3>2. /\ UNCHANGED channel /\ (panics' = {} => panics = {})
          /\ pending' = pending \ {c} /\ connections' = connections \ {c}
        BY <2>8, <3>1 DEF HandleDisconnect
    <3>3. CASE c = d
      <4>1. e = Disconnect(d) BY <3>1, <3>3
      <4>2. /\ ~ In(queue', NewConnection(d)) /\ ~ In(queue', Associate(d))
            /\ ~ In(queue', Disconnect(d)) /\ In(queue, Disconnect(d))
          BY <2>2, <2>3, <4>1
      <4>3. task[d] = "closed" BY <4>2 DEF Story
      <4>4. ~ Known(d)' /\ d \notin connections' BY <3>2, <3>3 DEF Known
      <4> QED BY <2>1, <2>3, <3>2, <4>2, <4>3, <4>4 DEF Story
    <3>4. CASE c # d
      <4>1. e \notin {NewConnection(d), Associate(d), Disconnect(d)}
          BY <3>1, <3>4, EventsDiffer
      <4>2. Known(d)' = Known(d) BY <3>2, <3>4 DEF Known
      <4> QED BY <2>1, <2>2, <2>3, <3>2, <4>1, <4>2, StoryKept
    <3> QED BY <3>3, <3>4
  <2> QED BY <1>7, <2>4, <2>5, <2>6, <2>7, <2>8 DEF Handle, e
<1>8. ASSUME NEW C \in SUBSET (pending \cup connections), Publish(C)
      PROVE  InOrder(queue', d) /\ Story(d)'
  <2>1. /\ UNCHANGED <<queue, pending, connections, task, auth, panics>>
        /\ channel' = Sent(Reached(C), "Publish")
      BY <1>8 DEF Publish
  <2>2. "Publish" \in ConnectionMessage BY DEF ConnectionMessage
  <2>3. In(channel'[d], "Hello") => In(channel[d], "Hello")
      BY <2>1, <2>2, SentTo
  <2> QED BY <2>1, <2>3, StoryKept DEF Known
<1>9. CASE TryUpdate \/ KeepPools \/ (\E g \in Generation : InactivityExits(g))
            \/ UNCHANGED vars
  <2>1. UNCHANGED <<queue, pending, connections, task, auth, channel, panics>>
      BY <1>9 DEF TryUpdate, KeepPools, InactivityExits, vars, poolVars,
          connVars
  <2> QED BY <2>1, StoryKept DEF Known
<1>10. CASE RemovePool \/ CreatePool
  <2>1. /\ UNCHANGED <<pending, connections, task, auth, channel>>
        /\ \/ Send(<<StopSessionPool>>)
           \/ \E g \in Generation : Send(<<NewSessionPool(g)>>)
    <3>1. CASE RemovePool BY <3>1 DEF RemovePool, poolVars, connVars
    <3>2. CASE CreatePool
      <4>1. PICK m \in Generation : Made(m) BY DEF Inv, GenerationsLeft
      <4>2. m + 1 \in Generation /\ Send(<<NewSessionPool(m + 1)>>)
          BY <3>2, <4>1, NextGeneration
      <4> QED BY <3>2, <4>2 DEF CreatePool, poolVars, connVars
    <3> QED BY <1>10, <3>1, <3>2
  <2>2. PICK e \in Event : /\ Send(<<e>>)
                           /\ e = StopSessionPool \/
                                \E g \in Generation : e = NewSessionPool(g)
      BY <2>1 DEF Event
  <2>3. e \notin {NewConnection(d), Associate(d), Disconnect(d)}
      BY <2>2, EventsDiffer
  <2> QED BY <2>1, <2>2, <2>3, OtherSent, StoryKept DEF Known
<1>11. ASSUME NEW c \in Cid, ConnectionStep(c)
       PROVE  InOrder(queue', d) /\ Story(d)'
    BY <1>1, <1>2, <1>3, <1>4, <1>5, <1>11 DEF ConnectionStep
<1> QED BY <1>6, <1>7, <1>8, <1>9, <1>10, <1>11
    DEF Next, ProcessorStep, ConfigStep

---------------------------------------------------------------------------
(***************************************************************************)
(* Until the configuration changes for the first time.  OnlyDropsPanic is  *)
(* not inductive: a Disconnect must find its connection in the pool unless *)
(* it was dropped, the pool must be there before the connections' events,  *)
(* and the first message of a channel must be the answer of the            *)
(* authorization.  All this holds until the reactor thread itself finds    *)
(* the processor thread dead; after that nothing moves.                    *)
(***************************************************************************)

PoolEvent == {NewSessionPool(g) : g \in Generation} \cup {StopSessionPool}

\* The pool was made, or its event is the next one.
PoolFirst ==
    \/ /\ pool = 1
       /\ \A e \in PoolEvent : ~ In(queue, e)
    \/ /\ pool = NoPool /\ pending = {} /\ connections = {} /\ dropped = {}
       /\ queue # <<>> /\ Head(queue) = NewSessionPool(1)
       /\ \A e \in PoolEvent : ~ In(Tail(queue), e)

SteadyPool ==
    /\ OnlyDropsPanic /\ configured /\ ~ notified
    /\ inactivity[1] = "running"
    /\ PoolFirst

Served(c) == c \in connections \cup dropped \/ In(queue, Associate(c))

\* The pool has c, will have it, or gave it up.
Taking(c) == Known(c) \/ c \in dropped \/ In(queue, NewConnection(c))

OpenServed(c) == task[c] \in {"open", "closing"} => Served(c)

Steady(c) ==
    /\ task[c] # "none" /\ (task[c] = "closed" => In(queue, Disconnect(c))) =>
        Taking(c)
    /\ task[c] \in {"none", "upgrading", "waiting"} /\ auth[c] # "answered" =>
        channel[c] = <<>>
    /\ task[c] \in {"upgrading", "waiting"} /\ auth[c] = "answered" =>
        /\ channel[c] # <<>> /\ Head(channel[c]) \in {"Hello", "FatalError"}
        /\ Head(channel[c]) = "Hello" => Served(c)
    /\ OpenServed(c)

SteadyInv ==
    reloads = 0 =>
        /\ SteadyPool
        /\ \A c \in Cid : OpenServed(c)
        /\ ReactorUp => \A c \in Cid : Steady(c)

LEMMA ReloadsGrow ==
    ASSUME TypeOK, [Next]_vars, reloads' = 0
    PROVE  reloads = 0 /\ ~ TryUpdate
<1>1. ~ TryUpdate BY DEF TryUpdate, TypeOK
<1>2. reloads' = reloads
    BY <1>1 DEF Next, ConnectionStep, Serve, Authorized, Refused, Hijack,
        UpgradeLost, FirstMessage, Deliver, CloseFrame, LoopEnds,
        ProcessorStep, Cleanup, Timeout, BatchDone, Handle, Publish,
        OutOfSync, ConfigStep, RemovePool, CreatePool, KeepPools,
        InactivityExits, configVars, vars
<1> QED BY <1>1, <1>2

\* While no thread panicked events are really sent.
LEMMA SendUp ==
    ASSUME panics = {}, NEW e, Send(<<e>>)
    PROVE  queue' = queue \o <<e>> /\ panics' = {}
BY DEF Send, ProcessorUp, ReactorUp

\* And a thread that sent an event and is still there really sent it.
LEMMA SendHeard ==
    ASSUME NEW e, Send(<<e>>)
    PROVE  \/ queue' = queue \o <<e>> /\ panics' = panics
           \/ /\ queue' = queue /\ ~ ReactorUp' /\ panics # {}
              /\ panics' = panics \cup {"Error invoking processor"}
BY DEF Send, ProcessorUp, ReactorUp, ReactorPanic

\* Nothing moves without the reactor thread.
LEMMA ReactorDown ==
    ASSUME [Next]_vars, ~ ReactorUp
    PROVE  UNCHANGED vars
BY DEF Next, ConnectionStep, Serve, Authorized, Refused, Hijack,
    UpgradeLost, FirstMessage, Deliver, CloseFrame, LoopEnds,
    ProcessorStep, ProcessorUp, Cleanup, Timeout, BatchDone, Handle, Publish,
    OutOfSync, ConfigStep, TryUpdate, RemovePool, CreatePool, KeepPools,
    InactivityExits

\* Sending to a non-empty queue.
LEMMA AppendedTail ==
    ASSUME NEW q \in Seq(Event), NEW e \in Event, q # <<>>
    PROVE  /\ Head(q \o <<e>>) = Head(q)
           /\ Tail(q \o <<e>>) = Tail(q) \o <<e>>
           /\ q \o <<e>> # <<>>
OBVIOUS

LEMMA PoolFirstSent ==
    ASSUME TypeOK, PoolFirst, NEW e \in Event \ PoolEvent,
           queue' = queue \o <<e>>,
           UNCHANGED <<pool, pending, connections, dropped>>
    PROVE  PoolFirst'
<1> queue \in Seq(Event) BY DEF TypeOK
<1>1. CASE pool = 1 /\ \A f \in PoolEvent : ~ In(queue, f)
  <2>1. \A f : In(queue \o <<e>>, f) <=> In(queue, f) \/ f = e
      BY AppendedIn
  <2> QED BY <1>1, <2>1 DEF PoolFirst
<1>2. CASE /\ pool = NoPool /\ pending = {} /\ connections = {}
           /\ dropped = {} /\ queue # <<>> /\ Head(queue) = NewSessionPool(1)
           /\ \A f \in PoolEvent : ~ In(Tail(queue), f)
  <2>1. Tail(queue) \in Seq(Event) BY <1>2
  <2>2. \A f : In(Tail(queue) \o <<e>>, f) <=> In(Tail(queue), f) \/ f = e
      BY <2>1, AppendedIn
  <2>3. /\ Head(queue') = Head(queue) /\ queue' # <<>>
        /\ Tail(queue') = Tail(queue) \o <<e>>
      BY <1>2, AppendedTail
  <2> QED BY <1>2, <2>2, <2>3 DEF PoolFirst
<1> QED BY <1>1, <1>2 DEF PoolFirst

\* Before a change only the processor thread dies, of a dropped connection,
\* and the pool is there for its events.
LEMMA SteadyPoolStep ==
    ASSUME Inv, SteadyInv, [Next]_vars, reloads' = 0
    PROVE  SteadyPool'
<1> TypeOK /\ queue \in Seq(Event) BY DEF Inv, TypeOK
<1> reloads = 0 /\ ~ TryUpdate BY ReloadsGrow
<1> SteadyPool BY DEF SteadyInv
<1> OnlyDropsPanic /\ configured /\ ~ notified /\ PoolFirst
    BY DEF SteadyPool
<1>0. CASE ~ ReactorUp
  <2>1. UNCHANGED vars BY <1>0, ReactorDown
  <2> QED BY <2>1
      DEF vars, configVars, poolVars, SteadyPool, OnlyDropsPanic, PoolFirst
<1> SUFFICES ASSUME ReactorUp PROVE SteadyPool'
    BY <1>0
<1> \A c \in Cid : Steady(c) BY DEF SteadyInv
<1>1. \A c \in Cid : {NewConnection(c), Associate(c), Disconnect(c)}
                        \subseteq Event \ PoolEvent
    BY EventsDiffer DEF PoolEvent, Event
<1>2. ASSUME NEW c \in Cid, ConnectionStep(c) PROVE SteadyPool'
  <2>1. UNCHANGED <<configured, notified, inactivity, pool, pending,
                    connections, dropped>>
      BY <1>2 DEF ConnectionStep, Serve, Authorized, Refused, Hijack,
          UpgradeLost, FirstMessage, Deliver, CloseFrame, LoopEnds,
          configVars, poolVars
  <2>2. OnlyDropsPanic' /\ PoolFirst'
    <3>1. CASE \E e \in {NewConnection(c), Associate(c), Disconnect(c)} :
                    Send(<<e>>)
      <4>1. PICK e \in Event \ PoolEvent : Send(<<e>>)
          BY <1>1, <3>1
      <4>2. CASE queue' = queue \o <<e>> /\ panics' = panics
          BY <2>1, <4>2, PoolFirstSent DEF OnlyDropsPanic
      <4>3. CASE /\ queue' = queue /\ panics # {}
                 /\ panics' = panics \cup {"Error invoking processor"}
          BY <2>1, <4>3 DEF OnlyDropsPanic, PoolFirst
      <4> QED BY <4>1, <4>2, <4>3, SendHeard
    <3>2. CASE queue' = queue /\ panics' = panics
        BY <2>1, <3>2 DEF PoolFirst, OnlyDropsPanic
    <3>3. CASE Hijack(c) BY <3>2, <3>3 DEF Hijack
    <3>4. CASE FirstMessage(c)
      <4>1. Head(channel[c]) \in {"Hello", "FatalError"}
          BY <3>4 DEF FirstMessage, Steady
      <4> QED BY <3>2, <3>4, <4>1 DEF FirstMessage
    <3> QED BY <1>2, <3>1, <3>2, <3>3, <3>4
        DEF ConnectionStep, Serve, Authorized, Refused, UpgradeLost, Deliver,
            CloseFrame, LoopEnds, Introduction, Goodbye
  <2> QED BY <2>1, <2>2 DEF SteadyPool
<1>3. CASE Cleanup
  <2>1. pool # NoPool => inactivity[pool] # "gone"
      BY DEF SteadyPool, PoolFirst, NoPool
  <2>2. panics' = panics BY <1>3, <2>1 DEF Cleanup
  <2> QED BY <1>3, <2>2
      DEF Cleanup, SteadyPool, OnlyDropsPanic, PoolFirst, configVars, poolVars
<1>4. CASE Timeout \/ BatchDone
  <2>1. UNCHANGED <<panics, configured, notified, inactivity, queue, pool,
                    pending, connections, dropped>>
      BY <1>4 DEF Timeout, BatchDone, configVars, poolVars
  <2> QED BY <2>1 DEF SteadyPool, OnlyDropsPanic, PoolFirst
<1>5. CASE Handle
  <2> DEFINE e == Head(queue)
  <2>1. /\ e \in Event /\ queue' = Tail(queue) /\ queue # <<>>
        /\ UNCHANGED <<configured, notified, inactivity>>
      BY <1>5, Taken DEF Handle, configVars
  <2>2. \A f : In(queue, f) <=> f = e \/ In(queue', f)
      BY <2>1, TakenIn
  <2>p. panics \cap ProcessorPanic = {}
      BY <1>5 DEF Handle, ProcessorUp
  <2>q. panics = {}
      BY <2>p DEF OnlyDropsPanic, ProcessorPanic, ReactorUp, ReactorPanic
  <2> HIDE DEF e
  <2>3. CASE e \in PoolEvent
    <3>1. e = NewSessionPool(1) /\ \A f \in PoolEvent : ~ In(queue', f)
        BY <2>1, <2>2, <2>3 DEF PoolFirst, e
    <3>2. e.action = "NewSessionPool" /\ e.pool = 1
        BY <3>1 DEF NewSessionPool
    <3>3. HandleNewSessionPool(e)
        BY <1>5, <3>2 DEF Handle, e, HandleNewSessionPool,
            HandleStopSessionPool, HandleNewConnection, HandleAssociate,
            HandleDisconnect
    <3>4. pool' = 1 /\ panics' = {}
        BY <2>q, <3>2, <3>3 DEF HandleNewSessionPool
    <3> QED BY <2>1, <3>1, <3>4 DEF SteadyPool, OnlyDropsPanic, PoolFirst
  <2>4. CASE e \notin PoolEvent
    <3>1. /\ pool = 1 /\ \A f \in PoolEvent : ~ In(queue', f)
        BY <2>2, <2>4, BoundAssumption
        DEF PoolFirst, e, PoolEvent, Generation
    <3>2. /\ ~ HandleNewSessionPool(e) /\ ~ HandleStopSessionPool(e)
        BY <2>1, <2>4, EventKinds
        DEF HandleNewSessionPool, HandleStopSessionPool, PoolEvent
    <3>3. /\ UNCHANGED pool
          /\ HandleDisconnect(e) \/ UNCHANGED panics
        BY <1>5, <3>2 DEF Handle, e, HandleNewConnection, HandleAssociate,
            HandleDisconnect
    <3>4. CASE HandleDisconnect(e)
      <4>1. PICK c \in Cid : c = e.conn /\ e = Disconnect(c)
          BY <2>1, <3>4, EventKinds DEF HandleDisconnect
      <4>2. In(queue, Disconnect(c)) /\ InOrder(queue, c) /\ Story(c)
          BY <2>2, <4>1 DEF Inv, ConnInv
      <4>3. ~ In(queue', NewConnection(c))
          BY <2>1, <4>1, <4>2, TakenInOrder DEF e
      <4>4. ~ In(queue, NewConnection(c))
          BY <2>2, <4>1, <4>3, EventsDiffer
      <4>5. task[c] = "closed" BY <4>2 DEF Story
      <4>6. Known(c) \/ c \in dropped
          BY <4>2, <4>4, <4>5 DEF Steady, Taking
      <4>7. /\ dropped' = dropped
            /\ panics' = {} \/ (panics' = {"valid connection"} /\ dropped # {})
          BY <2>q, <3>4, <4>1, <4>6 DEF HandleDisconnect, Known
      <4>8. OnlyDropsPanic' BY <4>7 DEF OnlyDropsPanic
      <4> QED BY <2>1, <3>1, <3>3, <4>8 DEF SteadyPool, PoolFirst
    <3>5. CASE UNCHANGED panics
        BY <2>1, <2>q, <3>1, <3>3, <3>5
        DEF SteadyPool, OnlyDropsPanic, PoolFirst
    <3> QED BY <3>3, <3>4, <3>5
  <2> QED BY <2>3, <2>4
<1>6. ASSUME NEW C \in SUBSET (pending \cup connections), Publish(C)
      PROVE  SteadyPool'
    BY <1>6 DEF Publish, SteadyPool, OnlyDropsPanic, PoolFirst, configVars
<1>7. ~ RemovePool /\ ~ CreatePool /\ ~ KeepPools
    BY DEF RemovePool, CreatePool, KeepPools
<1>8. ASSUME NEW g \in Generation, InactivityExits(g)
      PROVE  SteadyPool'
  <2>1. /\ UNCHANGED <<panics, configured, notified, queue, pool, pending,
                       connections, dropped>>
        /\ inactivity'[1] = inactivity[1]
      BY <1>8 DEF InactivityExits, SteadyPool, TypeOK, poolVars
  <2> QED BY <2>1 DEF SteadyPool, OnlyDropsPanic, PoolFirst
<1>9. CASE UNCHANGED vars
    BY <1>9
    DEF vars, configVars, poolVars, SteadyPool, OnlyDropsPanic, PoolFirst
<1>10. CASE OutOfSync
  <2>1. PICK msg \in SubscriptionPanic : panics' = panics \cup {msg}
      BY <1>10 DEF OutOfSync
  <2>2. /\ UNCHANGED <<configured, notified, inactivity, queue, pool, pending,
                       connections, dropped>>
        /\ dropped # {}
      BY <1>10 DEF OutOfSync, configVars, poolVars
  <2>3. OnlyDropsPanic' BY <2>1, <2>2 DEF OnlyDropsPanic
  <2> QED BY <2>2, <2>3 DEF SteadyPool, PoolFirst
<1> QED BY <1>2, <1>3, <1>4, <1>5, <1>6, <1>7, <1>8, <1>9, <1>10
    DEF Next, ProcessorStep, ConfigStep

LEMMA SteadyKept ==
    ASSUME TypeOK, NEW d \in Cid, Steady(d),
           task'[d] = task[d], auth'[d] = auth[d],
           \/ channel'[d] = channel[d]
           \/ /\ auth[d] = "answered"
              /\ \E m : channel'[d] = Append(channel[d], m),
           Taking(d) => Taking(d)',
           In(queue', Disconnect(d)) => In(queue, Disconnect(d)),
           Served(d) => Served(d)'
    PROVE  Steady(d)'
<1>1. /\ channel[d] # <<>> => /\ channel'[d] # <<>>
                              /\ Head(channel'[d]) = Head(channel[d])
      /\ auth[d] # "answered" => channel'[d] = channel[d]
    BY DEF TypeOK
<1> QED BY <1>1 DEF Steady, OpenServed

\* Before a change a connection is served as far as its life goes.
LEMMA SteadyConnStep ==
    ASSUME Inv, SteadyInv, [Next]_vars, reloads' = 0, ReactorUp',
           NEW d \in Cid
    PROVE  Steady(d)'
<1> TypeOK /\ queue \in Seq(Event) /\ InOrder(queue, d) /\ Story(d)
    BY DEF Inv, ConnInv, TypeOK
<1> reloads = 0 /\ ~ TryUpdate BY ReloadsGrow
<1> ReactorUp BY ReactorDown DEF vars, ReactorUp
<1> SteadyPool /\ Steady(d) BY DEF SteadyInv
<1> configured /\ ~ notified /\ PoolFirst
    BY DEF SteadyPool
<1>t. \A c \in Cid : /\ NewConnection(c) \in Event /\ Associate(c) \in Event
                     /\ Disconnect(c) \in Event
    BY DEF Event
<1>1. ASSUME NEW e \in Event, Send(<<e>>)
      PROVE  \A f : In(queue', f) <=> In(queue, f) \/ f = e
  <2>1. queue' = queue \o <<e>> BY <1>1, SendHeard
  <2>2. \A f : In(queue \o <<e>>, f) <=> In(queue, f) \/ f = e
      BY AppendedIn
  <2> QED BY <2>1, <2>2
<1>2. CASE Serve(d)
  <2>1. In(queue', NewConnection(d)) BY <1>t, <1>1, <1>2 DEF Serve
  <2>2. /\ task'[d] = "upgrading"
        /\ \/ auth'[d] = "asked" /\ channel'[d] = channel[d]
           \/ auth'[d] = "answered" /\ channel'[d] = <<"FatalError">>
      BY <1>2 DEF Serve, TypeOK, Complaint
  <2>3. channel[d] = <<>> BY <1>2 DEF Serve, Story, Steady
  <2>4. <<"FatalError">> # <<>> /\ Head(<<"FatalError">>) = "FatalError"
      OBVIOUS
  <2> QED BY <2>1, <2>2, <2>3, <2>4 DEF Steady, Taking, OpenServed
<1>3. CASE Authorized(d) \/ Refused(d)
  <2>1. /\ auth[d] = "asked" /\ auth'[d] = "answered" /\ task' = task
        /\ \/ Authorized(d) /\ channel' = Sent({d}, "Hello")
           \/ Refused(d) /\ channel' = Sent({d}, "FatalError")
      BY <1>3 DEF Authorized, Refused, TypeOK
  <2>2. /\ \A f : In(queue, f) => In(queue', f)
        /\ In(queue', Disconnect(d)) => In(queue, Disconnect(d))
        /\ Authorized(d) => In(queue', Associate(d))
    <3>1. CASE Authorized(d)
      <4>1. \A f : In(queue', f) <=> In(queue, f) \/ f = Associate(d)
          BY <1>t, <1>1, <3>1 DEF Authorized, Introduction
      <4>2. Associate(d) # Disconnect(d) BY EventsDiffer
      <4> QED BY <4>1, <4>2
    <3>2. CASE Refused(d) /\ ~ Authorized(d) BY <3>2 DEF Refused
    <3> QED BY <1>3, <3>1, <3>2
  <2>3. UNCHANGED <<pending, connections, dropped>>
      BY <1>3 DEF Authorized, Refused, poolVars
  <2>4. task[d] \in {"upgrading", "waiting", "failed"} BY <2>1 DEF Story
  <2>5. task[d] \in {"upgrading", "waiting"} =>
          /\ Sent({d}, "Hello")[d] = <<"Hello">>
          /\ Sent({d}, "FatalError")[d] = <<"FatalError">>
    <3> SUFFICES ASSUME task[d] \in {"upgrading", "waiting"}
                 PROVE  /\ Sent({d}, "Hello")[d] = <<"Hello">>
                        /\ Sent({d}, "FatalError")[d] = <<"FatalError">>
        OBVIOUS
    <3>1. /\ Sent({d}, "Hello")[d] = Append(channel[d], "Hello")
          /\ Sent({d}, "FatalError")[d] = Append(channel[d], "FatalError")
        BY DEF Sent, Listening
    <3>2. channel[d] = <<>> BY <2>1 DEF Steady
    <3>3. /\ Append(<<>>, "Hello") = <<"Hello">>
          /\ Append(<<>>, "FatalError") = <<"FatalError">>
        OBVIOUS
    <3> QED BY <3>1, <3>2, <3>3
  <2>6. /\ <<"Hello">> # <<>> /\ Head(<<"Hello">>) = "Hello"
        /\ <<"FatalError">> # <<>> /\ Head(<<"FatalError">>) = "FatalError"
      OBVIOUS
  <2>7. Taking(d) => Taking(d)' BY <2>2, <2>3 DEF Taking, Known
  <2> QED BY <2>1, <2>2, <2>3, <2>4, <2>5, <2>6, <2>7
      DEF Steady, Served, OpenServed
<1>4. CASE Hijack(d) \/ UpgradeLost(d) \/ FirstMessage(d) \/ Deliver(d)
            \/ CloseFrame(d)
  <2>1. /\ queue' = queue /\ auth' = auth
        /\ UNCHANGED <<pending, connections, dropped>>
      BY <1>4 DEF Hijack, UpgradeLost, FirstMessage, Deliver, CloseFrame,
          poolVars
  <2>s. (Taking(d)' <=> Taking(d)) /\ (Served(d)' <=> Served(d))
      BY <2>1 DEF Taking, Known, Served
  <2>2. /\ task[d] \in {"upgrading", "waiting", "open", "closing"}
        /\ task'[d] # "closed" /\ task'[d] # "none"
      BY <1>4 DEF Hijack, UpgradeLost, FirstMessage, Deliver, CloseFrame,
          TypeOK
  <2>3. CASE Hijack(d)
    <3>1. /\ task[d] = "upgrading" /\ channel' = channel
          /\ task'[d] = "waiting"
        BY <2>3 DEF Hijack, TypeOK
    <3> QED BY <2>1, <2>s, <3>1 DEF Steady, OpenServed
  <2>4. CASE UpgradeLost(d)
    <3>1. task'[d] = "failed" BY <2>4 DEF UpgradeLost, TypeOK
    <3> QED BY <2>1, <2>s, <2>2, <3>1 DEF Steady, OpenServed
  <2>5. CASE FirstMessage(d)
    <3>1. task[d] = "waiting" /\ channel[d] # <<>>
        BY <2>5 DEF FirstMessage
    <3>2. auth[d] = "answered" BY <3>1 DEF Steady
    <3>3. \/ Head(channel[d]) = "Hello" /\ task'[d] = "open"
          \/ task'[d] = "failed"
        BY <2>5, <3>1, <3>2 DEF FirstMessage, Steady, TypeOK
    <3> QED BY <2>1, <2>s, <3>1, <3>2, <3>3 DEF Steady, OpenServed
  <2>6. CASE Deliver(d)
    <3>1. task' = task /\ task[d] \in {"open", "closing"}
        BY <2>6 DEF Deliver
    <3> QED BY <2>1, <2>s, <3>1 DEF Steady, OpenServed
  <2>7. CASE CloseFrame(d)
    <3>1. task[d] = "open" /\ task'[d] = "closing"
        BY <2>7 DEF CloseFrame, TypeOK
    <3> QED BY <2>1, <2>s, <3>1 DEF Steady, OpenServed
  <2> QED BY <1>4, <2>3, <2>4, <2>5, <2>6, <2>7
<1>5. CASE LoopEnds(d)
  <2>1. /\ task[d] \in {"open", "closing"} /\ task'[d] = "closed"
        /\ UNCHANGED <<pending, connections, dropped>>
      BY <1>5 DEF LoopEnds, TypeOK, poolVars
  <2>2. \A f : In(queue', f) <=> In(queue, f) \/ f = Disconnect(d)
      BY <1>t, <1>1, <1>5 DEF LoopEnds, Goodbye
  <2>3. Taking(d) => Taking(d)' BY <2>1, <2>2 DEF Taking, Known
  <2> QED BY <2>1, <2>2, <2>3 DEF Steady, OpenServed
<1>6. ASSUME NEW c \in Cid, c # d, ConnectionStep(c)
      PROVE  Steady(d)'
  <2>1. \A e \in {NewConnection(c), Associate(c), Disconnect(c)} :
            e # Disconnect(d)
      BY <1>6, EventsDiffer
  <2>2. /\ task'[d] = task[d] /\ auth'[d] = auth[d]
        /\ UNCHANGED <<pending, connections, dropped>>
      BY <1>6 DEF ConnectionStep, Serve, Authorized, Refused, Hijack,
          UpgradeLost, FirstMessage, Deliver, CloseFrame, LoopEnds,
          poolVars, TypeOK
  <2>3. channel'[d] = channel[d]
    <3>1. \A m : Sent({c}, m)[d] = channel[d] BY <1>6 DEF Sent
    <3> QED BY <1>6, <3>1 DEF ConnectionStep, Serve, Authorized, Refused,
            Hijack, UpgradeLost, FirstMessage, Deliver, CloseFrame,
            LoopEnds, TypeOK
  <2>4. CASE UNCHANGED queue
      BY <2>2, <2>3, <2>4, SteadyKept DEF Served, Taking, Known
  <2>5. CASE \E e \in {NewConnection(c), Associate(c), Disconnect(c)} :
                Send(<<e>>)
    <3>1. PICK e \in {NewConnection(c), Associate(c), Disconnect(c)} :
                Send(<<e>>)
        BY <2>5
    <3>2. e \in Event BY <1>t
    <3>3. \A f : In(queue', f) <=> In(queue, f) \/ f = e
        BY <1>1, <3>1, <3>2
    <3> QED BY <2>1, <2>2, <2>3, <3>1, <3>3, SteadyKept
        DEF Served, Taking, Known
  <2> QED BY <1>6, <2>4, <2>5 DEF ConnectionStep, Serve, Authorized, Refused,
          Hijack, UpgradeLost, FirstMessage, Deliver, CloseFrame, LoopEnds,
          Introduction, Goodbye
<1>7. CASE Handle
  <2> DEFINE e == Head(queue)
  <2>1. /\ e \in Event /\ queue' = Tail(queue) /\ queue # <<>>
        /\ UNCHANGED <<task, auth>>
      BY <1>7, Taken DEF Handle
  <2>2. \A f : In(queue, f) <=> f = e \/ In(queue', f)
      BY <2>1, TakenIn
  <2>3. /\ e = Associate(d) => ~ In(queue', NewConnection(d))
        /\ e = Disconnect(d) => ~ In(queue', Disconnect(d))
      BY <2>1, TakenInOrder
  <2>4. /\ e \in PoolEvent => /\ e = NewSessionPool(1)
                              /\ pending = {} /\ connections = {}
                              /\ dropped = {}
        /\ e \notin PoolEvent => pool = 1
    <3>1. NewSessionPool(1) \in PoolEvent
        BY BoundAssumption DEF PoolEvent, Generation
    <3> QED BY <2>2, <3>1 DEF PoolFirst
  <2> HIDE DEF e
  <2>5. CASE HandleNewSessionPool(e)
    <3>1. e \in PoolEvent
        BY <2>1, <2>5, EventKinds DEF HandleNewSessionPool, PoolEvent
    <3>2. e \notin {NewConnection(d), Associate(d), Disconnect(d)}
        BY <2>4, <3>1, EventsDiffer
    <3>3. /\ ~ Known(d) /\ d \notin connections \cup dropped
          /\ channel' = channel
        BY <2>4, <2>5, <3>1 DEF HandleNewSessionPool, Known
    <3> QED BY <2>1, <2>2, <3>2, <3>3, SteadyKept DEF Served, Taking
  <2>6. ~ HandleStopSessionPool(e)
      BY <2>1, <2>4, EventKinds, EventsDiffer
      DEF HandleStopSessionPool, PoolEvent
  <2>7. CASE HandleNewConnection(e)
    <3>1. PICK c \in Cid : c = e.conn /\ e = NewConnection(c)
        BY <2>1, <2>7, EventKinds DEF HandleNewConnection
    <3>2. e \notin PoolEvent BY <3>1, EventsDiffer DEF PoolEvent
    <3>3. /\ UNCHANGED <<connections, dropped, channel>>
          /\ pending' = pending \cup {c}
        BY <2>4, <2>7, <3>1, <3>2 DEF HandleNewConnection, NoPool
    <3>4. /\ Associate(d) # e
          /\ c # d => NewConnection(d) # e
        BY <3>1, EventsDiffer
    <3>5. Taking(d) => Taking(d)'
        BY <2>2, <3>3, <3>4 DEF Taking, Known
    <3>6. Served(d) => Served(d)' BY <2>2, <3>3, <3>4 DEF Served
    <3> QED BY <2>1, <2>2, <3>3, <3>5, <3>6, SteadyKept
  <2>8. CASE HandleAssociate(e)
    <3>1. PICK c \in Cid : c = e.conn /\ e = Associate(c)
        BY <2>1, <2>8, EventKinds DEF HandleAssociate
    <3>2. /\ pending \cup connections \cup dropped
                \subseteq pending' \cup connections' \cup dropped'
          /\ connections \cup dropped \subseteq connections' \cup dropped'
          /\ c \in pending => c \in connections' \cup dropped'
          /\ \/ channel' = channel
             \/ channel' = Sent(buffered \cap {c}, "Publish")
        BY <2>8, <3>1 DEF HandleAssociate, NoLongerPending
    <3>4. In(queue', NewConnection(d)) <=> In(queue, NewConnection(d))
        BY <2>2, <3>1, EventsDiffer
    <3>3. Taking(d) => Taking(d)' BY <3>2, <3>4 DEF Taking, Known
    <3>5. CASE c = d
      <4>1. e = Associate(d) /\ In(queue, Associate(d))
          BY <2>2, <3>1, <3>5
      <4>2. auth[d] = "answered" /\ task[d] # "none"
          BY <4>1 DEF Story
      <4>3. CASE task[d] = "closed"
          BY <2>1, <2>2, <3>3, <3>4, <4>3 DEF Steady, OpenServed
      <4>4. CASE task[d] # "closed"
        <5>1. Known(d) \/ d \in dropped
            BY <2>3, <3>4, <4>1, <4>2, <4>4 DEF Steady, Taking
        <5>2. Served(d)' BY <3>2, <3>5, <5>1 DEF Known, Served
        <5>3. "Publish" \in ConnectionMessage BY DEF ConnectionMessage
        <5>4. \/ channel'[d] = channel[d]
              \/ channel'[d] = Append(channel[d], "Publish")
            BY <3>2, <5>3, SentTo
        <5> QED BY <2>1, <2>2, <3>3, <3>4, <4>2, <5>2, <5>4, SteadyKept
      <4> QED BY <4>3, <4>4
    <3>6. CASE c # d
      <4>1. e # Associate(d) BY <3>1, <3>6, EventsDiffer
      <4>2. channel'[d] = channel[d] BY <3>2, <3>6 DEF Sent
      <4>3. Served(d) => Served(d)' BY <2>2, <3>2, <4>1 DEF Served
      <4> QED BY <2>1, <2>2, <3>3, <3>4, <4>2, <4>3, SteadyKept
    <3> QED BY <3>5, <3>6
  <2>9. CASE HandleDisconnect(e)
    <3>1. PICK c \in Cid : c = e.conn /\ e = Disconnect(c)
        BY <2>1, <2>9, EventKinds DEF HandleDisconnect
    <3>2. /\ channel' = channel
          /\ pending' = pending \ {c} /\ connections' = connections \ {c}
          /\ dropped' = dropped
        BY <2>9, <3>1 DEF HandleDisconnect
    <3>3. CASE c = d
      <4>1. e = Disconnect(d) /\ In(queue, Disconnect(d))
          BY <2>2, <3>1, <3>3
      <4>2. task[d] = "closed" BY <4>1 DEF Story
      <4> QED BY <2>1, <2>3, <4>1, <4>2 DEF Steady, OpenServed
    <3>4. CASE c # d
      <4>1. e \notin {NewConnection(d), Associate(d)}
          BY <3>1, EventsDiffer
      <4>2. Known(d)' = Known(d) /\ (d \in connections' <=> d \in connections)
          BY <3>2, <3>4 DEF Known
      <4>3. (Served(d) => Served(d)') /\ (Taking(d) => Taking(d)')
          BY <2>2, <3>2, <4>1, <4>2 DEF Served, Taking
      <4> QED BY <2>1, <2>2, <3>2, <4>3, SteadyKept
    <3> QED BY <3>3, <3>4
  <2> QED BY <1>7, <2>5, <2>6, <2>7, <2>8, <2>9 DEF Handle, e
<1>8. ASSUME NEW C \in SUBSET (pending \cup connections), Publish(C)
      PROVE  Steady(d)'
  <2>1. /\ UNCHANGED <<queue, pending, connections, dropped, task, auth>>
        /\ channel' = Sent(Reached(C), "Publish")
      BY <1>8 DEF Publish
  <2>2. "Publish" \in ConnectionMessage BY DEF ConnectionMessage
  <2>3. \/ channel'[d] = channel[d]
        \/ d \in connections /\ channel'[d] = Append(channel[d], "Publish")
      BY <2>1, <2>2, SentTo DEF Reached
  <2>4. d \in connections => auth[d] = "answered" BY DEF Story
  <2> QED BY <2>1, <2>3, <2>4, SteadyKept DEF Taking, Known, Served
<1>9. CASE Cleanup \/ Timeout \/ BatchDone \/ OutOfSync
            \/ (\E g \in Generation : InactivityExits(g)) \/ UNCHANGED vars
  <2>1. UNCHANGED <<queue, pending, connections, dropped, task, auth,
                    channel>>
      BY <1>9 DEF Cleanup, Timeout, BatchDone, OutOfSync, InactivityExits,
          vars, poolVars, connVars
  <2> QED BY <2>1, SteadyKept DEF Taking, Known, Served
<1>10. ~ RemovePool /\ ~ CreatePool /\ ~ KeepPools
    BY DEF RemovePool, CreatePool, KeepPools
<1>11. ASSUME NEW c \in Cid, ConnectionStep(c) PROVE Steady(d)'
    BY <1>2, <1>3, <1>4, <1>5, <1>6, <1>11 DEF ConnectionStep
<1> QED BY <1>7, <1>8, <1>9, <1>10, <1>11
    DEF Next, ProcessorStep, ConfigStep

\* An open websocket stays served when the reactor thread dies.
LEMMA OpenServedStep ==
    ASSUME Inv, SteadyInv, [Next]_vars, reloads' = 0, NEW d \in Cid
    PROVE  OpenServed(d)'
<1> TypeOK BY DEF Inv
<1> reloads = 0 /\ ~ TryUpdate BY ReloadsGrow
<1> SteadyPool /\ OpenServed(d) BY DEF SteadyInv
<1>1. CASE ReactorUp' BY <1>1, SteadyConnStep DEF Steady
<1>2. CASE ~ ReactorUp
  <2>1. UNCHANGED vars BY <1>2, ReactorDown
  <2> QED BY <2>1 DEF vars, poolVars, connVars, OpenServed, Served
<1>3. CASE ReactorUp /\ ~ ReactorUp'
  <2>1. ~ ProcessorStep
      BY <1>3 DEF ProcessorStep, Cleanup, Timeout, BatchDone, Handle,
          HandleNewSessionPool, HandleStopSessionPool, HandleNewConnection,
          HandleAssociate, HandleDisconnect, Publish, OutOfSync, ReactorUp,
          ReactorPanic, SubscriptionPanic
  <2>2. ~ ConfigStep
      BY <1>3 DEF ConfigStep, RemovePool, CreatePool, KeepPools,
          InactivityExits, SteadyPool, ReactorUp
  <2>3. PICK c \in Cid : ConnectionStep(c)
      BY <1>3, <2>1, <2>2 DEF Next, vars, ReactorUp
  <2>4. UNCHANGED <<connections, dropped>>
      BY <2>3 DEF ConnectionStep, Serve, Authorized, Refused, Hijack,
          UpgradeLost, FirstMessage, Deliver, CloseFrame, LoopEnds, poolVars
  <2>5. panics' # panics BY <1>3 DEF ReactorUp
  <2>6. queue' = queue
      BY <2>3, <2>5, SendHeard DEF ConnectionStep, Serve, Authorized, Refused,
          Hijack, UpgradeLost, FirstMessage, Deliver, CloseFrame, LoopEnds,
          Introduction, Goodbye
  <2>7. task'[d] = task[d] \/ task'[d] \in {"upgrading", "closed"}
      BY <2>3, <2>5 DEF ConnectionStep, Serve, Authorized, Refused, Hijack,
          UpgradeLost, FirstMessage, Deliver, CloseFrame, LoopEnds, TypeOK
  <2> QED BY <2>4, <2>6, <2>7 DEF OpenServed, Served
<1> QED BY <1>1, <1>2, <1>3

LEMMA InitSteady == Init => SteadyInv
<1> SUFFICES ASSUME Init PROVE SteadyPool /\ \A c \in Cid : Steady(c)
    BY DEF SteadyInv, Steady
<1>1. queue # <<>> /\ Head(queue) = NewSessionPool(1) /\ Tail(queue) = <<>>
    BY DEF Init
<1>2. \A e : ~ In(<<>>, e) BY DEF In
<1>3. PoolFirst BY <1>1, <1>2 DEF Init, PoolFirst
<1>4. inactivity[1] = "running"
    BY BoundAssumption DEF Init, Generation
<1> QED BY <1>3, <1>4
    DEF Init, SteadyPool, OnlyDropsPanic, Steady, OpenServed

---------------------------------------------------------------------------
(***************************************************************************)
(* Theorems.                                                               *)
(***************************************************************************)

LEMMA InitInv == Init => Inv
<1> SUFFICES ASSUME Init PROVE Inv
    OBVIOUS
<1>1. Generation # {} /\ 1 \in Generation /\ \A g \in Generation : g >= 1
    BY BoundAssumption DEF Generation
<1>2. queue \in Seq(Event) /\ Len(queue) = 1 /\ queue[1] = NewSessionPool(1)
    BY <1>1 DEF Init, Event
<1>3. TypeOK
  <2>1. inactivity \in [Generation -> Handler] /\ worker \in Generation
      BY <1>1 DEF Init, Handler
  <2>2. /\ channel \in [Cid -> Seq(ConnectionMessage)]
        /\ wire \in [Cid -> Seq(ConnectionMessage)]
      BY DEF Init
  <2>3. task \in [Cid -> Task] /\ auth \in [Cid -> Auth]
      BY DEF Init, Task, Auth
  <2>4. reloads \in 0 .. MaxReloads /\ published \in Nat
      BY BoundAssumption DEF Init
  <2> QED BY <1>2, <2>1, <2>2, <2>3, <2>4 DEF Init, TypeOK
<1>4. Made(1)
    BY <1>1, BoundAssumption DEF Init, Made, NoPool, Generation
<1>5. ConnInv
  <2>1. \A c \in Cid : /\ ~ In(queue, NewConnection(c))
                       /\ ~ In(queue, Associate(c))
                       /\ ~ In(queue, Disconnect(c))
      BY <1>2, EventsDiffer DEF In
  <2>2. \A c \in Cid : InOrder(queue, c) BY <1>2 DEF InOrder
  <2>3. ~ In(<<>>, "Hello") BY DEF In
  <2> QED BY <2>1, <2>2, <2>3 DEF Init, ConnInv, Story, Known
<1> QED BY <1>1, <1>3, <1>4, <1>5 DEF Inv, GenerationsLeft

LEMMA Invariance == Spec => []Inv
<1>1. Inv /\ [Next]_vars => Inv'
    BY TypeStep, GenerationStep, ConnectionsFollowed DEF Inv
<1> QED BY <1>1, InitInv, PTL DEF Spec

\* The state of the three threads keeps its type for any number of
\* connections and reloads; in particular a connection is never both among
\* the pending and the associated connections of the pool.
THEOREM TypeCorrect == Spec => []TypeOK
BY Invariance, PTL DEF Inv

\* Dropping the Dispatcher is enough: unless a thread panicked, a closed
\* websocket is out of the pool or its Disconnect is on the way, however the
\* authorization, the handling of events and reloads interleave.
THEOREM ClosedForgotten == Spec => []ForgottenWhenClosed
<1>1. ASSUME Inv PROVE ForgottenWhenClosed
  <2> SUFFICES ASSUME panics = {}, NEW c \in pending \cup connections,
                      task[c] = "closed"
               PROVE  Queued(Disconnect(c))
      BY DEF ForgottenWhenClosed
  <2>1. c \in Cid /\ Known(c) BY <1>1 DEF Inv, TypeOK, Known
  <2> QED BY <1>1, <2>1 DEF Inv, ConnInv, Story, In, Queued
<1> QED BY <1>1, Invariance, PTL

LEMMA SteadyInvariance == Spec => []SteadyInv
<1>1. Inv /\ SteadyInv /\ [Next]_vars => SteadyInv'
    BY SteadyPoolStep, OpenServedStep, SteadyConnStep DEF SteadyInv
<1> QED BY <1>1, InitSteady, Invariance, PTL DEF Spec

\* Until the configuration changes for the first time no expect() of a
\* handler fails and no thread is gone unless associate() gave a connection
\* up, for any number of connections; and then only the expect()s that look
\* that connection up fail.
THEOREM OnlyDropsBeforeReload == Spec => [](reloads = 0 => OnlyDropsPanic)
<1>1. SteadyInv => (reloads = 0 => OnlyDropsPanic)
    BY DEF SteadyInv, SteadyPool
<1> QED BY <1>1, SteadyInvariance, PTL

\* And until then, panics or not, every open websocket is one the pool
\* serves, will serve by an Associate that is on its way, or gave up.
THEOREM OpenServedBeforeReload == Spec => [](reloads = 0 => OpenIsServed)
<1>1. SteadyInv => (reloads = 0 => OpenIsServed)
    BY DEF SteadyInv, OpenServed, Served, OpenIsServed, Queued, In
<1> QED BY <1>1, SteadyInvariance, PTL
---------------------------------------------------------------------------
(***************************************************************************)
(* What the liveness properties rest on: nobody waits for something that   *)
(* nobody is going to send.                                                *)
(***************************************************************************)

\* A connection whose handshake is under way will hear how it ends: the
\* backend has yet to answer, or the answer is in the channel.
WillHear(c) ==
    task[c] \in {"upgrading", "waiting"} =>
        auth[c] = "asked" \/ channel[c] # <<>>

\* Messages to other connections, and more messages, change nothing about it.
LEMMA StillHears ==
    ASSUME NEW d \in Cid, WillHear(d),
           task'[d] = task[d] \/ task'[d] \notin {"upgrading", "waiting"}
               \/ task[d] = "upgrading",
           auth[d] = "asked" => auth'[d] = "asked" \/ channel'[d] # <<>>,
           channel[d] # <<>> =>
               channel'[d] # <<>> \/ task'[d] \notin {"upgrading", "waiting"}
    PROVE  WillHear(d)'
BY DEF WillHear

LEMMA AppendedNotEmpty ==
    ASSUME TypeOK, NEW C, NEW m \in ConnectionMessage, NEW d \in Cid
    PROVE  /\ channel[d] # <<>> => Sent(C, m)[d] # <<>>
           /\ d \in C /\ Listening(d) => Sent(C, m)[d] # <<>>
<1>1. channel[d] \in Seq(ConnectionMessage) BY DEF TypeOK
<1>2. Append(channel[d], m) # <<>> BY <1>1
<1> QED BY <1>2 DEF Sent

LEMMA WillHearStep ==
    ASSUME Inv, [Next]_vars, NEW d \in Cid, WillHear(d)
    PROVE  WillHear(d)'
<1> TypeOK BY DEF Inv
<1>1. ASSUME NEW c \in Cid, ConnectionStep(c) PROVE WillHear(d)'
  <2>1. CASE Serve(c)
    <3>1. CASE c = d
      <4>1. auth'[d] = "asked" \/ channel'[d] = Complaint
          BY <2>1, <3>1 DEF Serve, TypeOK
      <4>2. Complaint # <<>> BY DEF Complaint
      <4> QED BY <4>1, <4>2 DEF WillHear
    <3>2. CASE c # d
      <4>1. task'[d] = task[d] /\ auth'[d] = auth[d] /\ channel'[d] = channel[d]
          BY <2>1, <3>2 DEF Serve, TypeOK
      <4> QED BY <4>1 DEF WillHear
    <3> QED BY <3>1, <3>2
  <2>2. CASE Authorized(c)
    <3>1. /\ channel[d] # <<>> => channel'[d] # <<>>
          /\ d = c /\ Listening(d) => channel'[d] # <<>>
        BY <2>2, AppendedNotEmpty DEF Authorized, ConnectionMessage
    <3>2. task'[d] = task[d] /\ (d # c => auth'[d] = auth[d])
        BY <2>2 DEF Authorized, TypeOK
    <3> QED BY <3>1, <3>2 DEF WillHear, Listening
  <2>3. CASE Refused(c)
    <3>1. /\ channel[d] # <<>> => channel'[d] # <<>>
          /\ d = c /\ Listening(d) => channel'[d] # <<>>
        BY <2>3, AppendedNotEmpty DEF Refused, ConnectionMessage
    <3>2. task'[d] = task[d] /\ (d # c => auth'[d] = auth[d])
        BY <2>3 DEF Refused, TypeOK
    <3> QED BY <3>1, <3>2 DEF WillHear, Listening
  <2>4. CASE Hijack(c)
    <3>1. /\ task'[d] = task[d] \/ task[d] = "upgrading"
          /\ auth' = auth /\ channel' = channel
        BY <2>4 DEF Hijack, TypeOK
    <3> QED BY <3>1, StillHears
  <2>5. CASE UpgradeLost(c)
    <3>1. /\ auth' = auth
          /\ d = c => task'[d] = "failed"
          /\ d # c => task'[d] = task[d] /\ channel'[d] = channel[d]
        BY <2>5 DEF UpgradeLost, TypeOK
    <3> QED BY <3>1 DEF WillHear
  <2>6. CASE FirstMessage(c)
    <3>1. /\ auth' = auth
          /\ d # c => task'[d] = task[d] /\ channel'[d] = channel[d]
          /\ d = c => \/ task'[d] \in {"open", "failed"}
                      \/ task'[d] = task[d] /\ channel'[d] = channel[d]
        BY <2>6 DEF FirstMessage, TypeOK
    <3> QED BY <3>1 DEF WillHear
  <2>7. CASE Deliver(c)
    <3>1. /\ auth' = auth /\ task' = task
          /\ d # c => channel'[d] = channel[d]
          /\ d = c => task[d] \in {"open", "closing"}
        BY <2>7 DEF Deliver, TypeOK
    <3> QED BY <3>1 DEF WillHear
  <2>8. CASE CloseFrame(c)
    <3>1. /\ auth' = auth
          /\ d # c => task'[d] = task[d]
          /\ d = c => task'[d] = "closing"
        BY <2>8 DEF CloseFrame, TypeOK
    <3>2. channel[d] # <<>> => channel'[d] # <<>>
        BY <2>8, AppendedNotEmpty DEF CloseFrame, ConnectionMessage
    <3> QED BY <3>1, <3>2 DEF WillHear
  <2>9. CASE LoopEnds(c)
    <3>1. /\ auth' = auth
          /\ d = c => task'[d] = "closed"
          /\ d # c => task'[d] = task[d] /\ channel'[d] = channel[d]
        BY <2>9 DEF LoopEnds, TypeOK
    <3> QED BY <3>1 DEF WillHear
  <2> QED BY <1>1, <2>1, <2>2, <2>3, <2>4, <2>5, <2>6, <2>7, <2>8, <2>9
      DEF ConnectionStep
<1>2. CASE Handle
  <2>1. task' = task /\ auth' = auth
      BY <1>2 DEF Handle
  <2>2. \/ channel' = channel
        \/ \E C : channel' = Sent(C, "StopSock") \/ channel' = Sent(C, "Publish")
      BY <1>2 DEF Handle, HandleNewSessionPool, HandleStopSessionPool,
          HandleNewConnection, HandleAssociate, HandleDisconnect
  <2>3. channel[d] # <<>> => channel'[d] # <<>>
      BY <2>2, AppendedNotEmpty DEF ConnectionMessage
  <2> QED BY <2>1, <2>3 DEF WillHear
<1>3. ASSUME NEW C \in SUBSET (pending \cup connections), Publish(C)
      PROVE  WillHear(d)'
  <2>1. channel[d] # <<>> => channel'[d] # <<>>
      BY <1>3, AppendedNotEmpty DEF Publish, ConnectionMessage
  <2> QED BY <1>3, <2>1 DEF Publish, WillHear
<1>4. CASE UNCHANGED connVars
    BY <1>4 DEF connVars, WillHear
<1> QED BY <1>1, <1>2, <1>3, <1>4
    DEF Next, ProcessorStep, ConfigStep, Cleanup, Timeout, BatchDone,
        OutOfSync, TryUpdate, RemovePool, CreatePool, KeepPools,
        InactivityExits, vars

\* Every error path of start_authorize() and of the backend's answer leaves
\* word for the connection: at any time, after any reloads and panics, a
\* handshake that is not over has an answer coming or one that waits to be
\* read.
THEOREM HandshakesWillHear == Spec => [](\A c \in Cid : WillHear(c))
<1>1. Init => \A c \in Cid : WillHear(c)
    BY DEF Init, WillHear
<1>2. Inv /\ (\A c \in Cid : WillHear(c)) /\ [Next]_vars
        => (\A c \in Cid : WillHear(c))'
    BY WillHearStep
<1> QED BY <1>1, <1>2, Invariance, PTL DEF Spec

\* The event that makes the processor thread follow SessionPools.
EventFor(g) == IF g = NoPool THEN StopSessionPool ELSE NewSessionPool(g)

NoPoolEvent(q) == \A f \in PoolEvent : ~ In(q, f)

\* The last event of the pool in q is the one for g.
LeadsTo(q, g) ==
    \E i \in 1 .. Len(q) :
        /\ q[i] = EventFor(g)
        /\ \A j \in i + 1 .. Len(q) : q[j] \notin PoolEvent

\* The processor thread has the pool of SessionPools, or its queue leads to
\* it; and SessionPools has what is configured, unless a notice waits.
CatchesUp ==
    panics = {} =>
        /\ (pool = worker /\ NoPoolEvent(queue)) \/ LeadsTo(queue, worker)
        /\ ~ notified => configured = (worker # NoPool)

\* When the reactor has seen the last change and the processor thread has
\* handled the events of the pool, the pool is there exactly if configured.
SettledPool ==
    panics = {} /\ ~ notified /\ NoPoolEvent(queue) =>
        (pool # NoPool) = configured

LEMMA LeadsToSent ==
    ASSUME NEW q \in Seq(Event), NEW e \in Event, NEW g
    PROVE  /\ e = EventFor(g) => LeadsTo(q \o <<e>>, g)
           /\ e \notin PoolEvent /\ LeadsTo(q, g) => LeadsTo(q \o <<e>>, g)
           /\ e \notin PoolEvent /\ NoPoolEvent(q) => NoPoolEvent(q \o <<e>>)
<1> DEFINE r == q \o <<e>>
<1>1. /\ Len(q) \in Nat /\ Len(r) = Len(q) + 1
      /\ \A i \in 1 .. Len(q) : r[i] = q[i]
      /\ r[Len(q) + 1] = e
    BY Appended
<1>2. \A f : In(r, f) <=> In(q, f) \/ f = e
    BY AppendedIn
<1> HIDE DEF r
<1>3. e = EventFor(g) => LeadsTo(r, g)
  <2> SUFFICES ASSUME e = EventFor(g) PROVE LeadsTo(r, g)
      OBVIOUS
  <2>1. Len(r) \in 1 .. Len(r) /\ r[Len(r)] = EventFor(g)
      BY <1>1
  <2>2. \A j \in Len(r) + 1 .. Len(r) : r[j] \notin PoolEvent
      BY <1>1
  <2> QED BY <2>1, <2>2 DEF LeadsTo
<1>4. e \notin PoolEvent /\ LeadsTo(q, g) => LeadsTo(r, g)
  <2> SUFFICES ASSUME e \notin PoolEvent, LeadsTo(q, g) PROVE LeadsTo(r, g)
      OBVIOUS
  <2>1. PICK i \in 1 .. Len(q) :
            /\ q[i] = EventFor(g)
            /\ \A j \in i + 1 .. Len(q) : q[j] \notin PoolEvent
      BY DEF LeadsTo
  <2>2. i \in 1 .. Len(r) /\ r[i] = EventFor(g)
      BY <1>1, <2>1
  <2>3. ASSUME NEW j \in i + 1 .. Len(r) PROVE r[j] \notin PoolEvent
    <3>1. j = Len(q) + 1 \/ j \in i + 1 .. Len(q) BY <1>1
    <3>2. j \in i + 1 .. Len(q) => j \in 1 .. Len(q) BY <1>1
    <3> QED BY <1>1, <2>1, <3>1, <3>2
  <2> QED BY <2>2, <2>3 DEF LeadsTo
<1> QED BY <1>2, <1>3, <1>4 DEF NoPoolEvent, r

LEMMA LeadsToTaken ==
    ASSUME NEW q \in Seq(Event), q # <<>>, NEW g,
           EventFor(g) \in PoolEvent
    PROVE  /\ NoPoolEvent(q) => NoPoolEvent(Tail(q)) /\ Head(q) \notin PoolEvent
           /\ LeadsTo(q, g) =>
                \/ LeadsTo(Tail(q), g)
                \/ Head(q) = EventFor(g) /\ NoPoolEvent(Tail(q))
<1> DEFINE t == Tail(q)
<1>1. /\ Len(q) \in Nat \ {0} /\ Len(t) = Len(q) - 1
      /\ \A i \in 1 .. Len(t) : t[i] = q[i + 1]
      /\ Head(q) = q[1]
    BY Taken
<1>2. \A f : In(q, f) <=> f = Head(q) \/ In(t, f)
    BY TakenIn
<1> HIDE DEF t
<1>3. ASSUME LeadsTo(q, g)
      PROVE  LeadsTo(t, g) \/ (Head(q) = EventFor(g) /\ NoPoolEvent(t))
  <2>1. PICK i \in 1 .. Len(q) :
            /\ q[i] = EventFor(g)
            /\ \A j \in i + 1 .. Len(q) : q[j] \notin PoolEvent
      BY <1>3 DEF LeadsTo
  <2>2. CASE i = 1
    <3>1. ASSUME NEW j \in 1 .. Len(t) PROVE t[j] \notin PoolEvent
      <4>1. j + 1 \in i + 1 .. Len(q) BY <1>1, <2>2
      <4> QED BY <1>1, <2>1, <4>1
    <3> QED BY <1>1, <2>1, <2>2, <3>1 DEF NoPoolEvent, In
  <2>3. CASE i # 1
    <3>1. PICK k \in 1 .. Len(t) : i = k + 1
        BY <1>1, <2>3
    <3>2. t[k] = EventFor(g)
        BY <1>1, <2>1, <3>1
    <3>3. ASSUME NEW j \in k + 1 .. Len(t) PROVE t[j] \notin PoolEvent
      <4>1. j + 1 \in i + 1 .. Len(q) /\ j \in 1 .. Len(t) BY <1>1, <3>1
      <4> QED BY <1>1, <2>1, <4>1
    <3> QED BY <3>2, <3>3 DEF LeadsTo
  <2> QED BY <2>2, <2>3
<1> QED BY <1>2, <1>3 DEF NoPoolEvent, t

LEMMA CatchesUpStep ==
    ASSUME Inv, CatchesUp, [Next]_vars
    PROVE  CatchesUp'
<1> SUFFICES ASSUME panics' = {}
             PROVE  /\ \/ pool' = worker' /\ NoPoolEvent(queue')
                       \/ LeadsTo(queue', worker')
                    /\ ~ notified' => configured' = (worker' # NoPool)
    BY DEF CatchesUp
<1> TypeOK /\ queue \in Seq(Event) BY DEF Inv, TypeOK
<1>1. panics = {}
    BY SendOne DEF Next, ConnectionStep, Serve, Authorized, Refused, Hijack,
        UpgradeLost, FirstMessage, Deliver, CloseFrame, LoopEnds,
        Introduction, Goodbye, ProcessorStep, Cleanup, Timeout, BatchDone,
        Handle, HandleNewSessionPool, HandleStopSessionPool,
        HandleNewConnection, HandleAssociate, HandleDisconnect, Publish,
        OutOfSync, ConfigStep, TryUpdate, RemovePool, CreatePool, KeepPools,
        InactivityExits, vars
<1>2. /\ (pool = worker /\ NoPoolEvent(queue)) \/ LeadsTo(queue, worker)
      /\ ~ notified => configured = (worker # NoPool)
    BY <1>1 DEF CatchesUp
<1>3. \A c \in Cid : {NewConnection(c), Associate(c), Disconnect(c)}
                        \subseteq Event \ PoolEvent
    BY EventsDiffer DEF PoolEvent, Event
<1>4. ASSUME NEW c \in Cid, ConnectionStep(c) PROVE CatchesUp'
  <2>1. UNCHANGED <<configured, notified, worker, pool>>
      BY <1>4 DEF ConnectionStep, Serve, Authorized, Refused, Hijack,
          UpgradeLost, FirstMessage, Deliver, CloseFrame, LoopEnds,
          configVars, poolVars
  <2>2. \/ queue' = queue
        \/ \E e \in {NewConnection(c), Associate(c), Disconnect(c)} : Send(<<e>>)
      BY <1>4 DEF ConnectionStep, Serve, Authorized, Refused, Hijack,
          UpgradeLost, FirstMessage, Deliver, CloseFrame, LoopEnds,
          Introduction, Goodbye
  <2>3. CASE queue' = queue
      BY <1>2, <2>1, <2>3 DEF CatchesUp
  <2>4. CASE \E e \in {NewConnection(c), Associate(c), Disconnect(c)} :
                 Send(<<e>>)
    <3>1. PICK e \in Event \ PoolEvent : Send(<<e>>)
        BY <1>3, <2>4
    <3>2. queue' = queue \o <<e>> BY <1>1, <3>1, SendUp
    <3> QED BY <1>2, <2>1, <3>2, LeadsToSent DEF CatchesUp
  <2> QED BY <2>2, <2>3, <2>4
<1>5. CASE Handle
  <2> DEFINE e == Head(queue)
  <2>1. /\ e \in Event /\ queue' = Tail(queue) /\ queue # <<>>
        /\ UNCHANGED <<configured, notified, worker>>
      BY <1>5, Taken DEF Handle, configVars
  <2>2. EventFor(worker) \in PoolEvent
      BY DEF EventFor, PoolEvent, TypeOK
  <2>3. CASE e \in PoolEvent
    <3>1. ASSUME e = EventFor(worker) PROVE pool' = worker
      <4>1. CASE worker = NoPool
        <5>1. e.action = "StopSessionPool"
            BY <3>1, <4>1 DEF EventFor, StopSessionPool
        <5> QED BY <1>5, <4>1, <5>1 DEF Handle, HandleNewSessionPool,
            HandleStopSessionPool, HandleNewConnection, HandleAssociate,
            HandleDisconnect
      <4>2. CASE worker # NoPool
        <5>1. e.action = "NewSessionPool" /\ e.pool = worker
            BY <3>1, <4>2 DEF EventFor, NewSessionPool
        <5> QED BY <1>5, <5>1 DEF Handle, HandleNewSessionPool,
            HandleStopSessionPool, HandleNewConnection, HandleAssociate,
            HandleDisconnect
      <4> QED BY <4>1, <4>2
    <3> HIDE DEF e
    <3>2. \/ LeadsTo(queue', worker)
          \/ e = EventFor(worker) /\ NoPoolEvent(queue')
        BY <1>2, <2>1, <2>2, <2>3, LeadsToTaken DEF e
    <3> QED BY <1>2, <2>1, <3>1, <3>2
  <2>4. CASE e \notin PoolEvent
    <3>1. ~ HandleNewSessionPool(e) /\ ~ HandleStopSessionPool(e)
        BY <2>1, <2>4, EventKinds
        DEF HandleNewSessionPool, HandleStopSessionPool, PoolEvent
    <3>2. pool' = pool
        BY <1>5, <3>1 DEF Handle, HandleNewConnection, HandleAssociate,
            HandleDisconnect
    <3> HIDE DEF e
    <3>3. /\ NoPoolEvent(queue) => NoPoolEvent(queue')
          /\ LeadsTo(queue, worker) => LeadsTo(queue', worker)
        BY <2>1, <2>2, <2>4, LeadsToTaken DEF e
    <3> QED BY <1>2, <2>1, <3>2, <3>3
  <2> QED BY <2>3, <2>4
<1>6. ASSUME NEW C \in SUBSET (pending \cup connections), Publish(C)
      PROVE  CatchesUp'
    BY <1>2, <1>6 DEF Publish, CatchesUp, configVars
<1>7. CASE TryUpdate
  <2>1. notified' /\ UNCHANGED <<pool, worker, queue>>
      BY <1>7 DEF TryUpdate, Notice, poolVars
  <2> QED BY <1>2, <2>1
<1>8. CASE RemovePool
  <2>1. StopSessionPool \in Event BY DEF Event
  <2>2. queue' = queue \o <<StopSessionPool>>
      BY <1>1, <1>8, SendUp DEF RemovePool
  <2>3. worker' = NoPool /\ configured' = FALSE
      BY <1>8 DEF RemovePool, TypeOK
  <2>4. LeadsTo(queue', worker')
      BY <2>1, <2>2, <2>3, LeadsToSent DEF EventFor
  <2> QED BY <2>3, <2>4
<1>9. CASE CreatePool
  <2>1. PICK m \in Generation : Made(m) BY DEF Inv, GenerationsLeft
  <2>2. /\ m + 1 \in Generation /\ worker' = m + 1
        /\ Send(<<NewSessionPool(m + 1)>>)
      BY <1>9, <2>1, NextGeneration
  <2>3. queue' = queue \o <<NewSessionPool(m + 1)>>
      BY <1>1, <2>2, SendUp
  <2>4. worker' # NoPool
      BY <2>2, BoundAssumption DEF Generation, NoPool
  <2>5. NewSessionPool(m + 1) \in Event BY <2>2 DEF Event
  <2>6. LeadsTo(queue', worker')
      BY <2>2, <2>3, <2>4, <2>5, LeadsToSent DEF EventFor
  <2>7. configured' BY <1>9 DEF CreatePool
  <2> QED BY <2>4, <2>6, <2>7
<1>10. CASE KeepPools
  <2>1. configured = (worker # NoPool) /\ UNCHANGED <<configured, pool, worker, queue>>
      BY <1>10 DEF KeepPools, poolVars
  <2> QED BY <1>2, <2>1
<1>11. CASE UNCHANGED <<configured, notified, worker, pool, queue>>
    BY <1>2, <1>11
<1> QED BY <1>4, <1>5, <1>6, <1>7, <1>8, <1>9, <1>10, <1>11
    DEF CatchesUp, Next, ProcessorStep, ConfigStep, Cleanup, Timeout, BatchDone,
        OutOfSync, InactivityExits, vars, configVars, poolVars

\* However reloads, notices and events of the three threads interleave, and
\* however many changes one notice stands for: unless a thread panicked, a
\* pool that is out of step with the configuration has a notice or an event
\* ahead that puts it right.
THEOREM PoolCatchesUp == Spec => []SettledPool
<1>1. Init => CatchesUp
  <2> SUFFICES ASSUME Init PROVE CatchesUp
      OBVIOUS
  <2>1. /\ queue = <<>> \o <<NewSessionPool(1)>> /\ worker = 1
        /\ configured = TRUE /\ NewSessionPool(1) = EventFor(worker)
      BY DEF Init, EventFor, NoPool
  <2>2. NewSessionPool(1) \in Event /\ <<>> \in Seq(Event)
      BY BoundAssumption DEF Event, Generation
  <2>3. LeadsTo(queue, worker)
      BY <2>1, <2>2, LeadsToSent
  <2>4. worker # NoPool
      BY <2>1 DEF NoPool
  <2>5. configured = (worker # NoPool)
      BY <2>1, <2>4, Zenon
  <2> QED BY <2>3, <2>5 DEF CatchesUp
<1>2. Inv /\ CatchesUp /\ [Next]_vars => CatchesUp'
    BY CatchesUpStep
<1>3. ASSUME Inv, CatchesUp PROVE SettledPool
  <2>1. EventFor(worker) \in PoolEvent
      BY <1>3 DEF EventFor, PoolEvent, Inv, TypeOK
  <2>2. LeadsTo(queue, worker) => ~ NoPoolEvent(queue)
      BY <2>1 DEF LeadsTo, NoPoolEvent, In
  <2> QED BY <1>3, <2>2 DEF CatchesUp, SettledPool
<1> QED BY <1>1, <1>2, <1>3, Invariance, PTL DEF Spec
=============================================================================
