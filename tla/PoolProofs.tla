---------------------------- MODULE PoolProofs ----------------------------
(***************************************************************************)
(* Theorems about Pool, for every set of connections, sessions, topics,    *)
(* namespaces, keys and inputs.                                            *)
(***************************************************************************)
EXTENDS Pool, SequenceTheorems, TLAPS

---------------------------------------------------------------------------
(***************************************************************************)
(* The handlers with an expect() either do their work or fail.             *)
(***************************************************************************)

Fails == \E msg \in PanicMessage : Panic(msg)

Joined(c, s, age) ==
    alive /\ Pending(c) /\ clattices[c] \subseteq lattices /\ Join(c, s, age)

\* Associate, Disconnect and the clean-up do what their success says, or fail.
LEMMA Outcomes ==
    /\ \A c \in Cid, s \in SessionId, age \in 0 .. NewConnTimeout + 1 :
            AssociateConnected(c, s, age) => Joined(c, s, age) \/ Fails
    /\ \A c \in Cid : DisconnectUnknown(c) => Fails
    /\ Cleanup => Expire \/ Fails
<1>1. ASSUME NEW c \in Cid, NEW s \in SessionId,
             NEW age \in 0 .. NewConnTimeout + 1, AssociateConnected(c, s, age)
      PROVE  Joined(c, s, age) \/ Fails
  BY <1>1 DEF AssociateConnected, Joined, Fails, PanicMessage
<1>2. ASSUME NEW c \in Cid, DisconnectUnknown(c) PROVE Fails
  BY <1>2 DEF DisconnectUnknown, Fails, PanicMessage
<1>3. ASSUME Cleanup PROVE Expire \/ Fails
  BY <1>3 DEF Cleanup, Fails, PanicMessage
<1>4. QED
  BY <1>1, <1>2, <1>3

---------------------------------------------------------------------------
(***************************************************************************)
(* Types.                                                                  *)
(***************************************************************************)

\* A step that leaves a group of variables alone leaves its types alone.
LEMMA UnchangedTypes ==
    ASSUME TypeOK
    PROVE  /\ UNCHANGED connVars => ConnTypeOK'
           /\ UNCHANGED topicVars => TopicTypeOK'
           /\ UNCHANGED sessionVars => SessionTypeOK'
           /\ UNCHANGED userVars => UserTypeOK'
           /\ UNCHANGED <<latticeVars, latticeLeft>> => LatticeTypeOK'
           /\ UNCHANGED seenVars => SeenTypeOK'
<1>1. UNCHANGED connVars => ConnTypeOK'
  BY DEF TypeOK, ConnTypeOK, connVars
<1>2. UNCHANGED topicVars => TopicTypeOK'
  BY DEF TypeOK, TopicTypeOK, topicVars
<1>3. UNCHANGED sessionVars => SessionTypeOK'
  BY DEF TypeOK, SessionTypeOK, sessionVars
<1>4. UNCHANGED userVars => UserTypeOK'
  BY DEF TypeOK, UserTypeOK, userVars
<1>5. UNCHANGED <<latticeVars, latticeLeft>> => LatticeTypeOK'
  BY DEF TypeOK, LatticeTypeOK, latticeVars
<1>6. UNCHANGED seenVars => SeenTypeOK'
  BY DEF TypeOK, SeenTypeOK, seenVars
<1>7. QED
  BY <1>1, <1>2, <1>3, <1>4, <1>5, <1>6

\* publish_status sends statuses.
LEMMA PublishStatusType ==
    ASSUME TypeOK, NEW changed, NEW newStatus \in [SessionId -> Status]
    PROVE  PublishStatus(changed, newStatus)
                \in [Cid -> [SessionId -> Status \cup {"unknown"}]]
  BY DEF PublishStatus, TypeOK, UserTypeOK

\* The record of a connection that is dropped or gone.
LEMMA ForgetConnectionType ==
    ASSUME TypeOK, NEW c \in Cid, NEW p \in {"dropped", "gone"},
           ForgetConnection(c, p)
    PROVE  /\ ConnTypeOK'
           /\ buffer' \in [Cid -> Seq(Message)]
           /\ sent' \in [Cid -> Seq(Message)]
           /\ due' \in [Cid -> Seq(Message)]
           /\ published' \in Nat
           /\ SeenTypeOK'
<1>1. ConnTypeOK'
  BY DEF TypeOK, ConnTypeOK, ForgetConnection, Phase
<1>2. SeenTypeOK'
  BY DEF TypeOK, SeenTypeOK, ForgetConnection, Version, Absent
<1>3. QED
  BY <1>1, <1>2 DEF TypeOK, TopicTypeOK, ForgetConnection

\* Removing a closed connection from its topics keeps the type of `topics`.
LEMMA UnsubscribeAllType ==
    ASSUME TypeOK, NEW c \in Cid
    PROVE  UnsubscribeAll(c) \in [Topic -> [Cid -> Subscription]]
  BY DEF TypeOK, TopicTypeOK, UnsubscribeAll, Subscription

\* Adding to and removing from user_listeners keeps its type.
LEMMA ListenType ==
    ASSUME TypeOK, NEW s \in SessionId, NEW users \in SUBSET SessionId
    PROVE  /\ Listen(s, users) \in [SessionId -> SUBSET SessionId]
           /\ Unlisten(s, users) \in [SessionId -> SUBSET SessionId]
  BY DEF TypeOK, UserTypeOK, Listen, Unlisten

\* A session that leaves both maps keeps the types of the session fields.
LEMMA DropSessionsType ==
    ASSUME TypeOK, NEW S \in SUBSET SessionId, DropSessions(S)
    PROVE  /\ slattices' \in [SessionId -> [Namespace -> SUBSET Cid]]
           /\ uconns' \in [SessionId -> SUBSET Cid]
           /\ peers' \in [SessionId -> SUBSET SessionId]
  BY DEF TypeOK, SessionTypeOK, DropSessions

\* The snapshots of lattice_from keep the type of a client's copies.
LEMMA SnapshotType ==
    ASSUME TypeOK, NEW c \in Cid, NEW s \in SessionId,
           NEW N \in SUBSET Namespace
    PROVE  /\ SnapshotPrivate(c, s, N)
                    \in [Cid -> [Namespace -> [Key -> Version]]]
           /\ SnapshotShared(c, s, N)
                    \in [Cid -> [Namespace -> [Key -> Version]]]
  BY DEF TypeOK, SeenTypeOK, LatticeTypeOK, SnapshotPrivate, SnapshotShared,
     Merged, Max2, Version

\* fn remove_lattice keeps the types of the lattices.
LEMMA RemoveLatticesType ==
    ASSUME TypeOK, NEW c \in Cid, NEW s \in SessionId,
           NEW N \in SUBSET Namespace, RemoveLattices(c, s, N),
           latticeLeft' = latticeLeft
    PROVE  LatticeTypeOK'
<1>1. private' \in [Namespace -> [SessionId -> [Key -> Version]]]
  BY DEF TypeOK, LatticeTypeOK, RemoveLattices, WithoutSession, Version, Absent
<1>2. subscriptions' \in [Namespace -> [Key -> SUBSET SessionId]]
  BY DEF TypeOK, LatticeTypeOK, RemoveLattices
<1>3. shared' \in [Namespace -> [Key -> Version]]
  BY DEF TypeOK, LatticeTypeOK, RemoveLattices, Version, Absent
<1>4. lattices' \in SUBSET Namespace
  BY DEF TypeOK, LatticeTypeOK, RemoveLattices
<1>5. lapsed' \in [Namespace -> [Key -> SUBSET SessionId]]
  BY DEF TypeOK, LatticeTypeOK, RemoveLattices
<1>6. QED
  BY <1>1, <1>2, <1>3, <1>4, <1>5 DEF TypeOK, LatticeTypeOK

\* The initial state has the types.
LEMMA TypeInit == Init => TypeOK
<1> SUFFICES ASSUME Init PROVE TypeOK
  OBVIOUS
<1>1. ConnTypeOK
  BY DEF Init, ConnTypeOK, Phase
<1>2. TopicTypeOK
  BY DEF Init, TopicTypeOK, Subscription
<1>3. SessionTypeOK
  BY DEF Init, SessionTypeOK, Status, Absent
<1>4. UserTypeOK
  BY DEF Init, UserTypeOK
<1>5. LatticeTypeOK
  BY TimeAssumption DEF Init, LatticeTypeOK, Absent, Version
<1>6. SeenTypeOK
  BY DEF Init, SeenTypeOK, Absent, Version
<1>7. QED
  BY <1>1, <1>2, <1>3, <1>4, <1>5, <1>6 DEF Init, TypeOK, PanicMessage

\* Every step keeps the types.
LEMMA TypeStep == TypeOK /\ [Next]_vars => TypeOK'
<1> SUFFICES ASSUME TypeOK, [Next]_vars PROVE TypeOK'
  OBVIOUS
<1> USE UnchangedTypes
<1>1. ASSUME Fails \/ HandlerExits PROVE TypeOK'
  BY <1>1 DEF Fails, Panic, HandlerExits, TypeOK
<1>2. ASSUME NEW c \in Cid, NewConnection(c) PROVE TypeOK'
  <2>1. ConnTypeOK'
    BY <1>2 DEF NewConnection, TypeOK, ConnTypeOK, Phase
  <2>2. QED
    BY <1>2, <2>1 DEF NewConnection, TypeOK
<1>3. ASSUME NEW c \in Cid, AssociateDropped(c) PROVE TypeOK'
  <2>1. ForgetConnection(c, "dropped") /\ topics' = topics
    BY <1>3 DEF AssociateDropped
  <2>2. ConnTypeOK' /\ TopicTypeOK' /\ SeenTypeOK'
    BY <2>1, ForgetConnectionType DEF TypeOK, TopicTypeOK
  <2>3. UserTypeOK'
    BY <1>3 DEF AssociateDropped, TypeOK, UserTypeOK
  <2>4. QED
    BY <1>3, <2>2, <2>3 DEF AssociateDropped, TypeOK
<1>4. ASSUME NEW c \in Cid, NEW s \in SessionId,
             NEW age \in 0 .. NewConnTimeout + 1, Joined(c, s, age)
      PROVE  TypeOK'
  <2> DEFINE newStatus == [status EXCEPT ![s] = "active"]
             changed == IF status[s] = "active" THEN {} ELSE {s}
             watches == cusers[c] # {}
             allPeers == IF watches THEN peers[s] \cup cusers[c] ELSE peers[s]
  <2>1. ConnTypeOK'
    BY <1>4 DEF Joined, Join, TypeOK, ConnTypeOK, Phase
  <2>2. TopicTypeOK'
    <3>1. topics' \in [Topic -> [Cid -> Subscription]]
      BY <1>4 DEF Joined, Join, TypeOK, TopicTypeOK, Promoted,
         Subscription
    <3>2. QED
      BY <1>4, <3>1 DEF Joined, Join, TypeOK, TopicTypeOK, Flushed
  <2>3. SessionTypeOK'
    BY <1>4, TimeAssumption DEF Joined, Join, TypeOK, SessionTypeOK,
       ConnTypeOK, Status, FromNow
  <2>4. UserTypeOK'
    <3>1. newStatus \in [SessionId -> Status]
      BY DEF TypeOK, SessionTypeOK, Status
    <3>2. allPeers \in SUBSET SessionId
      BY DEF TypeOK, SessionTypeOK, ConnTypeOK
    <3>3. listeners' \in [SessionId -> SUBSET SessionId]
      BY <1>4, <3>2, ListenType DEF Joined, Join, TypeOK, UserTypeOK
    <3>4. PublishStatus(changed, newStatus)
                \in [Cid -> [SessionId -> Status \cup {"unknown"}]]
      BY <3>1, PublishStatusType
    <3>5. [p \in SessionId |-> IF watches /\ p \in allPeers
                               THEN newStatus[p] ELSE told[c][p]]
                \in [SessionId -> Status \cup {"unknown"}]
      BY <3>1 DEF TypeOK, UserTypeOK
    <3>6. told' = [PublishStatus(changed, newStatus) EXCEPT ![c] =
                [p \in SessionId |-> IF watches /\ p \in allPeers
                                     THEN newStatus[p] ELSE told[c][p]]]
      BY <1>4 DEF Joined, Join
    <3>7. told' \in [Cid -> [SessionId -> Status \cup {"unknown"}]]
      BY <3>4, <3>5, <3>6
    <3>8. QED
      BY <3>3, <3>7 DEF UserTypeOK
  <2>5. SeenTypeOK'
    BY <1>4, SnapshotType DEF Joined, Join, TypeOK, ConnTypeOK,
       SeenTypeOK
  <2>6. QED
    BY <1>4, <2>1, <2>2, <2>3, <2>4, <2>5 DEF Joined, Join, TypeOK
<1>5. ASSUME NEW s \in SessionId, NEW ticks \in -1 .. MaxIdle,
             UpdateActivity(s, ticks)
      PROVE  TypeOK'
  <2>1. SessionTypeOK'
    BY <1>5, TimeAssumption DEF UpdateActivity, TypeOK, SessionTypeOK, Status,
       Max2
  <2>2. UserTypeOK'
    <3>1. [status EXCEPT ![s] = "active"] \in [SessionId -> Status]
      BY DEF TypeOK, SessionTypeOK, Status
    <3>2. QED
      BY <1>5, <3>1, PublishStatusType DEF UpdateActivity, TypeOK, UserTypeOK
  <2>3. QED
    BY <1>5, <2>1, <2>2 DEF UpdateActivity, TypeOK
<1>6. ASSUME NEW c \in Cid, DisconnectPending(c) PROVE TypeOK'
  <2>1. ForgetConnection(c, "gone") /\ topics' = UnsubscribeAll(c)
    BY <1>6 DEF DisconnectPending
  <2>2. ConnTypeOK' /\ TopicTypeOK' /\ SeenTypeOK'
    BY <2>1, ForgetConnectionType, UnsubscribeAllType DEF TopicTypeOK
  <2>3. UserTypeOK'
    BY <1>6 DEF DisconnectPending, TypeOK, UserTypeOK
  <2>4. QED
    BY <1>6, <2>2, <2>3 DEF DisconnectPending, TypeOK
<1>7. ASSUME NEW c \in Cid, DisconnectActive(c) PROVE TypeOK'
  <2>1. ForgetConnection(c, "gone") /\ topics' = UnsubscribeAll(c)
    BY <1>7 DEF DisconnectActive
  <2>2. ConnTypeOK' /\ TopicTypeOK' /\ SeenTypeOK'
    BY <2>1, ForgetConnectionType, UnsubscribeAllType DEF TopicTypeOK
  <2>3. UserTypeOK' /\ SessionTypeOK'
    BY <1>7 DEF DisconnectActive, TypeOK, UserTypeOK, SessionTypeOK
  <2>4. QED
    BY <1>7, <2>2, <2>3 DEF DisconnectActive, TypeOK
<1>8. ASSUME NEW c \in Cid, DisconnectInactive(c) PROVE TypeOK'
  <2> DEFINE s == csession[c]
             newStatus == [status EXCEPT ![s] = "offline"]
  <2>0. s \in SessionId
    BY <1>8 DEF DisconnectInactive, Live, TypeOK, ConnTypeOK
  <2>1. /\ ForgetConnection(c, "gone") /\ topics' = UnsubscribeAll(c)
        /\ RemoveLattices(c, s, clattices[c]) /\ latticeLeft' = latticeLeft
    BY <1>8 DEF DisconnectInactive
  <2>2. ConnTypeOK' /\ TopicTypeOK' /\ SeenTypeOK'
    BY <2>1, ForgetConnectionType, UnsubscribeAllType DEF TopicTypeOK
  <2>3. LatticeTypeOK'
    <3>1. clattices[c] \in SUBSET Namespace
      BY DEF TypeOK, ConnTypeOK
    <3>2. QED
      BY <2>0, <2>1, <3>1, RemoveLatticesType
  <2>4. newStatus \in [SessionId -> Status]
    BY DEF TypeOK, SessionTypeOK, Status
  <2>5. SessionTypeOK'
    <3>1. slattices' \in [SessionId -> [Namespace -> SUBSET Cid]]
      <4>1. CASE sconns[s] # {c}
        <5>1. slattices' = [slattices EXCEPT
                                ![s] = Detached(s, c, clattices[c])]
          BY <1>8, <4>1 DEF DisconnectInactive
        <5>2. Detached(s, c, clattices[c]) \in [Namespace -> SUBSET Cid]
          BY <2>0 DEF Detached, TypeOK, SessionTypeOK
        <5>3. QED
          BY <5>1, <5>2 DEF TypeOK, SessionTypeOK
      <4>2. CASE sconns[s] = {c}
        <5>1. DropSessions({s}) /\ {s} \in SUBSET SessionId
          BY <1>8, <2>0, <4>2 DEF DisconnectInactive
        <5>2. QED
          BY <5>1, DropSessionsType
      <4>3. QED
        BY <4>1, <4>2
    <3>2. /\ uconns' \in [SessionId -> SUBSET Cid]
          /\ peers' \in [SessionId -> SUBSET SessionId]
      <4>1. CASE sconns[s] # {c}
        <5>1. \E w \in SUBSET Cid, ps \in SUBSET SessionId :
                    /\ uconns' = [uconns EXCEPT ![s] = w]
                    /\ peers' = [peers EXCEPT ![s] = ps]
          <6>1. CASE cflag[c] /\ uconns[s] \ {c} = {}
            BY <1>8, <2>0, <4>1, <6>1 DEF DisconnectInactive, TypeOK,
               SessionTypeOK
          <6>2. CASE ~ (cflag[c] /\ uconns[s] \ {c} = {})
            BY <1>8, <2>0, <4>1, <6>2 DEF DisconnectInactive, TypeOK,
               SessionTypeOK
          <6>3. QED
            BY <6>1, <6>2
        <5>2. PICK w \in SUBSET Cid, ps \in SUBSET SessionId :
                    /\ uconns' = [uconns EXCEPT ![s] = w]
                    /\ peers' = [peers EXCEPT ![s] = ps]
          BY <5>1
        <5>3. uconns' \in [SessionId -> SUBSET Cid]
          BY <5>2 DEF TypeOK, SessionTypeOK
        <5>4. peers' \in [SessionId -> SUBSET SessionId]
          BY <5>2 DEF TypeOK, SessionTypeOK
        <5>5. QED
          BY <5>3, <5>4
      <4>2. CASE sconns[s] = {c}
        <5>1. DropSessions({s}) /\ {s} \in SUBSET SessionId
          BY <1>8, <2>0, <4>2 DEF DisconnectInactive
        <5>2. QED
          BY <5>1, DropSessionsType
      <4>3. QED
        BY <4>1, <4>2
    <3>3. status' \in [SessionId -> Status]
      BY <1>8, <2>4 DEF DisconnectInactive, TypeOK, SessionTypeOK
    <3>4. sconns' \in [SessionId -> SUBSET Cid] /\ UNCHANGED <<left, reported>>
      BY <1>8 DEF DisconnectInactive, TypeOK, SessionTypeOK
    <3>5. QED
      BY <3>1, <3>2, <3>3, <3>4 DEF TypeOK, SessionTypeOK
  <2>6. UserTypeOK'
    <3>1. listeners' \in [SessionId -> SUBSET SessionId]
      BY <1>8, <2>0, ListenType DEF DisconnectInactive, TypeOK, UserTypeOK,
         SessionTypeOK
    <3>2. told' \in [Cid -> [SessionId -> Status \cup {"unknown"}]]
      <4>1. CASE sconns[s] # {c}
        BY <1>8, <4>1 DEF DisconnectInactive, TypeOK, UserTypeOK
      <4>2. CASE sconns[s] = {c}
        <5>1. told' = [PublishStatus({s}, newStatus) EXCEPT
                            ![c] = [p \in SessionId |-> "unknown"]]
          BY <1>8, <4>2 DEF DisconnectInactive
        <5>2. QED
          BY <5>1, <2>4, PublishStatusType
      <4>3. QED
        BY <4>1, <4>2
    <3>3. QED
      BY <3>1, <3>2 DEF UserTypeOK
  <2>7. QED
    BY <1>8, <2>2, <2>3, <2>5, <2>6 DEF DisconnectInactive, TypeOK
<1>9. ASSUME Expire PROVE TypeOK'
  <2> DEFINE newStatus == [s \in SessionId |->
                IF s \in Leaving THEN "offline"
                ELSE IF s \in Expired THEN "inactive" ELSE status[s]]
  <2>1. newStatus \in [SessionId -> Status]
    BY DEF TypeOK, SessionTypeOK, Status
  <2>2. SessionTypeOK'
    <3>1. Leaving \in SUBSET SessionId
      BY DEF Leaving, Expired
    <3>2. /\ slattices' \in [SessionId -> [Namespace -> SUBSET Cid]]
          /\ uconns' \in [SessionId -> SUBSET Cid]
          /\ peers' \in [SessionId -> SUBSET SessionId]
      BY <1>9, <3>1, DropSessionsType DEF Expire
    <3>3. left' \in [SessionId -> Int]
      BY <1>9 DEF Expire, TypeOK, SessionTypeOK, Absent
    <3>4. reported' \in SUBSET SessionId
      BY <1>9 DEF Expire, TypeOK, SessionTypeOK, Expired
    <3>5. QED
      BY <1>9, <2>1, <3>2, <3>3, <3>4 DEF Expire, TypeOK, SessionTypeOK
  <2>3. UserTypeOK'
    <3>1. listeners' \in [SessionId -> SUBSET SessionId]
      BY <1>9 DEF Expire, TypeOK, UserTypeOK
    <3>2. told' = PublishStatus(Expired, newStatus)
      BY <1>9 DEF Expire
    <3>3. QED
      BY <2>1, <3>1, <3>2, PublishStatusType DEF UserTypeOK
  <2>4. LatticeTypeOK'
    BY <1>9, TimeAssumption DEF Expire, TypeOK, LatticeTypeOK, Absent,
       Version
  <2>5. QED
    BY <1>9, <2>2, <2>3, <2>4 DEF Expire, TypeOK
<1>10. ASSUME Tick PROVE TypeOK'
  <2>1. SessionTypeOK'
    BY <1>10 DEF Tick, TypeOK, SessionTypeOK, FromNow
  <2>2. LatticeTypeOK'
    BY <1>10 DEF Tick, TypeOK, LatticeTypeOK, latticeVars, Remaining
  <2>3. QED
    BY <1>10, <2>1, <2>2 DEF Tick, TypeOK
<1>11. ASSUME NEW c \in Cid, NEW t \in Topic, Subscribe(c, t) PROVE TypeOK'
  <2>1. ConnTypeOK'
    BY <1>11 DEF Subscribe, TypeOK, ConnTypeOK
  <2>2. TopicTypeOK'
    BY <1>11 DEF Subscribe, TypeOK, TopicTypeOK, Subscription
  <2>3. QED
    BY <1>11, <2>1, <2>2 DEF Subscribe, TypeOK
<1>12. ASSUME NEW c \in Cid, NEW t \in Topic, Unsubscribe(c, t) PROVE TypeOK'
  <2>1. CASE InSync(c, t)
    <3>1. ConnTypeOK'
      BY <1>12, <2>1 DEF Unsubscribe, TypeOK, ConnTypeOK
    <3>2. TopicTypeOK'
      <4>1. /\ topics' = [topics EXCEPT ![t][c] = "none"]
            /\ UNCHANGED <<buffer, sent, due, published>>
        BY <1>12, <2>1 DEF Unsubscribe
      <4>2. QED
        BY <4>1 DEF TypeOK, TopicTypeOK, Subscription
    <3>3. QED
      BY <1>12, <2>1, <3>1, <3>2 DEF Unsubscribe, TypeOK
  <2>2. QED
    BY <1>1, <1>12, <2>1 DEF Unsubscribe, Fails, PanicMessage
<1>13. ASSUME NEW t \in Topic, Publish(t) PROVE TypeOK'
  <2>1. CASE Fails
    BY <1>1, <2>1
  <2>2. CASE ~ Fails
    <3>1. <<t, published + 1>> \in Message
      BY DEF TypeOK, TopicTypeOK, Message
    <3>2. TopicTypeOK'
      <4> DEFINE msg == <<t, published + 1>>
      <4>1. buffer' = [c \in Cid |->
                IF topics[t][c] = "pending" THEN Append(buffer[c], msg)
                                            ELSE buffer[c]]
        BY <1>13, <2>2 DEF Publish, Fails, PanicMessage
      <4>2. sent' = [c \in Cid |->
                IF topics[t][c] = "session" THEN Append(sent[c], msg)
                                            ELSE sent[c]]
        BY <1>13, <2>2 DEF Publish, Fails, PanicMessage
      <4>3. due' = [c \in Cid |->
                IF (Pending(c) \/ Live(c)) /\ t \in ctopics[c]
                THEN Append(due[c], msg) ELSE due[c]]
        BY <1>13, <2>2 DEF Publish, Fails, PanicMessage
      <4>4. topics' = topics /\ published' = published + 1
        BY <1>13, <2>2 DEF Publish, Fails, PanicMessage
      <4>5. msg \in Message
        BY <3>1
      <4> HIDE DEF msg
      <4>6. buffer' \in [Cid -> Seq(Message)]
        BY <4>1, <4>5 DEF TypeOK, TopicTypeOK
      <4>7. sent' \in [Cid -> Seq(Message)]
        BY <4>2, <4>5 DEF TypeOK, TopicTypeOK
      <4>8. due' \in [Cid -> Seq(Message)]
        BY <4>3, <4>5 DEF TypeOK, TopicTypeOK
      <4>9. QED
        BY <4>4, <4>6, <4>7, <4>8 DEF TypeOK, TopicTypeOK
    <3>3. UNCHANGED <<panic, handler, connVars, topics, sessionVars, userVars,
                      latticeVars, latticeLeft, seenVars>>
      BY <1>13, <2>2 DEF Publish, Fails, PanicMessage
    <3>4. QED
      BY <3>2, <3>3 DEF TypeOK
  <2>3. QED
    BY <2>1, <2>2
<1>14. ASSUME NEW c \in Cid, NEW n \in Namespace,
              AttachPending(c, n) \/ DetachPending(c, n)
       PROVE  TypeOK'
  <2>1. ConnTypeOK'
    BY <1>14 DEF AttachPending, DetachPending, TypeOK, ConnTypeOK
  <2>2. QED
    BY <1>14, <2>1 DEF AttachPending, DetachPending, TypeOK
<1>15. ASSUME NEW c \in Cid, NEW n \in Namespace, AttachLive(c, n)
       PROVE  TypeOK'
  <2>1. csession[c] \in SessionId
    BY <1>15 DEF AttachLive, Live, TypeOK, ConnTypeOK
  <2>2. ConnTypeOK'
    BY <1>15 DEF AttachLive, TypeOK, ConnTypeOK
  <2>3. SessionTypeOK'
    BY <1>15 DEF AttachLive, TypeOK, SessionTypeOK
  <2>4. SeenTypeOK'
    <3>1. {n} \cap lattices \in SUBSET Namespace
      OBVIOUS
    <3>2. QED
      BY <1>15, <2>1, <3>1, SnapshotType DEF AttachLive, SeenTypeOK
  <2>5. QED
    BY <1>15, <2>2, <2>3, <2>4 DEF AttachLive, TypeOK
<1>16. ASSUME NEW c \in Cid, NEW n \in Namespace, DetachLive(c, n)
       PROVE  TypeOK'
  <2> DEFINE s == csession[c]
  <2>1. s \in SessionId
    BY <1>16 DEF DetachLive, Live, TypeOK, ConnTypeOK
  <2>2. ConnTypeOK'
    BY <1>16 DEF DetachLive, TypeOK, ConnTypeOK
  <2>3. SessionTypeOK'
    <3>1. Detached(s, c, {n}) \in [Namespace -> SUBSET Cid]
      BY <2>1 DEF Detached, TypeOK, SessionTypeOK
    <3>2. /\ slattices' = [slattices EXCEPT ![s] = Detached(s, c, {n})]
          /\ UNCHANGED <<status, left, sconns, uconns, peers, reported>>
      BY <1>16 DEF DetachLive
    <3>3. QED
      BY <3>1, <3>2 DEF TypeOK, SessionTypeOK
  <2>4. LatticeTypeOK'
    <3>1. RemoveLattices(c, s, {n}) /\ latticeLeft' = latticeLeft
      BY <1>16 DEF DetachLive
    <3>2. {n} \in SUBSET Namespace
      OBVIOUS
    <3>3. QED
      BY <2>1, <3>1, <3>2, RemoveLatticesType
  <2>5. SeenTypeOK'
    BY <1>16 DEF DetachLive, TypeOK, SeenTypeOK, Version, Absent
  <2>6. QED
    BY <1>16, <2>2, <2>3, <2>4, <2>5 DEF DetachLive, TypeOK
<1>17. ASSUME NEW n \in Namespace, NEW delta \in Deltas,
              LatticeUpdate(n, delta)
       PROVE  TypeOK'
  <2> DEFINE newShared == [k \in Key |-> Max2(shared[n][k], delta.shared[k])]
             newPrivate == [s \in SessionId |-> [k \in Key |->
                            Max2(private[n][s][k], delta.private[s][k])]]
  <2>1. /\ delta.shared \in [Key -> Version]
        /\ delta.private \in [SessionId -> [Key -> Version]]
    BY InputAssumption
  <2>2. newShared \in [Key -> Version]
    BY <2>1 DEF TypeOK, LatticeTypeOK, Max2, Version
  <2>3. newPrivate \in [SessionId -> [Key -> Version]]
    BY <2>1 DEF TypeOK, LatticeTypeOK, Max2, Version
  <2>4. LatticeTypeOK'
    <3>1. shared' = [shared EXCEPT ![n] = newShared]
      BY <1>17 DEF LatticeUpdate
    <3>2. private' = [private EXCEPT ![n] = newPrivate]
      BY <1>17 DEF LatticeUpdate
    <3>3. subscriptions' \in [Namespace -> [Key -> SUBSET SessionId]]
      BY <1>17 DEF LatticeUpdate, TypeOK, LatticeTypeOK
    <3>4. lattices' = lattices \cup {n} /\ UNCHANGED <<lapsed, latticeLeft>>
      BY <1>17 DEF LatticeUpdate
    <3> HIDE DEF newShared, newPrivate
    <3>5. QED
      BY <2>2, <2>3, <3>1, <3>2, <3>3, <3>4 DEF TypeOK, LatticeTypeOK
  <2>5. SeenTypeOK'
    <3>1. ASSUME NEW c \in Cid PROVE seenPrivate'[c] \in [Namespace -> [Key -> Version]]
      <4>1. CASE Receives(c, n)
        <5>1. csession[c] \in SessionId
          BY <4>1 DEF Receives, Live, TypeOK, ConnTypeOK
        <5>2. newPrivate[csession[c]] \in [Key -> Version]
          BY <2>3, <5>1
        <5>3. PICK keys : seenPrivate'[c] = [seenPrivate[c] EXCEPT ![n] =
                Merged(seenPrivate[c][n], keys, newPrivate[csession[c]])]
          BY <1>17, <4>1 DEF LatticeUpdate, TypeOK, SeenTypeOK
        <5> HIDE DEF newPrivate
        <5>4. Merged(seenPrivate[c][n], keys, newPrivate[csession[c]])
                \in [Key -> Version]
          BY <5>2 DEF Merged, Max2, TypeOK, SeenTypeOK, Version
        <5>5. QED
          BY <5>3, <5>4 DEF TypeOK, SeenTypeOK
      <4>2. CASE ~ Receives(c, n)
        BY <1>17, <4>2 DEF LatticeUpdate, TypeOK, SeenTypeOK
      <4>3. QED
        BY <4>1, <4>2
    <3>2. ASSUME NEW c \in Cid PROVE seenShared'[c] \in [Namespace -> [Key -> Version]]
      <4>1. CASE Receives(c, n)
        <5>3. PICK keys : seenShared'[c] = [seenShared[c] EXCEPT ![n] =
                Merged(seenShared[c][n], keys, newShared)]
          BY <1>17, <4>1 DEF LatticeUpdate, TypeOK, SeenTypeOK
        <5> HIDE DEF newShared
        <5>4. Merged(seenShared[c][n], keys, newShared) \in [Key -> Version]
          BY <2>2 DEF Merged, Max2, TypeOK, SeenTypeOK, Version
        <5>5. QED
          BY <5>3, <5>4 DEF TypeOK, SeenTypeOK
      <4>2. CASE ~ Receives(c, n)
        BY <1>17, <4>2 DEF LatticeUpdate, TypeOK, SeenTypeOK
      <4>3. QED
        BY <4>1, <4>2
    <3>3. /\ seenPrivate' = [c \in Cid |-> seenPrivate'[c]]
          /\ seenShared' = [c \in Cid |-> seenShared'[c]]
      BY <1>17 DEF LatticeUpdate
    <3>4. QED
      BY <3>1, <3>2, <3>3 DEF SeenTypeOK
  <2>6. QED
    BY <1>17, <2>4, <2>5 DEF LatticeUpdate, TypeOK
<1>18. ASSUME NEW c \in Cid, NEW users \in UserLists,
              UsersAttachPending(c, users)
       PROVE  TypeOK'
  <2>1. ConnTypeOK'
    BY <1>18, InputAssumption DEF UsersAttachPending, TypeOK, ConnTypeOK
  <2>2. QED
    BY <1>18, <2>1 DEF UsersAttachPending, TypeOK
<1>19. ASSUME NEW c \in Cid, NEW users \in UserLists, UsersAttachLive(c, users)
       PROVE  TypeOK'
  <2>1. csession[c] \in SessionId /\ users \in SUBSET SessionId
    BY <1>19, InputAssumption DEF UsersAttachLive, Live, TypeOK, ConnTypeOK
  <2>2. SessionTypeOK'
    BY <1>19, <2>1 DEF UsersAttachLive, TypeOK, SessionTypeOK
  <2>3. UserTypeOK'
    <3>1. listeners' \in [SessionId -> SUBSET SessionId]
      BY <1>19, <2>1, ListenType DEF UsersAttachLive
    <3>2. told' \in [Cid -> [SessionId -> Status \cup {"unknown"}]]
      BY <1>19 DEF UsersAttachLive, TypeOK, UserTypeOK, SessionTypeOK
    <3>3. QED
      BY <3>1, <3>2 DEF UserTypeOK
  <2>4. QED
    BY <1>19, <2>2, <2>3 DEF UsersAttachLive, TypeOK
<1>20. ASSUME NEW s \in SessionId, NEW users \in UserLists,
              UsersUpdate(s, users)
       PROVE  TypeOK'
  <2>1. users \in SUBSET SessionId
    BY InputAssumption
  <2>2. SessionTypeOK'
    BY <1>20, <2>1 DEF UsersUpdate, TypeOK, SessionTypeOK
  <2>3. UserTypeOK'
    <3>1. listeners' \in [SessionId -> SUBSET SessionId]
      BY <1>20, <2>1, ListenType DEF UsersUpdate
    <3>2. told' \in [Cid -> [SessionId -> Status \cup {"unknown"}]]
      BY <1>20 DEF UsersUpdate, TypeOK, UserTypeOK, SessionTypeOK
    <3>3. QED
      BY <3>1, <3>2 DEF UserTypeOK
  <2>4. QED
    BY <1>20, <2>2, <2>3 DEF UsersUpdate, TypeOK
<1>21. ASSUME NEW c \in Cid, UsersDetachPending(c) PROVE TypeOK'
  <2>1. ConnTypeOK'
    BY <1>21 DEF UsersDetachPending, TypeOK, ConnTypeOK
  <2>2. QED
    BY <1>21, <2>1 DEF UsersDetachPending, TypeOK
<1>22. ASSUME NEW c \in Cid, UsersDetachLive(c) PROVE TypeOK'
  <2>1. ConnTypeOK'
    BY <1>22 DEF UsersDetachLive, TypeOK, ConnTypeOK
  <2>2. SessionTypeOK'
    BY <1>22 DEF UsersDetachLive, TypeOK, SessionTypeOK
  <2>3. UserTypeOK'
    BY <1>22 DEF UsersDetachLive, TypeOK, UserTypeOK
  <2>4. QED
    BY <1>22, <2>1, <2>2, <2>3 DEF UsersDetachLive, TypeOK
<1>23. CASE UNCHANGED vars
  BY <1>23 DEF vars, TypeOK
<1>24. QED
  BY <1>1, <1>2, <1>3, <1>4, <1>5, <1>6, <1>7, <1>8, <1>9, <1>10, <1>11,
     <1>12, <1>13, <1>14, <1>15, <1>16, <1>17, <1>18, <1>19, <1>20, <1>21,
     <1>22, <1>23, Outcomes
     DEF Next, ConnectionStep, BackendStep

\* In every behaviour every variable keeps to its type (Pool::TypeOK).
THEOREM TypeCorrect == Spec => []TypeOK
<1>1. QED
  BY TypeInit, TypeStep, PTL DEF Spec

---------------------------------------------------------------------------
(***************************************************************************)
(* Subscriptions.  The three invariants are proved together: a publication *)
(* reaches the right place because the maps agree, and the maps agree      *)
(* because nothing but a dropped connection breaks them.                   *)
(***************************************************************************)

SyncInv ==
    /\ TypeOK
    /\ TopicsInSync
    /\ PanicsExplained
    /\ DeliveredInOrder

\* A new connection has nothing subscribed, buffered or sent.
FreshEmpty ==
    \A c \in Cid : phase[c] = "fresh" =>
        ctopics[c] = {} /\ buffer[c] = <<>> /\ sent[c] = <<>> /\ due[c] = <<>>

syncVars == <<panic, handler, phase, ctopics, topicVars>>

\* Pool::new establishes the synchronisation invariant.
LEMMA SyncInit == Init => SyncInv /\ FreshEmpty
  BY TypeInit DEF Init, SyncInv, FreshEmpty, TopicsInSync, PanicsExplained,
     alive, DeliveredInOrder, Pending, Live

\* The handlers that never touch a subscription.
LEMMA SyncUnchanged ==
    ASSUME SyncInv, FreshEmpty, UNCHANGED syncVars, TypeOK'
    PROVE  SyncInv' /\ FreshEmpty'
  BY DEF SyncInv, FreshEmpty, syncVars, topicVars, TopicsInSync,
     PanicsExplained, alive, DeliveredInOrder, Pending, Live

\* A failing expect() has one of the reasons PanicsExplained names.
LEMMA SyncPanic ==
    ASSUME SyncInv, FreshEmpty, TypeOK', NEW msg \in PanicMessage, Panic(msg),
           \/ msg = "valid connection" /\
                    \E c \in Cid : phase[c] \in {"dropped", "stranger"}
           \/ msg \in {"pending conns and topics are in sync",
                       "subscriptions out of sync"} /\
                    \E c \in Cid : phase[c] = "dropped"
           \/ msg = "can't send pool message" /\ ~ handler
    PROVE  SyncInv' /\ FreshEmpty'
  BY DEF Panic, SyncInv, FreshEmpty, connVars, topicVars, TopicsInSync,
     PanicsExplained, DeliveredInOrder, Pending, Live

\* topics and the connection maps disagree only about dropped connections.
LEMMA OutOfSyncIsDropped ==
    ASSUME SyncInv, NEW t \in Topic, NEW c \in Cid,
           topics[t][c] # "none", ~ InSync(c, t)
    PROVE  phase[c] = "dropped"
  BY DEF SyncInv, TypeOK, ConnTypeOK, Phase, TopicsInSync, InSync, Pending,
     Live

\* Losing a connection, by Disconnect or by the early return of associate,
\* keeps the synchronisation invariant.
LEMMA SyncForget ==
    ASSUME SyncInv, FreshEmpty, TypeOK', NEW c \in Cid, panic' = panic, alive,
           Pending(c) \/ Live(c),
           \/ ForgetConnection(c, "gone") /\ topics' = UnsubscribeAll(c)
           \/ /\ Pending(c) /\ ForgetConnection(c, "dropped")
              /\ topics' = topics
    PROVE  SyncInv' /\ FreshEmpty'
<1>1. TopicsInSync'
  <2> SUFFICES ASSUME NEW t \in Topic, NEW d \in Cid
               PROVE  (/\ Pending(d) => topics[t][d] =
                            (IF t \in ctopics[d] THEN "pending" ELSE "none")
                       /\ Live(d) => topics[t][d] =
                            (IF t \in ctopics[d] THEN "session" ELSE "none")
                       /\ phase[d] = "dropped" => topics[t][d] # "session"
                       /\ phase[d] \in {"fresh", "stranger", "gone"} =>
                            topics[t][d] = "none")'
    BY DEF TopicsInSync
  <2>1. CASE d = c
    BY <2>1 DEF SyncInv, TypeOK, ConnTypeOK, TopicTypeOK, TopicsInSync,
       ForgetConnection, UnsubscribeAll, Pending, Live
  <2>2. CASE d # c
    <3>1. phase'[d] = phase[d] /\ ctopics'[d] = ctopics[d]
      BY <2>2 DEF SyncInv, TypeOK, ConnTypeOK, ForgetConnection
    <3>2. topics'[t][d] = topics[t][d]
      BY <2>2 DEF SyncInv, TypeOK, TopicTypeOK, UnsubscribeAll
    <3>3. QED
      BY <3>1, <3>2 DEF SyncInv, TopicsInSync, Pending, Live
  <2>3. QED
    BY <2>1, <2>2
<1>2. PanicsExplained'
  BY DEF PanicsExplained, alive
<1>3. DeliveredInOrder' /\ FreshEmpty'
  <2>1. phase'[c] \notin {"fresh", "pending", "live"}
    BY DEF SyncInv, TypeOK, ConnTypeOK, ForgetConnection
  <2>2. ASSUME NEW d \in Cid, d # c
        PROVE  /\ phase'[d] = phase[d] /\ ctopics'[d] = ctopics[d]
               /\ buffer'[d] = buffer[d] /\ sent'[d] = sent[d]
               /\ due'[d] = due[d]
    BY <2>2 DEF SyncInv, TypeOK, ConnTypeOK, TopicTypeOK, ForgetConnection
  <2>3. QED
    BY <2>1, <2>2 DEF SyncInv, FreshEmpty, DeliveredInOrder, Pending, Live
<1>4. QED
  BY <1>1, <1>2, <1>3 DEF SyncInv

\* Every handler of the pool keeps the synchronisation invariant.
LEMMA SyncStep == SyncInv /\ FreshEmpty /\ [Next]_vars => SyncInv' /\ FreshEmpty'
<1> SUFFICES ASSUME SyncInv, FreshEmpty, [Next]_vars
             PROVE  SyncInv' /\ FreshEmpty'
  OBVIOUS
<1>0. TypeOK /\ TypeOK'
  BY TypeStep DEF SyncInv
<1>1. ASSUME NEW c \in Cid, NewConnection(c) PROVE SyncInv' /\ FreshEmpty'
  <2>1. /\ alive /\ phase[c] = "fresh" /\ UNCHANGED <<panic, handler, ctopics>>
        /\ UNCHANGED <<topics, buffer, sent, due, published>>
        /\ phase' = [phase EXCEPT ![c] = "pending"]
    BY <1>1 DEF NewConnection, topicVars
  <2>2. ctopics[c] = {} /\ buffer[c] = <<>> /\ sent[c] = <<>> /\ due[c] = <<>>
    BY <2>1 DEF FreshEmpty
  <2>3. /\ phase'[c] = "pending"
        /\ \A d \in Cid \ {c} : phase'[d] = phase[d]
    BY <1>0, <2>1 DEF TypeOK, ConnTypeOK
  <2>4. TopicsInSync'
    BY <2>1, <2>2, <2>3 DEF SyncInv, TopicsInSync, Pending, Live
  <2>5. DeliveredInOrder' /\ FreshEmpty'
    BY <2>1, <2>2, <2>3 DEF SyncInv, DeliveredInOrder, FreshEmpty, Pending,
       Live
  <2>6. QED
    BY <1>0, <2>1, <2>4, <2>5 DEF SyncInv, PanicsExplained, alive
<1>2. ASSUME NEW c \in Cid, AssociateDropped(c) PROVE SyncInv' /\ FreshEmpty'
  BY <1>0, <1>2, SyncForget DEF AssociateDropped
<1>3. ASSUME NEW c \in Cid, NEW s \in SessionId,
             NEW age \in 0 .. NewConnTimeout + 1, AssociateConnected(c, s, age)
      PROVE  SyncInv' /\ FreshEmpty'
  <2>0. TopicsConsistent(c)
    BY <1>0, <1>3 DEF AssociateConnected, TopicsConsistent, SyncInv, TypeOK,
       ConnTypeOK, TopicsInSync
  <2>1. /\ alive /\ Pending(c) /\ UNCHANGED <<panic, handler, ctopics, due>>
        /\ sent' = [sent EXCEPT ![c] = Flushed(c)]
        /\ buffer' = [buffer EXCEPT ![c] = <<>>]
        /\ phase' = [phase EXCEPT ![c] = "live"]
        /\ topics' = Promoted(c)
    BY <1>3, <2>0 DEF AssociateConnected, Join
  <2>2. phase'[c] = "live" /\ buffer'[c] = <<>> /\ sent'[c] = due'[c]
    <3>1. Flushed(c) = due[c]
      BY <1>0, <2>1, ConcatEmptySeq DEF Flushed, SyncInv, DeliveredInOrder,
         TypeOK, TopicTypeOK
    <3>2. QED
      BY <1>0, <2>1, <3>1 DEF TypeOK, ConnTypeOK, TopicTypeOK
  <2>3. ASSUME NEW d \in Cid, d # c
        PROVE  /\ phase'[d] = phase[d] /\ buffer'[d] = buffer[d]
               /\ sent'[d] = sent[d]
               /\ \A t \in Topic : topics'[t][d] = topics[t][d]
    BY <1>0, <2>1, <2>3 DEF TypeOK, ConnTypeOK, TopicTypeOK, Promoted
  <2>4. \A t \in Topic : topics'[t][c] =
            (IF t \in ctopics[c] THEN "session" ELSE "none")
    BY <1>0, <2>1 DEF Promoted, TypeOK, TopicTypeOK, SyncInv, TopicsInSync
  <2>5. TopicsInSync'
    BY <2>1, <2>2, <2>3, <2>4 DEF SyncInv, TopicsInSync, Pending, Live
  <2>6. DeliveredInOrder' /\ FreshEmpty'
    BY <2>1, <2>2, <2>3 DEF SyncInv, DeliveredInOrder, FreshEmpty, Pending,
       Live
  <2>7. QED
    BY <1>0, <2>1, <2>5, <2>6 DEF SyncInv, PanicsExplained, alive
<1>4. ASSUME NEW c \in Cid,
             \/ DisconnectPending(c) \/ DisconnectActive(c)
             \/ DisconnectInactive(c)
      PROVE  SyncInv' /\ FreshEmpty'
  BY <1>0, <1>4, SyncForget DEF DisconnectPending, DisconnectActive,
     DisconnectInactive
<1>5. ASSUME NEW c \in Cid, DisconnectUnknown(c) PROVE SyncInv' /\ FreshEmpty'
  BY <1>0, <1>5, SyncPanic DEF DisconnectUnknown, PanicMessage
<1>6. ASSUME NEW c \in Cid, NEW t \in Topic, Subscribe(c, t)
      PROVE  SyncInv' /\ FreshEmpty'
  <2>1. /\ alive
        /\ Pending(c) \/ Live(c)
        /\ UNCHANGED <<panic, handler, phase, buffer, sent, due>>
        /\ ctopics' = [ctopics EXCEPT ![c] = @ \cup {t}]
        /\ topics' = [topics EXCEPT ![t][c] =
                            IF Live(c) THEN "session" ELSE "pending"]
    BY <1>6 DEF Subscribe
  <2>2. ASSUME NEW u \in Topic, NEW d \in Cid, <<u, d>> # <<t, c>>
        PROVE  topics'[u][d] = topics[u][d] /\ (u \in ctopics'[d] <=> u \in ctopics[d])
    BY <1>0, <2>1, <2>2 DEF TypeOK, ConnTypeOK, TopicTypeOK
  <2>3. /\ topics'[t][c] = (IF Live(c) THEN "session" ELSE "pending")
        /\ t \in ctopics'[c]
    BY <1>0, <2>1 DEF TypeOK, ConnTypeOK, TopicTypeOK
  <2>4. TopicsInSync'
    BY <2>1, <2>2, <2>3 DEF SyncInv, TopicsInSync, Pending, Live
  <2>5. \A d \in Cid : phase[d] = "fresh" => ctopics'[d] = ctopics[d]
    BY <1>0, <2>1 DEF TypeOK, ConnTypeOK, Pending, Live
  <2>6. DeliveredInOrder' /\ FreshEmpty'
    BY <2>1, <2>5 DEF SyncInv, DeliveredInOrder, FreshEmpty, Pending, Live
  <2>7. QED
    BY <1>0, <2>1, <2>4, <2>6 DEF SyncInv, PanicsExplained, alive
<1>7. ASSUME NEW c \in Cid, NEW t \in Topic, Unsubscribe(c, t)
      PROVE  SyncInv' /\ FreshEmpty'
  <2>1. CASE ~ InSync(c, t)
    BY <1>0, <1>7, <2>1, OutOfSyncIsDropped, SyncPanic DEF Unsubscribe, PanicMessage
  <2>2. CASE InSync(c, t)
    <3>1. /\ alive /\ UNCHANGED <<panic, handler, phase, buffer, sent, due>>
          /\ ctopics' = [ctopics EXCEPT ![c] = @ \ {t}]
          /\ topics' = [topics EXCEPT ![t][c] = "none"]
      BY <1>7, <2>2 DEF Unsubscribe
    <3>2. ASSUME NEW u \in Topic, NEW d \in Cid, <<u, d>> # <<t, c>>
          PROVE  topics'[u][d] = topics[u][d]
                 /\ (u \in ctopics'[d] <=> u \in ctopics[d])
      BY <1>0, <3>1, <3>2 DEF TypeOK, ConnTypeOK, TopicTypeOK
    <3>3. topics'[t][c] = "none" /\ t \notin ctopics'[c]
      BY <1>0, <3>1 DEF TypeOK, ConnTypeOK, TopicTypeOK
    <3>4. TopicsInSync'
      BY <3>1, <3>2, <3>3 DEF SyncInv, TopicsInSync, Pending, Live
    <3>5. \A d \in Cid : phase[d] = "fresh" => ctopics'[d] = ctopics[d]
      BY <1>0, <2>2, <3>1 DEF InSync, TypeOK, ConnTypeOK, Pending, Live
    <3>6. DeliveredInOrder' /\ FreshEmpty'
      BY <3>1, <3>5 DEF SyncInv, DeliveredInOrder, FreshEmpty, Pending, Live
    <3>7. QED
      BY <1>0, <3>1, <3>4, <3>6 DEF SyncInv, PanicsExplained, alive
  <2>3. QED
    BY <2>1, <2>2
<1>8. ASSUME NEW t \in Topic, Publish(t) PROVE SyncInv' /\ FreshEmpty'
  <2> DEFINE msg == <<t, published + 1>>
  <2>1. CASE \E c \in Cid : topics[t][c] # "none" /\ ~ InSync(c, t)
    BY <1>0, <1>8, <2>1, OutOfSyncIsDropped, SyncPanic DEF Publish, PanicMessage
  <2>2. CASE ~ \E c \in Cid : topics[t][c] # "none" /\ ~ InSync(c, t)
    <3>1. /\ alive /\ UNCHANGED <<panic, handler, phase, ctopics, topics>>
          /\ buffer' = [c \in Cid |->
                IF topics[t][c] = "pending" THEN Append(buffer[c], msg)
                                            ELSE buffer[c]]
          /\ sent' = [c \in Cid |->
                IF topics[t][c] = "session" THEN Append(sent[c], msg)
                                            ELSE sent[c]]
          /\ due' = [c \in Cid |->
                IF (Pending(c) \/ Live(c)) /\ t \in ctopics[c]
                THEN Append(due[c], msg) ELSE due[c]]
      BY <1>8, <2>2 DEF Publish, connVars
    <3> HIDE DEF msg
    <3>2. TopicsInSync'
      BY <3>1 DEF SyncInv, TopicsInSync, Pending, Live
    <3>3. DeliveredInOrder' /\ FreshEmpty'
      BY <1>0, <3>1 DEF SyncInv, TopicsInSync, DeliveredInOrder, FreshEmpty,
         Pending, Live
    <3>4. QED
      BY <1>0, <3>1, <3>2, <3>3 DEF SyncInv, PanicsExplained, alive
  <2>3. QED
    BY <2>1, <2>2
<1>14. ASSUME Cleanup PROVE SyncInv' /\ FreshEmpty'
  <2>1. CASE Expire
    <3>1. UNCHANGED syncVars
      BY <2>1 DEF Expire, syncVars, connVars
    <3>2. QED
      BY <1>0, <3>1, SyncUnchanged
  <2>2. CASE ~ handler /\ Panic("can't send pool message")
    BY <1>0, <2>2, SyncPanic DEF PanicMessage
  <2>3. QED
    BY <1>14, <2>1, <2>2 DEF Cleanup
<1>15. ASSUME HandlerExits PROVE SyncInv' /\ FreshEmpty'
  BY <1>0, <1>15 DEF HandlerExits, SyncInv, FreshEmpty, connVars, topicVars,
     TopicsInSync, PanicsExplained, alive, DeliveredInOrder, Pending, Live
<1>9. ASSUME \/ Tick
             \/ \E s \in SessionId, ticks \in -1 .. MaxIdle :
                    UpdateActivity(s, ticks)
             \/ \E s \in SessionId, users \in UserLists : UsersUpdate(s, users)
             \/ \E n \in Namespace, delta \in Deltas : LatticeUpdate(n, delta)
      PROVE  UNCHANGED syncVars
  <2>1. Tick => UNCHANGED syncVars
    BY DEF Tick, syncVars, connVars
  <2>2. ASSUME NEW s \in SessionId, NEW ticks \in -1 .. MaxIdle,
               UpdateActivity(s, ticks)
        PROVE  UNCHANGED syncVars
    BY <2>2 DEF UpdateActivity, syncVars, connVars
  <2>3. ASSUME NEW s \in SessionId, NEW users \in UserLists,
               UsersUpdate(s, users)
        PROVE  UNCHANGED syncVars
    BY <2>3 DEF UsersUpdate, syncVars, connVars
  <2>4. ASSUME NEW n \in Namespace, NEW delta \in Deltas,
               LatticeUpdate(n, delta)
        PROVE  UNCHANGED syncVars
    BY <2>4 DEF LatticeUpdate, syncVars, connVars
  <2>5. QED
    BY <1>9, <2>1, <2>2, <2>3, <2>4
<1>10. ASSUME NEW c \in Cid,
              \/ \E n \in Namespace : \/ AttachPending(c, n) \/ AttachLive(c, n)
                                      \/ DetachPending(c, n) \/ DetachLive(c, n)
              \/ \E users \in UserLists : \/ UsersAttachPending(c, users)
                                          \/ UsersAttachLive(c, users)
              \/ UsersDetachPending(c) \/ UsersDetachLive(c)
       PROVE  UNCHANGED syncVars
  <2>1. ASSUME NEW n \in Namespace, AttachPending(c, n) \/ AttachLive(c, n)
        PROVE  UNCHANGED syncVars
    BY <2>1 DEF AttachPending, AttachLive, syncVars
  <2>2. ASSUME NEW n \in Namespace, DetachPending(c, n) \/ DetachLive(c, n)
        PROVE  UNCHANGED syncVars
    BY <2>2 DEF DetachPending, DetachLive, syncVars
  <2>3. ASSUME NEW users \in UserLists,
               UsersAttachPending(c, users) \/ UsersAttachLive(c, users)
        PROVE  UNCHANGED syncVars
    BY <2>3 DEF UsersAttachPending, UsersAttachLive, syncVars, connVars
  <2>4. UsersDetachPending(c) \/ UsersDetachLive(c) => UNCHANGED syncVars
    BY DEF UsersDetachPending, UsersDetachLive, syncVars
  <2>5. QED
    BY <1>10, <2>1, <2>2, <2>3, <2>4
<1>11. CASE UNCHANGED vars
  BY <1>0, <1>11, SyncUnchanged DEF vars, syncVars, connVars
<1>12. CASE UNCHANGED syncVars
  BY <1>0, <1>12, SyncUnchanged
<1>13. QED
  BY <1>1, <1>2, <1>3, <1>4, <1>5, <1>6, <1>7, <1>8, <1>9, <1>10, <1>11,
     <1>12, <1>14, <1>15 DEF Next, ConnectionStep, BackendStep

\* The synchronisation invariant holds in every state of the pool.
LEMMA SyncCorrect == Spec => []SyncInv
<1>1. Init => SyncInv /\ FreshEmpty
  BY SyncInit
<1>2. SyncInv /\ FreshEmpty /\ [Next]_vars => (SyncInv /\ FreshEmpty)'
  BY SyncStep
<1>3. QED
  BY <1>1, <1>2, PTL DEF Spec

\* In every behaviour `topics` and the connections agree about who is
\* subscribed to what, whatever order NewConnection, Associate, Disconnect,
\* Subscribe and Unsubscribe come in.
THEOREM SubscriptionsStayInSync == Spec => []TopicsInSync
<1>1. SyncInv => TopicsInSync
  BY DEF SyncInv
<1>2. QED
  BY <1>1, SyncCorrect, PTL

\* In every behaviour an expect() of the pool fails only after associate()
\* dropped a connection, for a connection another pool was told of, or when
\* the inactivity handler is gone; the one in associate() never does.
THEOREM PanicsHaveReasons == Spec => []PanicsExplained
<1>1. SyncInv => PanicsExplained
  BY DEF SyncInv
<1>2. QED
  BY <1>1, SyncCorrect, PTL

\* Subscribers get every publication once and in order, buffered or not.
THEOREM PublicationsDelivered == Spec => []DeliveredInOrder
<1>1. SyncInv => DeliveredInOrder
  BY DEF SyncInv
<1>2. QED
  BY <1>1, SyncCorrect, PTL

---------------------------------------------------------------------------
(***************************************************************************)
(* Connections and sessions.  SessionsInSync is inductive given the types. *)
(***************************************************************************)

memberVars == <<phase, csession, status, sconns>>

\* The handlers that move no connection and no session.
LEMMA MembersKept ==
    ASSUME SessionsInSync, UNCHANGED memberVars
    PROVE  SessionsInSync'
  BY DEF SessionsInSync, memberVars, Live, Exists

\* Pub/sub, lattices, users lists and time move none of them.
LEMMA MembersUnchanged ==
    /\ Fails \/ HandlerExits \/ Tick => UNCHANGED memberVars
    /\ \A t \in Topic : Publish(t) => UNCHANGED memberVars
    /\ \A c \in Cid, t \in Topic :
            Subscribe(c, t) \/ Unsubscribe(c, t) => UNCHANGED memberVars
    /\ \A c \in Cid, n \in Namespace :
            (\/ AttachPending(c, n) \/ AttachLive(c, n)
             \/ DetachPending(c, n) \/ DetachLive(c, n))
                => UNCHANGED memberVars
    /\ \A n \in Namespace, delta \in Deltas :
            LatticeUpdate(n, delta) => UNCHANGED memberVars
    /\ \A c \in Cid, users \in UserLists :
            UsersAttachPending(c, users) \/ UsersAttachLive(c, users)
                => UNCHANGED memberVars
    /\ \A s \in SessionId, users \in UserLists :
            UsersUpdate(s, users) => UNCHANGED memberVars
    /\ \A c \in Cid : UsersDetachPending(c) \/ UsersDetachLive(c)
                => UNCHANGED memberVars
<1>1. Fails \/ HandlerExits \/ Tick => UNCHANGED memberVars
  BY DEF Fails, Panic, HandlerExits, Tick, memberVars, connVars, sessionVars
<1>2. ASSUME NEW t \in Topic, Publish(t) PROVE UNCHANGED memberVars
  BY <1>1, <1>2 DEF Publish, Fails, PanicMessage, memberVars, connVars, sessionVars
<1>3. ASSUME NEW c \in Cid, NEW t \in Topic, Subscribe(c, t)
      PROVE  UNCHANGED memberVars
  BY <1>3 DEF Subscribe, memberVars, sessionVars
<1>4. ASSUME NEW c \in Cid, NEW t \in Topic, Unsubscribe(c, t)
      PROVE  UNCHANGED memberVars
  BY <1>1, <1>4 DEF Unsubscribe, Fails, PanicMessage, memberVars, sessionVars
<1>5. ASSUME NEW c \in Cid, NEW n \in Namespace,
             AttachPending(c, n) \/ AttachLive(c, n)
      PROVE  UNCHANGED memberVars
  BY <1>5 DEF AttachPending, AttachLive, memberVars, sessionVars
<1>6. ASSUME NEW c \in Cid, NEW n \in Namespace,
             DetachPending(c, n) \/ DetachLive(c, n)
      PROVE  UNCHANGED memberVars
  BY <1>6 DEF DetachPending, DetachLive, memberVars, sessionVars
<1>7. ASSUME NEW n \in Namespace, NEW delta \in Deltas,
             LatticeUpdate(n, delta)
      PROVE  UNCHANGED memberVars
  BY <1>7 DEF LatticeUpdate, memberVars, connVars, sessionVars
<1>8. ASSUME NEW c \in Cid, NEW users \in UserLists,
             UsersAttachPending(c, users) \/ UsersAttachLive(c, users)
      PROVE  UNCHANGED memberVars
  BY <1>8 DEF UsersAttachPending, UsersAttachLive, memberVars, connVars,
     sessionVars
<1>9. ASSUME NEW s \in SessionId, NEW users \in UserLists,
             UsersUpdate(s, users)
      PROVE  UNCHANGED memberVars
  BY <1>9 DEF UsersUpdate, memberVars, connVars, sessionVars
<1>10. ASSUME NEW c \in Cid, UsersDetachPending(c) \/ UsersDetachLive(c)
       PROVE  UNCHANGED memberVars
  BY <1>10 DEF UsersDetachPending, UsersDetachLive, memberVars, sessionVars
<1>11. QED
  BY <1>1, <1>2, <1>3, <1>4, <1>5, <1>6, <1>7, <1>8, <1>9, <1>10

\* What remains of the maps when a connection goes.
LEMMA ConnectionForgotten ==
    ASSUME TypeOK, NEW c \in Cid, NEW p \in {"dropped", "gone"},
           ForgetConnection(c, p)
    PROVE  /\ phase'[c] = p
           /\ \A d \in Cid \ {c} :
                phase'[d] = phase[d] /\ csession'[d] = csession[d]
  BY DEF ForgetConnection, TypeOK, ConnTypeOK

\* Pool::new has neither connections nor sessions.
LEMMA SessionsInit == Init => SessionsInSync
  BY DEF Init, SessionsInSync, Live

\* Every handler keeps connections and sessions in sync.
LEMMA SessionsStep == TypeOK /\ SessionsInSync /\ [Next]_vars => SessionsInSync'
<1> SUFFICES ASSUME TypeOK, SessionsInSync, [Next]_vars
             PROVE  SessionsInSync'
  OBVIOUS
<1>0. TypeOK'
  BY TypeStep
<1>1. ASSUME NEW c \in Cid, NewConnection(c) PROVE SessionsInSync'
  <2>1. /\ phase[c] = "fresh" /\ phase' = [phase EXCEPT ![c] = "pending"]
        /\ UNCHANGED <<csession, status, sconns>>
    BY <1>1 DEF NewConnection, sessionVars
  <2>2. QED
    BY <2>1 DEF SessionsInSync, Live, Exists, TypeOK, ConnTypeOK,
       SessionTypeOK
<1>2. ASSUME NEW c \in Cid,
             AssociateDropped(c) \/ DisconnectPending(c)
      PROVE  SessionsInSync'
  <2>1. phase[c] = "pending" /\ UNCHANGED <<status, sconns>>
    BY <1>2 DEF AssociateDropped, DisconnectPending, Pending, sessionVars
  <2>2. /\ phase'[c] # "live"
        /\ \A d \in Cid \ {c} :
                phase'[d] = phase[d] /\ csession'[d] = csession[d]
    <3>1. PICK p \in {"dropped", "gone"} : ForgetConnection(c, p)
      BY <1>2 DEF AssociateDropped, DisconnectPending
    <3>2. QED
      BY <3>1, ConnectionForgotten
  <2>3. \A s \in SessionId : c \notin sconns[s] /\ sconns[s] \in SUBSET Cid
    BY <2>1 DEF SessionsInSync, Live, TypeOK, SessionTypeOK
  <2>4. QED
    BY <2>1, <2>2, <2>3 DEF SessionsInSync, Live, Exists
<1>3. ASSUME NEW c \in Cid, NEW s \in SessionId,
             NEW age \in 0 .. NewConnTimeout + 1, Joined(c, s, age)
      PROVE  SessionsInSync'
  <2>1. /\ phase[c] = "pending"
        /\ phase' = [phase EXCEPT ![c] = "live"]
        /\ csession' = [csession EXCEPT ![c] = s]
        /\ status' = [status EXCEPT ![s] = "active"]
        /\ sconns' = [sconns EXCEPT ![s] = @ \cup {c}]
    BY <1>3 DEF Joined, Join, Pending
  <2>2. /\ phase'[c] = "live" /\ csession'[c] = s
        /\ status'[s] = "active" /\ sconns'[s] = sconns[s] \cup {c}
    BY <2>1 DEF TypeOK, ConnTypeOK, SessionTypeOK
  <2>3. /\ \A d \in Cid \ {c} :
                phase'[d] = phase[d] /\ csession'[d] = csession[d]
        /\ \A x \in SessionId \ {s} :
                status'[x] = status[x] /\ sconns'[x] = sconns[x]
    BY <2>1 DEF TypeOK, ConnTypeOK, SessionTypeOK
  <2>4. QED
    BY <2>1, <2>2, <2>3 DEF SessionsInSync, Live, Exists, TypeOK, SessionTypeOK
<1>4. ASSUME NEW s \in SessionId, NEW ticks \in -1 .. MaxIdle,
             UpdateActivity(s, ticks)
      PROVE  SessionsInSync'
  <2>1. /\ status' = [status EXCEPT ![s] = "active"]
        /\ UNCHANGED <<phase, csession, sconns>>
    BY <1>4 DEF UpdateActivity, connVars
  <2>2. QED
    BY <2>1 DEF SessionsInSync, Live, Exists, TypeOK, SessionTypeOK
<1>5. ASSUME NEW c \in Cid, DisconnectActive(c) PROVE SessionsInSync'
  <2> DEFINE s == csession[c]
  <2>1. /\ Live(c) /\ status[s] # "inactive" /\ UNCHANGED status
        /\ ForgetConnection(c, "gone")
        /\ sconns' = [sconns EXCEPT ![s] = @ \ {c}]
    BY <1>5 DEF DisconnectActive
  <2>2. /\ phase'[c] # "live"
        /\ \A d \in Cid \ {c} :
                phase'[d] = phase[d] /\ csession'[d] = csession[d]
    BY <2>1, ConnectionForgotten
  <2>3. s \in SessionId
    BY <2>1 DEF SessionsInSync
  <2>4. /\ sconns'[s] = sconns[s] \ {c}
        /\ \A x \in SessionId \ {s} : sconns'[x] = sconns[x]
    BY <2>1, <2>3 DEF TypeOK, SessionTypeOK
  <2> HIDE DEF s
  <2>5. \A d \in Cid : Live(d)' => d # c /\ Live(d) /\ csession'[d] = csession[d]
    BY <2>2 DEF Live
  <2>6. ASSUME NEW d \in Cid, Live(d)'
        PROVE  /\ csession'[d] \in SessionId
               /\ status'[csession'[d]] # "offline"
               /\ d \in sconns'[csession'[d]]
    BY <2>1, <2>3, <2>4, <2>5, <2>6 DEF SessionsInSync, Exists
  <2>7. ASSUME NEW x \in SessionId
        PROVE  /\ \A d \in sconns'[x] : Live(d)' /\ csession'[d] = x
               /\ status'[x] = "inactive" => sconns'[x] # {}
    <3>1. sconns'[x] \subseteq sconns[x] /\ c \notin sconns'[x]
      BY <2>1, <2>3, <2>4 DEF SessionsInSync, s
    <3>2. sconns[x] \in SUBSET Cid
      BY DEF TypeOK, SessionTypeOK
    <3>3. \A d \in sconns'[x] : Live(d)' /\ csession'[d] = x
      BY <2>2, <3>1, <3>2 DEF SessionsInSync, Live
    <3>4. status'[x] = "inactive" => sconns'[x] # {}
      BY <2>1, <2>3, <2>4 DEF SessionsInSync
    <3>5. QED
      BY <3>3, <3>4
  <2>8. QED
    BY <2>6, <2>7 DEF SessionsInSync, Exists
<1>6. ASSUME NEW c \in Cid, DisconnectInactive(c) PROVE SessionsInSync'
  <2> DEFINE s == csession[c]
  <2>1. /\ Live(c) /\ status[s] = "inactive"
        /\ ForgetConnection(c, "gone")
        /\ sconns' = [sconns EXCEPT ![s] = @ \ {c}]
        /\ sconns[s] # {c} => UNCHANGED status
        /\ sconns[s] = {c} => status' = [status EXCEPT ![s] = "offline"]
    BY <1>6 DEF DisconnectInactive
  <2>2. /\ phase'[c] # "live"
        /\ \A d \in Cid \ {c} :
                phase'[d] = phase[d] /\ csession'[d] = csession[d]
    BY <2>1, ConnectionForgotten
  <2>3. s \in SessionId
    BY <2>1 DEF SessionsInSync
  <2>4. /\ sconns'[s] = sconns[s] \ {c}
        /\ \A x \in SessionId \ {s} :
                sconns'[x] = sconns[x] /\ status'[x] = status[x]
        /\ sconns[s] = {c} => status'[s] = "offline"
        /\ sconns[s] # {c} => status'[s] = "inactive"
    BY <2>1, <2>3 DEF TypeOK, SessionTypeOK
  <2> HIDE DEF s
  <2>5. c \in sconns[s]
    BY <2>1 DEF SessionsInSync, s
  <2>6. \A d \in Cid : Live(d)' => d # c /\ Live(d) /\ csession'[d] = csession[d]
    BY <2>2 DEF Live
  <2>7. ASSUME NEW d \in Cid, Live(d)'
        PROVE  /\ csession'[d] \in SessionId
               /\ status'[csession'[d]] # "offline"
               /\ d \in sconns'[csession'[d]]
    BY <2>3, <2>4, <2>6, <2>7 DEF SessionsInSync, Exists
  <2>8. ASSUME NEW x \in SessionId
        PROVE  /\ \A d \in sconns'[x] : Live(d)' /\ csession'[d] = x
               /\ status'[x] = "inactive" => sconns'[x] # {}
    <3>1. sconns'[x] \subseteq sconns[x] /\ c \notin sconns'[x]
      BY <2>1, <2>3, <2>4 DEF SessionsInSync, s
    <3>2. sconns[x] \in SUBSET Cid
      BY DEF TypeOK, SessionTypeOK
    <3>3. \A d \in sconns'[x] : Live(d)' /\ csession'[d] = x
      BY <2>2, <3>1, <3>2 DEF SessionsInSync, Live
    <3>4. status'[x] = "inactive" => sconns'[x] # {}
      BY <2>3, <2>4, <2>5 DEF SessionsInSync
    <3>5. QED
      BY <3>3, <3>4
  <2>9. QED
    BY <2>7, <2>8 DEF SessionsInSync, Exists
<1>7. ASSUME Expire PROVE SessionsInSync'
  <2>1. /\ UNCHANGED <<phase, csession, sconns>>
        /\ status' = [s \in SessionId |->
                IF s \in Leaving THEN "offline"
                ELSE IF s \in Expired THEN "inactive" ELSE status[s]]
    BY <1>7 DEF Expire, connVars
  <2>2. \A s \in SessionId :
            /\ s \in Leaving => status'[s] = "offline" /\ sconns[s] = {}
            /\ s \in Expired \ Leaving =>
                    status'[s] = "inactive" /\ sconns[s] # {}
            /\ s \notin Expired => status'[s] = status[s]
    BY <2>1 DEF Leaving
  <2>3. QED
    BY <2>1, <2>2 DEF SessionsInSync, Live, Exists
<1>8. CASE UNCHANGED memberVars
  BY <1>8, MembersKept
<1>9. CASE UNCHANGED vars
  BY <1>8, <1>9 DEF vars, memberVars, connVars, sessionVars
<1>10. ASSUME NEW c \in Cid, ConnectionStep(c) PROVE SessionsInSync'
  BY <1>1, <1>2, <1>3, <1>5, <1>6, <1>8, <1>10, MembersUnchanged, Outcomes
     DEF ConnectionStep
<1>11. ASSUME NEW c \in Cid, BackendStep(c) PROVE SessionsInSync'
  <2>1. UNCHANGED memberVars
    BY <1>11, MembersUnchanged DEF BackendStep
  <2>2. QED
    BY <1>8, <2>1
<1>12. QED
  BY <1>4, <1>7, <1>8, <1>9, <1>10, <1>11, MembersUnchanged, Outcomes DEF Next

\* In every behaviour a connection in the connections map is listed by its
\* session, the session is in one of the two maps, and no session without
\* connections is kept among the inactive ones.
THEOREM SessionsStayInSync == Spec => []SessionsInSync
<1>1. Init => TypeOK /\ SessionsInSync
  BY TypeInit, SessionsInit
<1>2. TypeOK /\ SessionsInSync /\ [Next]_vars => (TypeOK /\ SessionsInSync)'
  BY TypeStep, SessionsStep
<1>3. QED
  BY <1>1, <1>2, PTL DEF Spec

---------------------------------------------------------------------------
(***************************************************************************)
(* Sessions leave the active ones only when their time is over.            *)
(***************************************************************************)

ExpiresInTime ==
    \A s \in SessionId : status[s] = "active" /\ status'[s] # "active" =>
            left[s] < 0 /\ s \in reported'

\* Only the clean-up takes a session out of `active`.
LEMMA ExpiryStep == TypeOK /\ [Next]_vars => ExpiresInTime
<1> SUFFICES ASSUME TypeOK, [Next]_vars PROVE ExpiresInTime
  OBVIOUS
<1>1. CASE UNCHANGED status
  BY <1>1 DEF ExpiresInTime
<1>2. ASSUME NEW s \in SessionId, status' = [status EXCEPT ![s] = "active"]
      PROVE  ExpiresInTime
  BY <1>2 DEF ExpiresInTime, TypeOK, SessionTypeOK
<1>3. ASSUME NEW c \in Cid, DisconnectInactive(c) PROVE ExpiresInTime
  <2>1. /\ status[csession[c]] = "inactive"
        /\ \/ UNCHANGED status
           \/ status' = [status EXCEPT ![csession[c]] = "offline"]
    BY <1>3 DEF DisconnectInactive
  <2>2. QED
    BY <2>1 DEF ExpiresInTime, TypeOK, SessionTypeOK
<1>4. ASSUME Expire PROVE ExpiresInTime
  <2>1. /\ status' = [s \in SessionId |->
                IF s \in Leaving THEN "offline"
                ELSE IF s \in Expired THEN "inactive" ELSE status[s]]
        /\ reported' = reported \cup Expired
    BY <1>4 DEF Expire
  <2>2. QED
    BY <2>1 DEF ExpiresInTime, Leaving, Expired
<1>5. ASSUME NEW c \in Cid, ConnectionStep(c) PROVE ExpiresInTime
  <2>1. ASSUME \/ NewConnection(c) \/ AssociateDropped(c)
               \/ DisconnectPending(c) \/ DisconnectActive(c)
               \/ Fails
        PROVE  UNCHANGED status
    BY <2>1 DEF NewConnection, AssociateDropped, DisconnectPending,
       DisconnectActive, Fails, Panic, sessionVars
  <2>2. ASSUME NEW s \in SessionId, NEW age \in 0 .. NewConnTimeout + 1,
               Joined(c, s, age)
        PROVE  ExpiresInTime
    BY <1>2, <2>2 DEF Joined, Join
  <2>3. QED
    BY <1>1, <1>3, <1>5, <2>1, <2>2, Outcomes DEF ConnectionStep
<1>6. ASSUME NEW s \in SessionId, NEW ticks \in -1 .. MaxIdle,
             UpdateActivity(s, ticks)
      PROVE  ExpiresInTime
  BY <1>2, <1>6 DEF UpdateActivity
<1>7. UNCHANGED memberVars => UNCHANGED status
  BY DEF memberVars
<1>8. UNCHANGED vars => UNCHANGED status
  BY DEF vars, sessionVars
<1>9. ASSUME NEW c \in Cid, BackendStep(c) PROVE ExpiresInTime
  <2>1. UNCHANGED memberVars
    BY <1>9, MembersUnchanged DEF BackendStep
  <2>2. QED
    BY <1>1, <1>7, <2>1
<1>10. QED
  BY <1>1, <1>4, <1>5, <1>6, <1>7, <1>8, <1>9, MembersUnchanged, Outcomes
     DEF Next

\* In every behaviour a session stops being active only after its deadline,
\* and InactiveSession is sent to the inactivity handlers in the same step.
THEOREM SessionsExpireInTime == Spec => InactiveOnlyWhenExpired
<1>1. TypeOK /\ [Next]_vars => ExpiresInTime
  BY ExpiryStep
<1>2. Spec => [][ExpiresInTime]_vars
  BY <1>1, TypeCorrect, PTL DEF Spec
<1>3. QED
  BY <1>2 DEF InactiveOnlyWhenExpired, ExpiresInTime

---------------------------------------------------------------------------
(***************************************************************************)
(* Users lists.  StatusShown needs to know how a status reaches a client:  *)
(* a connection that was told anything is in its session's set, and its    *)
(* session is among the listeners of every user it was told of.            *)
(***************************************************************************)

Watch(c) ==
    /\ phase[c] \in {"fresh", "pending"} =>
            \A s \in SessionId : c \notin uconns[s] /\ told[c][s] = "unknown"
    /\ Live(c) =>
        /\ \A s \in SessionId : c \in uconns[s] => s = csession[c]
        /\ \A p \in SessionId : told[c][p] # "unknown" =>
            /\ c \in uconns[csession[c]]
            /\ p # csession[c] =>
                    csession[c] \in listeners[p] /\ told[c][p] = status[p]

WatchInv == \A c \in Cid : Watch(c)

\* A step keeps what connection d knows true if it leaves d and the places of
\* d and of its session alone, and publishes the statuses it changes.
LEMMA WatchPublish ==
    ASSUME TypeOK, SessionsInSync, NEW d \in Cid, Watch(d),
           NEW changed, NEW newStatus, status' = newStatus,
           \A p \in SessionId \ changed : newStatus[p] = status[p],
           phase'[d] = phase[d], csession'[d] = csession[d],
           \A p \in SessionId : told'[d][p] =
                IF p \in changed /\ Hears(d, p) THEN newStatus[p]
                                                ELSE told[d][p],
           \A s \in SessionId : phase[d] \in {"fresh", "pending", "live"} =>
                (d \in uconns'[s] <=> d \in uconns[s]),
           Live(d) /\ d \in uconns[csession[d]] =>
                \A p \in SessionId : csession[d] \in listeners[p] =>
                                        csession[d] \in listeners'[p]
    PROVE  Watch(d)'
<1>1. ASSUME phase[d] \in {"fresh", "pending"} PROVE Watch(d)'
  <2>1. \A p \in SessionId : told'[d][p] = told[d][p]
    BY <1>1 DEF Hears, Live
  <2>2. QED
    BY <1>1, <2>1 DEF Watch, Live
<1>2. ASSUME Live(d) PROVE Watch(d)'
  <2> DEFINE s == csession[d]
  <2>1. s \in SessionId /\ Exists(s)
    BY <1>2 DEF SessionsInSync
  <2>2. \A x \in SessionId : d \in uconns'[x] => x = s
    BY <1>2 DEF Watch, Live
  <2>3. ASSUME NEW p \in SessionId, told'[d][p] # "unknown"
        PROVE  /\ d \in uconns'[s]
               /\ p # s => s \in listeners'[p] /\ told'[d][p] = status'[p]
    <3>1. CASE p \in changed /\ Hears(d, p)
      <4>1. PICK x \in listeners[p] \ {p} : Exists(x) /\ d \in uconns[x]
        BY <3>1 DEF Hears
      <4>2. x \in SessionId
        BY <4>1 DEF TypeOK, UserTypeOK
      <4>3. x = s
        BY <1>2, <4>1, <4>2 DEF Watch
      <4>4. s \in listeners[p] /\ d \in uconns[s]
        BY <4>1, <4>3
      <4>5. QED
        BY <1>2, <2>1, <3>1, <4>4 DEF Live
    <3>2. CASE ~ (p \in changed /\ Hears(d, p))
      <4>1. told'[d][p] = told[d][p]
        BY <3>2
      <4>2. /\ d \in uconns[s]
            /\ p # s => s \in listeners[p] /\ told[d][p] = status[p]
        BY <1>2, <2>3, <4>1 DEF Watch
      <4>3. p # s => p \notin changed
        BY <1>2, <2>1, <3>2, <4>2 DEF Hears
      <4>4. QED
        BY <1>2, <2>1, <4>1, <4>2, <4>3 DEF Live
    <3>3. QED
      BY <3>1, <3>2
  <2>4. QED
    BY <1>2, <2>1, <2>2, <2>3 DEF Watch, Live
<1>3. ASSUME phase[d] \notin {"fresh", "pending", "live"} PROVE Watch(d)'
  BY <1>3 DEF Watch, Live
<1>4. QED
  BY <1>1, <1>2, <1>3 DEF Live

watchVars == <<phase, csession, status, uconns, listeners, told>>

\* The handlers that are not about users, and time, change nothing here.
LEMMA WatchUnchanged ==
    /\ Fails \/ HandlerExits \/ Tick => UNCHANGED watchVars
    /\ \A t \in Topic : Publish(t) => UNCHANGED watchVars
    /\ \A c \in Cid, t \in Topic :
            Subscribe(c, t) \/ Unsubscribe(c, t) => UNCHANGED watchVars
    /\ \A c \in Cid, n \in Namespace :
            (\/ AttachPending(c, n) \/ AttachLive(c, n)
             \/ DetachPending(c, n) \/ DetachLive(c, n))
                => UNCHANGED watchVars
    /\ \A n \in Namespace, delta \in Deltas :
            LatticeUpdate(n, delta) => UNCHANGED watchVars
    /\ \A c \in Cid, users \in UserLists :
            UsersAttachPending(c, users) => UNCHANGED watchVars
    /\ \A c \in Cid : UsersDetachPending(c) => UNCHANGED watchVars
<1>1. Fails \/ HandlerExits \/ Tick => UNCHANGED watchVars
  BY DEF Fails, Panic, HandlerExits, Tick, watchVars, connVars, sessionVars,
     userVars
<1>2. ASSUME NEW t \in Topic, Publish(t) PROVE UNCHANGED watchVars
  BY <1>1, <1>2 DEF Publish, Fails, PanicMessage, watchVars, connVars,
     sessionVars, userVars
<1>3. ASSUME NEW c \in Cid, NEW t \in Topic, Subscribe(c, t)
      PROVE  UNCHANGED watchVars
  BY <1>3 DEF Subscribe, watchVars, sessionVars, userVars
<1>4. ASSUME NEW c \in Cid, NEW t \in Topic, Unsubscribe(c, t)
      PROVE  UNCHANGED watchVars
  BY <1>1, <1>4 DEF Unsubscribe, Fails, PanicMessage, watchVars, sessionVars,
     userVars
<1>5. ASSUME NEW c \in Cid, NEW n \in Namespace,
             AttachPending(c, n) \/ AttachLive(c, n)
      PROVE  UNCHANGED watchVars
  BY <1>5 DEF AttachPending, AttachLive, watchVars, sessionVars, userVars
<1>6. ASSUME NEW c \in Cid, NEW n \in Namespace,
             DetachPending(c, n) \/ DetachLive(c, n)
      PROVE  UNCHANGED watchVars
  BY <1>6 DEF DetachPending, DetachLive, watchVars, sessionVars, userVars
<1>7. ASSUME NEW n \in Namespace, NEW delta \in Deltas,
             LatticeUpdate(n, delta)
      PROVE  UNCHANGED watchVars
  BY <1>7 DEF LatticeUpdate, watchVars, connVars, sessionVars, userVars
<1>8. ASSUME NEW c \in Cid, NEW users \in UserLists,
             UsersAttachPending(c, users)
      PROVE  UNCHANGED watchVars
  BY <1>8 DEF UsersAttachPending, watchVars, sessionVars, userVars
<1>9. ASSUME NEW c \in Cid, UsersDetachPending(c) PROVE UNCHANGED watchVars
  BY <1>9 DEF UsersDetachPending, watchVars, sessionVars, userVars
<1>10. QED
  BY <1>1, <1>2, <1>3, <1>4, <1>5, <1>6, <1>7, <1>8, <1>9

\* Pool::new shows nothing to anybody.
LEMMA WatchInit == Init => WatchInv
  BY DEF Init, WatchInv, Watch, Live

\* Every handler keeps the invariant of the users lists.
LEMMA WatchStep ==
    TypeOK /\ SessionsInSync /\ WatchInv /\ [Next]_vars => WatchInv'
<1> SUFFICES ASSUME TypeOK, SessionsInSync, WatchInv, [Next]_vars,
                    NEW d \in Cid
             PROVE  Watch(d)'
  BY DEF WatchInv
<1>0. TypeOK' /\ SessionsInSync' /\ Watch(d)
  BY TypeStep, SessionsStep DEF WatchInv
<1>1. ASSUME NEW c \in Cid, NewConnection(c) PROVE Watch(d)'
  <2>1. /\ phase[c] = "fresh" /\ phase' = [phase EXCEPT ![c] = "pending"]
        /\ UNCHANGED <<csession, status, uconns, listeners, told>>
    BY <1>1 DEF NewConnection, sessionVars, userVars
  <2>2. QED
    BY <1>0, <2>1 DEF Watch, Live, TypeOK, ConnTypeOK
<1>2. ASSUME NEW c \in Cid, NEW p \in {"dropped", "gone"},
             ForgetConnection(c, p), UNCHANGED <<status, uconns, listeners>>,
             told' = [told EXCEPT ![c] = [x \in SessionId |-> "unknown"]]
      PROVE  Watch(d)'
  <2>1. CASE d = c
    BY <1>2, <2>1, ConnectionForgotten DEF Watch, Live
  <2>2. CASE d # c
    <3>1. /\ phase'[d] = phase[d] /\ csession'[d] = csession[d]
          /\ told'[d] = told[d]
      BY <1>2, <2>2, ConnectionForgotten DEF TypeOK, UserTypeOK
    <3>2. QED
      BY <1>0, <1>2, <3>1 DEF Watch, Live
  <2>3. QED
    BY <2>1, <2>2
<1>3. ASSUME NEW c \in Cid,
             \/ AssociateDropped(c) \/ DisconnectPending(c)
             \/ DisconnectActive(c)
      PROVE  Watch(d)'
  <2>1. PICK p \in {"dropped", "gone"} :
            /\ ForgetConnection(c, p) /\ UNCHANGED <<status, uconns, listeners>>
            /\ told' = [told EXCEPT ![c] = [x \in SessionId |-> "unknown"]]
    BY <1>3 DEF AssociateDropped, DisconnectPending, DisconnectActive,
       sessionVars
  <2>2. QED
    BY <1>2, <2>1
<1>4. ASSUME NEW c \in Cid, NEW s \in SessionId,
             NEW age \in 0 .. NewConnTimeout + 1, Joined(c, s, age)
      PROVE  Watch(d)'
  <2> DEFINE watches == cusers[c] # {}
             allPeers == IF watches THEN peers[s] \cup cusers[c] ELSE peers[s]
             newStatus == [status EXCEPT ![s] = "active"]
             changed == IF status[s] = "active" THEN {} ELSE {s}
  <2>1. /\ phase[c] = "pending"
        /\ phase' = [phase EXCEPT ![c] = "live"]
        /\ csession' = [csession EXCEPT ![c] = s]
        /\ status' = newStatus
        /\ uconns' = [uconns EXCEPT ![s] = IF watches THEN @ \cup {c} ELSE @]
        /\ listeners' = IF watches THEN Listen(s, allPeers) ELSE listeners
        /\ told' = [PublishStatus(changed, newStatus) EXCEPT ![c] =
                [p \in SessionId |-> IF watches /\ p \in allPeers
                                     THEN newStatus[p] ELSE told[c][p]]]
    BY <1>4 DEF Joined, Join, Pending
  <2>2. \A p \in SessionId : /\ listeners[p] \subseteq listeners'[p]
                             /\ watches /\ p \in allPeers => s \in listeners'[p]
    BY <2>1 DEF Listen
  <2>3. \A x \in SessionId : uconns'[x] =
            IF x = s /\ watches THEN uconns[x] \cup {c} ELSE uconns[x]
    BY <2>1 DEF TypeOK, SessionTypeOK
  <2>4. \A p \in SessionId \ changed : newStatus[p] = status[p]
    BY DEF TypeOK, SessionTypeOK
  <2>5. CASE d = c
    <3>1. /\ phase'[d] = "live" /\ csession'[d] = s
          /\ \A p \in SessionId : told'[d][p] =
                IF watches /\ p \in allPeers THEN newStatus[p] ELSE told[d][p]
      BY <2>1, <2>5 DEF PublishStatus, TypeOK, ConnTypeOK
    <3>2. \A x \in SessionId : d \notin uconns[x] /\ told[d][x] = "unknown"
      BY <1>0, <2>1, <2>5 DEF Watch
    <3>3. status' = newStatus
      BY <2>1
    <3> HIDE DEF allPeers, newStatus, watches
    <3>4. \A x \in SessionId : d \in uconns'[x] => x = s
      BY <2>3, <2>5, <3>2
    <3>5. ASSUME NEW p \in SessionId, told'[d][p] # "unknown"
          PROVE  /\ d \in uconns'[s]
                 /\ s \in listeners'[p] /\ told'[d][p] = status'[p]
      <4>1. watches /\ p \in allPeers /\ told'[d][p] = newStatus[p]
        BY <3>1, <3>2, <3>5
      <4>2. QED
        BY <2>2, <2>3, <2>5, <3>3, <4>1
    <3>6. QED
      BY <3>1, <3>4, <3>5 DEF Watch, Live
  <2>6. CASE d # c
    <3>1. phase'[d] = phase[d] /\ csession'[d] = csession[d]
      BY <2>1, <2>6 DEF TypeOK, ConnTypeOK
    <3>2. told'[d] = PublishStatus(changed, newStatus)[d]
      BY <2>1, <2>6 DEF PublishStatus
    <3>3. \A p \in SessionId : told'[d][p] =
                IF p \in changed /\ Hears(d, p) THEN newStatus[p]
                                                ELSE told[d][p]
      BY <3>2 DEF PublishStatus
    <3>4. \A x \in SessionId : d \in uconns'[x] <=> d \in uconns[x]
      BY <2>3, <2>6
    <3>0. status' = newStatus
      BY <2>1
    <3> HIDE DEF newStatus, changed
    <3>5. Live(d) /\ d \in uconns[csession[d]] =>
                \A p \in SessionId : csession[d] \in listeners[p] =>
                                        csession[d] \in listeners'[p]
      BY <2>2
    <3>6. QED
      BY <1>0, <2>4, <3>0, <3>1, <3>3, <3>4, <3>5, WatchPublish
  <2>7. QED
    BY <2>5, <2>6
<1>5. ASSUME NEW s \in SessionId, NEW ticks \in -1 .. MaxIdle,
             UpdateActivity(s, ticks)
      PROVE  Watch(d)'
  <2> DEFINE newStatus == [status EXCEPT ![s] = "active"]
             changed == IF status[s] = "active" THEN {} ELSE {s}
  <2>1. /\ status' = newStatus
        /\ told' = PublishStatus(changed, newStatus)
        /\ UNCHANGED <<phase, csession, uconns, listeners>>
    BY <1>5 DEF UpdateActivity, connVars
  <2>2. \A p \in SessionId \ changed : newStatus[p] = status[p]
    BY DEF TypeOK, SessionTypeOK
  <2> HIDE DEF newStatus, changed
  <2>3. \A p \in SessionId : told'[d][p] =
                IF p \in changed /\ Hears(d, p) THEN newStatus[p]
                                                ELSE told[d][p]
    BY <2>1 DEF PublishStatus
  <2>4. QED
    BY <1>0, <2>1, <2>2, <2>3, WatchPublish
<1>6. ASSUME NEW c \in Cid, DisconnectInactive(c) PROVE Watch(d)'
  <2> DEFINE s == csession[c]
             quits == cflag[c] /\ uconns[s] \ {c} = {}
             newStatus == [status EXCEPT ![s] = "offline"]
  <2>1. /\ Live(c) /\ ForgetConnection(c, "gone") /\ s \in SessionId
        /\ listeners' = IF quits \/ sconns[s] = {c} THEN Unlisten(s, peers[s])
                                                    ELSE listeners
    <3>1. Live(c) /\ ForgetConnection(c, "gone")
      BY <1>6 DEF DisconnectInactive
    <3>2. s \in SessionId
      BY <3>1 DEF SessionsInSync
    <3>3. CASE cflag[c]
      BY <1>6, <3>1, <3>2, <3>3 DEF DisconnectInactive
    <3>4. CASE ~ cflag[c]
      BY <1>6, <3>1, <3>2, <3>4 DEF DisconnectInactive
    <3>5. QED
      BY <3>3, <3>4
  <2>2. CASE d = c
    BY <2>1, <2>2, ConnectionForgotten DEF Watch, Live
  <2>3. CASE d # c
    <3>1. phase'[d] = phase[d] /\ csession'[d] = csession[d]
      BY <2>1, <2>3, ConnectionForgotten
    <3>2. CASE sconns[s] # {c}
      <4>1. /\ UNCHANGED status
            /\ told' = [told EXCEPT ![c] = [p \in SessionId |-> "unknown"]]
            /\ uconns' = [uconns EXCEPT ![s] =
                            IF cflag[c] THEN uconns[s] \ {c} ELSE uconns[s]]
        BY <1>6, <3>2 DEF DisconnectInactive
      <4>2. told'[d] = told[d]
        BY <2>3, <4>1 DEF TypeOK, UserTypeOK
      <4>3. \A x \in SessionId : d \in uconns'[x] <=> d \in uconns[x]
        BY <2>1, <2>3, <4>1 DEF TypeOK, SessionTypeOK
      <4>4. Live(d) /\ d \in uconns[csession[d]] =>
                \A p \in SessionId : csession[d] \in listeners[p] =>
                                        csession[d] \in listeners'[p]
        <5>1. ASSUME Live(d), d \in uconns[csession[d]],
                     NEW p \in SessionId, csession[d] \in listeners[p]
              PROVE  csession[d] \in listeners'[p]
          <6>1. CASE csession[d] = s
            <7>1. ~ quits
              BY <2>3, <5>1, <6>1
            <7>2. QED
              BY <2>1, <3>2, <5>1, <7>1
          <6>2. CASE csession[d] # s
            BY <2>1, <5>1, <6>2 DEF Unlisten
          <6>3. QED
            BY <6>1, <6>2
        <5>2. QED
          BY <5>1
      <4>5. Live(d) => csession[d] \in SessionId
        BY DEF SessionsInSync
      <4>6. QED
        BY <1>0, <3>1, <4>1, <4>2, <4>3, <4>4, <4>5 DEF Watch, Live
    <3>3. CASE sconns[s] = {c}
      <4>1. /\ status' = newStatus /\ DropSessions({s})
            /\ told' = [PublishStatus({s}, newStatus) EXCEPT
                            ![c] = [p \in SessionId |-> "unknown"]]
        BY <1>6, <3>3 DEF DisconnectInactive
      <4>2. \A p \in SessionId \ {s} : newStatus[p] = status[p]
        BY DEF TypeOK, SessionTypeOK
      <4> HIDE DEF newStatus
      <4>3. \A p \in SessionId : told'[d][p] =
                IF p \in {s} /\ Hears(d, p) THEN newStatus[p] ELSE told[d][p]
        BY <2>3, <4>1 DEF PublishStatus
      <4>4. Live(d) => csession[d] # s
        BY <2>3, <3>3 DEF SessionsInSync
      <4>5. \A x \in SessionId : phase[d] \in {"fresh", "pending", "live"} =>
                (d \in uconns'[x] <=> d \in uconns[x])
        BY <1>0, <4>1, <4>4 DEF DropSessions, Watch, Live
      <4>6. Live(d) /\ d \in uconns[csession[d]] =>
                \A p \in SessionId : csession[d] \in listeners[p] =>
                                        csession[d] \in listeners'[p]
        BY <2>1, <4>4 DEF Unlisten
      <4>7. QED
        BY <1>0, <3>1, <4>1, <4>2, <4>3, <4>5, <4>6, WatchPublish
    <3>4. QED
      BY <3>2, <3>3
  <2>4. QED
    BY <2>2, <2>3
<1>7. ASSUME Expire PROVE Watch(d)'
  <2> DEFINE newStatus == [s \in SessionId |->
                IF s \in Leaving THEN "offline"
                ELSE IF s \in Expired THEN "inactive" ELSE status[s]]
  <2>1. /\ status' = newStatus /\ DropSessions(Leaving)
        /\ UNCHANGED <<phase, csession>>
        /\ told' = PublishStatus(Expired, newStatus)
        /\ listeners' = [p \in SessionId |->
                            listeners[p] \ {s \in Leaving : p \in peers[s]}]
    BY <1>7 DEF Expire, connVars
  <2>2. \A p \in SessionId \ Expired : newStatus[p] = status[p]
    BY DEF Leaving
  <2> HIDE DEF newStatus
  <2>3. \A p \in SessionId : told'[d][p] =
                IF p \in Expired /\ Hears(d, p) THEN newStatus[p]
                                                ELSE told[d][p]
    BY <2>1 DEF PublishStatus
  <2>4. Live(d) => csession[d] \notin Leaving
    BY DEF SessionsInSync, Leaving
  <2>5. \A x \in SessionId : phase[d] \in {"fresh", "pending", "live"} =>
                (d \in uconns'[x] <=> d \in uconns[x])
    BY <1>0, <2>1, <2>4 DEF DropSessions, Watch, Live
  <2>6. Live(d) /\ d \in uconns[csession[d]] =>
                \A p \in SessionId : csession[d] \in listeners[p] =>
                                        csession[d] \in listeners'[p]
    BY <2>1, <2>4
  <2>7. QED
    BY <1>0, <2>1, <2>2, <2>3, <2>5, <2>6, WatchPublish
<1>8. ASSUME NEW c \in Cid, NEW users \in UserLists, UsersAttachLive(c, users)
      PROVE  Watch(d)'
  <2> DEFINE s == csession[c]
  <2>1. /\ Live(c) /\ UNCHANGED <<phase, csession, status>>
        /\ uconns' = [uconns EXCEPT ![s] = @ \cup {c}]
        /\ listeners' = Listen(s, users)
        /\ told' = [told EXCEPT ![c] = [p \in SessionId |->
                        IF p \in users THEN status[p] ELSE told[c][p]]]
    BY <1>8 DEF UsersAttachLive, connVars
  <2>2. s \in SessionId
    BY <2>1 DEF SessionsInSync
  <2>3. \A p \in SessionId : /\ listeners[p] \subseteq listeners'[p]
                             /\ p \in users => s \in listeners'[p]
    BY <2>1 DEF Listen
  <2>4. \A x \in SessionId :
            uconns'[x] = IF x = s THEN uconns[x] \cup {c} ELSE uconns[x]
    BY <2>1 DEF TypeOK, SessionTypeOK
  <2>5. \A p \in SessionId : told'[d][p] =
            IF d = c /\ p \in users THEN status[p] ELSE told[d][p]
    BY <2>1 DEF TypeOK, UserTypeOK
  <2>6. QED
    BY <1>0, <2>1, <2>2, <2>3, <2>4, <2>5 DEF Watch, Live
<1>9. ASSUME NEW s \in SessionId, NEW users \in UserLists,
             UsersUpdate(s, users)
      PROVE  Watch(d)'
  <2>1. /\ UNCHANGED <<phase, csession, status, uconns>>
        /\ listeners' = Listen(s, users)
        /\ told' = [c \in Cid |-> [p \in SessionId |->
                        IF Live(c) /\ c \in uconns[s] /\ p \in users
                        THEN status[p] ELSE told[c][p]]]
    BY <1>9 DEF UsersUpdate, connVars
  <2>2. \A p \in SessionId : /\ listeners[p] \subseteq listeners'[p]
                             /\ p \in users => s \in listeners'[p]
    BY <2>1 DEF Listen
  <2>3. \A p \in SessionId : told'[d][p] =
            IF Live(d) /\ d \in uconns[s] /\ p \in users THEN status[p]
                                                         ELSE told[d][p]
    BY <2>1
  <2>4. QED
    BY <1>0, <2>1, <2>2, <2>3 DEF Watch, Live
<1>10. ASSUME NEW c \in Cid, UsersDetachLive(c) PROVE Watch(d)'
  <2> DEFINE s == csession[c]
  <2>1. /\ Live(c) /\ UNCHANGED <<phase, csession, status, listeners>>
        /\ uconns' = [uconns EXCEPT ![s] = @ \ {c}]
        /\ told' = [told EXCEPT ![c] = [p \in SessionId |-> "unknown"]]
    BY <1>10 DEF UsersDetachLive
  <2>2. \A x \in SessionId :
            uconns'[x] = IF x = s THEN uconns[x] \ {c} ELSE uconns[x]
    BY <2>1 DEF TypeOK, SessionTypeOK
  <2>3. \A p \in SessionId :
            told'[d][p] = IF d = c THEN "unknown" ELSE told[d][p]
    BY <2>1 DEF TypeOK, UserTypeOK
  <2>4. QED
    BY <1>0, <2>1, <2>2, <2>3 DEF Watch, Live, TypeOK, ConnTypeOK
<1>11. CASE UNCHANGED watchVars
  BY <1>0, <1>11 DEF watchVars, Watch, Live
<1>12. CASE UNCHANGED vars
  BY <1>11, <1>12 DEF vars, watchVars, connVars, sessionVars, userVars
<1>13. ASSUME NEW c \in Cid, ConnectionStep(c) PROVE Watch(d)'
  BY <1>1, <1>3, <1>4, <1>6, <1>11, <1>13, WatchUnchanged, Outcomes
     DEF ConnectionStep
<1>14. ASSUME NEW c \in Cid, BackendStep(c) PROVE Watch(d)'
  BY <1>8, <1>10, <1>11, <1>14, WatchUnchanged DEF BackendStep
<1>15. QED
  BY <1>5, <1>7, <1>9, <1>11, <1>12, <1>13, <1>14, WatchUnchanged, Outcomes
     DEF Next

\* In every behaviour a client that watches users was last told the status
\* the session maps have now, of every user it was told of: publish_status
\* misses nobody when sessions change maps, lists grow or connections close.
THEOREM StatusesStayCurrent == Spec => []StatusShown
<1> DEFINE Inv == TypeOK /\ SessionsInSync /\ WatchInv
<1>1. Init => Inv
  BY TypeInit, SessionsInit, WatchInit
<1>2. Inv /\ [Next]_vars => Inv'
  BY TypeStep, SessionsStep, WatchStep
<1>3. Inv => StatusShown
  BY DEF WatchInv, Watch, StatusShown
<1>4. QED
  BY <1>1, <1>2, <1>3, PTL DEF Spec

===========================================================================
