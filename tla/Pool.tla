------------------------------- MODULE Pool -------------------------------
(***************************************************************************)
(* One session pool of the chat processor (chat/processor/pool.rs).        *)
(*                                                                         *)
(* The processor thread owns the pool and handles one message at a time,   *)
(* so every handler is one atomic action.  What interleaves are the        *)
(* messages: connection tasks (NewConnection, Associate, UpdateActivity,   *)
(* Disconnect), backend requests (Subscribe .. DetachUsers) and the        *)
(* processor's own clean-up between two batches of messages.               *)
(*                                                                         *)
(* Abstractions.                                                           *)
(*  - Instants are kept relative to now: left[s] is expiry - now.  -1      *)
(*    stands for every instant in the past.                                *)
(*  - The values of a lattice key are one version number: 0 is an entry    *)
(*    without variables, Absent no entry, and merging is the maximum.      *)
(*    Private and shared variables of a key are different variables.       *)
(*  - A handler that returns early without changing anything is a          *)
(*    stuttering step and has no action.                                   *)
(*  - What the channel of a connection carried is kept as what the client  *)
(*    at its other end knows: sent, told, seenPrivate and seenShared.      *)
(***************************************************************************)
EXTENDS Integers, Sequences, FiniteSets

CONSTANTS
    Cid,              \* connection ids; never reused (chat/cid.rs)
    SessionId,        \* user ids, not empty (README, section 3)
    NoSession,
    Topic,
    Namespace,        \* lattice names
    Key,              \* keys ("rooms") of a lattice
    Deltas,           \* the lattice updates backends may send
    UserLists,        \* the user lists backends may send
    NewConnTimeout,   \* new_connection_idle_timeout, in ticks
    MaxIdle,          \* longest activity a client may claim, in ticks
    LatticeInterval,  \* LATTICE_CLEANUP_INTERVAL, in ticks
    MaxPublished,     \* bound: number of publications
    Strangers,        \* connections whose NewConnection this pool did not
                      \* get: they opened when an earlier pool of its name,
                      \* or none, was there
    Removed,          \* TRUE: the pool is taken out of the configuration
    AttachAfterUpdate \* TRUE: the listener's Lattice and Attach messages are
                      \* neighbours in the queue, so an Attach finds its
                      \* lattice.  FALSE: messages of replication peers may
                      \* come between the two.

Absent == -1
Version == Nat \cup {Absent}

ASSUME NoSessionAssumption == NoSession \notin SessionId
ASSUME TimeAssumption ==
    /\ NewConnTimeout \in Nat /\ MaxIdle \in Nat
    /\ LatticeInterval \in Nat /\ MaxPublished \in Nat
    /\ AttachAfterUpdate \in BOOLEAN /\ Removed \in BOOLEAN
ASSUME InputAssumption ==
    /\ Deltas \subseteq [shared: [Key -> Version],
                         private: [SessionId -> [Key -> Version]]]
    /\ UserLists \subseteq SUBSET SessionId
    /\ Strangers \subseteq Cid

VARIABLES
    panic,       \* the message the processor thread died with, or "none"
    handler,     \* the receiver of InactiveSession messages exists
    \* (New)Connection: pending_connections holds the "pending" cids,
    \* connections the "live" ones.  "dropped" is a cid whose Connection
    \* associate() dropped half way, "stranger" one of Strangers, "gone" one
    \* that was disconnected.
    phase, csession, ctopics, clattices, cusers, cflag,
    \* pub/sub
    topics,      \* topics[t][c]: "none", "pending" or "session"
    buffer,      \* message_buffer of a pending connection
    sent,        \* publications put on the channel of a connection
    due,         \* history: publications made while subscribed
    published,   \* history: number of publications
    \* sessions: status tells which map holds the session
    status, left, sconns, slattices, uconns, peers,
    reported,    \* InactiveSession was sent since the session was active
    listeners,   \* user_listeners
    told,        \* status of a user last sent on a connection's channel
    \* lattices
    lattices, shared, private, subscriptions,
    lapsed,      \* history: subscriptions whose private key lattice_cleanup
                 \* deleted without them
    latticeLeft, \* time until the next lattice clean-up is due
    seenPrivate, seenShared

connVars == <<phase, csession, ctopics, clattices, cusers, cflag>>
topicVars == <<topics, buffer, sent, due, published>>
sessionVars == <<status, left, sconns, slattices, uconns, peers, reported>>
userVars == <<listeners, told>>
latticeVars == <<lattices, shared, private, subscriptions, lapsed>>
seenVars == <<seenPrivate, seenShared>>
vars == <<panic, handler, connVars, topicVars, sessionVars, userVars,
          latticeVars, latticeLeft, seenVars>>

PanicMessage == {"none", "valid connection", "topics are consistent",
                 "can't send pool message",
                 "pending conns and topics are in sync",
                 "subscriptions out of sync"}
Phase == {"fresh", "stranger", "pending", "live", "dropped", "gone"}
Subscription == {"none", "pending", "session"}
Status == {"offline", "active", "inactive"}
Message == Topic \X Nat

ConnTypeOK ==
    /\ phase \in [Cid -> Phase]
    /\ csession \in [Cid -> SessionId \cup {NoSession}]
    /\ \A c \in Cid : phase[c] = "live" => csession[c] \in SessionId
    /\ ctopics \in [Cid -> SUBSET Topic]
    /\ clattices \in [Cid -> SUBSET Namespace]
    /\ cusers \in [Cid -> SUBSET SessionId]
    /\ cflag \in [Cid -> BOOLEAN]

TopicTypeOK ==
    /\ topics \in [Topic -> [Cid -> Subscription]]
    /\ buffer \in [Cid -> Seq(Message)]
    /\ sent \in [Cid -> Seq(Message)]
    /\ due \in [Cid -> Seq(Message)]
    /\ published \in Nat

SessionTypeOK ==
    /\ status \in [SessionId -> Status]
    /\ left \in [SessionId -> Int]
    /\ sconns \in [SessionId -> SUBSET Cid]
    /\ slattices \in [SessionId -> [Namespace -> SUBSET Cid]]
    /\ uconns \in [SessionId -> SUBSET Cid]
    /\ peers \in [SessionId -> SUBSET SessionId]
    /\ reported \in SUBSET SessionId

UserTypeOK ==
    /\ listeners \in [SessionId -> SUBSET SessionId]
    /\ told \in [Cid -> [SessionId -> Status \cup {"unknown"}]]

LatticeTypeOK ==
    /\ lattices \in SUBSET Namespace
    /\ shared \in [Namespace -> [Key -> Version]]
    /\ private \in [Namespace -> [SessionId -> [Key -> Version]]]
    /\ subscriptions \in [Namespace -> [Key -> SUBSET SessionId]]
    /\ lapsed \in [Namespace -> [Key -> SUBSET SessionId]]
    /\ latticeLeft \in Nat

SeenTypeOK ==
    /\ seenPrivate \in [Cid -> [Namespace -> [Key -> Version]]]
    /\ seenShared \in [Cid -> [Namespace -> [Key -> Version]]]

\* Every variable keeps to the type of the field of Pool, Session or
\* (New)Connection it stands for.
TypeOK ==
    /\ panic \in PanicMessage
    /\ handler \in BOOLEAN
    /\ ConnTypeOK
    /\ TopicTypeOK
    /\ SessionTypeOK
    /\ UserTypeOK
    /\ LatticeTypeOK
    /\ SeenTypeOK

Init ==
    /\ panic = "none"
    /\ handler = TRUE
    /\ phase = [c \in Cid |-> IF c \in Strangers THEN "stranger" ELSE "fresh"]
    /\ csession = [c \in Cid |-> NoSession]
    /\ ctopics = [c \in Cid |-> {}]
    /\ clattices = [c \in Cid |-> {}]
    /\ cusers = [c \in Cid |-> {}]
    /\ cflag = [c \in Cid |-> FALSE]
    /\ topics = [t \in Topic |-> [c \in Cid |-> "none"]]
    /\ buffer = [c \in Cid |-> <<>>]
    /\ sent = [c \in Cid |-> <<>>]
    /\ due = [c \in Cid |-> <<>>]
    /\ published = 0
    /\ status = [s \in SessionId |-> "offline"]
    /\ left = [s \in SessionId |-> Absent]
    /\ sconns = [s \in SessionId |-> {}]
    /\ slattices = [s \in SessionId |-> [n \in Namespace |-> {}]]
    /\ uconns = [s \in SessionId |-> {}]
    /\ peers = [s \in SessionId |-> {}]
    /\ reported = {}
    /\ listeners = [s \in SessionId |-> {}]
    /\ told = [c \in Cid |-> [s \in SessionId |-> "unknown"]]
    /\ lattices = {}
    /\ shared = [n \in Namespace |-> [k \in Key |-> Absent]]
    /\ private = [n \in Namespace |->
                    [s \in SessionId |-> [k \in Key |-> Absent]]]
    /\ subscriptions = [n \in Namespace |-> [k \in Key |-> {}]]
    /\ lapsed = [n \in Namespace |-> [k \in Key |-> {}]]
    /\ latticeLeft = LatticeInterval
    /\ seenPrivate = [c \in Cid |->
                        [n \in Namespace |-> [k \in Key |-> Absent]]]
    /\ seenShared = [c \in Cid |->
                        [n \in Namespace |-> [k \in Key |-> Absent]]]

---------------------------------------------------------------------------
(***************************************************************************)
(* Helpers of the handlers.                                                *)
(***************************************************************************)

Max2(a, b) == IF a < b THEN b ELSE a

\* An instant `ticks` from now; everything in the past is the same past.
FromNow(ticks) == IF ticks < -1 THEN -1 ELSE ticks

Pending(c) == phase[c] = "pending"
Live(c) == phase[c] = "live"
Exists(s) == status[s] # "offline"

\* The processor thread has not panicked.
alive == panic = "none"

\* An expect() failed: the processor thread is gone, nothing else changes.
Panic(msg) ==
    /\ panic' = msg
    /\ UNCHANGED <<handler, connVars, topicVars, sessionVars, userVars,
                   latticeVars, latticeLeft, seenVars>>

\* Slip: publish_status looks the listening session up in `active` only.
HearsWhenActive(c, p) ==
    /\ Live(c)
    /\ \E s \in listeners[p] \ {p} : status[s] = "active" /\ c \in uconns[s]

\* publish_status: connections a status change of p is sent to.  While its
\* status changes p is in neither map, or has no connection in the
\* connections map, so p's own connections are never among them.
Hears(c, p) ==
    /\ Live(c)
    /\ \E s \in listeners[p] \ {p} : Exists(s) /\ c \in uconns[s]

PublishStatus(changed, newStatus) ==
    [c \in Cid |-> [p \in SessionId |->
        IF p \in changed /\ Hears(c, p) THEN newStatus[p] ELSE told[c][p]]]

\* Values::update of the client's copy by the keys of a message.
Merged(old, keys, values) ==
    [k \in Key |-> IF k \in keys THEN Max2(old[k], values[k]) ELSE old[k]]

KeysOf(n, s) == {k \in Key : private[n][s][k] # Absent}

\* Slip: no snapshot when a connection is attached.
NoSnapshot(c, s, N) == seenPrivate

\* lattice_from: what the snapshots of namespaces N leave in a client's copy.
SnapshotPrivate(c, s, N) ==
    [seenPrivate EXCEPT ![c] = [n \in Namespace |->
        IF n \in N THEN Merged(seenPrivate[c][n], KeysOf(n, s), private[n][s])
                   ELSE seenPrivate[c][n]]]
SnapshotShared(c, s, N) ==
    [seenShared EXCEPT ![c] = [n \in Namespace |->
        IF n \in N THEN Merged(seenShared[c][n], KeysOf(n, s), shared[n])
                   ELSE seenShared[c][n]]]

\* insert_list_key1 and remove_list_key1 of user_listeners
Listen(s, users) ==
    [p \in SessionId |-> IF p \in users THEN listeners[p] \cup {s}
                                        ELSE listeners[p]]
Unlisten(s, users) ==
    [p \in SessionId |-> IF p \in users THEN listeners[p] \ {s}
                                        ELSE listeners[p]]

\* The sender and the sets of a (New)Connection die with it, and with them
\* what we remember of its client.
ForgetConnection(c, newPhase) ==
    /\ phase' = [phase EXCEPT ![c] = newPhase]
    /\ csession' = [csession EXCEPT ![c] = NoSession]
    /\ ctopics' = [ctopics EXCEPT ![c] = {}]
    /\ clattices' = [clattices EXCEPT ![c] = {}]
    /\ cusers' = [cusers EXCEPT ![c] = {}]
    /\ cflag' = [cflag EXCEPT ![c] = FALSE]
    /\ buffer' = [buffer EXCEPT ![c] = <<>>]
    /\ sent' = [sent EXCEPT ![c] = <<>>]
    /\ due' = [due EXCEPT ![c] = <<>>]
    /\ UNCHANGED published
    /\ seenPrivate' = [seenPrivate EXCEPT
                ![c] = [n \in Namespace |-> [k \in Key |-> Absent]]]
    /\ seenShared' = [seenShared EXCEPT
                ![c] = [n \in Namespace |-> [k \in Key |-> Absent]]]

\* Slip: a disconnect leaves the connection in the topics.
KeepSubscribed(c) == topics

\* fn unsubscribe for every topic of c
UnsubscribeAll(c) ==
    [t \in Topic |-> IF t \in ctopics[c] THEN [topics[t] EXCEPT ![c] = "none"]
                                         ELSE topics[t]]

\* Slip: the subscriptions of a new connection stay "pending".
StayPending(c) == topics

\* associate turns the subscriptions of c into those of a connection
Promoted(c) ==
    [t \in Topic |->
        IF t \in ctopics[c] THEN [topics[t] EXCEPT ![c] = "session"]
                            ELSE topics[t]]

\* Slip: what was published before the association is lost.
BufferLost(c) == sent[c]

\* NewConnection::associate sends the buffered messages first
Flushed(c) == sent[c] \o buffer[c]

\* A session leaves both maps: its record dies.
DropSessions(S) ==
    /\ slattices' = [s \in SessionId |->
            IF s \in S THEN [n \in Namespace |-> {}] ELSE slattices[s]]
    /\ uconns' = [s \in SessionId |-> IF s \in S THEN {} ELSE uconns[s]]
    /\ peers' = [s \in SessionId |-> IF s \in S THEN {} ELSE peers[s]]

---------------------------------------------------------------------------
(***************************************************************************)
(* Connections and sessions.                                               *)
(***************************************************************************)

NewConnection(c) ==
    /\ alive
    /\ phase[c] = "fresh"
    /\ phase' = [phase EXCEPT ![c] = "pending"]
    /\ UNCHANGED <<panic, handler, csession, ctopics, clattices, cusers,
                   cflag, topicVars, sessionVars, userVars, latticeVars,
                   latticeLeft, seenVars>>

\* associate() met a namespace that has no lattice and returned: the
\* connection is in neither map, its topics still say "pending".
AssociateDropped(c) ==
    /\ alive
    /\ Pending(c)
    /\ ~ (clattices[c] \subseteq lattices)
    /\ ForgetConnection(c, "dropped")
    /\ told' = [told EXCEPT ![c] = [p \in SessionId |-> "unknown"]]
    /\ UNCHANGED <<panic, handler, topics, sessionVars, listeners,
                   latticeVars, latticeLeft>>

\* Every topic of c lists it: the expect() of associate, which takes the
\* topics after the lattices.
TopicsConsistent(c) == \A t \in ctopics[c] : topics[t][c] # "none"

\* The rest of associate(): the connection joins the session s.
Join(c, s, age) ==
    LET watches == cusers[c] # {}
        allPeers == IF watches THEN peers[s] \cup cusers[c] ELSE peers[s]
        newStatus == [status EXCEPT ![s] = "active"]
        changed == IF status[s] = "active" THEN {} ELSE {s}
    IN
    /\ sent' = [sent EXCEPT ![c] = Flushed(c)]
    /\ buffer' = [buffer EXCEPT ![c] = <<>>]
    /\ phase' = [phase EXCEPT ![c] = "live"]
    /\ csession' = [csession EXCEPT ![c] = s]
    /\ cflag' = [cflag EXCEPT ![c] = watches]
    /\ cusers' = [cusers EXCEPT ![c] = {}]
    /\ topics' = Promoted(c)
    /\ status' = newStatus
    /\ left' = [left EXCEPT ![s] =
            IF status[s] = "inactive" THEN FromNow(-age)
                                      ELSE FromNow(NewConnTimeout - age)]
    /\ reported' = reported \ {s}
    \* copy_attachments
    /\ sconns' = [sconns EXCEPT ![s] = @ \cup {c}]
    /\ slattices' = [slattices EXCEPT ![s] = [n \in Namespace |->
            IF n \in clattices[c] THEN slattices[s][n] \cup {c}
                                  ELSE slattices[s][n]]]
    /\ peers' = [peers EXCEPT ![s] = allPeers]
    /\ uconns' = [uconns EXCEPT ![s] = IF watches THEN @ \cup {c} ELSE @]
    /\ listeners' = IF watches THEN Listen(s, allPeers) ELSE listeners
    /\ told' = [PublishStatus(changed, newStatus) EXCEPT ![c] =
            [p \in SessionId |-> IF watches /\ p \in allPeers
                                 THEN newStatus[p] ELSE told[c][p]]]
    /\ seenPrivate' = SnapshotPrivate(c, s, clattices[c])
    /\ seenShared' = SnapshotShared(c, s, clattices[c])
    /\ UNCHANGED <<panic, handler, ctopics, clattices, due, published,
                   latticeVars, latticeLeft>>

\* `age` is how long ago the message was put in the processor's queue.
AssociateConnected(c, s, age) ==
    /\ alive
    /\ Pending(c)
    /\ clattices[c] \subseteq lattices
    /\ IF TopicsConsistent(c) THEN Join(c, s, age)
                             ELSE Panic("topics are consistent")

UpdateActivity(s, ticks) ==
    LET newStatus == [status EXCEPT ![s] = "active"] IN
    /\ alive
    /\ status' = newStatus
    /\ left' = [left EXCEPT ![s] =
            IF status[s] = "active" THEN Max2(@, ticks) ELSE ticks]
    /\ reported' = reported \ {s}
    /\ told' = PublishStatus(IF status[s] = "active" THEN {} ELSE {s},
                             newStatus)
    /\ UNCHANGED <<panic, handler, connVars, topicVars, sconns, slattices,
                   uconns, peers, listeners, latticeVars, latticeLeft,
                   seenVars>>

DisconnectPending(c) ==
    /\ alive
    /\ Pending(c)
    /\ ForgetConnection(c, "gone")
    /\ told' = [told EXCEPT ![c] = [p \in SessionId |-> "unknown"]]
    /\ topics' = UnsubscribeAll(c)
    /\ UNCHANGED <<panic, handler, sessionVars, listeners, latticeVars,
                   latticeLeft>>

\* "We delete it on inactivation": the session's lattice and users sets keep c
DisconnectActive(c) ==
    LET s == csession[c] IN
    /\ alive
    /\ Live(c)
    /\ status[s] # "inactive"
    /\ ForgetConnection(c, "gone")
    /\ told' = [told EXCEPT ![c] = [p \in SessionId |-> "unknown"]]
    /\ topics' = UnsubscribeAll(c)
    /\ sconns' = [sconns EXCEPT ![s] = @ \ {c}]
    /\ UNCHANGED <<panic, handler, status, left, slattices, uconns, peers,
                   reported, listeners, latticeVars, latticeLeft>>

\* del_connection's expect(): the cid is in neither map.
DisconnectUnknown(c) ==
    /\ alive
    /\ phase[c] \in {"dropped", "stranger"}
    /\ Panic("valid connection")

\* fn remove_lattice for every namespace in N: when c was the last connection
\* of s attached to a namespace the session's keys go (Lattice::remove_session)
\* and with the last subscriber of a key its shared values; a namespace that
\* is then empty is removed.
LastAttached(c, s, N) == {n \in N \cap lattices : slattices[s][n] = {c}}

\* Slip: remove_session forgets the subscriptions and keeps the keys.
KeysKept(s, E) == private

WithoutSession(s, E) ==
    [n \in Namespace |->
        IF n \in E THEN [private[n] EXCEPT ![s] = [k \in Key |-> Absent]]
                   ELSE private[n]]

RemoveLattices(c, s, N) ==
    LET E == LastAttached(c, s, N) IN
    /\ private' = WithoutSession(s, E)
    /\ subscriptions' = [n \in Namespace |-> [k \in Key |->
            IF n \in E /\ k \in KeysOf(n, s) THEN subscriptions[n][k] \ {s}
                                             ELSE subscriptions[n][k]]]
    /\ lapsed' = [n \in Namespace |-> [k \in Key |->
            IF n \in E /\ k \in KeysOf(n, s) THEN lapsed[n][k] \ {s}
                                             ELSE lapsed[n][k]]]
    /\ shared' = [n \in Namespace |-> [k \in Key |->
            IF n \in E /\ k \in KeysOf(n, s) /\ subscriptions[n][k] = {s}
            THEN Absent ELSE shared[n][k]]]
    /\ lattices' = lattices \ {n \in E : \A k \in Key :
            /\ shared'[n][k] = Absent
            /\ subscriptions'[n][k] = {}
            /\ \A x \in SessionId : private'[n][x][k] = Absent}

Detached(s, c, N) ==
    [n \in Namespace |-> IF n \in N THEN slattices[s][n] \ {c}
                                    ELSE slattices[s][n]]

DisconnectInactive(c) ==
    LET s == csession[c]
        stays == sconns[s] # {c}
        watching == IF cflag[c] THEN uconns[s] \ {c} ELSE uconns[s]
        quits == cflag[c] /\ watching = {}
        newStatus == [status EXCEPT ![s] = "offline"]
    IN
    /\ alive
    /\ Live(c)
    /\ status[s] = "inactive"
    /\ ForgetConnection(c, "gone")
    /\ topics' = UnsubscribeAll(c)
    /\ sconns' = [sconns EXCEPT ![s] = @ \ {c}]
    /\ RemoveLattices(c, s, clattices[c])
    /\ listeners' = IF quits \/ ~ stays THEN Unlisten(s, peers[s])
                                        ELSE listeners
    /\ IF stays
       THEN /\ slattices' = [slattices EXCEPT
                                ![s] = Detached(s, c, clattices[c])]
            /\ uconns' = [uconns EXCEPT ![s] = watching]
            /\ peers' = [peers EXCEPT ![s] = IF quits THEN {} ELSE @]
            /\ told' = [told EXCEPT ![c] = [p \in SessionId |-> "unknown"]]
            /\ UNCHANGED status
       ELSE /\ DropSessions({s})
            /\ status' = newStatus
            /\ told' = [PublishStatus({s}, newStatus) EXCEPT
                            ![c] = [p \in SessionId |-> "unknown"]]
    /\ UNCHANGED <<panic, handler, left, reported, latticeLeft>>

\* Slip: <= for < in the expiry test.
ExpiredTooEarly ==
    {s \in SessionId : status[s] = "active" /\ left[s] <= 0}

\* Slip: only sessions without connections expire.
ExpiredUnconnected ==
    {s \in SessionId : status[s] = "active" /\ left[s] < 0 /\ sconns[s] = {}}

\* cleanup: clean_sessions, then lattice_cleanup when its interval is over
Expired == {s \in SessionId : status[s] = "active" /\ left[s] < 0}

\* Slip: the connections of an expired session are not looked at.
NobodyLeaves == {}

\* The expired sessions without connections: they go offline.
Leaving == {s \in Expired : sconns[s] = {}}

\* Every expired session leaves `active`; the inactivity handlers hear of it.
Expire ==
    LET leaving == Leaving
        newStatus == [s \in SessionId |->
            IF s \in leaving THEN "offline"
            ELSE IF s \in Expired THEN "inactive" ELSE status[s]]
        latticesDue == latticeLeft = 0
    IN
    /\ status' = newStatus
    /\ left' = [s \in SessionId |-> IF s \in Expired THEN Absent ELSE left[s]]
    /\ reported' = reported \cup Expired
    /\ told' = PublishStatus(Expired, newStatus)
    /\ DropSessions(leaving)
    /\ listeners' = [p \in SessionId |->
                        listeners[p] \ {s \in leaving : p \in peers[s]}]
    /\ private' = [n \in Namespace |-> [s \in SessionId |->
            IF latticesDue /\ newStatus[s] = "offline"
            THEN [k \in Key |-> Absent] ELSE private[n][s]]]
    /\ lapsed' = [n \in Namespace |-> [k \in Key |-> lapsed[n][k] \cup
            {s \in SessionId : /\ latticesDue /\ newStatus[s] = "offline"
                              /\ k \in KeysOf(n, s)}]]
    /\ latticeLeft' = IF latticesDue THEN LatticeInterval ELSE latticeLeft
    /\ UNCHANGED <<panic, handler, connVars, topicVars, sconns, lattices,
                   shared, subscriptions, seenVars>>

\* The send of InactiveSession fails once the handler dropped its receiver.
Cleanup ==
    /\ alive
    /\ Expired # {} \/ latticeLeft = 0
    /\ \/ (handler \/ Expired = {}) /\ Expire
       \/ ~ handler /\ Expired # {} /\ Panic("can't send pool message")

\* The pool is removed from the configuration: the handler's future ends and
\* drops the receiver, which may be before the processor thread takes the
\* StopSessionPool from its queue.
HandlerExits ==
    /\ Removed
    /\ handler
    /\ handler' = FALSE
    /\ UNCHANGED <<panic, connVars, topicVars, sessionVars, userVars,
                   latticeVars, latticeLeft, seenVars>>

\* Slip: the interval is over only at one instant, and then missed.
PastTheInterval(ticks) == ticks - 1

\* The interval of lattice_cleanup stays over until the next clean-up.
Remaining(ticks) == IF ticks = 0 THEN 0 ELSE ticks - 1

Tick ==
    /\ left' = [s \in SessionId |-> FromNow(left[s] - 1)]
    /\ latticeLeft' = Remaining(latticeLeft)
    /\ UNCHANGED <<panic, handler, connVars, topicVars, status, sconns,
                   slattices, uconns, peers, reported, userVars, latticeVars,
                   seenVars>>

---------------------------------------------------------------------------
(***************************************************************************)
(* Publish/subscribe.                                                      *)
(***************************************************************************)

Subscribe(c, t) ==
    /\ alive
    /\ Pending(c) \/ Live(c)
    /\ ctopics' = [ctopics EXCEPT ![c] = @ \cup {t}]
    /\ topics' = [topics EXCEPT ![t][c] =
                    IF Live(c) THEN "session" ELSE "pending"]
    /\ UNCHANGED <<panic, handler, phase, csession, clattices, cusers, cflag,
                   buffer, sent, due, published, sessionVars, userVars,
                   latticeVars, latticeLeft, seenVars>>

\* The map that topics says holds c: the expect() calls of unsubscribe
\* and publish.
InSync(c, t) ==
    \/ topics[t][c] = "pending" /\ Pending(c)
    \/ topics[t][c] = "session" /\ Live(c)

Unsubscribe(c, t) ==
    /\ alive
    /\ topics[t][c] # "none"
    /\ \/ /\ InSync(c, t)
          /\ topics' = [topics EXCEPT ![t][c] = "none"]
          /\ ctopics' = [ctopics EXCEPT ![c] = @ \ {t}]
          /\ UNCHANGED <<panic, handler, phase, csession, clattices, cusers,
                         cflag, buffer, sent, due, published, sessionVars,
                         userVars, latticeVars, latticeLeft, seenVars>>
       \/ /\ ~ InSync(c, t)
          /\ Panic("pending conns and topics are in sync")

Publish(t) ==
    LET subscribers == {c \in Cid : topics[t][c] # "none"}
        msg == <<t, published + 1>>
    IN
    /\ alive
    /\ published < MaxPublished
    /\ \/ /\ \A c \in subscribers : InSync(c, t)
          /\ buffer' = [c \in Cid |->
                IF topics[t][c] = "pending" THEN Append(buffer[c], msg)
                                            ELSE buffer[c]]
          /\ sent' = [c \in Cid |->
                IF topics[t][c] = "session" THEN Append(sent[c], msg)
                                            ELSE sent[c]]
          /\ due' = [c \in Cid |->
                IF (Pending(c) \/ Live(c)) /\ t \in ctopics[c]
                THEN Append(due[c], msg) ELSE due[c]]
          /\ published' = published + 1
          /\ UNCHANGED <<panic, handler, connVars, topics, sessionVars,
                         userVars, latticeVars, latticeLeft, seenVars>>
       \/ /\ \E c \in subscribers : ~ InSync(c, t)
          /\ Panic("subscriptions out of sync")

---------------------------------------------------------------------------
(***************************************************************************)
(* Lattices.                                                               *)
(***************************************************************************)

AttachPending(c, n) ==
    /\ alive
    /\ AttachAfterUpdate => n \in lattices
    /\ Pending(c)
    /\ clattices' = [clattices EXCEPT ![c] = @ \cup {n}]
    /\ UNCHANGED <<panic, handler, phase, csession, ctopics, cusers, cflag,
                   topicVars, sessionVars, userVars, latticeVars,
                   latticeLeft, seenVars>>

AttachLive(c, n) ==
    LET s == csession[c] IN
    /\ alive
    /\ AttachAfterUpdate => n \in lattices
    /\ Live(c)
    /\ Exists(s)
    /\ slattices' = [slattices EXCEPT ![s][n] = @ \cup {c}]
    /\ clattices' = [clattices EXCEPT ![c] = @ \cup {n}]
    /\ seenPrivate' = SnapshotPrivate(c, s, {n} \cap lattices)
    /\ seenShared' = SnapshotShared(c, s, {n} \cap lattices)
    /\ UNCHANGED <<panic, handler, phase, csession, ctopics, cusers, cflag,
                   topicVars, status, left, sconns, uconns, peers, reported,
                   userVars, latticeVars, latticeLeft>>

DetachPending(c, n) ==
    /\ alive
    /\ Pending(c)
    /\ clattices' = [clattices EXCEPT ![c] = @ \ {n}]
    /\ UNCHANGED <<panic, handler, phase, csession, ctopics, cusers, cflag,
                   topicVars, sessionVars, userVars, latticeVars,
                   latticeLeft, seenVars>>

DetachLive(c, n) ==
    LET s == csession[c] IN
    /\ alive
    /\ Live(c)
    /\ Exists(s)
    /\ RemoveLattices(c, s, {n})
    /\ slattices' = [slattices EXCEPT ![s] = Detached(s, c, {n})]
    /\ clattices' = [clattices EXCEPT ![c] = @ \ {n}]
    \* the client drops its copy of a lattice it is detached from
    /\ seenPrivate' = [seenPrivate EXCEPT ![c][n] = [k \in Key |-> Absent]]
    /\ seenShared' = [seenShared EXCEPT ![c][n] = [k \in Key |-> Absent]]
    /\ UNCHANGED <<panic, handler, phase, csession, ctopics, cusers, cflag,
                   topicVars, status, left, sconns, uconns, peers, reported,
                   userVars, latticeLeft>>

\* Slip: updates go to the sessions in `active` only.
ReceivesWhenActive(c, n) ==
    /\ Live(c) /\ status[csession[c]] = "active"
    /\ c \in slattices[csession[c]][n]

\* The connections sess.lattices[n] leads to: only live ones get messages.
Receives(c, n) ==
    Live(c) /\ Exists(csession[c]) /\ c \in slattices[csession[c]][n]

LatticeUpdate(n, delta) ==
    LET named == {s \in SessionId :
                    \E k \in Key : delta.private[s][k] # Absent}
        newKeys(s) == {k \in Key : /\ delta.private[s][k] # Absent
                                   /\ s \notin subscriptions[n][k]}
        \* Lattice::update returns the delta without what was not newer
        changedShared == {k \in Key : delta.shared[k] > 0
                                   /\ delta.shared[k] > shared[n][k]}
        changedPrivate(s) == {k \in Key : delta.private[s][k] > 0
                              /\ delta.private[s][k] > private[n][s][k]}
        newShared == [k \in Key |-> Max2(shared[n][k], delta.shared[k])]
        newPrivate == [s \in SessionId |-> [k \in Key |->
                            Max2(private[n][s][k], delta.private[s][k])]]
        newSubs == [k \in Key |-> subscriptions[n][k] \cup
                        {s \in SessionId : delta.private[s][k] # Absent}]
        \* The keys whose shared values are sent to session s: a session the
        \* delta does not name gets all changed keys or none.
        sharedFor(s) ==
            IF s \in named
            THEN {k \in changedShared : newPrivate[s][k] # Absent}
                    \cup newKeys(s)
            ELSE IF \E k \in changedShared : s \in newSubs[k]
                 THEN changedShared ELSE {}
    IN
    /\ alive
    /\ lattices' = lattices \cup {n}
    /\ shared' = [shared EXCEPT ![n] = newShared]
    /\ private' = [private EXCEPT ![n] = newPrivate]
    /\ subscriptions' = [subscriptions EXCEPT ![n] = newSubs]
    /\ seenPrivate' = [c \in Cid |-> IF Receives(c, n)
            THEN [seenPrivate[c] EXCEPT ![n] = Merged(@,
                    changedPrivate(csession[c]), newPrivate[csession[c]])]
            ELSE seenPrivate[c]]
    /\ seenShared' = [c \in Cid |-> IF Receives(c, n)
            THEN [seenShared[c] EXCEPT ![n] = Merged(@,
                    sharedFor(csession[c]), newShared)]
            ELSE seenShared[c]]
    /\ UNCHANGED <<panic, handler, connVars, topicVars, sessionVars,
                   userVars, lapsed, latticeLeft>>

---------------------------------------------------------------------------
(***************************************************************************)
(* The swindon.user lattice: who is shown the status of whom.              *)
(***************************************************************************)

UsersAttachPending(c, users) ==
    /\ alive
    /\ Pending(c)
    /\ cusers' = [cusers EXCEPT ![c] = @ \cup users]
    /\ UNCHANGED <<panic, handler, phase, csession, ctopics, clattices,
                   cflag, topicVars, sessionVars, userVars, latticeVars,
                   latticeLeft, seenVars>>

\* Connection.users_lattice is not set here
UsersAttachLive(c, users) ==
    LET s == csession[c] IN
    /\ alive
    /\ Live(c)
    /\ Exists(s)
    /\ uconns' = [uconns EXCEPT ![s] = @ \cup {c}]
    /\ peers' = [peers EXCEPT ![s] = @ \cup users]
    /\ listeners' = Listen(s, users)
    /\ told' = [told EXCEPT ![c] = [p \in SessionId |->
                    IF p \in users THEN status[p] ELSE told[c][p]]]
    /\ UNCHANGED <<panic, handler, connVars, topicVars, status, left, sconns,
                   slattices, reported, latticeVars, latticeLeft, seenVars>>

UsersUpdate(s, users) ==
    /\ alive
    /\ Exists(s)
    /\ peers' = [peers EXCEPT ![s] = @ \cup users]
    /\ listeners' = Listen(s, users)
    /\ told' = [c \in Cid |-> [p \in SessionId |->
                    IF Live(c) /\ c \in uconns[s] /\ p \in users
                    THEN status[p] ELSE told[c][p]]]
    /\ UNCHANGED <<panic, handler, connVars, topicVars, status, left, sconns,
                   slattices, uconns, reported, latticeVars, latticeLeft,
                   seenVars>>

UsersDetachPending(c) ==
    /\ alive
    /\ Pending(c)
    /\ cusers' = [cusers EXCEPT ![c] = {}]
    /\ UNCHANGED <<panic, handler, phase, csession, ctopics, clattices,
                   cflag, topicVars, sessionVars, userVars, latticeVars,
                   latticeLeft, seenVars>>

\* peers are forgotten, the entries in user_listeners stay
UsersDetachLive(c) ==
    LET s == csession[c] IN
    /\ alive
    /\ Live(c)
    /\ Exists(s)
    /\ cflag' = [cflag EXCEPT ![c] = FALSE]
    /\ uconns' = [uconns EXCEPT ![s] = @ \ {c}]
    /\ peers' = [peers EXCEPT ![s] = {}]
    /\ told' = [told EXCEPT ![c] = [p \in SessionId |-> "unknown"]]
    /\ UNCHANGED <<panic, handler, phase, csession, ctopics, clattices,
                   cusers, topicVars, status, left, sconns, slattices,
                   reported, listeners, latticeVars, latticeLeft, seenVars>>

---------------------------------------------------------------------------
ConnectionStep(c) ==
    \/ NewConnection(c)
    \/ AssociateDropped(c)
    \/ \E s \in SessionId, age \in 0 .. NewConnTimeout + 1 :
            AssociateConnected(c, s, age)
    \/ DisconnectPending(c) \/ DisconnectActive(c)
    \/ DisconnectInactive(c) \/ DisconnectUnknown(c)

BackendStep(c) ==
    \/ \E t \in Topic : Subscribe(c, t) \/ Unsubscribe(c, t)
    \/ \E n \in Namespace : \/ AttachPending(c, n) \/ AttachLive(c, n)
                            \/ DetachPending(c, n) \/ DetachLive(c, n)
    \/ \E users \in UserLists : \/ UsersAttachPending(c, users)
                                \/ UsersAttachLive(c, users)
    \/ UsersDetachPending(c) \/ UsersDetachLive(c)

Next ==
    \/ \E c \in Cid : ConnectionStep(c) \/ BackendStep(c)
    \/ \E t \in Topic : Publish(t)
    \/ \E n \in Namespace, delta \in Deltas : LatticeUpdate(n, delta)
    \/ \E s \in SessionId : \/ \E ticks \in -1 .. MaxIdle :
                                    UpdateActivity(s, ticks)
                            \/ \E users \in UserLists : UsersUpdate(s, users)
    \/ Cleanup
    \/ HandlerExits
    \/ Tick

Spec == Init /\ [][Next]_vars

\* Time passes, and the processor loop wakes up for the earliest deadline
\* cleanup returned (recv_timeout in processor/main.rs).
FairSpec == Spec /\ WF_vars(Cleanup) /\ WF_vars(Tick)

---------------------------------------------------------------------------
(***************************************************************************)
(* Properties.                                                             *)
(***************************************************************************)

\* The two sides of a subscription agree: topics[t] lists a connection, in the
\* right map, exactly when the connection lists t.  Only a connection that
\* associate() dropped may leave "pending" entries behind.
TopicsInSync ==
    \A t \in Topic, c \in Cid :
        /\ Pending(c) =>
            topics[t][c] = (IF t \in ctopics[c] THEN "pending" ELSE "none")
        /\ Live(c) =>
            topics[t][c] = (IF t \in ctopics[c] THEN "session" ELSE "none")
        /\ phase[c] = "dropped" => topics[t][c] # "session"
        /\ phase[c] \in {"fresh", "stranger", "gone"} => topics[t][c] = "none"

\* The processor panics only for a reason outside the handler that panics:
\* a Disconnect finds its connection unless associate() dropped it or another
\* pool was told of it, publish and unsubscribe find the subscriber where
\* topics says unless associate() dropped one, the clean-up reaches the
\* inactivity handler unless it is gone, and associate itself always finds
\* the topics of its connection.
PanicsExplained ==
    \/ alive
    \/ /\ panic = "valid connection"
       /\ \E c \in Cid : phase[c] \in {"dropped", "stranger"}
    \/ /\ panic \in {"pending conns and topics are in sync",
                     "subscriptions out of sync"}
       /\ \E c \in Cid : phase[c] = "dropped"
    \/ panic = "can't send pool message" /\ ~ handler

\* What the expect() calls themselves say: the processor never panics.
NoPanic == alive

\* Every publication made while a connection was subscribed to its topic is
\* delivered once and in order, also when the connection was associated in
\* between and part of the messages was buffered.
DeliveredInOrder ==
    \A c \in Cid : /\ Pending(c) => buffer[c] = due[c] /\ sent[c] = <<>>
                   /\ Live(c) => sent[c] = due[c] /\ buffer[c] = <<>>

\* A connection and its session know each other; a session without
\* connections is never kept among the inactive ones, where nothing would
\* ever remove it.
SessionsInSync ==
    /\ \A c \in Cid : Live(c) =>
            /\ csession[c] \in SessionId
            /\ Exists(csession[c])
            /\ c \in sconns[csession[c]]
    /\ \A s \in SessionId :
            /\ \A c \in sconns[s] : Live(c) /\ csession[c] = s
            /\ status[s] = "inactive" => sconns[s] # {}

\* A connection that watches users is never left with an outdated status of
\* another user: what publish_status and get_user_statuses sent it last is
\* what the session maps say now.
StatusShown ==
    \A c \in Cid, s \in SessionId : Live(c) /\ c \in uconns[s] =>
        \A p \in SessionId \ {s} : told[c][p] \in {"unknown", status[p]}

\* A session that holds a private key is among the key's subscribers, so
\* remove_session never meets its "Subscription inconsistency".
KeysSubscribed ==
    \A n \in Namespace, s \in SessionId :
        \A k \in KeysOf(n, s) : n \in lattices /\ s \in subscriptions[n][k]

\* The connection itself lists the namespace.
Attached(c, n) == Live(c) /\ n \in clattices[c]

\* An attached client's copy of its private keys is the server's, whatever
\* order its attachment, its association and the updates came in.
PrivateCopyCurrent ==
    \A c \in Cid, n \in Namespace : Attached(c, n) =>
        \A k \in KeysOf(n, csession[c]) :
            \/ seenPrivate[c][n][k] = private[n][csession[c]][k]
            \/ private[n][csession[c]][k] = 0

\* Of the keys it may see an attached client never keeps an outdated shared
\* value: lattice_update, which sends different parts of a delta to different
\* sessions, misses no session that holds the key.  The exception is a key
\* that lattice_cleanup took from the session once and that it was given
\* again: its old subscription hides that it is new.  (The copy may be ahead
\* of the server, which drops the shared values of a key with its last
\* subscriber.)
SharedCopyNotStale ==
    \A c \in Cid, n \in Namespace : Attached(c, n) =>
        \A k \in KeysOf(n, csession[c]) :
            \/ csession[c] \in lapsed[n][k]
            \/ seenShared[c][n][k] = Absent
            \/ seenShared[c][n][k] >= shared[n][k]

\* A session stops being active only when its time is over, and the
\* inactivity handlers are told each time.
InactiveOnlyWhenExpired ==
    [][\A s \in SessionId : status[s] = "active" /\ status'[s] # "active" =>
            left[s] < 0 /\ s \in reported']_vars

\* A session without new connections and client activity does not stay
\* active: the clean-up gets to it.
Refresh(s) ==
    \/ \E c \in Cid, age \in 0 .. NewConnTimeout + 1 :
            AssociateConnected(c, s, age)
    \/ \E ticks \in -1 .. MaxIdle : UpdateActivity(s, ticks)

IdleSessionsExpire ==
    \A s \in SessionId :
        \/ []<>(status[s] # "active")
        \/ []<><<Refresh(s)>>_vars
        \/ <>[](~ alive)

===========================================================================
