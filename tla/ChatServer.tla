---------------------------- MODULE ChatServer ----------------------------
(***************************************************************************)
(* The life of chat connections across the three threads of the server:    *)
(*  - the reactor thread runs the websocket upgrade, the authorization     *)
(*    request, the websocket loop of each connection, the inactivity       *)
(*    handler and update_loop (swindon_chat.rs, authorize.rs, backend.rs,  *)
(*    dispatcher.rs, listener/pools.rs, inactivity_handler.rs);            *)
(*  - the processor thread takes events from its queue in batches and      *)
(*    cleans up between two batches (processor/main.rs);                   *)
(*  - the updater thread replaces the configuration (updater, config).     *)
(*                                                                         *)
(* One session pool.  What a pool does with topics, lattices and statuses  *)
(* is the subject of module Pool; here it keeps its two maps of            *)
(* connections, and `dropped` has those it lost without being told (see    *)
(* HandleAssociate).  A panic of a thread is a member of `panics`, named   *)
(* after the message it dies with.                                         *)
(***************************************************************************)
EXTENDS Integers, Sequences, FiniteSets

CONSTANTS
    Cid,
    MaxReloads,    \* bound: configuration changes that remove or add the pool
    MaxPublished   \* bound: publications of the pool

ASSUME BoundAssumption == MaxReloads \in Nat /\ MaxPublished \in Nat

Generation == 1 .. MaxReloads + 1
NoPool == 0

VARIABLES
    panics,      \* messages of the panics so far
    \* configuration
    configured,  \* the current configuration has the session pool
    notified,    \* the updater thread told the reactor of a change
    reloads,     \* number of changes
    worker,      \* generation of the pool in SessionPools.pools, or NoPool
    inactivity,  \* the inactivity handler of each generation
    \* processor thread
    pc, queue,
    pool, pending, connections,
    dropped,     \* connections that associate() of this pool gave up
    buffered,    \* pending connections with a message_buffer
    published,
    \* connections
    task,        \* what the reactor runs for a connection
    auth,        \* its authorization request
    channel,     \* ConnectionMessages under way to it
    wire         \* frames written to its websocket

configVars == <<configured, notified, reloads, worker, inactivity>>
poolVars == <<pool, pending, connections, dropped, buffered, published>>
connVars == <<task, auth, channel, wire>>
vars == <<panics, configVars, pc, queue, poolVars, connVars>>

SubscriptionPanic == {"subscriptions out of sync",
                      "pending conns and topics are in sync"}
ProcessorPanic == {"valid connection", "can't send pool message"}
                      \cup SubscriptionPanic
ReactorPanic == {"instead of Hello", "no such session pool",
                 "Error invoking processor"}

\* "upgrading": the 101 response is on its way; "waiting": hijacked, for the
\* first message; "open": the websocket loop and its Dispatcher exist;
\* "closing": and the client sent a close frame; "failed": ended without a
\* Dispatcher; "closed": the Dispatcher was dropped.
Task == {"none", "upgrading", "waiting", "open", "closing", "failed",
         "closed"}
Auth == {"none", "asked", "answered"}
\* "StopSock" is StopSock(PoolStopped), "PeerClose" StopSock(PeerClose(..))
ConnectionMessage == {"Hello", "FatalError", "StopSock", "PeerClose",
                      "Publish"}
Handler == {"none", "running", "stopping", "gone"}

NewSessionPool(g) == [action |-> "NewSessionPool", pool |-> g]
StopSessionPool == [action |-> "StopSessionPool"]
NewConnection(c) == [action |-> "NewConnection", conn |-> c]
Associate(c) == [action |-> "Associate", conn |-> c]
Disconnect(c) == [action |-> "Disconnect", conn |-> c]
Event == {NewSessionPool(g) : g \in Generation} \cup {StopSessionPool}
            \cup UNION {{NewConnection(c), Associate(c), Disconnect(c)} :
                            c \in Cid}

\* Types of the threads' state; a connection is in at most one of the maps.
TypeOK ==
    /\ panics \in SUBSET (ProcessorPanic \cup ReactorPanic)
    /\ configured \in BOOLEAN /\ notified \in BOOLEAN
    /\ reloads \in 0 .. MaxReloads
    /\ worker \in Generation \cup {NoPool}
    /\ inactivity \in [Generation -> Handler]
    /\ pc \in {"cleanup", "recv", "drain"}
    /\ queue \in Seq(Event)
    /\ pool \in Generation \cup {NoPool}
    /\ pending \in SUBSET Cid /\ connections \in SUBSET Cid
    /\ pending \cap connections = {}
    /\ dropped \in SUBSET Cid
    /\ buffered \subseteq pending
    /\ published \in Nat
    /\ task \in [Cid -> Task] /\ auth \in [Cid -> Auth]
    /\ channel \in [Cid -> Seq(ConnectionMessage)]
    /\ wire \in [Cid -> Seq(ConnectionMessage)]

\* populate_loop: the first session_pools.update with the pool configured.
Init ==
    /\ panics = {}
    /\ configured = TRUE /\ notified = FALSE /\ reloads = 0
    /\ worker = 1
    /\ inactivity = [g \in Generation |-> IF g = 1 THEN "running" ELSE "none"]
    /\ pc = "cleanup" /\ queue = <<NewSessionPool(1)>>
    /\ pool = NoPool /\ pending = {} /\ connections = {}
    /\ dropped = {} /\ buffered = {} /\ published = 0
    /\ task = [c \in Cid |-> "none"] /\ auth = [c \in Cid |-> "none"]
    /\ channel = [c \in Cid |-> <<>>] /\ wire = [c \in Cid |-> <<>>]

ReactorUp == panics \cap ReactorPanic = {}
ProcessorUp == panics \cap ProcessorPanic = {} /\ ReactorUp

\* Processor::send: the caller panics when the processor thread is gone.
Send(events) ==
    IF ProcessorUp \/ events = <<>>
    THEN queue' = queue \o events /\ UNCHANGED panics
    ELSE panics' = panics \cup {"Error invoking processor"} /\ UNCHANGED queue

\* The receiving end of the channel exists from serve() to the end of the
\* task; ConnectionSender::send ignores that it is gone.
Listening(c) == task[c] \in {"upgrading", "waiting", "open", "closing"}
Sent(C, msg) ==
    [c \in Cid |-> IF c \in C /\ Listening(c) THEN Append(channel[c], msg)
                                              ELSE channel[c]]

---------------------------------------------------------------------------
(***************************************************************************)
(* The updater thread, update_loop and the inactivity handler.             *)
(***************************************************************************)

\* Slip: the reactor is not woken up.
NoNotice == notified

\* tx.swap(())
Notice == TRUE

\* Configurator::try_update replaces the configuration, then the thread
\* notifies the reactor.  One step for the two: a reactor that looks between
\* them sees what it sees when the notice is there and update_loop has not
\* been polled yet.
TryUpdate ==
    /\ ReactorUp
    /\ reloads < MaxReloads
    /\ configured' = ~ configured
    /\ notified' = Notice
    /\ reloads' = reloads + 1
    /\ UNCHANGED <<panics, worker, inactivity, pc, queue, poolVars, connVars>>

\* SessionPools::update as called by update_loop
RemovePool ==
    /\ ReactorUp
    /\ notified
    /\ worker # NoPool /\ ~ configured
    /\ notified' = FALSE
    /\ worker' = NoPool
    /\ Send(<<StopSessionPool>>)
    /\ inactivity' = [inactivity EXCEPT ![worker] = "stopping"]
    /\ UNCHANGED <<configured, reloads, pc, poolVars, connVars>>

CreatePool ==
    LET g == CHOOSE x \in Generation :
                /\ inactivity[x] = "none"
                /\ \A y \in 1 .. x - 1 : inactivity[y] # "none"
    IN
    /\ ReactorUp
    /\ notified
    /\ worker = NoPool /\ configured
    /\ notified' = FALSE
    /\ worker' = g
    /\ Send(<<NewSessionPool(g)>>)
    /\ inactivity' = [inactivity EXCEPT ![g] = "running"]
    /\ UNCHANGED <<configured, reloads, pc, poolVars, connVars>>

\* The configuration is what the pools already follow: removed and added
\* again, or added and removed, between two runs of update_loop.
KeepPools ==
    /\ ReactorUp
    /\ notified
    /\ configured = (worker # NoPool)
    /\ notified' = FALSE
    /\ UNCHANGED <<panics, configured, reloads, worker, inactivity, pc, queue,
                   poolVars, connVars>>

\* The handler's future sees the shutdown and drops the receiver.
InactivityExits(g) ==
    /\ ReactorUp
    /\ inactivity[g] = "stopping"
    /\ inactivity' = [inactivity EXCEPT ![g] = "gone"]
    /\ UNCHANGED <<panics, configured, notified, reloads, worker, pc, queue,
                   poolVars, connVars>>

---------------------------------------------------------------------------
(***************************************************************************)
(* Connections (reactor thread).                                           *)
(***************************************************************************)

\* Slip: an error path of start_authorize() that tells nobody.
Silence == <<>>

\* What the connection hears when the backend cannot be asked.
Complaint == <<"FatalError">>

\* serve() and start_authorize(): the pool is told of the connection before
\* the backend is asked; any failure to ask is a FatalError.
Serve(c) ==
    /\ ReactorUp
    /\ configured
    /\ task[c] = "none"
    /\ task' = [task EXCEPT ![c] = "upgrading"]
    /\ Send(<<NewConnection(c)>>)
    /\ \/ auth' = [auth EXCEPT ![c] = "asked"] /\ UNCHANGED channel
       \/ /\ auth' = [auth EXCEPT ![c] = "answered"]
          /\ channel' = [channel EXCEPT ![c] = Complaint]
    /\ UNCHANGED <<configVars, pc, poolVars, wire>>

\* Slip: the pool is not told who the connection is.
NoIntroduction(c) == <<>>

Introduction(c) == <<Associate(c)>>

\* AuthCodec::data_received with a user: Hello goes to the connection first.
Authorized(c) ==
    /\ ReactorUp
    /\ auth[c] = "asked"
    /\ auth' = [auth EXCEPT ![c] = "answered"]
    /\ channel' = Sent({c}, "Hello")
    /\ Send(Introduction(c))
    /\ UNCHANGED <<configVars, pc, poolVars, task, wire>>

\* Any other answer, a timeout or a broken backend connection (Drop)
Refused(c) ==
    /\ ReactorUp
    /\ auth[c] = "asked"
    /\ auth' = [auth EXCEPT ![c] = "answered"]
    /\ channel' = Sent({c}, "FatalError")
    /\ UNCHANGED <<panics, configVars, pc, queue, poolVars, task, wire>>

\* hijack() looks the pool up in the configuration of this moment
Hijack(c) ==
    /\ ReactorUp
    /\ task[c] = "upgrading"
    /\ IF configured
       THEN task' = [task EXCEPT ![c] = "waiting"] /\ UNCHANGED panics
       ELSE panics' = panics \cup {"no such session pool"} /\ UNCHANGED task
    /\ UNCHANGED <<configVars, pc, queue, poolVars, auth, channel, wire>>

\* The client goes before the upgrade is done: the codec is just dropped.
UpgradeLost(c) ==
    /\ ReactorUp
    /\ task[c] = "upgrading"
    /\ task' = [task EXCEPT ![c] = "failed"]
    /\ channel' = [channel EXCEPT ![c] = <<>>]
    /\ UNCHANGED <<panics, configVars, pc, queue, poolVars, auth, wire>>

\* The first message decides: Hello opens the websocket, unless it cannot be
\* written any more; FatalError closes it; anything else is a panic.
FirstMessage(c) ==
    LET msg == Head(channel[c]) IN
    /\ ReactorUp
    /\ task[c] = "waiting"
    /\ channel[c] # <<>>
    /\ \/ /\ msg = "Hello"
          /\ task' = [task EXCEPT ![c] = "open"]
          /\ channel' = [channel EXCEPT ![c] = Tail(@)]
          /\ wire' = [wire EXCEPT ![c] = <<"Hello">>]
          /\ UNCHANGED panics
       \/ /\ msg \in {"Hello", "FatalError"}
          /\ task' = [task EXCEPT ![c] = "failed"]
          /\ channel' = [channel EXCEPT ![c] = <<>>]
          /\ wire' = [wire EXCEPT ![c] = IF msg = "Hello" THEN <<>>
                                         ELSE <<msg>>]
          /\ UNCHANGED panics
       \/ /\ msg \notin {"Hello", "FatalError"}
          /\ panics' = panics \cup {"instead of Hello"}
          /\ UNCHANGED <<task, channel, wire>>
    /\ UNCHANGED <<configVars, pc, queue, poolVars, auth>>

\* The websocket loop writes every message as a text frame.
Deliver(c) ==
    /\ ReactorUp
    /\ task[c] \in {"open", "closing"}
    /\ channel[c] # <<>>
    /\ wire' = [wire EXCEPT ![c] = Append(@, Head(channel[c]))]
    /\ channel' = [channel EXCEPT ![c] = Tail(@)]
    /\ UNCHANGED <<panics, configVars, pc, queue, poolVars, task, auth>>

\* Dispatcher::frame with a close frame
CloseFrame(c) ==
    /\ ReactorUp
    /\ task[c] = "open"
    /\ task' = [task EXCEPT ![c] = "closing"]
    /\ channel' = Sent({c}, "PeerClose")
    /\ UNCHANGED <<panics, configVars, pc, queue, poolVars, auth, wire>>

\* Slip: the close frame and the end of the loop both say goodbye.
GoodbyeTwice(c) == <<Disconnect(c), Disconnect(c)>>

\* Slip: the Dispatcher has no Drop.
NoGoodbye(c) == <<>>

\* impl Drop for Dispatcher
Goodbye(c) == <<Disconnect(c)>>

\* The client closed the websocket or it breaks: the loop ends.
LoopEnds(c) ==
    /\ ReactorUp
    /\ task[c] \in {"open", "closing"}
    /\ task' = [task EXCEPT ![c] = "closed"]
    /\ channel' = [channel EXCEPT ![c] = <<>>]
    /\ Send(Goodbye(c))
    /\ UNCHANGED <<configVars, pc, poolVars, auth, wire>>

---------------------------------------------------------------------------
(***************************************************************************)
(* The processor thread.                                                   *)
(***************************************************************************)

\* Pool::cleanup: when a session expires, of a connection or of a replicated
\* UpdateActivity, the inactivity handler is told.
Cleanup ==
    /\ ProcessorUp
    /\ pc = "cleanup"
    /\ pc' = "recv"
    /\ \/ UNCHANGED panics
       \/ /\ pool # NoPool
          /\ panics' = IF inactivity[pool] = "gone"
                       THEN panics \cup {"can't send pool message"}
                       ELSE panics
    /\ UNCHANGED <<configVars, queue, poolVars, connVars>>

\* recv_timeout: the time of the next clean-up has come
Timeout ==
    /\ ProcessorUp
    /\ pc = "recv" /\ queue = <<>>
    /\ pc' = "cleanup"
    /\ UNCHANGED <<panics, configVars, queue, poolVars, connVars>>

\* try_iter found the queue empty
BatchDone ==
    /\ ProcessorUp
    /\ pc = "drain" /\ queue = <<>>
    /\ pc' = "cleanup"
    /\ UNCHANGED <<panics, configVars, queue, poolVars, connVars>>

HandleNewSessionPool(e) ==
    /\ e.action = "NewSessionPool"
    /\ pool' = e.pool
    /\ pending' = {} /\ connections' = {} /\ dropped' = {} /\ buffered' = {}
    /\ UNCHANGED <<panics, channel, published>>

\* Pool::stop tells every connection; events without a pool are ignored.
HandleStopSessionPool(e) ==
    /\ e.action = "StopSessionPool"
    /\ pool' = NoPool
    /\ pending' = {} /\ connections' = {} /\ dropped' = {} /\ buffered' = {}
    /\ channel' = Sent(pending \cup connections, "StopSock")
    /\ UNCHANGED <<panics, published>>

HandleNewConnection(e) ==
    /\ e.action = "NewConnection"
    /\ pending' = IF pool = NoPool THEN pending ELSE pending \cup {e.conn}
    /\ UNCHANGED <<panics, pool, connections, dropped, buffered, channel,
                   published>>

\* Slip: the connection is looked up, not removed.
StillPending(c) == pending

NoLongerPending(c) == pending \ {c}

\* associate() sends what was buffered.  If the connection is attached to a
\* namespace that has no lattice it returns at this point: the connection is
\* in no map any more, and its subscriptions stay.
HandleAssociate(e) ==
    /\ e.action = "Associate"
    /\ IF e.conn \in pending
       THEN /\ pending' = NoLongerPending(e.conn)
            /\ \/ /\ connections' = connections \cup {e.conn}
                  /\ UNCHANGED dropped
               \/ /\ dropped' = dropped \cup {e.conn}
                  /\ UNCHANGED connections
            /\ buffered' = buffered \ {e.conn}
            /\ channel' = Sent(buffered \cap {e.conn}, "Publish")
       ELSE UNCHANGED <<pending, connections, dropped, buffered, channel>>
    /\ UNCHANGED <<panics, pool, published>>

HandleDisconnect(e) ==
    /\ e.action = "Disconnect"
    /\ pending' = pending \ {e.conn}
    /\ connections' = connections \ {e.conn}
    /\ buffered' = buffered \ {e.conn}
    /\ panics' = IF pool # NoPool /\ e.conn \notin pending \cup connections
                 THEN panics \cup {"valid connection"} ELSE panics
    /\ UNCHANGED <<pool, dropped, channel, published>>

Handle ==
    LET e == Head(queue) IN
    /\ ProcessorUp
    /\ pc \in {"recv", "drain"} /\ queue # <<>>
    /\ pc' = "drain"
    /\ queue' = Tail(queue)
    /\ \/ HandleNewSessionPool(e) \/ HandleStopSessionPool(e)
       \/ HandleNewConnection(e) \/ HandleAssociate(e)
       \/ HandleDisconnect(e)
    /\ UNCHANGED <<configVars, task, auth, wire>>

\* Of the subscribers C, those whose channel gets a publication now; the
\* others have it in their message_buffer until they are associated.
Reached(C) == C \cap connections

\* A publication to subscribers C.  The place of the event in the queue is
\* left out: it may come at any point of a batch.
Publish(C) ==
    /\ ProcessorUp
    /\ pc = "drain"
    /\ published < MaxPublished
    /\ published' = published + 1
    /\ channel' = Sent(Reached(C), "Publish")
    /\ buffered' = buffered \cup (C \cap pending)
    /\ UNCHANGED <<panics, configVars, pc, queue, pool, pending, connections,
                   dropped, task, auth, wire>>

\* A Publish or an Unsubscribe of a topic that a dropped connection had
\* subscribed to finds the subscription and not the connection.
OutOfSync ==
    /\ ProcessorUp
    /\ pc = "drain"
    /\ dropped # {}
    /\ \E msg \in SubscriptionPanic : panics' = panics \cup {msg}
    /\ UNCHANGED <<configVars, pc, queue, poolVars, connVars>>

---------------------------------------------------------------------------
ConnectionStep(c) ==
    \/ Serve(c) \/ Authorized(c) \/ Refused(c)
    \/ Hijack(c) \/ UpgradeLost(c) \/ FirstMessage(c)
    \/ Deliver(c) \/ CloseFrame(c) \/ LoopEnds(c)

ProcessorStep ==
    \/ Cleanup \/ Timeout \/ BatchDone \/ Handle
    \/ \E C \in SUBSET (pending \cup connections) : Publish(C)
    \/ OutOfSync

ConfigStep ==
    \/ TryUpdate \/ RemovePool \/ CreatePool \/ KeepPools
    \/ \E g \in Generation : InactivityExits(g)

Next == (\E c \in Cid : ConnectionStep(c)) \/ ProcessorStep \/ ConfigStep

Spec == Init /\ [][Next]_vars

\* The reactor polls what is ready and the processor thread runs.  Clients may
\* stay for ever, and an authorization request may wait for ever: the time in
\* the queue of a destination is not limited.
FairSpec ==
    /\ Spec
    /\ WF_vars(Cleanup \/ Timeout \/ BatchDone \/ Handle)
    /\ WF_vars(RemovePool \/ CreatePool \/ KeepPools)
    /\ \A c \in Cid :
        /\ WF_vars(Hijack(c) \/ UpgradeLost(c))
        /\ WF_vars(FirstMessage(c))
        /\ WF_vars(Deliver(c))

---------------------------------------------------------------------------
(***************************************************************************)
(* Properties.                                                             *)
(***************************************************************************)

Queued(event) == \E i \in 1 .. Len(queue) : queue[i] = event

\* As long as the configuration does not change, nothing but associate()
\* giving a connection up can make a thread panic: otherwise a Disconnect
\* finds its connection.  Even then Hello stays the first message that a
\* connection gets, and the inactivity handler and the configured pool are
\* there for those who rely on them.
OnlyDropsPanic ==
    /\ dropped = {} => panics = {}
    /\ panics \subseteq {"valid connection", "Error invoking processor"}
                            \cup SubscriptionPanic

\* A websocket that was open and is closed is out of the pool, or the
\* Disconnect that takes it out is still in the queue.
ForgottenWhenClosed ==
    panics = {} =>
        \A c \in pending \cup connections :
            task[c] = "closed" => Queued(Disconnect(c))

\* An open websocket is served: the pool has its connection, or will have it
\* by what is in the queue, or is one that associate() gave up.
OpenIsServed ==
    \A c \in Cid : task[c] \in {"open", "closing"} =>
        c \in connections \cup dropped \/ Queued(Associate(c))

\* The client hears of the end of the handshake once the authorization
\* request has ended, whether it was answered, refused, dropped or could not
\* be made at all.
HandshakeEnds ==
    \A c \in Cid :
        task[c] \in {"upgrading", "waiting"} /\ auth[c] = "answered" ~>
            task[c] \notin {"upgrading", "waiting"} \/ panics # {}

\* When the configuration stays the pool is there exactly if configured.
PoolFollowsConfig ==
    <>[](panics # {} \/ (pool # NoPool) = configured)
===========================================================================
