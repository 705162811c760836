---------------------------- MODULE Replication ----------------------------
(***************************************************************************)
(* Replication between swindon servers (chat/replication) and the          *)
(* operations that are replicated (listener/codec.rs, dispatcher.rs,       *)
(* backend.rs).                                                            *)
(*                                                                         *)
(* A server gets a new server_id with every start: a node and the number   *)
(* of its start.  Everything a Watcher does comes through one queue, fed   *)
(* and drained by the reactor thread, so an item takes effect here when it *)
(* is queued; the delay of incoming items is part of the delay of the      *)
(* socket they come from.                                                  *)
(***************************************************************************)
EXTENDS Integers, Sequences, SequencesExt

CONSTANTS
    Node,
    Operation,    \* what clients and backends do, a subset of Operations
    Configured,   \* the peers a node starts with
    MaxRestarts,  \* bound: restarts of a node
    MaxUpdates,   \* bound: changes of the lists of peers
    MaxSockets,   \* bound: connections between servers, failed ones included
    MaxRequests   \* bound: operations

ServerId == Node \X (0 .. MaxRestarts)
Socket == 1 .. MaxSockets
NoSocket == 0
End == {"client", "server"}
Other(e) == IF e = "client" THEN "server" ELSE "client"

Operations == {"Subscribe", "Unsubscribe", "Publish", "LatticeSubscribe",
               "Detach", "Lattice", "AttachUsers", "UpdateUsers",
               "DetachUsers", "UpdateActivity"}
RemoteAction == (Operations \ {"LatticeSubscribe"}) \cup {"Attach"}

\* Remote actions about one connection; they carry its server's id.
Addressed == {"Subscribe", "Unsubscribe", "Attach", "Detach",
              "AttachUsers", "DetachUsers"}

ASSUME ConfigAssumption ==
    /\ IsFiniteSet(Node)
    /\ Operation \subseteq Operations
    /\ Configured \in [Node -> SUBSET Node]
    /\ MaxRestarts \in Nat /\ MaxUpdates \in Nat
    /\ MaxSockets \in Nat /\ MaxRequests \in Nat

VARIABLES
    start,    \* number of the present start of each node
    wanted,   \* peers in the configuration of each node
    updates,  \* number of changes of the configurations
    peers,    \* Watcher.peers
    links,    \* Watcher.links: the socket whose sender is kept for a server
    sockets,  \* every connection made so far
    requests, \* number of operations so far
    applied   \* what each node gave to its processor

vars == <<start, wanted, updates, peers, links, sockets, requests, applied>>

Message == [action : RemoteAction, to : ServerId, request : 1 .. MaxRequests]
SocketState ==
    [peer : Node, client : ServerId, server : ServerId,
     phase : {"connecting", "accepted", "failed"},
     end : [End -> {"none", "running", "ended"}],
     \* what is under way to each end
     chan : [End -> Seq(Message)]]
PeerState == [state : {"Unknown", "Connecting", "TimedOut", "Connected"},
              start : 0 .. MaxRestarts]

Unknown == [state |-> "Unknown", start |-> 0]
\* State::Connecting, before and after its Instant
Connecting == [state |-> "Connecting", start |-> 0]
TimedOut == [state |-> "TimedOut", start |-> 0]
Connected(i) == [state |-> "Connected", start |-> i]

\* Types, and links that lead where they are said to lead.
TypeOK ==
    /\ start \in [Node -> 0 .. MaxRestarts]
    /\ wanted \in [Node -> SUBSET Node]
    /\ updates \in 0 .. MaxUpdates
    /\ peers \in [Node -> [Node -> PeerState]]
    /\ links \in [Node -> [ServerId -> {NoSocket} \cup DOMAIN sockets]]
    /\ sockets \in Seq(SocketState) /\ Len(sockets) <= MaxSockets
    /\ requests \in 0 .. MaxRequests
    /\ applied \in [Node -> Seq(Message)]
    /\ \A n \in Node, id \in ServerId : links[n][id] # NoSocket =>
            {sockets[links[n][id]].client, sockets[links[n][id]].server}
                = {<<n, start[n]>>, id}

Init ==
    /\ start = [n \in Node |-> 0]
    /\ wanted = Configured /\ updates = 0
    /\ peers = [n \in Node |-> [p \in Node |-> Unknown]]
    /\ links = [n \in Node |-> [id \in ServerId |-> NoSocket]]
    /\ sockets = <<>>
    /\ requests = 0 /\ applied = [n \in Node |-> <<>>]

Self(n) == <<n, start[n]>>
IdAt(l, e) == IF e = "client" THEN sockets[l].client ELSE sockets[l].server

---------------------------------------------------------------------------
(***************************************************************************)
(* Connections.                                                            *)
(***************************************************************************)

NewSocket(n, p) ==
    [peer |-> p, client |-> Self(n), server |-> <<p, 0>>,
     phase |-> "connecting",
     end |-> [e \in End |-> "none"], chan |-> [e \in End |-> <<>>]]

\* Slip: a peer once connected is never connected to again.
RetryUnconnected(n, p) == peers[n][p].state \in {"Unknown", "TimedOut"}

\* The peers reconnect() does not skip.
Retry(n, p) ==
    \/ peers[n][p].state \in {"Unknown", "TimedOut"}
    \/ /\ peers[n][p].state = "Connected"
       /\ links[n][<<p, peers[n][p].start>>] = NoSocket

\* Watcher::reconnect, once a second: peers no longer configured are dropped
\* with their links, the others are connected to as needed.
Reconnect(n) ==
    LET removed == {p \in Node \ wanted[n] : peers[n][p] # Unknown}
        again == {p \in wanted[n] : Retry(n, p)}
        attempts == SetToSeq({NewSocket(n, p) : p \in again})
    IN
    /\ removed # {} \/ again # {}
    /\ Len(sockets) + Len(attempts) <= MaxSockets
    /\ peers' = [peers EXCEPT ![n] = [p \in Node |->
                    IF p \in removed THEN Unknown
                    ELSE IF p \in again THEN Connecting ELSE @[p]]]
    /\ links' = [links EXCEPT ![n] = [id \in ServerId |->
                    IF /\ id[1] \in removed
                       /\ peers[n][id[1]] = Connected(id[2])
                    THEN NoSocket ELSE @[id]]]
    /\ sockets' = sockets \o attempts
    /\ UNCHANGED <<start, wanted, updates, requests, applied>>

\* The Instant of State::Connecting passes.  The TCP connection has the same
\* limit, the websocket handshake after it has none, so the attempt goes on.
TimeOut(n, p) ==
    /\ peers[n][p] = Connecting
    /\ peers' = [peers EXCEPT ![n][p] = TimedOut]
    /\ UNCHANGED <<start, wanted, updates, links, sockets, requests, applied>>

\* Name resolution, connect or handshake fail, or the connect times out.
ConnectFails(l) ==
    /\ sockets[l].phase = "connecting"
    /\ sockets' = [sockets EXCEPT ![l].phase = "failed"]
    /\ UNCHANGED <<start, wanted, updates, peers, links, requests, applied>>

\* Incoming::headers_received answers the upgrade; a connection from the
\* server itself is a bad request.
Accept(l) ==
    LET p == sockets[l].peer IN
    /\ sockets[l].phase = "connecting"
    /\ sockets' = [sockets EXCEPT
            ![l].phase = IF sockets[l].client = Self(p) THEN "failed"
                         ELSE "accepted",
            ![l].server = Self(p)]
    /\ UNCHANGED <<start, wanted, updates, peers, links, requests, applied>>

\* Slip: the link is kept under the server's own id.
OwnId(l, e) == IdAt(l, e)

\* The id exchanged in the headers of the upgrade
RemoteId(l, e) == IdAt(l, Other(e))

\* ReplAction::Attach of one end: hijack() of the server, the client when it
\* has read the response.  The last one attached is the link.
Attach(l, e) ==
    LET self == IdAt(l, e)
        n == self[1]
        remote == RemoteId(l, e)
    IN
    /\ sockets[l].phase = "accepted" /\ sockets[l].end[e] = "none"
    /\ sockets' = [sockets EXCEPT ![l].end[e] = "running"]
    /\ links' = [links EXCEPT ![n][remote] = l]
    /\ peers' = IF e = "client"
                THEN [peers EXCEPT ![n][sockets[l].peer] = Connected(remote[2])]
                ELSE peers
    /\ UNCHANGED <<start, wanted, updates, requests, applied>>

\* The websocket loop of one end is over, with what was not read; the sender
\* stays in links until it is used.
EndLost(l, e) ==
    /\ sockets[l].phase = "accepted" /\ sockets[l].end[e] # "ended"
    /\ sockets' = [sockets EXCEPT ![l].end[e] = "ended",
                                  ![l].chan[e] = <<>>]
    /\ UNCHANGED <<start, wanted, updates, peers, links, requests, applied>>

\* The server process is replaced by a new one with a new id.
Restart(n) ==
    /\ start[n] < MaxRestarts
    /\ start' = [start EXCEPT ![n] = @ + 1]
    /\ peers' = [peers EXCEPT ![n] = [p \in Node |-> Unknown]]
    /\ links' = [links EXCEPT ![n] = [id \in ServerId |-> NoSocket]]
    /\ sockets' = [l \in DOMAIN sockets |->
            LET s == sockets[l]
                mine == {e \in End : IdAt(l, e) = Self(n)}
            IN IF s.phase = "connecting"
               THEN [s EXCEPT !.phase = IF s.client = Self(n) THEN "failed"
                                                              ELSE @]
               ELSE [s EXCEPT
                        !.end = [e \in End |-> IF e \in mine THEN "ended"
                                                             ELSE @[e]],
                        !.chan = [e \in End |-> IF e \in mine THEN <<>>
                                                              ELSE @[e]]]]
    /\ applied' = [applied EXCEPT ![n] = <<>>]
    /\ UNCHANGED <<wanted, updates, requests>>

\* ReplicationSession::update with another list of peers
UpdatePeers(n, list) ==
    /\ updates < MaxUpdates
    /\ list # wanted[n]
    /\ updates' = updates + 1
    /\ wanted' = [wanted EXCEPT ![n] = list]
    /\ UNCHANGED <<start, peers, links, sockets, requests, applied>>

---------------------------------------------------------------------------
(***************************************************************************)
(* Messages.                                                               *)
(***************************************************************************)

\* Slip: the connection is attached before there is a lattice.
AttachFirst(op) ==
    IF op = "LatticeSubscribe" THEN <<"Attach", "Lattice">> ELSE <<op>>

\* The remote actions of an operation
RemoteActions(op) ==
    IF op = "LatticeSubscribe" THEN <<"Lattice", "Attach">> ELSE <<op>>

\* Slip: every socket of the node is sent to.
EverySocket(n) ==
    {x \in (DOMAIN sockets) \X End :
        IdAt(x[1], x[2]) = Self(n) /\ sockets[x[1]].end[x[2]] = "running"}

\* The sockets remote_send() reaches, with this node's end of them
Reached(n) ==
    {x \in (DOMAIN sockets) \X End :
        /\ IdAt(x[1], x[2]) = Self(n) /\ sockets[x[1]].end[x[2]] = "running"
        /\ links[n][IdAt(x[1], Other(x[2]))] = x[1]}

\* What a request to a connection of server `to` sends.
Messages(op, to) ==
    LET actions == RemoteActions(op) IN
    [i \in DOMAIN actions |->
        [action |-> actions[i], to |-> to, request |-> requests + 1]]

\* The node itself does what is not for another server's connection.  (There
\* are one or two messages.)
Local(n, msgs) ==
    LET kept(i) == IF /\ i \in DOMAIN msgs
                      /\ msgs[i].action \in Addressed => msgs[i].to = Self(n)
                   THEN <<msgs[i]>> ELSE <<>>
    IN kept(1) \o kept(2)

\* A request at node n: done by n itself as far as it is n's, and sent to all
\* links; links that cannot be sent to are removed.
Request(n, op, to) ==
    LET msgs == Messages(op, to)
        reached == Reached(n)
    IN
    /\ requests < MaxRequests
    /\ requests' = requests + 1
    /\ applied' = [applied EXCEPT ![n] = @ \o Local(n, msgs)]
    /\ sockets' = [l \in DOMAIN sockets |-> [sockets[l] EXCEPT
            !.chan = [e \in End |->
                IF <<l, Other(e)>> \in reached /\ sockets[l].end[e] # "ended"
                THEN @[e] \o msgs ELSE @[e]]]]
    /\ links' = [links EXCEPT ![n] = [id \in ServerId |->
            IF \E e \in End : <<@[id], e>> \in reached THEN @[id]
                                                       ELSE NoSocket]]
    /\ UNCHANGED <<start, wanted, updates, peers>>

\* Watcher::local_send
Taken(n, m) ==
    m.action \in {"Subscribe", "Unsubscribe", "Attach", "Detach"} =>
        m.to = Self(n)

\* Handler::frame and ReplAction::Incoming
Deliver(l, e) ==
    LET m == Head(sockets[l].chan[e])
        n == IdAt(l, e)[1]
    IN
    /\ sockets[l].end[e] = "running" /\ sockets[l].chan[e] # <<>>
    /\ sockets' = [sockets EXCEPT ![l].chan[e] = Tail(@)]
    /\ applied' = IF Taken(n, m)
                  THEN [applied EXCEPT ![n] = Append(@, m)] ELSE applied
    /\ UNCHANGED <<start, wanted, updates, peers, links, requests>>

---------------------------------------------------------------------------
Next ==
    \/ \E n \in Node : Reconnect(n) \/ Restart(n)
    \/ \E n, p \in Node : TimeOut(n, p)
    \/ \E n \in Node, list \in SUBSET Node : UpdatePeers(n, list)
    \/ \E l \in DOMAIN sockets :
        \/ ConnectFails(l) \/ Accept(l)
        \/ \E e \in End : Attach(l, e) \/ EndLost(l, e) \/ Deliver(l, e)
    \/ \E n \in Node, op \in Operation, to \in Node :
            Request(n, op, Self(to))

Spec == Init /\ [][Next]_vars

\* Interval and timers fire, connects end one way or the other, and what is
\* on a socket whose ends live is read.
FairSpec ==
    /\ Spec
    /\ \A n \in Node : WF_vars(Reconnect(n))
    /\ \A n, p \in Node : WF_vars(TimeOut(n, p))
    /\ \A l \in Socket :
        /\ WF_vars(l \in DOMAIN sockets /\ (Accept(l) \/ ConnectFails(l)))
        /\ \A e \in End :
            /\ WF_vars(l \in DOMAIN sockets /\ Attach(l, e))
            /\ WF_vars(l \in DOMAIN sockets /\ Deliver(l, e))

---------------------------------------------------------------------------
(***************************************************************************)
(* Properties.                                                             *)
(***************************************************************************)

\* No action is given to a processor twice, although two servers that list
\* each other have two sockets between them.
AppliedOnce ==
    \A n \in Node : \A i, j \in DOMAIN applied[n] :
        applied[n][i] = applied[n][j] => i = j

\* An Attach finds its lattice: the Lattice of the same request was applied
\* before it, on whatever server and through whatever socket it comes.
LatticeBeforeAttach ==
    \A n \in Node : \A i \in DOMAIN applied[n] :
        applied[n][i].action = "Attach" =>
            \E j \in 1 .. i - 1 :
                applied[n][j] = [applied[n][i] EXCEPT !.action = "Lattice"]

HasLink(n, p) == \E i \in 0 .. MaxRestarts : links[n][<<p, i>>] # NoSocket

\* A peer whose link was found broken is connected again (as long as there
\* are sockets left to try).
Reconnected ==
    \A n \in Node : \A p \in Node \ {n} :
        (p \in wanted[n] /\ ~ HasLink(n, p)) ~>
            \/ p \notin wanted[n] \/ HasLink(n, p)
            \/ Len(sockets) >= MaxSockets - 1
===========================================================================
