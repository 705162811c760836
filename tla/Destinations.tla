---------------------------- MODULE Destinations ----------------------------
(***************************************************************************)
(* Requests that swindon itself sends: method calls of websocket clients   *)
(* (chat/dispatcher.rs, chat/backend.rs), proxied HTTP requests (proxy/)   *)
(* and notices of inactive sessions (chat/inactivity_handler.rs).  They    *)
(* all go through the pools of HTTP destinations of http_pools.rs, which   *)
(* a reload of the configuration adds and removes while requests wait.     *)
(*                                                                         *)
(* What a pool does with a request it has accepted is tk_pool's and        *)
(* tk_http's work and is modelled from how this code uses them: a bounded  *)
(* queue, one backend connection with pipelining, answers in order, every  *)
(* codec on a connection dropped when the connection ends (an error, a     *)
(* timeout, a refused answer).  A pool that is taken out of the table      *)
(* does the work it has and closes.                                        *)
(***************************************************************************)
EXTENDS Integers, Sequences, SequencesExt, FiniteSets

CONSTANTS
    Dests,          \* names of HTTP destinations (Upstream)
    Calls,          \* method calls of clients
    Proxied,        \* requests for a !Proxy handler
    Sessions,       \* sessions that become inactive
    Handlers,       \* inactivity-handlers: a sequence of destinations
    Upstream,       \* the destination of each call and proxied request
    MinIdle, MaxIdle,   \* client_min_idle_timeout, client_max_idle_timeout
    QueueSize,      \* queue_size_for_503
    InFlight,       \* in_flight_requests_per_backend_connection
    MaxReloads      \* bound: how often the configuration changes

Notices == Sessions \X Range(Handlers)
Requests == Calls \cup Proxied \cup Notices
Dest(r) == IF r \in Notices THEN r[2] ELSE Upstream[r]

\* The meta data of a message names no time of activity.
NoActivity == -1

\* Every pool gets a number of its own: a destination may come back.
Pools == Dests \X (1 .. MaxReloads + 1)

ASSUME DestinationAssumption ==
    /\ IsFiniteSet(Dests) /\ IsFiniteSet(Calls)
    /\ IsFiniteSet(Proxied) /\ IsFiniteSet(Sessions)
    /\ Calls \cap Proxied = {} /\ (Calls \cup Proxied) \cap Notices = {}
    /\ Upstream \in [Calls \cup Proxied -> Dests]
    /\ Handlers \in Seq(Dests)
    /\ MinIdle \in Nat /\ MaxIdle \in Nat
    /\ QueueSize \in Nat /\ InFlight \in Nat \ {0} /\ MaxReloads \in Nat

VARIABLES
    config,     \* destinations in the configuration of the moment
    notice,     \* the reactor has still to call HttpPools::update
    plain,      \* destination -> number of its pool in HttpPools, 0 if none
    made,       \* destination -> pools made for it so far
    stopping,   \* pools whose request or address stream is over
    closed,     \* stopping pools that have done their work
    queue,      \* pool -> requests waiting
    wire,       \* pool -> requests sent on its connection, in order
    link,       \* pool -> its connection
    gauges,     \* the global gauges of http_pools.rs
    codec,      \* request -> state of its codec
    answers,    \* request -> what its client was told, in order
    seen,       \* proxied request -> its destination is in the
                \* configuration of its Context
    lenient,    \* calls through handlers with weak_content_type
    activity    \* the UpdateActivity this step sends, or NoActivity

\* History, for the properties.
VARIABLES accepted, touched, reloads

configVars == <<config, notice, touched, reloads>>
tableVars == <<plain, made, stopping, closed>>
poolVars == <<queue, wire, link, gauges>>
requestVars == <<codec, answers, seen, lenient, accepted>>
vars == <<configVars, tableVars, poolVars, requestVars, activity>>

CodecStates == {"None", "Body", "Init", "Wait", "HeadersOk", "HeadersBad", "Void", "Dropped"}
Answers == {"ValidationError", "PoolError", "PoolOverflow", "Result", "JsonError",
            "HttpError",
            "400", "404", "500", "502", "503", "Response"}
Gauges == {"POOLS", "CONNECTING", "CONNECTED", "BLACKLISTED", "REQUEST_QUEUE"}

TypeOK ==
    /\ config \subseteq Dests /\ notice \in BOOLEAN /\ touched \subseteq Dests
    /\ reloads \in 0 .. MaxReloads
    /\ plain \in [Dests -> 0 .. MaxReloads + 1]
    /\ made \in [Dests -> 0 .. MaxReloads + 1]
    /\ stopping \subseteq Pools /\ closed \subseteq stopping
    /\ queue \in [Pools -> Seq(Requests)] /\ wire \in [Pools -> Seq(Requests)]
    /\ link \in [Pools -> {"idle", "connecting", "up", "black"}]
    /\ gauges \in [Gauges -> Nat]
    /\ codec \in [Requests -> CodecStates]
    /\ answers \in [Requests -> Seq(Answers)]
    /\ seen \in [Proxied -> BOOLEAN] /\ lenient \subseteq Calls
    /\ activity \in {NoActivity} \cup (MinIdle .. Max({MinIdle, MaxIdle}))
    /\ accepted \subseteq Requests

Init ==
    /\ config = Dests /\ notice = FALSE /\ touched = {} /\ reloads = 0
    /\ plain = [d \in Dests |-> 1] /\ made = [d \in Dests |-> 1]
    /\ stopping = {} /\ closed = {}
    /\ queue = [p \in Pools |-> <<>>] /\ wire = [p \in Pools |-> <<>>]
    /\ link = [p \in Pools |-> "idle"]
    /\ gauges = [g \in Gauges |-> IF g = "POOLS" THEN Cardinality(Dests) ELSE 0]
    /\ codec = [r \in Requests |-> "None"]
    /\ answers = [r \in Requests |-> <<>>]
    /\ seen = [r \in Proxied |-> FALSE]
    /\ lenient \in SUBSET Calls
    /\ activity = NoActivity
    /\ accepted = {}

-----------------------------------------------------------------------------
(* Reloads.  The updater thread replaces the configuration at once; the    *)
(* reactor brings the pools into line when it sees the notice.             *)

Reload(c) ==
    /\ reloads < MaxReloads
    /\ c # config
    /\ config' = c
    /\ notice' = TRUE
    /\ touched' = touched \cup ((config \ c) \cup (c \ config))
    /\ reloads' = reloads + 1
    /\ UNCHANGED <<tableVars, poolVars, requestVars>>

\* Slip: a reload starts from an empty table.
DeleteAll == {d \in Dests : plain[d] # 0}
\* Pools without a destination are removed ...
ToDelete == {d \in Dests : plain[d] # 0 /\ d \notin config}
\* ... and destinations without a pool get one.  A pool whose destination
\* is still there is left alone, whatever changed in its settings.
ToCreate == {d \in config : plain[d] = 0}

\* HttpPools::update.  Dropping a pool ends its stream of requests;
\* Metrics::new counts the new ones.
Update ==
    /\ notice
    /\ notice' = FALSE
    /\ made' = [d \in Dests |-> IF d \in ToCreate THEN made[d] + 1 ELSE made[d]]
    /\ plain' = [d \in Dests |-> CASE d \in ToDelete -> 0
                                   [] d \in ToCreate -> made[d] + 1
                                   [] OTHER -> plain[d]]
    /\ stopping' = stopping \cup {<<d, plain[d]>> : d \in ToDelete}
    /\ gauges' = [gauges EXCEPT !["POOLS"] = @ + Cardinality(ToCreate)]
    /\ UNCHANGED <<config, touched, reloads, closed, queue, wire, link, requestVars>>

-----------------------------------------------------------------------------
(* Giving a request to a pool.                                             *)

\* What start_send says (tk_pool): the stream is closed, the queue is full,
\* or the request was taken.
StartSend(d) ==
    LET p == <<d, plain[d]>> IN
    CASE p \in stopping -> "Err"
      [] p \notin stopping /\ Len(queue[p]) >= QueueSize -> "NotReady"
      [] OTHER -> "Ready"

\* How far a request gets when its codec is handed over.
Outcome(d, known) ==
    CASE ~known -> "NoDestination"
      [] known /\ plain[d] = 0 -> "NoPool"
      [] OTHER -> StartSend(d)

\* Several requests handed over in one step, to different destinations.
Enqueue(rs) ==
    /\ queue' = [p \in Pools |->
                   LET here == {r \in rs : <<Dest(r), plain[Dest(r)]>> = p} IN
                   queue[p] \o SetToSeq(here)]
    /\ gauges' = [gauges EXCEPT !["REQUEST_QUEUE"] = @ + Cardinality(rs)]
    /\ accepted' = accepted \cup rs
    /\ UNCHANGED <<wire, link>>

-----------------------------------------------------------------------------
(* Method calls of clients.                                                *)

\* Slip: the answer of a finished call is repeated.
DropCallAlways(state) == <<"HttpError">>
\* Drop for CallCodec: an answer unless the call has got one.
DropCall(state) == IF state = "Void" THEN <<>> ELSE <<"HttpError">>

\* method_call's own answers.  Where the codec exists already and the pool
\* does not take it, it is dropped in state Init: after the answer if
\* start_send hands it back or is not reached, before it if it fails.
Rejection(outcome) ==
    CASE outcome = "NoDestination" -> <<"PoolError">>
      [] outcome = "NoPool"        -> <<"PoolError">> \o DropCall("Init")
      [] outcome = "NotReady"      -> <<"PoolOverflow">> \o DropCall("Init")
      [] outcome = "Err"           -> DropCall("Init") \o <<"PoolError">>

\* Slip: only the upper limit is applied.
ClampAbove(seconds) == Min({seconds, MaxIdle})
\* update_activity: clamped to what the session pool allows.
Clamp(seconds) == Max({MinIdle, Min({seconds, MaxIdle})})

\* A message with a method or a request id that is not valid.
InvalidCall(r) ==
    /\ codec[r] = "None"
    /\ codec' = [codec EXCEPT ![r] = "Dropped"]
    /\ answers' = [answers EXCEPT ![r] = <<"ValidationError">>]
    /\ UNCHANGED <<configVars, tableVars, poolVars, seen, lenient, accepted>>

\* method_call of a valid message; `active` is the number of its meta data,
\* or NoActivity.
MethodCall(r, active) ==
    LET outcome == Outcome(Dest(r), Dest(r) \in config) IN
    /\ codec[r] = "None"
    /\ activity' = IF active = NoActivity THEN NoActivity ELSE Clamp(active)
    /\ \/ /\ outcome = "Ready"
          /\ codec' = [codec EXCEPT ![r] = "Init"]
          /\ Enqueue({r})
          /\ UNCHANGED answers
       \/ /\ outcome # "Ready"
          /\ codec' = [codec EXCEPT ![r] = "Dropped"]
          /\ answers' = [answers EXCEPT ![r] = Rejection(outcome)]
          /\ UNCHANGED <<poolVars, accepted>>
    /\ UNCHANGED <<configVars, tableVars, seen, lenient>>

-----------------------------------------------------------------------------
(* Proxied requests.                                                       *)

\* handlers/proxy.rs: a request without a Host is refused; of another one
\* the codec keeps the Context, with the configuration of the moment.
ProxyServe(r, host) ==
    /\ codec[r] = "None"
    /\ \/ /\ ~host
          /\ codec' = [codec EXCEPT ![r] = "Dropped"]
          /\ answers' = [answers EXCEPT ![r] = <<"400">>]
          /\ UNCHANGED seen
       \/ /\ host
          /\ codec' = [codec EXCEPT ![r] = "Body"]
          /\ seen' = [seen EXCEPT ![r] = Dest(r) \in config]
          /\ UNCHANGED answers
    /\ UNCHANGED <<configVars, tableVars, poolVars, lenient, accepted>>

\* The error page of a request that no pool takes.
ErrorPage(outcome) ==
    CASE outcome \in {"NoDestination", "NoPool"} -> <<"404">>
      [] outcome = "NotReady" -> <<"503">>
      [] outcome = "Err" -> <<"500">>

\* data_received of the proxy's server side, once the body is there: the
\* destination is looked up in the old configuration, the pool in the
\* table of the moment.  start_response then sends the error page.
ProxyBody(r) ==
    LET outcome == Outcome(Dest(r), seen[r]) IN
    /\ codec[r] = "Body"
    /\ \/ /\ outcome = "Ready"
          /\ codec' = [codec EXCEPT ![r] = "Init"]
          /\ Enqueue({r})
          /\ UNCHANGED answers
       \/ /\ outcome # "Ready"
          /\ codec' = [codec EXCEPT ![r] = "Dropped"]
          /\ answers' = [answers EXCEPT ![r] = ErrorPage(outcome)]
          /\ UNCHANGED <<poolVars, accepted>>
    /\ UNCHANGED <<configVars, tableVars, seen, lenient>>

-----------------------------------------------------------------------------
(* Notices of inactivity.                                                  *)

\* The handler of InactiveSession: one request for each of the handlers;
\* those no pool takes are forgotten.
SendInactivity(s) ==
    LET own == {s} \X Range(Handlers)
        sent == {r \in own : Outcome(Dest(r), Dest(r) \in config) = "Ready"} IN
    /\ \A r \in own : codec[r] = "None"
    /\ codec' = [r \in Requests |-> IF r \in sent THEN "Init"
                                    ELSE IF r \in own THEN "Dropped" ELSE codec[r]]
    /\ Enqueue(sent)
    /\ UNCHANGED <<configVars, tableVars, answers, seen, lenient>>

-----------------------------------------------------------------------------
(* The pool at work (tk_pool, tk_http), with what the code under src/ does *)
(* in the calls of Collect and of the codecs.                              *)

Counted(up, down) ==
    gauges' = [g \in Gauges |-> gauges[g] + (IF g \in up THEN 1 ELSE 0)
                                          - (IF g \in down THEN 1 ELSE 0)]

\* The connections are lazy: one is made when there is something to send.
Attempt(p) ==
    /\ link[p] = "idle" /\ queue[p] # <<>>
    /\ link' = [link EXCEPT ![p] = "connecting"]
    /\ Counted({"CONNECTING"}, {})
    /\ UNCHANGED <<configVars, tableVars, queue, wire, requestVars>>

ConnectionAbort(p) ==
    /\ link[p] = "connecting"
    /\ link' = [link EXCEPT ![p] = "idle"]
    /\ Counted({}, {"CONNECTING"})
    /\ UNCHANGED <<configVars, tableVars, queue, wire, requestVars>>

\* The address of a connection that failed is not used for a while.
ConnectionError(p) ==
    /\ link[p] = "connecting"
    /\ link' = [link EXCEPT ![p] = "black"]
    /\ Counted({"BLACKLISTED"}, {"CONNECTING"})
    /\ UNCHANGED <<configVars, tableVars, queue, wire, requestVars>>

BlacklistRemove(p) ==
    /\ link[p] = "black"
    /\ link' = [link EXCEPT ![p] = "idle"]
    /\ Counted({}, {"BLACKLISTED"})
    /\ UNCHANGED <<configVars, tableVars, queue, wire, requestVars>>

\* Slip: the attempt is counted until the connection ends.
StillConnecting == Counted({"CONNECTED"}, {})
Established == Counted({"CONNECTED"}, {"CONNECTING"})

Connection(p) ==
    /\ link[p] = "connecting"
    /\ link' = [link EXCEPT ![p] = "up"]
    /\ Established
    /\ UNCHANGED <<configVars, tableVars, queue, wire, requestVars>>

\* The head of the queue is written to the connection (start_write).
Forward(p) ==
    LET r == Head(queue[p]) IN
    /\ link[p] = "up" /\ queue[p] # <<>> /\ Len(wire[p]) < InFlight
    /\ queue' = [queue EXCEPT ![p] = Tail(@)]
    /\ wire' = [wire EXCEPT ![p] = Append(@, r)]
    /\ codec' = [codec EXCEPT ![r] = "Wait"]
    /\ Counted({}, {"REQUEST_QUEUE"})
    /\ UNCHANGED <<configVars, tableVars, link, answers, seen, lenient, accepted>>

\* What dropping the codec of a request tells its client: nothing for a
\* notice, and for a proxied request the end of the oneshot channel.
Drop(r) ==
    CASE r \in Calls   -> DropCall(codec[r])
      [] r \in Proxied -> <<"502">>
      [] OTHER         -> <<>>

\* The connection ends: all codecs on it are dropped.
Hangup(p) ==
    /\ link' = [link EXCEPT ![p] = "idle"]
    /\ wire' = [wire EXCEPT ![p] = <<>>]
    /\ codec' = [r \in Requests |-> IF r \in Range(wire[p]) THEN "Dropped" ELSE codec[r]]
    /\ answers' = [r \in Requests |->
                     IF r \in Range(wire[p]) THEN answers[r] \o Drop(r) ELSE answers[r]]
    /\ Counted({}, {"CONNECTED"})
    /\ UNCHANGED <<configVars, tableVars, queue, seen, lenient, accepted>>

\* max-request-timeout, keep-alive-timeout, or an error of the network.
Disconnect(p) == link[p] = "up" /\ Hangup(p)

\* What check_json_content_type makes of the Content-Type headers.
ContentTypes == {"Absent", "Valid", "Invalid"}

\* headers_received, with the status and the Content-Type of the answer.  A
\* call that is answered Ok must have JSON, unless its handler is lenient:
\* otherwise the codec refuses the answer, which ends the connection.
HeadersReceived(p, ok, type) ==
    LET r == Head(wire[p]) IN
    /\ wire[p] # <<>> /\ codec[r] = "Wait"
    /\ IF r \in Calls \ lenient /\ ok /\ type # "Valid"
       THEN Hangup(p)
       ELSE /\ codec' = [codec EXCEPT ![r] = IF ok THEN "HeadersOk" ELSE "HeadersBad"]
            /\ UNCHANGED <<configVars, tableVars, poolVars,
                           answers, seen, lenient, accepted>>

\* What the client is told when the whole answer is there.
CallReply(state, json) ==
    CASE state = "HeadersOk" /\ json  -> <<"Result">>
      [] state = "HeadersOk" /\ ~json -> <<"JsonError">>
      [] state = "HeadersBad"         -> <<"HttpError">>
Reply(r, json) ==
    CASE r \in Calls   -> CallReply(codec[r], json) \o DropCall("Void")
      [] r \in Proxied -> <<"Response">>
      [] OTHER         -> <<>>

\* data_received of the codec, which is dropped afterwards.
DataReceived(p, json) ==
    LET r == Head(wire[p]) IN
    /\ wire[p] # <<>> /\ codec[r] \in {"HeadersOk", "HeadersBad"}
    /\ wire' = [wire EXCEPT ![p] = Tail(@)]
    /\ codec' = [codec EXCEPT ![r] = "Void"]
    /\ answers' = [answers EXCEPT ![r] = @ \o Reply(r, json)]
    /\ UNCHANGED <<configVars, tableVars, queue, link, gauges, seen, lenient, accepted>>

\* The names of the destination cannot be resolved any more: the pool shuts
\* down although it is in the table.
AddressesGone(p) ==
    /\ plain[p[1]] = p[2] /\ p \notin stopping
    /\ stopping' = stopping \cup {p}
    /\ touched' = touched \cup {p[1]}
    /\ UNCHANGED <<config, notice, reloads, plain, made, closed, poolVars, requestVars>>

\* A pool that shuts down has done its work (pool_closed).  Its address may be
\* connecting, connected or blacklisted still: pool_closed takes nothing of
\* that back from the gauges, and whether tk_pool does before it is tk_pool's
\* affair.  link[p] stays as the pool left it.
Close(p) ==
    /\ p \in stopping
    /\ queue[p] = <<>> /\ wire[p] = <<>>
    /\ closed' = closed \cup {p}
    /\ Counted({}, {"POOLS"})
    /\ UNCHANGED <<configVars, plain, made, stopping, queue, wire, link, requestVars>>

Work(p) ==
    /\ p \notin closed
    /\ \/ Attempt(p) \/ ConnectionAbort(p) \/ ConnectionError(p)
       \/ BlacklistRemove(p) \/ Connection(p) \/ Forward(p) \/ Disconnect(p)
       \/ \E ok \in BOOLEAN, type \in ContentTypes :
             HeadersReceived(p, ok, type)
       \/ \E json \in BOOLEAN : DataReceived(p, json)
       \/ AddressesGone(p) \/ Close(p)

Next ==
    \/ \E r \in Calls, active \in {NoActivity} \cup (0 .. MaxIdle + 1) : MethodCall(r, active)
    \/ /\ activity' = NoActivity
       /\ \/ \E c \in SUBSET Dests : Reload(c)
          \/ Update
          \/ \E r \in Calls : InvalidCall(r)
          \/ \E r \in Proxied, host \in BOOLEAN : ProxyServe(r, host)
          \/ \E r \in Proxied : ProxyBody(r)
          \/ \E s \in Sessions : SendInactivity(s)
          \/ \E p \in Pools : Work(p)

Spec == Init /\ [][Next]_vars

-----------------------------------------------------------------------------
(* Properties.                                                             *)

Queued == {r \in Requests : \E p \in Pools : r \in Range(queue[p])}
Sent == {r \in Requests : \E p \in Pools : r \in Range(wire[p])}

\* A call or proxied request that a pool has accepted is answered once: not
\* before it leaves the pool, not twice when its codec is dropped after a
\* late answer, and not never, whatever becomes of pool and connection.
AcceptedAnsweredOnce ==
    \A r \in accepted \ Notices :
        Len(answers[r]) = IF r \in Queued \cup Sent THEN 0 ELSE 1

\* A request is refused for want of its destination only if the destination
\* was itself added, removed or lost its addresses at some time: a reload
\* that changes other destinations does not disturb it, although pools and
\* configuration are replaced at different times.
UndisturbedByReload ==
    \A r \in Calls \cup Proxied :
        Range(answers[r]) \cap {"PoolError", "404", "500"} # {} => Dest(r) \in touched

\* Addresses that are in a state, and those that were when their pool closed.
Present(state) == {p \in Pools : p \notin closed /\ link[p] = state}
LeftBehind(state) == {p \in Pools : p \in closed /\ link[p] = state}

\* The gauges of pools and of waiting requests count what there is, through
\* every order of connects, failures, removals and shutdowns.  Those of
\* connections count what there is and, for ever, what pools left behind when
\* they closed (the TODO of pool_closed): they are off by that and no more.
GaugesCount ==
    /\ gauges["CONNECTING"] = Cardinality(Present("connecting"))
                                + Cardinality(LeftBehind("connecting"))
    /\ gauges["CONNECTED"] = Cardinality(Present("up"))
                                + Cardinality(LeftBehind("up"))
    /\ gauges["BLACKLISTED"] = Cardinality(Present("black"))
                                + Cardinality(LeftBehind("black"))
    /\ gauges["REQUEST_QUEUE"] = Cardinality(Queued)
    /\ gauges["POOLS"] = Cardinality({p \in Pools : p[2] <= made[p[1]]} \ closed)
=============================================================================
