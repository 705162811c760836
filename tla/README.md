# Swindon: a TLA+ model

Swindon is an HTTP front-end server whose own business is chat: it keeps the
websockets of users, lets backends subscribe connections to topics, publish,
and keep shared CRDT state ("lattices") with clients, and replicates all of
it between servers.  Around that it proxies requests, serves files, routes and
authorizes, and follows its configuration while it runs.  This directory models
these parts, checks them with TLC on small instances and proves the safety
properties of most of them with TLAPS.

Paths below are relative to the repository's `src/` directory (so
`chat/processor/pool.rs` is `src/src/chat/processor/pool.rs` in
`PROJECT.json`).

## 1. The system

Three threads matter.  The **reactor** (tokio) runs everything that touches a
socket.  The **processor** thread owns all session pools and takes `Event`s
from one unbounded queue.  The **updater** thread re-reads the configuration
every ten seconds.

| Component | State | Operations | Talks to |
|---|---|---|---|
| Session pool (`chat/processor/pool.rs`, `connection.rs`, `session.rs`, `pair.rs`) | pending and live connections, topics, active/inactive sessions with expiry, user listeners, lattices | one handler per `Action`, clean-up | channels of connections, inactivity channel |
| Lattices (`lattice.rs`) | private and shared values per key, subscriptions | merge, remove session, snapshot | the pool |
| Deadline heap (`heap.rs`) | binary heap, index, map, slab | insert, update, update_if_smaller, pop | the pool's `Sessions` |
| Processor thread (`main.rs`, `public.rs`) | queue, pools | batch of events, clean-up, timeout | all senders |
| Connections (`handlers/swindon_chat.rs`, `authorize.rs`, `backend.rs`, `dispatcher.rs`) | upgrade, authorization request, channel, websocket loop | serve, hijack, first message, frames, drop | processor, backends |
| Pools and configuration (`listener/pools.rs`, `inactivity_handler.rs`, `updater`, `config`, `startup.rs`) | current configuration, workers | reload, create, destroy | processor, inactivity handler |
| Backend API (`listener/codec.rs`) | none | nine routes, each a local and a remote action | processor, replication |
| Replication (`chat/replication/`) | peers, links, sockets | reconnect, attach, send, receive | other servers, processor |
| HTTP destinations (`http_pools.rs`) | table of pools, their queues and gauges | update with the configuration, connection events | backends (through `tk_pool`) |
| Requests of swindon: proxy (`proxy/`), method calls (`chat/dispatcher.rs`, `chat/backend.rs`), notices (`chat/inactivity_handler.rs`) | one codec per request | hand over, headers, data, drop | destinations, clients |
| Configurator (`config/mod.rs`, `read.rs`, `fingerprint.rs`, `updater/`, `main.rs`) | active configuration, metadata of its files | poll, read, check, fingerprint, replace, notify | everyone who reads the configuration |
| Routing and authorizers (`routing.rs`, `incoming/router.rs`, `authorizers/`) | none: a table made of the configuration | make the table, look up, check | handlers |
| Static files (`handlers/files/`, `config/static_files.rs`) | disk pools | choose the file, reply | the disk |
| Small handlers, encoding, support | none | one response for one request | |

What is hard here:

* messages about one connection come from its own task, from the
  authorization request, from backends and from other servers, in any order;
  the handlers keep several maps in step and `expect()` that they are, and a
  panic of the processor thread takes the whole server down;
* publications before the association are buffered and must come out once and
  in order;
* expiry, clean-up and disconnects move sessions between maps while other
  sessions watch them;
* attach, update and clean-up of lattices race for what a client sees;
* the configuration changes under running handshakes, open websockets and
  waiting requests, and its files change while they are read;
* a request that swindon sends may be refused, lost, answered late or answered
  wrongly, and its client is to be told exactly once;
* rules that are written as loops (inheritance of authorizers, minimal deltas,
  fallbacks of versioned files) must agree with the short sentences that
  describe them;
* servers lose and restore connections to each other, from both sides.

`PROJECT.json` lists each of these at its line, under `hazards`, with the
properties that would notice it going wrong.

## 2. Modules

| Module | Models | Used by |
|---|---|---|
| `Pool` | one session pool, all handlers | `MCPool`, `PoolProofs` |
| `ChatServer` | connections, processor thread, pools and reloads across the three threads | `MCChatServer`, `ChatServerProofs` |
| `DeadlineMap` | what the heap promises: a map of deadlines, least first | `HeapMap` |
| `HeapMap` | the heap as it is implemented, each round of a percolation a step | `MCHeapMap`, `HeapMapProofs` |
| `Replication` | servers, sockets, replicated operations | `MCReplication`, `ReplicationProofs` |
| `Destinations` | destinations with the calls, proxied requests and notices that use them, across reloads | `MCDestinations`, `DestinationsProofs` |
| `Configurator` | files of the configuration, the updater thread, the notice to the reactor | `MCConfigurator`, `ConfiguratorProofs` |
| `ConfigRead` | what the text of the configuration means (operators) | `Configurator` |
| `Routing` | routing table, authorizers, `start_request` (operators) | `ConfigRead`, `Rules` |
| `LatticeValues` | counters, sets, registers, `Lattice::update` (operators) | `Rules` |
| `StaticFiles` | static file handlers, their settings, disk pools (operators) | `Rules` |
| `Rules` | an input for one of these three, and the reference definitions that the results are compared with | `MCRules`, `RulesProofs` |
| `PoolProofs`, then `PoolLatticeProofs` | theorems about `Pool`: types, topics, panics, sessions and statuses; then, on top of these, lattices | |
| `ChatServerProofs`, `HeapMapProofs`, `ReplicationProofs`, `DestinationsProofs`, `ConfiguratorProofs`, `RulesProofs` | theorems about the module they are named after | |

The `MC` modules hold values for constants and symmetry sets.  An operator
marked "Slip" in a module is not part of the model: it is a plausible wrong
version of the definition that follows it, used to confirm that a property
notices the difference (`mutants` in `PROJECT.json`).

### Pool

The processor handles one message at a time, so a handler is one action.
`phase[c]` says which map holds the connection: `pending_connections`
("pending"), `connections` ("live"), none any more ("gone"), none because
`associate()` gave up half way ("dropped"), or none because the pool has never
heard of it ("stranger": its `NewConnection` went to an earlier pool of the
same name).  `status[s]` says which map of
`Sessions` holds a session.  `topics`, `listeners`, `lattices`, `shared`,
`private`, `subscriptions` are the fields of the same meaning; `ctopics`,
`clattices`, `cusers`, `cflag` those of a connection, and `sconns`,
`slattices`, `uconns`, `peers` those of a session.  What a channel carried is
kept as what the client knows: `sent` (publications), `told` (user statuses),
`seenPrivate` and `seenShared` (lattice values).  Two variables are history:
`due` is what was published while the connection was subscribed, and `lapsed`
are the subscriptions whose private key `lattice_cleanup` took away and which
`remove_session` has not removed since.

Time is kept relative to now (`left`), so it needs no bound; `Tick` lets time
pass, and `age` in `AssociateConnected` is the time a message spent in the
queue.  The values of a key are one version number and merging is the maximum:
that is what the merge of every CRDT type amounts to for a client that only
asks whether it is up to date (`LatticeValues` has the types themselves).  The
`expires_in` of a delta, which lets the clean-up delete values of sessions that
are online, is left out: keys go with their session or when they are unused.
Early returns without effect are stuttering
steps.  A failed `expect()` is the action's `Panic` branch: `panic` keeps its
message and no handler runs any more.  The branches are those of `associate`
(`TopicsConsistent`), `del_connection` (`DisconnectUnknown`), `clean_sessions`
(`Cleanup`, once `HandlerExits` dropped the receiver of a pool that is being
removed), `unsubscribe` and `publish`.  `Expire` is what the clean-up does when
the send succeeds.  User ids are
not empty (section 3).

### ChatServer

One pool and its life: `serve`, authorization, `hijack`, first message,
websocket loop, drop of the `Dispatcher` on the reactor; queue, batches,
clean-up and handlers on the processor thread; replacement of the configuration
on the updater thread, `SessionPools::update` and the inactivity handler.  Each
step of a thread between two points where another thread can see it is an
action.  `panics` collects the messages of panics; a panic on the reactor ends
the server, a panic of the processor makes the next `send()` panic too.  The
pool is reduced to its two maps of connections, to who has buffered messages
and to `dropped`, the connections that `associate()` gave up; whether the
lattice is missing is left open (`Pool` says when it is), and `OutOfSync`
stands for the `publish` or `unsubscribe` that meets the subscriptions such a
connection leaves.  A configuration without the pool has no handler for it
(checked at `config/read.rs:298`), which is the guard of `Serve`.

### HeapMap and DeadlineMap

`HeapMap` has the sequence and its index, the slab that hands out any vacant
number, and ties broken by the slab index.  A call takes several steps: one for
each round of `percolate_up` and `percolate_down`, and one for what the code
does before, between and after its percolations (`insert` of a key that has an
entry pushes the new item, then removes the old one; `update` removes, then
pushes).  `call` says where the call is and what it has in hand, `way` and `at`
where the loop is.  The caller holds `&mut self`, so a call starts only when
`call = Ready`.

`DeadlineMap` is the abstract specification; `last` names the call, so that a
call is compared with the abstract one of the same name.  The refinement
mapping reads the deadline of a key through map, slab index and heap; while the
entry of the key is out of the heap, the call has it in hand.  Each call changes
the abstract map in exactly one of its steps, all the others stutter.

### Replication

Nodes with a new server id at each start, the sockets between them with both
ends' websocket loops, the tables `peers` and `links` of each `Watcher`, and
the operations of backends and clients with their local and remote actions.
Sockets fail while connecting, or lose either end at any time with what was
not read; handshakes may be later than the timeout of their attempt; nodes
restart; lists of peers change.  A `Watcher` takes everything from one queue
that the same thread fills, so an item takes effect when it is queued.
`Messages(op, to)` are the actions of one request as another server gets them
and `Local(n, msgs)` what `local_send` lets through to the own processor; there
are finitely many servers, as a list of peers has.
`EndLost` stands for the websocket loop of `tk_http`, an external crate.

### Destinations

`plain` is the table of `HttpPools`: the number of the pool of a destination. A
pool that a reload takes out of the table goes on until its work is done, and
the destination may come back with another one.  `queue` and `wire` are the two
places where an accepted request can be; `codec` is the state of its codec and
`answers` what its client was told.  A pool may close while its address is
connecting, connected or blacklisted; its `link` then stays as it was.  A
method call is looked up in the configuration of the moment, a proxied request
in the one its headers came under, both in the table of the moment.  `Attempt`
... `Close` stand for `tk_pool` and `tk_http`, external crates, with what
swindon's `Collect` and codecs do in their calls.  Headers, bodies and
addresses are left out except for what decides: a status that is 200 or not, a
content type that is absent, right or wrong, a body that is JSON or not.  The
assumptions say that a request is one of the three kinds and that there are
finitely many, which the gauges need to count them.

### Configurator and ConfigRead

A step is one look at one file: `Stat`, `Read` for each file of the
configuration in the order in which they are named, `Build`, then `Calc` and
`Digest` for each of them again.  `Write` and `Delete` may come between any
two, and any of the files may be one that does not parse.  Metadata is a number
that is new with every change.  `With` is the push of a file onto the list of
those read; one named twice keeps the metadata of its first reading, which is
the one that is outdated first.  `MeaningsTable` holds what the texts mean, by
version of each file, so that it is computed once.  `ConfigRead` computes what
the texts mean: mixins with their prefixes (four of the eight sections, those
that other sections name; the others go through the same `mix_in`), defaults,
references between sections, the dialect (`compatibility`) of the handlers of a
session pool, for every order of the hash map of handlers.  `cell` is what
`ConfigCell` holds, `applied` what `update_loop` last worked with.

### Routing, LatticeValues, StaticFiles

Pure code as operators.  A host is a sequence of labels and a path a sequence
of segments, so that "ends with `.host`" and "starts with the path, up to a
slash" are suffix and prefix.  `Routing` keeps the steps of `_create` (exact
and star lines of a host, inheritance by path and by host, longest first) and
of the two lookups; `StartRequest` composes them with the authorizers.
`LatticeValues` has the field-by-field merge of which `Pool` keeps one version
number.  `StaticFiles` takes what is found under a path as an input.

## 3. Runs

Bounds are the constants of the `.cfg` files; each bound is named `Max...` in
its module.

| Run | Shows | Instance |
|---|---|---|
| `PoolTopics` | `TypeOK`, `TopicsInSync`, `PanicsExplained`, `DeliveredInOrder`, `IdleSessionsExpire` (fair) | 2 connections of 1 user, a third that the pool does not know, 1 topic, 2 publications, a lattice that may be missing, a pool that may be removed |
| `PoolPresence` | `SessionsInSync`, `StatusShown`, `InactiveOnlyWhenExpired` | 3 connections, 2 users who watch each other, times up to 1 |
| `PoolLattices` | `KeysSubscribed`, `PrivateCopyCurrent`, `SharedCopyNotStale` | 2 connections of 1 user, 2 keys, 3 versions |
| `ChatSteady` | `TypeOK`, `OnlyDropsPanic`, `OpenIsServed`, `HandshakeEnds` (fair) | 2 connections, no reload, 1 publication |
| `ChatReload` | `ForgottenWhenClosed`, `PoolFollowsConfig` (fair) | 1 connection, 3 reloads |
| `HeapMap` | `Consistent`, `EntriesMatch`, `ImplementsDeadlineMap` | 5 keys, 2 times, 6 slab indices |
| `ReplOnce` | `TypeOK`, `AppliedOnce`, `LatticeBeforeAttach` | 2 nodes, 2 sockets, a restart each, a changed list of peers, 1 operation |
| `ReplReconnect` | `Reconnected` (fair) | 2 nodes, 3 sockets, 1 operation |
| `Destinations` | `TypeOK`, `AcceptedAnsweredOnce`, `UndisturbedByReload`, `GaugesCount` | 2 destinations, 1 call, 1 proxied request, 1 notice, a queue of 1, 2 reloads |
| `Config` | `TypeOK`, `NothingMissed`, `FingerprintOfFiles`, `ReferencesHold`, `EventuallyApplied` (fair) | 2 files with 5 texts each, 3 edits |
| `Rules` | `NearestEntryDecides`, `HeadersGainNothing`, `DeltasCommute`, `ClientFollowsDelta`, `CacheOnlyVersioned`, `ReloadTakesEffect` | tables of up to 3 entries over 3 hosts and 3 paths; up to 2 forwarding headers; 3 deltas of one key; 2 settings; 3 disk configurations |

Why these bounds are enough for the case each run is about.  Two connections
let one connection's messages come between any two of the other's, and two
publications put one before and one after the association.  Topics do not
interact, and neither do the handlers of topics and users: `PoolProofs` covers
what more of them would add.  Presence needs a watcher with two connections and
a watched user (three connections).  Three versions of a key let a client be
one behind on a value that was already updated once, and two keys let a delta
give one and update the other; more users and connections are left to
`PoolLatticeProofs`.  Three reloads remove the
pool, add it and remove it again while the first notice is still in its slot.
A heap needs six items before the item that fills a hole can have to rise:
`insert` over one of five keys reaches six.  Two sockets are what two servers
that list each other have; a third is one more retry.  The properties of
`ReplOnce` are about the messages of one operation, and operations do not read
what others left behind, so one is enough; a link is found broken by an
operation, which is what `ReplReconnect` needs its one for.

The call and the proxied request of `Destinations` compete for the one place in
the queue of their destination and can be on its connection together, so that
the end of the connection drops both; two reloads take a destination away and
bring it back while a request waits in its first pool.  Three edits of the
configuration can fall before the metadata of a file is taken, between it and
the text, and between the text and the fingerprint.  A routing table needs
three entries for one host below another with a guarded path in between; three
deltas are what associativity needs.

Fairness.  `Pool!FairSpec`: time passes and the processor cleans up, as its
loop with `recv_timeout` does; that it wakes up in time rests on the least
deadline of the heap, which is what `HeapMap` is about.  `ChatServer!FairSpec`:
the processor thread and the reactor keep running what is ready.  Nothing is
assumed of clients, nor of the authorization request: it may wait in the queue
of its destination for ever, since that time is not counted in
`max-request-timeout` (`docs/config/http-destinations.rst:85`), so
`HandshakeEnds` starts when the request has ended, in an answer, a refusal or
the drop of its codec.  `Replication!FairSpec`: the interval and the timers
fire, an attempt to connect succeeds or fails, and a websocket loop that lives
attaches and reads; connections need not last.  `Configurator!Spec`: the
updater thread polls every ten seconds and the reactor takes the notice; nobody
has to edit anything.  `Destinations` has safety properties only: how long a
backend takes is bounded by timeouts of `tk_http` that the model leaves open.

Deadlock is not checked for `ChatServer`, `Replication`, `Destinations` and
`Configurator`: with the bounds used up, every client gone or `main` ended by a
bad first configuration, the system may stop.  `Rules` takes one step.

### Where the code and what it says of itself disagree

The run `PoolPanic` ends with a counterexample: `associate()` drops a connection
half way when a lattice is missing, and a later `publish` or `Disconnect` panics.
`findings` quotes the lines.  Passing runs say how far the damage goes:
`PanicsExplained` names for each `expect()` of the pool the only reasons for
which it fails, and `OnlyDropsPanic` says that without reloads there is none
but this one.

The same models show more places where the code does not do what it, or its
documentation, says; they are not kept as runs:

* a websocket older than its pool, removed from the configuration and added
  again, panics the processor when it closes (`pool.rs:227`,
  `expect("valid connection")`): two reloads lead there in
  `ChatServer`;
* the stop of a pool is written to the websocket as a text message and the
  websocket stays open (`swindon_chat.rs:118`; `processor/mod.rs:255`, "this
  clause should never actually be called";
  `docs/swindon-lattice/websocket_shutdown_codes.rst:20` promises `4001`);
* users lists for another server's connection are applied to the local one of
  the same number, because `local_send` filters four other kinds of actions
  only (`session.rs:142`; `action.rs:94`, "it's filtered in
  Watcher::local_send"): `Taken` in `Replication`;
* a method call that no pool takes is answered twice, by `method_call`
  (`dispatcher.rs:136`) and by the drop of its codec: `Rejection` in
  `Destinations`; `AcceptedAnsweredOnce` is about the others;
* an empty user id passes the check of session ids (`intern.rs:80`) but not
  that of lattice keys, so `parse().unwrap()` fails where its status is sent
  (`pool.rs:784`, `pool.rs:793`); user ids in `Pool` are not empty;
* the settings of a destination that stays are not brought up to date by a
  reload (`http_pools.rs:245`, a TODO);
* a pool that closes with connections or blacklisted addresses takes nothing
  off their gauges (`http_pools.rs:213`, "decrement global counters?"),
  unless `tk_pool` ends them first: `GaugesCount` says the gauges are off by
  that and no more;
* an authorizer is inherited from the *root* of a star host only, not from its
  paths (`routing.rs:150`; `docs/config/auth.rst:26`, "inherited across paths
  and subdomains", shows no such case): `Nearest` in `Rules` is the rule of the
  code;
* an IPv4 network without a mask is a `/24`, and `/32` is refused
  (`config/networks.rs:66`);
* registers of equal version and different value stay different on different
  servers (`lattice.rs`, the comparison is strict); the deltas of `Rules` give
  a version one value;
* an edit that changes only comments leaves metadata and fingerprint as they
  were, so the files are read again at every poll, and the status page shows
  the old fingerprint: `Build` in `Configurator`;
* the fingerprint is made from a second reading and may be that of a newer
  text until the next poll: `FingerprintOfFiles` is stated for when nothing
  is changed;
* `override-host-header` is required of the default destination of a chat
  handler only (`read.rs`; `docs/config/http-destinations.rst` asks for all);
  names of networks, disk pools and LDAP servers are not checked at all, and
  `ReferencesHold` is about handlers, authorizers, session pools and http
  destinations;
* a version that goes on with a git revision and the same version without it
  are each less than the other (`config/version.rs`);
* `lowercase_hex` accepts g to z, and `docs/config/handlers.rst:214` shows
  `xx/yyyyyy/filename.ext` where the code makes `xx/yyyyyy-filename.ext`;
* `strip-host-suffix` of `!VersionedStatic` is accepted and ignored, and
  `client-min-idle-timeout` may be above `client-max-idle-timeout`: then the
  minimum wins (`Clamp`);
* connections closed while their session was active stay in the session's sets
  after inactivation (`pool.rs:268`, "We delete it on inactivation");
* a key that the clean-up took away and that is given again comes without its
  shared values, because the subscription stayed (`pool.rs:357`).  The client
  may then keep an outdated shared value for good: a delta that names its
  session for another key misses this one, and when the key is given again it
  is not new; and since shared values go with their last subscriber and are
  made anew, a copy may also be ahead of the server's.  `SharedCopyNotStale`
  is stated for subscriptions that are not in `lapsed`;
* an update of several shared keys goes whole to every session subscribed to
  one of them (`pool.rs:574`; `docs/swindon-lattice/lattices.rst:64`, "not all
  users have access to all the keys");
* a session back from inactive gets the message's time as its expiry, not the
  new-connection timeout (`pool.rs:162`; test comment at `pool.rs:914`);
* the inactivity handler of a removed pool may end before the processor stops
  the pool, whose next expiry then panics (`pool.rs:378`);
* a pool removed during a handshake sends `StopSock` where the reactor insists
  on `Hello`, and panics (`swindon_chat.rs:172`);
* the configuration may be replaced between `serve` and `hijack`, whose
  `unwrap()` then fails (`swindon_chat.rs:83`, "may this unwrap crash?");
* what was published before two servers were connected never reaches the other
  one (`session.rs:155`; `docs/config/replication.rst:4`, "keep in sync");
* a connection whose handshake fails (refused, lost upgrade, `Hello` not
  written) has no `Dispatcher`, so no `Disconnect` is ever sent and the pool
  keeps its entry;
* `users_detach` clears a session's peers without removing it from
  `user_listeners`;
* when a new socket replaces a link, actions on the old one may arrive after
  later ones.

## 4. Proofs

The theorems hold for every value of the constants that satisfies the
assumption named in the module: any number of connections, sessions, topics,
keys, servers, destinations, files, reloads and restarts.  The `Max...` bounds
are constants of the models too, so a theorem holds for all of them.

| Module | Theorems | Property |
|---|---|---|
| `PoolProofs` | `TypeCorrect`, `SubscriptionsStayInSync`, `PanicsHaveReasons`, `PublicationsDelivered`, `SessionsStayInSync`, `SessionsExpireInTime`, `StatusesStayCurrent` | `TypeOK`, `TopicsInSync`, `PanicsExplained`, `DeliveredInOrder`, `SessionsInSync`, `InactiveOnlyWhenExpired` (an action property), `StatusShown` |
| `PoolLatticeProofs` | `KeysStaySubscribed`, `PrivateCopiesStayCurrent`, `SharedCopiesNotStale` | `KeysSubscribed`, `PrivateCopyCurrent`, `SharedCopyNotStale` |
| `ChatServerProofs` | `TypeCorrect`, `ClosedForgotten`, `OnlyDropsBeforeReload`, `OpenServedBeforeReload`, `HandshakesWillHear`, `PoolCatchesUp` | `TypeOK`, `ForgottenWhenClosed`, `OnlyDropsPanic`, `OpenIsServed`; the safety part of `HandshakeEnds` and `PoolFollowsConfig` |
| `HeapMapProofs` | `ConsistentAlways`, `EntriesMatchAlways`, `PercolationsEnd`, `Refinement` | `Consistent`, `EntriesMatch`, that the loops end, `ImplementsDeadlineMap` |
| `ReplicationProofs` | `TypeCorrect`, `AppliedAtMostOnce`, `LatticeComesFirst` | `TypeOK`, `AppliedOnce`, `LatticeBeforeAttach` |
| `DestinationsProofs` | `TypeCorrect`, `AnsweredOnce`, `ReloadsDisturbNothing`, `GaugesStayRight` | `TypeOK`, `AcceptedAnsweredOnce`, `UndisturbedByReload`, `GaugesCount` |
| `ConfiguratorProofs` | `TypeCorrect`, `FingerprintIsTheirs`, `EditsNotOverlooked`, `NothingIsMissed`, `EveryNameLeadsAlways`, `ReferencesAlwaysHold` | `TypeOK`, `FingerprintOfFiles`, `WorksWithFiles`, `NothingMissed`, `EveryNameLeads` (all methods), `ReferencesHold` |
| `RulesProofs` | `LatticesStayLattices`, `UpdatesCommute`, `CopiesFollow`, `RepeatedDeltaSilent`, `OrderImmaterial` | about the operators of `LatticeValues` |
| | `NearestEntryAlwaysDecides`, `DeltasCommuteAlways`, `ClientFollowsAlways`, `HeadersNeverGain`, `CacheOnlyVersionedAlways`, `ReloadTakesEffectAlways` | `NearestEntryDecides`, `DeltasCommute`, `ClientFollowsDelta`, `HeadersGainNothing`, `CacheOnlyVersioned`, `ReloadTakesEffect` |

Few of these properties are inductive as they stand.  What each needs:

* **Pool.**  `TypeOK` is inductive.  Delivery depends on subscriptions,
  subscriptions on which map holds the connection, and the reason of a panic is
  known only where subscriptions are in sync: `SyncInv` is the conjunction of
  the three with `TypeOK`, and `FreshEmpty` adds that a number not yet used has
  no subscription, buffer or history.  `SessionsInSync` is inductive given the
  types.  `StatusShown` needs `Watch`: what a client was told of a user is the
  user's status, and its session is among the user's listeners.
  `KeysSubscribed` needs its converse, `KeyInv`: a subscription without a
  private key is one that the clean-up left behind (`lapsed`).  The two
  properties of the copies need `Copy`: a connection is in its session's set
  for a lattice exactly if it is attached to it; one attached has the server's
  private values and no outdated shared ones, one that is not has nothing.
* **ChatServer.**  The invariant follows the events of one connection through
  the queue.  `InOrder`: the reactor sends `NewConnection`, `Associate` and
  `Disconnect` in this order and each at most once.  `Story`: what is still in
  the queue, with where the connection is on the reactor, says which of the
  pool's maps may hold it.  `ForgottenWhenClosed` follows from that for any
  reloads.  `Steady` is for the time before the first reload: the pool's own
  event is ahead of those of all connections, so every event finds its pool.
  Only a connection in `dropped` can then make the processor panic.
  `OnlyDropsPanic` and `OpenIsServed` are false after a reload (section 3), so
  their statements are about a configuration that has not changed, as
  `ChatSteady` checks.  Two theorems hold after reloads and panics too and say
  what the liveness properties need besides fairness.  `HandshakesWillHear`: a
  connection in its handshake has asked a backend that still owes the answer or
  has a message in its channel, so none waits for something that nobody will
  send.  `PoolCatchesUp`: once the reactor has seen the last change and the
  processor has handled the events of the pool, the pool is there exactly if it
  is configured; for this `CatchesUp` follows the last of the pool's events
  through notice and queue.
* **HeapMap.**  During a percolation the heap is ordered except at one place,
  so the invariant is a heap with a hole: `Tree`, every item but the one at
  `at` is in order with its parent (rising) or its children (sinking), and
  `Hole`, the items below the hole are in order with the item above it, without
  which a swap could not be shown to keep the rest in order.  `Exact` makes
  index and items inverse to each other.  `Entries` says for each part of a
  call which entry is missing from map, slab or heap and is in the hands of the
  call.  That the root is least takes induction over positions: `RootLeast`
  looks at the first position with a lesser item and at its parent.
  `PercolationsEnd` gives each loop a number of rounds left that every round
  makes smaller.  The refinement is shown step by step: `Pop` takes the root,
  so what `Popped` hands out is a least deadline; `Inserted`, `Stored` and
  `Popped` are the steps of the abstract map, and the steps before and between
  them leave every deadline as it was, because a swap moves an item together
  with its index.
* **Replication.**  `SocketInv` says whose ends a socket has and that an end
  which is not over belongs to the present start of its server; `LinkInv` that
  a link leads through a socket to the server it is kept for.  So one request
  reaches a server through one socket only, and `MessageInv` can say that what
  waits on the sockets and what was applied are apart, that each channel has
  no message twice, and that every `Attach` has its `Lattice` ahead of it, in
  the channel or applied.
* **Destinations.**  `PlaceOK`: a request is in at most one place, one queue or
  one wire of one pool, once, and the state of its codec says where
  (`CodecInv`); so what ends it ends it once.  `WireOK`: requests are on a wire
  only while the connection is up.  `TableInv`: a reload makes at most one pool
  for a destination, and one that nothing happened to has its pool in the table,
  not stopped; `SeenOK`: a proxied request still being read came under a
  configuration with its destination, if nothing happened to that.  The gauges
  are counted by cardinalities of the sets they stand for, split into what is
  there and what closed pools left (`AddressesSplit`).
* **Configurator.**  `Vouched`: as long as a file has the metadata that was
  taken of it, it has the text that was read and the text that was digested.
  It holds because metadata is taken before the text and every change brings
  metadata that was not seen before.  Together with what is known of the files
  at each stage (`PlaceOK`, `DomainsOK`, `ReadOK`) it carries over to the
  active configuration (`CellOK`, `AppliedOK`).  `WorksWithFiles`, defined in
  the proofs, is the part of `NothingMissed` that is about concurrency: while
  the updater finds nothing changed and no notice waits, the server works with
  *a* meaning of the texts in the files, and watches all the files it should.
  That there is no other meaning is about the loop over the handlers, in the
  order of a hash map.  It has a closed form (`LoopKeeps`): a set of handlers
  gets through in one order exactly if it is `Good`, each acceptable `Alone`
  and those of one pool in agreement, and then the pools are as `PoolsLeft`
  says, which leaves no choice.  `OneMixin` and `SameMixins` say that mixins
  only add to the main text and that files not named do not matter.
  `AcceptedInv` carries what was accepted to the configuration that the server
  works with, whatever was read since, and `OneIsFirst` finds in the order of
  the patterns the most special one.  What is assumed of texts, `IsText`, is
  what the validators of the configuration let through.
* **Rules.**  The state is an input, so what is proved is about the operators.
  Each kind of lattice value is shown to be a join (order, repetition,
  absorption), then the maps of variables, of keys and of sessions on top of
  it.  `IsRange` is what the theorems need of values: counters are numbers,
  versions of registers are ordered and one version has one value
  (`DeltasAssumption` asks it of the deltas).  `CopiesFollow` is an induction
  step: its conclusion about the copy is its hypothesis for the next delta.
  Sequences of deltas and of configurations go through *traces*, the function
  from how many were applied to the result; facts about traces are proved by
  `FromZero`, which is induction over a set of numbers, and `AfterIs` and
  `PoolsAfterIs` say that the recursive functions of the model are traces.
  `CacheOnlyVersioned` and `HeadersGainNothing` are proved by cases over a
  closed form of the response (`ServedIs`, `StartIs`), for every setting and
  request that the reader of the configuration lets through (`FilesAssumption`,
  `AuthAssumption`).  `NearestEntryDecides` takes the table apart:
  `LongestFirstIs` says what sorting yields and `FirstIsLongest` that the first
  match in it is a longest one; `FlattenFinds` finds the first line in the
  lines of all hosts, which `LinesOfHost` gives for one host; `Leads` is the
  first authorizer of a list of candidates, and `PathsAbove` and `HostsAbove`
  find in the lists of `update_by_path` and of the loop over the dots the
  nearest entry that names one; `RouteInDomain` puts them together for the
  entries of one name.  `IsRouting` is what the parser of the section yields:
  a map by host and path in which the empty host has a star.

TLC checked the invariants of the proofs on the instances of the runs before
they were proved.

Only model-checked, and why:

* liveness (`IdleSessionsExpire`, `HandshakeEnds`, `PoolFollowsConfig`,
  `Reconnected`, `EventuallyApplied`): fairness and `ENABLED` are outside what
  the prover handles; for `HandshakeEnds` and `PoolFollowsConfig` the part that
  is about what can go wrong, rather than about when it happens, is proved.

## 5. Not modelled

* Small handlers (redirect, echo, empty gif, status page), response encoding,
  debug headers, error pages: one response computed from one request, without
  a decision that another part relies on.
* The grammar of YAML, JSON messages and URLs, and the decoding of paths: the
  models take what parsing yields, including that it fails.
* Logging, metrics other than the gauges of destinations, request ids,
  interning, privileges: formatting and start-up.
* The LDAP authorizer, `unimplemented!()` in the code.
* `tk_http`, `tk_pool`, `slab`, `quire` and tokio are external; they appear
  where the code meets them.

## 6. Plan

1. *done*: `Pool`, `ChatServer`, `HeapMap` with its abstract specification,
   `Replication`, `Destinations`, `Configurator` with `ConfigRead`, `Routing`,
   `LatticeValues`, `StaticFiles`, and their runs.
2. *done*: the proofs of section 4: every safety property that a passing run
   checks, and the refinement of `DeadlineMap`.
3. An abstract specification of membership (which connection belongs to which
   user, and who is active) that `Pool` implements, and its refinement proved
   step by step from `SessionsInSync`.
4. That the version numbers of `Pool` are an abstraction of `LatticeValues`:
   `CopiesFollow` has the step, the mapping is missing.
5. A bound on `user_listeners`, which `users_detach` lets grow.
