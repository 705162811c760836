------------------------------- MODULE Routing -------------------------------
(***************************************************************************)
(* From a request to its handler: the routing table that routing.rs makes  *)
(* of the configuration and looks requests up in, the authorizer that      *)
(* decides about a request (authorizers/source_ip.rs, config/networks.rs), *)
(* and Router::start_request (incoming/router.rs), which uses both.        *)
(*                                                                         *)
(* A host name is the sequence of its labels, a path the sequence of its   *)
(* segments: `www.example.org` is <<"www", "example", "org">>, the empty   *)
(* name and the root of a host are <<>>.  An entry of the section          *)
(* `routing` is a record with the fields                                   *)
(*    star, host, path     the key: HostPath(Host(star, host), path)       *)
(*    handler, authorizer  the RouteDef; None is a missing authorizer.     *)
(* There are only operators here; the runs look at all small tables.       *)
(***************************************************************************)
EXTENDS Integers, Sequences, SequencesExt, FiniteSets

None == "None"
Root == <<>>
NoHost == <<"no Host header">>
NoMask == -1
BadAddress == [v |-> 0, bytes |-> <<>>]

-----------------------------------------------------------------------------
(* Authorizers are inherited.                                              *)

Domain(src, star, host) == {e \in src : e.star = star /\ e.host = host}

\* The authorizer of a domain's entry for this very path, None without one.
AuthorizerAt(domain, path) ==
    LET here == {e \in domain : e.path = path} IN
    IF here = {} THEN None ELSE (CHOOSE e \in here : TRUE).authorizer

\* inherit() and is_done(): the first authorizer that is there.
Inherit(own, candidates) ==
    LET k == SelectInSeq(candidates, LAMBDA a : a # None) IN
    IF own # None \/ k = 0 THEN own ELSE candidates[k]

\* Slip: the nearest entry is asked last.
ByPathFromRoot(domain, path) ==
    [k \in 1 .. Len(path) |-> AuthorizerAt(domain, SubSeq(path, 1, k - 1))]
\* update_by_path: the entries above a path, the longest first, the root
\* of the domain last.
ByPath(domain, path) ==
    [k \in 1 .. Len(path) |-> AuthorizerAt(domain, SubSeq(path, 1, Len(path) - k))]

\* update_from_host: only the root of `*.host` counts.
FromHost(src, host) == AuthorizerAt(Domain(src, TRUE, host), Root)

\* The loop over the dots of a name, and table.get("") after it: the names
\* above, the nearest first and the empty one last.
FromParents(src, name) ==
    [k \in 1 .. Len(name) |-> FromHost(src, SubSeq(name, k + 1, Len(name)))]
        \o <<FromHost(src, <<>>)>>

-----------------------------------------------------------------------------
(* RoutingTable::_create                                                   *)

\* default(): the route of a domain without an entry for its root.
Default == [path |-> Root, handler |-> "default", authorizer |-> None]

\* The routes of a domain, each with its inherited authorizer; `outside`
\* are the hosts it inherits from when its own paths do not have one.
\* Resolver::route: nothing inherited means the authorizer "default".
Routes(domain, outside) ==
    LET own == {[path |-> e.path, handler |-> e.handler, authorizer |-> e.authorizer]
                    : e \in domain}
        all == IF \E e \in own : e.path = Root THEN own ELSE own \cup {Default}
        named(a) == IF a = None THEN "default" ELSE a
    IN {[e EXCEPT !.authorizer = named(Inherit(@, ByPath(domain, e.path) \o outside))]
            : e \in all}

\* sort_by: the longest first.  (The code counts characters and puts those of
\* one length in alphabetical order; of two that match the same request one
\* is a part of the other, and then either measure says the same.)
LongestFirst(S, length) ==
    CHOOSE s \in SetToSeqs(S) : \A i, j \in DOMAIN s : i < j => length[s[i]] >= length[s[j]]

\* PathTable::new
PathTable(routes) == LongestFirst(routes, [r \in routes |-> Len(r.path)])

\* The one or two lines of a host name.  Without an exact entry the star
\* entry is for the name itself as well; without a star entry the
\* subdomains have the default handler only.
HostLines(src, name) ==
    LET exact == Domain(src, FALSE, name)
        star == Domain(src, TRUE, name)
        starLine(match) ==
            [match |-> match, host |-> name,
             paths |-> PathTable(Routes(star, FromParents(src, name)))]
    IN IF exact = {} THEN <<starLine("any")>>
       ELSE <<[match |-> "exact", host |-> name,
               paths |-> PathTable(Routes(exact,
                            <<FromHost(src, name)>> \o FromParents(src, name)))],
              starLine("below")>>

\* The longest names first.
Table(src) ==
    LET hosts == {e.host : e \in src}
        names == LongestFirst(hosts, [h \in hosts |-> Len(h)])
    IN FlattenSeq([i \in 1 .. Len(names) |-> HostLines(src, names[i])])

\* The errors of _create: a handler StripWWWRedirect on an exact host that
\* is not www.something, and what Resolver::route does not find.  `handlers`
\* has a record with its kind for every name.
CreateError(src, handlers, authorizers) ==
    LET routes == UNION {Range(line.paths) : line \in Range(Table(src))}
    IN \/ \E e \in src : /\ ~e.star
                         /\ e.handler \in DOMAIN handlers
                         /\ handlers[e.handler].kind = "StripWWWRedirect"
                         /\ ~(Len(e.host) > 1 /\ Head(e.host) = "www")
       \/ \E r \in routes :
            r.handler \notin DOMAIN handlers \/ r.authorizer \notin authorizers

-----------------------------------------------------------------------------
(* route(): the first line that matches the host, then the first path.     *)

\* (Below the empty name are only names that end with a dot, not modelled.)
HostMatches(line, host) ==
    CASE line.match = "exact" -> host = line.host
      [] line.match = "below" -> line.host # <<>> /\ IsStrictSuffix(line.host, host)
      [] line.match = "any"   -> IsSuffix(line.host, host)

\* The regular expression: the path of the route, up to the end or a `/`.
PathMatches(route, path) == IsPrefix(route.path, path)

NoRoute == [found |-> FALSE]

Route(host, path, table) ==
    LET i == SelectInSeq(table, LAMBDA l : HostMatches(l, host))
        paths == table[i].paths
        k == SelectInSeq(paths, LAMBDA r : PathMatches(r, path))
    IN IF i = 0 \/ k = 0 THEN NoRoute
       ELSE [found |-> TRUE, handler |-> paths[k].handler, authorizer |-> paths[k].authorizer,
             suffix |-> SubSeq(path, Len(paths[k].path) + 1, Len(path))]

-----------------------------------------------------------------------------
(* Networks: an address is [v |-> 4 or 6, bytes |-> ...], an item of a     *)
(* network list has the address and the mask that were written, None       *)
(* without one.                                                            *)

\* Subnet::from_str: what is not a whole number of bytes is refused, and so
\* is an IPv4 mask above 24; without a mask an IPv4 address is a /24.
MaxMask(v) == IF v = 4 THEN 24 ELSE 128
SubnetError(item) == item.mask # NoMask /\ (item.mask % 8 # 0 \/ item.mask > MaxMask(item.v))
Mask(item) == IF item.mask = NoMask THEN MaxMask(item.v) ELSE item.mask

\* get_subnet
InNetwork(list, ip) ==
    \E item \in list :
        /\ item.v = ip.v
        /\ \A i \in 1 .. Mask(item) \div 8 : item.bytes[i] = ip.bytes[i]

\* Slip: the header is believed whoever sends it.
AlwaysForwarded(cfg, networks, addr) == cfg.from # None
\* accept_forwarded_headers_from: the sender must be in the network of that
\* name, which need not exist.
Forwarded(cfg, networks, addr) ==
    cfg.from \in DOMAIN networks /\ InNetwork(networks[cfg.from], addr)

\* The address to decide about: with headers that may be believed the last
\* of them, unless one of them cannot be parsed, which denies the request.
SourceAddress(cfg, networks, addr, headers) ==
    IF ~cfg.header \/ ~Forwarded(cfg, networks, addr) \/ headers = <<>> THEN addr
    ELSE IF BadAddress \in Range(headers) THEN BadAddress ELSE Last(headers)

\* Authorizer::check for AllowAll and SourceIp.
Check(cfg, networks, addr, headers) ==
    \/ cfg.kind = "AllowAll"
    \/ /\ cfg.kind = "SourceIp"
       /\ cfg.allowed \in DOMAIN networks
       /\ LET ip == SourceAddress(cfg, networks, addr, headers) IN
          ip # BadAddress /\ InNetwork(networks[cfg.allowed], ip)

-----------------------------------------------------------------------------
\* Router::start_request and headers_received: the handler that serves the
\* request, or the status of the error page.
StartRequest(table, authorizers, networks, req) ==
    LET r == Route(req.host, req.path, table) IN
    IF req.host = NoHost \/ ~r.found THEN "404"
    ELSE IF Check(authorizers[r.authorizer], networks, req.addr, req.headers)
         THEN r.handler ELSE "403"
=============================================================================
