-------------------------------- MODULE Rules --------------------------------
(***************************************************************************)
(* The parts of the server that only compute: routing and authorization,   *)
(* lattices and static files.  The state is one input for one of them; the *)
(* properties relate what the operators make of it to definitions that do  *)
(* not follow the steps of the code, or to what they make of other inputs. *)
(***************************************************************************)
EXTENDS Routing, LatticeValues

Files == INSTANCE StaticFiles

CONSTANTS
    \* routing and authorization
    Tables, Requests,   \* sections `routing`: sets of entries; hosts and paths
    Networks,           \* name -> list of networks
    AuthTables, AuthRequests, \* of requests to be authorized
    AuthConfigs,        \* settings of SourceIp
    Addresses, Headers, \* senders, and lists of forwarded addresses
    \* lattices
    Ranges,             \* variable -> its possible values
    Deltas,
    MaxDeltas,          \* bound: deltas one after the other
    \* static files
    VersionedSettings, StaticSettings, SingleFileSettings,
    FileRequests,
    PoolNames, PoolConfigs,
    MaxConfigs          \* bound: configurations one after the other

\* The section `routing` is a map by host and path, with a star for the
\* empty host.
IsRouting(src) ==
    /\ IsFiniteSet(src)
    /\ \A e \in src : /\ e.star \in BOOLEAN /\ e.host \in Seq(STRING) /\ e.path \in Seq(STRING)
                      /\ e.host = <<>> => e.star
                      /\ e.authorizer \in STRING
    /\ \A e, f \in src : e.star = f.star /\ e.host = f.host /\ e.path = f.path => e = f

ASSUME RoutesAssumption ==
    /\ \A src \in Tables : IsRouting(src)
    /\ \A r \in Requests : r[1] \in Seq(STRING) /\ r[2] \in Seq(STRING)

ASSUME AuthAssumption ==
    /\ \A name \in DOMAIN Networks : \A item \in Networks[name] : ~SubnetError(item)
    /\ \A hs \in Headers : hs \in Seq(Addresses \cup {BadAddress})
    /\ BadAddress \notin Addresses
    /\ \A c \in AuthConfigs :
          /\ c = [kind |-> "SourceIp", allowed |-> c.allowed, header |-> c.header,
                  from |-> c.from]
          /\ c.header \in BOOLEAN

ASSUME DeltasAssumption ==
    /\ IsRange(Ranges) /\ \A d \in Deltas : IsLattice(d, Ranges)
    /\ MaxDeltas \in Nat

\* The fields of the structs in config/static_files.rs that are written in
\* the configuration.
Fields(int, names) == int = [x \in names |-> int[x]]
ASSUME FilesAssumption ==
    /\ \A int \in VersionedSettings :
          Fields(int, {"versioned_root", "plain_root", "version_arg", "version_split",
                       "version_chars", "fallback_to_plain", "fallback_mode", "text_charset",
                       "pool", "extra_headers"})
    /\ \A int \in StaticSettings :
          Fields(int, {"mode", "path", "text_charset", "pool", "extra_headers",
                       "strip_host_suffix", "index_files", "generate_index",
                       "generated_index_max_files"})
    /\ \A int \in SingleFileSettings :
          /\ Fields(int, {"path", "content_type", "pool", "extra_headers"})
          /\ ~Files!SingleFileError(int)
    /\ \A req \in FileRequests :
          \/ req.version = Files!NoVersion
          \/ Range(req.version) \subseteq {"0-9", "a-f", "g-z", "other"}
    /\ \A c \in PoolConfigs : c = [n \in DOMAIN c |-> c[n]]
    /\ MaxConfigs \in Nat

VARIABLE input

Inputs ==
         [kind : {"routes"}, src : Tables]
    \cup [kind : {"address"}, src : AuthTables, to : AuthRequests, cfg : AuthConfigs,
          addr : Addresses, headers : Headers]
    \cup [kind : {"deltas"}, deltas : [1 .. MaxDeltas -> Deltas]]
    \cup [kind : {"file"}, int : VersionedSettings, req : FileRequests]
    \cup [kind : {"VersionedStatic"}, a : VersionedSettings, b : VersionedSettings]
    \cup [kind : {"Static"}, a : StaticSettings, b : StaticSettings]
    \cup [kind : {"SingleFile"}, a : SingleFileSettings, b : SingleFileSettings]
    \cup [kind : {"pools"}, configs : [1 .. MaxConfigs -> PoolConfigs]]

Init == input = [kind |-> "none"]
Next == input.kind = "none" /\ input' \in Inputs
Spec == Init /\ [][Next]_input

-----------------------------------------------------------------------------
(* Properties: routing and authorization.                                  *)

Longest(S1, Length(_)) == CHOOSE e \in S1 : \A f \in S1 : Length(f) <= Length(e)

\* The rule of the code for one request, without a table and its order: the
\* entries of the longest name that the host ends with, those for the host
\* itself before those for its subdomains, and of these the one with the
\* longest path; the nearest authorizer on the way up, through the paths of
\* that name and then through the roots of the hosts `*.name` above it.  That
\* only their roots count is what update_from_host does; the documentation
\* says that authorizers are inherited "across paths and subdomains".
Nearest(src, host, path) ==
    LET n == Longest({e.host : e \in {f \in src : IsSuffix(f.host, host)}}, Len)
        exact == {e \in src : e.host = n /\ ~e.star}
        domain == IF host = n /\ exact # {} THEN exact
                  ELSE {e \in src : e.host = n /\ e.star}
        here == {e \in domain : IsPrefix(e.path, path)}
        rpath == IF here = {} THEN Root ELSE Longest(here, LAMBDA e : Len(e.path)).path
        inside == {e \in here : e.authorizer # None}
        above == {e \in src : e.star /\ e.path = Root /\ IsSuffix(e.host, n)
                                /\ e.authorizer # None}
    IN [found |-> TRUE,
        handler |-> IF here = {} THEN "default"
                    ELSE Longest(here, LAMBDA e : Len(e.path)).handler,
        authorizer |-> IF inside # {} THEN Longest(inside, LAMBDA e : Len(e.path)).authorizer
                       ELSE IF above # {} THEN Longest(above, LAMBDA e : Len(e.host)).authorizer
                       ELSE "default",
        suffix |-> SubSeq(path, Len(rpath) + 1, Len(path))]

\* Every request gets the handler of the nearest entry and the authorizer
\* that the nearest entry above it names, where from other hosts only their
\* roots are inherited: the table that _create makes, with its fallbacks for
\* hosts without star or exact entries, and the two lookups of route() agree
\* with that rule for all small tables.
NearestEntryDecides ==
    input.kind = "routes" =>
        LET src == input.src
            table == Table(src)
        IN \A r \in Requests :
            Route(r[1], r[2], table) =
                IF \E e \in src : IsSuffix(e.host, r[1]) THEN Nearest(src, r[1], r[2]) ELSE NoRoute

\* Nobody gains by what it writes into the forwarding headers.  A sender that
\* `accept_forwarded_headers_from` does not cover is answered the same with
\* any headers.  A client behind a proxy that it covers, which appends the
\* client's address to what the client sent, is answered as if it had come
\* directly, or is denied, and denied only for sending what is no address.
HeadersGainNothing ==
    input.kind = "address" =>
        LET cfg == input.cfg
            table == Table(input.src)
            r == Route(input.to[1], input.to[2], table)
            answer(ip, hs) ==
                StartRequest(table, [a \in {r.authorizer} |-> cfg], Networks,
                             [host |-> input.to[1], path |-> input.to[2],
                              addr |-> ip, headers |-> hs])
            covered(ip) == /\ cfg.header /\ cfg.from \in DOMAIN Networks
                           /\ InNetwork(Networks[cfg.from], ip)
            behind(proxy) == answer(proxy, Append(input.headers, input.addr))
        IN r.found =>
           /\ ~covered(input.addr) =>
                 \A hs \in Headers : answer(input.addr, hs) = answer(input.addr, input.headers)
           /\ \A proxy \in Addresses : covered(proxy) =>
                 \/ behind(proxy) = answer(input.addr, <<>>)
                 \/ behind(proxy) = "403" /\ BadAddress \in Range(input.headers)

-----------------------------------------------------------------------------
(* Properties: lattices.                                                   *)

\* A lattice depends on which deltas it has seen, not on their order or on
\* how often each came: backends and other servers may repeat and reorder
\* what they send.
DeltasCommute ==
    input.kind = "deltas" =>
        LET all == After(input.deltas) IN
        /\ \A other \in [1 .. MaxDeltas -> Range(input.deltas)] :
              Range(other) = Range(input.deltas) => After(other) = all
        /\ \A d \in Range(input.deltas) : Update(all, d) = all

\* Two lattices with the same values; a key without variables is as good as
\* none.
SameKeys(m, n) == \A k \in DOMAIN m \cup DOMAIN n : ValueAt(m, k) = ValueAt(n, k)
SameValues(a, b) ==
    /\ SameKeys(a.shared, b.shared)
    /\ \A s \in DOMAIN a.private \cup DOMAIN b.private :
          SameKeys(ValueAt(a.private, s), ValueAt(b.private, s))

First(seq, n) == [i \in 1 .. n |-> seq[i]]
\* What Lattice::update leaves of each delta.
Sent(deltas) == [i \in 1 .. Len(deltas) |-> MinimalDelta(After(First(deltas, i - 1)), deltas[i])]

\* Clients get what Lattice::update leaves of a delta, not the delta: one
\* that has heard all of it has the values of the server, and nothing is sent
\* for a delta exactly if that changes nothing.
ClientFollowsDelta ==
    input.kind = "deltas" =>
        LET deltas == input.deltas
            sent == Sent(deltas)
        IN /\ SameValues(After(sent), After(deltas))
           /\ \A i \in 1 .. MaxDeltas :
                 SameValues(sent[i], NewLattice) <=>
                     SameValues(After(First(deltas, i - 1)), After(First(deltas, i)))

-----------------------------------------------------------------------------
(* Properties: static files.                                               *)

\* The modes of fallback_to_plain, the strictest first.
Modes == <<"never", "no_version", "bad_version", "no_file", "always">>

Content(response) == [status |-> response.status, body |-> response.body]

\* A versioned URL may be cached for ever only where the file of that very
\* version is sent; a plain file in its place is not to be kept, and is sent
\* as the handler !Static would send it.  A mode that falls back in more cases
\* serves what a stricter one serves.
CacheOnlyVersioned ==
    input.kind = "file" =>
        LET req == input.req
            settings(i) == Files!ReadVersioned([input.int EXCEPT !.fallback_to_plain = Modes[i]])
            served(i, probe, plain) == Files!ServeVersioned(settings(i), req, probe, plain)
            whole == req.version # Files!NoVersion
                        /\ Len(req.version) = Files!VersionLen(input.int.version_split)
        IN \A i \in 1 .. 5, probe, plain \in Files!Probes :
            LET r == served(i, probe, plain) IN
            /\ r.cache = "GoodCache" => r.body = "versioned" /\ whole
            /\ r.body = "plain" =>
                 /\ Content(r) = Content(Files!ServeDir(settings(i).fallback, req, plain, 0))
                 /\ req.has_path => Content(r) = Content(Files!ServeFile(req, plain))
                 /\ whole /\ req.file_name /\ "other" \notin Range(req.version)
                       => r.cache = "NoCache"
            /\ r.body # None => \A j \in i .. 5 : served(j, probe, plain) = r

\* A reload that changes what a handler or a disk pool does is not taken for
\* one that changes nothing: settings that compare equal are equal in all that
\* is computed from them, and a pool works with the settings last given to it.
ReloadTakesEffect ==
    /\ input.kind = "VersionedStatic" =>
          LET a == Files!ReadVersioned(input.a)
              b == Files!ReadVersioned(input.b)
          IN Files!Equal(a, b, Files!VersionedCompared) => a = b
    /\ input.kind = "Static" =>
          LET a == Files!ReadStatic(input.a)
              b == Files!ReadStatic(input.b)
          IN Files!Equal(a, b, Files!StaticCompared) => a = b
    /\ input.kind = "SingleFile" =>
          LET a == Files!ReadSingleFile(input.a)
              b == Files!ReadSingleFile(input.b)
          IN Files!Equal(a, b, Files!SingleFileCompared) => a = b
    /\ input.kind = "pools" =>
          LET configs == input.configs
              given(n) == {i \in 1 .. MaxConfigs : n \in DOMAIN configs[i]}
              isLatest(p, n) == \E i \in given(n) :
                                   (\A j \in given(n) : j <= i) /\ p = configs[i][n]
          IN \A n \in PoolNames :
                LET pool == Files!GetPool(Files!PoolsAfter(configs), n) IN
                IF given(n) # {} THEN isLatest(pool, n)
                ELSE IF given("default") # {} THEN isLatest(pool, "default")
                ELSE pool = Files!NewPools.default
=============================================================================
