------------------------------ MODULE MCRules ------------------------------
(***************************************************************************)
(* Instances of Rules for TLC: small tables, lists, values and settings.   *)
(***************************************************************************)
EXTENDS Rules, TLC

-----------------------------------------------------------------------------
(* Routing tables of up to three entries.                                  *)

Hosts == {<<>>, <<"a">>, <<"b", "a">>}
Paths == {Root, <<"x">>, <<"x", "y">>}
Keys == {k \in [star : BOOLEAN, host : Hosts, path : Paths] : k.star \/ k.host # <<>>}
\* The handler and the authorizer of an entry are named after it.
Entry(k, guarded) == k @@ [handler |-> ToString(k),
                           authorizer |-> IF guarded THEN ToString(k) ELSE None]
Entries == {Entry(k, g) : k \in Keys, g \in BOOLEAN}
MCTables == {{}} \cup {src \in {{e, f, g} : e, f, g \in Entries} :
             \A e, f \in src : e # f => e.handler # f.handler}
MCRequests == {<<"a">>, <<"b", "a">>, <<"c", "b", "a">>, <<"d">>}
                \X {Root, <<"x">>, <<"x", "y">>, <<"x", "z">>, <<"y">>}

\* A list of networks, and the address of a request.
V4(a, b) == [v |-> 4, bytes |-> <<10, a, b, 1>>]
V6 == [v |-> 6, bytes |-> <<10>> \o [i \in 1 .. 15 |-> 0]]
MCAddresses == {V4(0, 0), V4(0, 1), V4(1, 0), V6}
Net(addr, mask) == addr @@ [mask |-> mask]
MCNetworks == [inner |-> {Net(V4(0, 0), 16), Net(V6, NoMask)},
             proxies |-> {Net(V4(0, 0), NoMask)}, empty |-> {}]
MCAuthTables == {{Entry([star |-> TRUE, host |-> <<"a">>, path |-> Root], TRUE)}, {}}
MCAuthRequests == {<<<<"c", "a">>, Root>>, <<NoHost, Root>>}
MCAuthConfigs == [kind : {"SourceIp"}, allowed : {"inner", "empty", "absent"},
                header : BOOLEAN, from : {None, "proxies", "absent"}]
MCHeaders == UNION {[1 .. n -> MCAddresses \cup {BadAddress}] : n \in 0 .. 2}

-----------------------------------------------------------------------------
(* Deltas: some variables of one key, shared or of one session.            *)

Counter == [kind |-> "counter", name |-> "n"]
Set == [kind |-> "set", name |-> "n"]
Register == [kind |-> "register", name |-> "n"]
Version(n) == [version |-> n, value |-> ToString(n)]
MCRanges == Counter :> {1, 2} @@ Set :> {{"x"}, {"y"}, {"x", "y"}}
                @@ Register :> {Version(1), Version(2)}
Values == {Counter :> 1, Counter :> 2, Set :> {"x"}, Set :> {"y"},
           Register :> Version(1), Register :> Version(2),
           Counter :> 2 @@ Set :> {"y"} @@ Register :> Version(1), EmptyMap}
MCDeltas == {[shared |-> "key" :> v, private |-> EmptyMap] : v \in Values}
    \cup {[shared |-> EmptyMap, private |-> "session" :> ("key" :> v)] : v \in Values}

-----------------------------------------------------------------------------
(* Requests for versioned files, settings, disk pools.                     *)

Versioned(mode, fallback, split, headers) ==
    [versioned_root |-> "/v", plain_root |-> "/p", version_arg |-> "r",
     version_split |-> split, version_chars |-> "lowercase_hex",
     fallback_to_plain |-> fallback, fallback_mode |-> mode,
     text_charset |-> "utf-8", pool |-> "default", extra_headers |-> headers]
MCFileRequests ==
    [host : {Files!NoHost, <<"a">>}, plain : BOOLEAN, file_name : BOOLEAN, has_path : {TRUE},
     version : {Files!NoVersion, <<>>, <<"0-9", "g-z">>, <<"0-9", "other">>}]
MCPoolNames == {"default", "big"}
PlainModes == {"relative_to_route", "with_hostname"}
MCVersionedSettings == {Versioned(m, f, s, h) : m \in PlainModes, f \in Range(Modes),
                s \in {<<1, 1>>, <<2>>, <<1>>}, h \in {{}, {"content-type"}}}
MCStaticSettings ==
    [mode : PlainModes, path : {"/p"}, text_charset : {"utf-8", None}, pool : {"default"},
     extra_headers : {{}, {"content-type"}}, strip_host_suffix : {Files!NoSuffix, <<"a">>},
     index_files : {{}, {"index.html"}}, generate_index : BOOLEAN,
     generated_index_max_files : {0, 2}]
MCSingleFileSettings ==
    {int \in [path : {"/p", "/q"}, content_type : {None, "text/html"}, pool : {"default"},
              extra_headers : {{}, {"content-type"}, {"X-A"}}] : ~Files!SingleFileError(int)}
MCPoolConfigs == {Files!EmptyConfig, "default" :> 10, "big" :> 10, "big" :> 20,
                "default" :> 20 @@ "big" :> 40}
=============================================================================
