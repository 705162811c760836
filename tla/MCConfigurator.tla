--------------------------- MODULE MCConfigurator ---------------------------
(* A main file and a mixin.  Their texts are chosen for the ways in which  *)
(* they fit together or not: names that clash, handlers that want          *)
(* different dialects of one pool, destinations that the other file        *)
(* defines or nobody does, and an edit that changes nothing but a comment. *)
EXTENDS Configurator, TLC

Version(minor) == <<[num |-> 0], [num |-> minor], [num |-> 2]>>
Lattice(version, map, route) ==
    [kind |-> "SwindonLattice", compatibility |-> version, session_pool |-> "pool",
     http_route |-> route, default |-> <<"dest", "/">>, map |-> map]
Proxy(upstream) == [kind |-> "Proxy", destination |-> <<upstream, "/">>]
Sub == Glob(<<1>>) :> <<"m-dest", "/">> @@ Glob(<<1, 2>>) :> <<"dest", "/sub">>
       @@ Exact(<<1, 2>>) :> <<"m-dest", "/exact">>

Base == [routing |-> {[star |-> TRUE, host |-> <<>>, path |-> Root,
                       handler |-> "chat", authorizer |-> None]},
         handlers |-> "chat" :> Lattice(Version(7), EmptyMap, None),
         authorizers |-> EmptyMap,
         session_pools |-> "pool" :> [flags |-> NoFlags,
                                      inactivity_handlers |-> {<<"dest", "/">>}],
         http_destinations |-> "dest" :> [override_host_header |-> TRUE],
         mixins |-> <<>>, comment |-> ""]

Mixed == <<[file |-> "mixin", prefix |-> {"m-chat", "m-dest", "m-proxy"}]>>

NoSection == [s \in Sections |-> EmptyMap]
MDest == "m-dest" :> [override_host_header |-> FALSE]

MCContent ==
    [plain  |-> Base,
     mixed  |-> [Base EXCEPT !.mixins = Mixed],
     edited |-> [Base EXCEPT !.mixins = Mixed, !.comment = "edited"],
     old    |-> [Base EXCEPT !.mixins = Mixed, !.handlers = "chat" :> Lattice(Version(6), Sub, None)],
     broken |-> Unparsable,
     clash  |-> [NoSection EXCEPT !["handlers"] = "chat" :> Proxy("dest")],
     stray  |-> [NoSection EXCEPT !["handlers"] = "m-proxy" :> Proxy("m-dest")],
     dest   |-> [NoSection EXCEPT !["http_destinations"] = MDest],
     chat   |-> [NoSection EXCEPT !["http_destinations"] = MDest,
                                  !["handlers"] = 
                     "m-chat" :> Lattice(Version(7), Sub, "m-proxy")
                     @@ "m-proxy" :> Proxy("m-dest")]]
MCTexts == [main |-> {"plain", "mixed", "edited", "old", "broken"},
            mixin |-> {"broken", "clash", "stray", "dest", "chat"}]
=============================================================================
