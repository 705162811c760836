----------------------------- MODULE ConfigRead -----------------------------
(***************************************************************************)
(* What the text of the configuration means: config/read.rs, config/chat.rs*)
(* and config/version.rs.  Parsing of the YAML itself is quire's work; a   *)
(* text is the record of its sections                                      *)
(*    routing             a set of entries, see Routing                    *)
(*    handlers, authorizers, session_pools, http_destinations              *)
(*                        maps by name                                     *)
(*    mixins              a sequence of [file, prefix]                     *)
(* where a prefix is the set of the names that start with it.              *)
(*                                                                         *)
(* A method is a sequence of numbers, its labels: `chat.send` is <<1, 2>>. *)
(* A destination is <<upstream, path>>.                                    *)
(***************************************************************************)
EXTENDS Routing

Refused == [refused |-> TRUE]

-----------------------------------------------------------------------------
(* Message handlers (config/chat.rs).                                      *)

Exact(method) == [kind |-> "Exact", text |-> method]
Glob(prefix) == [kind |-> "Glob", text |-> prefix]

\* `chat.*` is not for `chat` itself.
Matches(pattern, method) ==
    CASE pattern.kind = "Glob"  -> IsStrictPrefix(pattern.text, method)
      [] pattern.kind = "Exact" -> pattern.text = method

Less(s, t) ==
    \/ IsStrictPrefix(s, t)
    \/ \E i \in 1 .. Len(s) \cap DOMAIN t :
          s[i] < t[i] /\ \A j \in 1 .. i - 1 : s[j] = t[j]

\* iter().rev() of the BTreeMap: exact names before globs, and among
\* these the greater text first.
Before(p, q) ==
    IF p.kind = q.kind THEN Less(q.text, p.text) ELSE p.kind = "Exact"

\* RoutingTable::resolve, the first pattern that matches; `table.map` is a
\* map by pattern.
Resolve(table, method) ==
    LET found == {p \in DOMAIN table.map : Matches(p, method)} IN
    IF found = {} THEN table.default
    ELSE table.map[CHOOSE p \in found : \A q \in found \ {p} : Before(p, q)]

-----------------------------------------------------------------------------
(* Versions and `compatibility`.  A version is the sequence of its         *)
(* components, [num |-> n] or [str |-> s].                                 *)

\* Words that occur in versions, in their order; the one with a g stands for
\* any git revision.
Words == <<"a", "b", "dev", "gfba00d7", "post", "rc">>
Prerelease == {"a", "b", "c", "rc", "pre", "dev", "dirty"}
GitRevision == "gfba00d7"
IsNum(c) == "num" \in DOMAIN c

ComponentLess(x, y) ==
    CASE IsNum(x) /\ IsNum(y)  -> x.num < y.num
      [] IsNum(x) /\ ~IsNum(y) -> FALSE
      [] ~IsNum(x) /\ IsNum(y) -> TRUE
      [] OTHER -> \E i, j \in DOMAIN Words : i < j /\ Words[i] = x.str /\ Words[j] = y.str

\* The first component in which two versions differ decides.
FirstDifferenceLess(a, b) ==
    \E i \in DOMAIN a \cap DOMAIN b :
        ComponentLess(a[i], b[i]) /\ \A j \in 1 .. i - 1 : a[j] = b[j]

\* partial_cmp = Less.  Where one version ends first, what the other one goes
\* on with decides; a git revision makes either the lesser one.
VersionLess(a, b) ==
    \/ /\ IsStrictPrefix(a, b)
       /\ LET y == b[Len(a) + 1] IN IsNum(y) \/ y.str \notin Prerelease
    \/ /\ IsStrictPrefix(b, a)
       /\ LET x == a[Len(b) + 1] IN ~IsNum(x) /\ x.str \in Prerelease \cup {GitRevision}
    \/ FirstDifferenceLess(a, b)

Release(minor) == <<[num |-> 0], [num |-> minor], [num |-> 0]>>

\* Compatibility: 1 is v0_5_4, 2 is v0_6_2, 3 is latest.
Compatibility(version) ==
    IF VersionLess(version, Release(6)) THEN 1
    ELSE IF VersionLess(version, Release(7)) THEN 2 ELSE 3

UseTanglePrefix(compatibility) == compatibility <= 2
UseTangleAuth(compatibility) == compatibility <= 2
WeakContentType(compatibility) == compatibility <= 2

Flags(h) == LET c == Compatibility(h.compatibility) IN
    [prefix |-> UseTanglePrefix(c), auth |-> UseTangleAuth(c), weak |-> WeakContentType(c)]
NoFlags == [unset |-> TRUE]

\* tangle.session_inactive and swindon.session_inactive
SessionInactive(tangle) == IF tangle THEN <<8, 9>> ELSE <<7, 9>>

-----------------------------------------------------------------------------
(* Mixins.                                                                 *)

\* The entries of f and those of g that f does not have.
Joined(f, g) == [n \in DOMAIN f \cup DOMAIN g |-> IF n \in DOMAIN f THEN f[n] ELSE g[n]]

\* mix_in of one section
MixIn(dest, src, prefix) ==
    IF \E n \in DOMAIN src : n \notin prefix \/ n \in DOMAIN dest
    THEN Refused ELSE Joined(dest, src)

\* The other four sections of a mixin (ldap_destinations, networks,
\* log_formats, disk_pools) are mixed in the same way; postprocess_config
\* looks nothing up in them.
Sections == {"handlers", "authorizers", "session_pools", "http_destinations"}
\* All sections of a mixin; one that is refused refuses the configuration.
MixInAll(text, mixin, prefix) ==
    IF text = Refused \/ mixin = Refused THEN Refused
    ELSE LET mixed == [s \in Sections |-> MixIn(text[s], mixin[s], prefix)] IN
         IF \E s \in Sections : mixed[s] = Refused THEN Refused ELSE Joined(mixed, text)

-----------------------------------------------------------------------------
(* postprocess_config                                                      *)

WithDefaults(text) ==
    [text EXCEPT !.handlers = Joined(@, [default |-> [kind |-> "NotFound"]]),
                 !.authorizers = Joined(@, [default |-> "AllowAll"])]

Known(cfg, dest) == dest[1] \in DOMAIN cfg.http_destinations

MessageHandlersKnown(cfg, h) ==
    /\ Known(cfg, h.default)
    /\ cfg.http_destinations[h.default[1]].override_host_header
    /\ \A p \in DOMAIN h.map : Known(cfg, h.map[p])

\* Slip: the last handler of a pool decides, whatever the others want.
FlagsOverwritten(cfg, pool, h) ==
    /\ \/ pool.inactivity_handlers = {}
       \/ Resolve(h, SessionInactive(Flags(h).prefix)) \in pool.inactivity_handlers
    /\ h.http_route # None => h.http_route \in DOMAIN cfg.handlers
    /\ MessageHandlersKnown(cfg, h)
\* One handler !SwindonLattice and its session pool, as the handlers before
\* it have left the pool.
LatticeAccepted(cfg, pool, h) ==
    /\ pool.flags \in {NoFlags, Flags(h)}
    /\ \/ pool.inactivity_handlers = {}
       \/ Resolve(h, SessionInactive(Flags(h).prefix)) \in pool.inactivity_handlers
    /\ h.http_route # None => h.http_route \in DOMAIN cfg.handlers
    /\ MessageHandlersKnown(cfg, h)

\* The loop over the handlers: the session pools after one more of them.
PostprocessHandler(cfg, pools, name) ==
    LET h == cfg.handlers[name] IN
    CASE pools = Refused -> Refused
      [] pools # Refused /\ h.kind = "SwindonLattice" ->
            IF h.session_pool \in DOMAIN pools /\ LatticeAccepted(cfg, pools[h.session_pool], h)
            THEN [pools EXCEPT ![h.session_pool].flags = Flags(h)]
            ELSE Refused
      [] pools # Refused /\ h.kind = "Proxy" ->
            IF Known(cfg, h.destination) THEN pools ELSE Refused
      [] pools # Refused /\ h.kind = "Static" ->
            IF h.strip_host_suffix /\ h.mode # "with_hostname" THEN Refused ELSE pools
      [] OTHER -> pools

\* All of them, in some order, that of the hash map.
PostprocessHandlers(cfg, order) ==
    FoldLeft(LAMBDA p, n : PostprocessHandler(cfg, p, n), cfg.session_pools, order)

Postprocess(text, order) ==
    LET cfg == WithDefaults(text)
        pools == PostprocessHandlers(cfg, order)
    IN IF \/ CreateError(cfg.routing, cfg.handlers, DOMAIN cfg.authorizers)
          \/ pools = Refused
          \/ \E n \in DOMAIN cfg.session_pools :
                \E d \in cfg.session_pools[n].inactivity_handlers : ~Known(cfg, d)
       THEN Refused
       ELSE [routing |-> Table(cfg.routing), handlers |-> cfg.handlers,
             authorizers |-> cfg.authorizers, session_pools |-> pools,
             http_destinations |-> cfg.http_destinations]

-----------------------------------------------------------------------------
(* Types: what quire hands over.                                           *)

IsMap(m) == m = [n \in DOMAIN m |-> m[n]]
IsPattern(p) ==
    p = [kind |-> p.kind, text |-> p.text] /\ p.kind \in {"Exact", "Glob"} /\ p.text \in Seq(Nat)
IsHandler(h) == h.kind = "SwindonLattice" => \A p \in DOMAIN h.map : IsPattern(p)
\* A pool without flags.  (Its name tells a map of pools from Refused.)
IsPool(n, pool) ==
    /\ n # "refused"
    /\ pool = [flags |-> NoFlags, inactivity_handlers |-> pool.inactivity_handlers]
IsText(text) ==
    /\ IsMap(text) /\ Sections \subseteq DOMAIN text
    /\ \A s \in Sections : IsMap(text[s])
    /\ IsFiniteSet(DOMAIN text.handlers)
    /\ \A n \in DOMAIN text.handlers : IsHandler(text.handlers[n])
    /\ \A n \in DOMAIN text.session_pools : IsPool(n, text.session_pools[n])
=============================================================================
