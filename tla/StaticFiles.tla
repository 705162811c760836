---------------------------- MODULE StaticFiles ----------------------------
(***************************************************************************)
(* The handlers !Static, !SingleFile and !VersionedStatic (handlers/files) *)
(* and their settings (config/static_files.rs), with the pools of threads  *)
(* that read the disk.                                                     *)
(*                                                                         *)
(* What http_file_headers finds under a path (probe_file) is one of the    *)
(* Probes; how a path is taken from the URL is left out but for its        *)
(* outcome.  A version is a sequence of classes of characters.             *)
(***************************************************************************)
EXTENDS Integers, Sequences, SequencesExt, FiniteSets

None == "None"
NoHost == <<>>
NoSuffix == <<>>
NoVersion == <<"no version">>
Unreadable == -1
Outputs == {"File", "FileRange", "FileHead", "FileRangeHead", "NotModified",
            "InvalidRange", "InvalidMethod", "NotFound", "Directory"}
Probes == Outputs \cup {"PermissionDenied", "IoError"}

-----------------------------------------------------------------------------
(* Settings.  The fields that are computed from the others are for the     *)
(* handlers; they are left out of the comparison that decides whether a    *)
(* configuration has changed.                                              *)

\* The fields of f and those of g that f does not have.
Extended(f, g) == [x \in DOMAIN f \cup DOMAIN g |-> IF x \in DOMAIN f THEN f[x] ELSE g[x]]

\* HeadersConfig: the charset of texts, whether it makes a Content-Type,
\* and the index files.
HeadersConfig(charset, own_type, index_files) ==
    [text_charset |-> charset, content_type |-> ~own_type, index_files |-> index_files]

\* header_contains ignores case; `extra_headers` is a set of names, and
\* TypeNames are the spellings of Content-Type.
TypeNames == {"Content-Type", "content-type"}
HeaderContains(extra_headers) == extra_headers \cap TypeNames # {}

ReadStatic(int) ==
    Extended(int, [headers_config |->
        HeadersConfig(int.text_charset, HeaderContains(int.extra_headers), int.index_files)])

\* SingleFile refuses a Content-Type among the extra headers.
SingleFileError(int) == HeaderContains(int.extra_headers)
ReadSingleFile(int) ==
    Extended(int, [headers_config |-> HeadersConfig(None, int.content_type # None, {})])

\* VersionedStatic has a Static to fall back to, without index files.
VersionLen(split) == FoldLeft(+, 0, split)
ReadVersioned(int) ==
    LET headers == HeadersConfig(int.text_charset, HeaderContains(int.extra_headers), {})
    IN Extended(int,
         [version_len |-> VersionLen(int.version_split),
          fallback |-> [mode |-> int.fallback_mode, path |-> int.plain_root,
                        text_charset |-> int.text_charset, pool |-> int.pool,
                        extra_headers |-> int.extra_headers, index_files |-> {},
                        generate_index |-> FALSE, generated_index_max_files |-> 0,
                        strip_host_suffix |-> NoSuffix, headers_config |-> headers],
          headers_config |-> headers])

StaticCompared == {"mode", "path", "text_charset", "pool", "extra_headers",
                   "strip_host_suffix", "index_files", "generate_index",
                   "generated_index_max_files"}
SingleFileCompared == {"path", "content_type", "pool", "extra_headers"}
\* Slip: what the paths are made of is taken for computed.
VersionedMostlyCompared == {"versioned_root", "plain_root", "version_arg", "version_chars",
    "fallback_to_plain", "fallback_mode", "text_charset", "pool", "extra_headers"}
VersionedCompared == {"versioned_root", "plain_root", "version_arg", "version_split",
    "version_chars", "fallback_to_plain", "fallback_mode", "text_charset", "pool",
    "extra_headers"}
\* PartialEq of the three
Equal(a, b, compared) == \A field \in compared : a[field] = b[field]

-----------------------------------------------------------------------------
(* Responses: a status, the cache headers, and which file is sent.         *)

ErrorPage(status) == [status |-> status, cache |-> "NoHeader", body |-> None]

\* reply_file, for what the thread of the disk pool returned: the cache
\* headers are added where there is something of the file.
ReplyFile(probe, cache, body) ==
    CASE probe \in {"File", "FileHead"} -> [status |-> 200, cache |-> cache, body |-> body]
      [] probe \in {"FileRange", "FileRangeHead"} ->
            [status |-> 206, cache |-> cache, body |-> body]
      [] probe = "NotModified"      -> [status |-> 304, cache |-> cache, body |-> body]
      [] probe = "InvalidRange"     -> ErrorPage(416)
      [] probe = "InvalidMethod"    -> ErrorPage(405)
      [] probe = "NotFound"         -> ErrorPage(404)
      [] probe = "Directory"        -> ErrorPage(403)
      [] probe = "PermissionDenied" -> ErrorPage(403)
      [] probe = "IoError"          -> ErrorPage(500)

\* generate_index: the listing of a directory with so many entries, refused
\* when it is long.
GenerateIndex(settings, entries) ==
    CASE entries = Unreadable -> ErrorPage(500)
      [] entries >= 1 /\ entries >= settings.generated_index_max_files -> ErrorPage(403)
      [] OTHER -> [status |-> 200, cache |-> "NoHeader", body |-> "index"]

\* normal::path: whether a host and a path lead into the directory.  The
\* host is a sequence of labels, NoHost without one; `plain` says that the
\* path itself is acceptable.
PlainPath(settings, req) ==
    /\ settings.mode = "with_hostname" =>
         /\ req.host # NoHost
         /\ settings.strip_host_suffix # NoSuffix =>
              IsStrictSuffix(settings.strip_host_suffix, req.host)
    /\ req.plain

\* serve_dir
ServeDir(settings, req, probe, entries) ==
    IF ~PlainPath(settings, req) THEN ErrorPage(403)
    ELSE IF probe = "Directory" /\ settings.generate_index THEN GenerateIndex(settings, entries)
    ELSE ReplyFile(probe, "NoHeader", "plain")

\* serve_file
ServeFile(req, probe) ==
    IF ~req.has_path THEN ErrorPage(403) ELSE ReplyFile(probe, "NoHeader", "plain")

-----------------------------------------------------------------------------
(* Versioned files.                                                        *)

\* The class lowercase_hex goes up to z.
LowercaseHex == {"0-9", "a-f", "g-z"}

\* path(): the error, or None.
VersionError(settings, req) ==
    CASE req.version = NoVersion -> "NoVersion"
      [] req.version # NoVersion /\ (
            Len(req.version) # settings.version_len \/ ~(Range(req.version) \subseteq LowercaseHex)) -> "BadVersion"
      [] OTHER -> IF req.file_name THEN None ELSE "InvalidPath"

\* The errors after which a plain file is looked for.
Fallback(mode) ==
    CASE mode = "always"      -> {"NoVersion", "BadVersion", "InvalidPath", "NoFile"}
      [] mode = "no_file"     -> {"NoFile", "BadVersion", "InvalidPath", "NoVersion"}
      [] mode = "bad_version" -> {"BadVersion", "NoVersion"}
      [] mode = "no_version"  -> {"NoVersion"}
      [] mode = "never"       -> {}

\* Slip: whatever is found may be kept.
AlwaysGood(error) == "GoodCache"
\* The cache headers of a plain file.
PlainCache(error) == IF error = "NoFile" THEN "NoCache" ELSE "NoHeader"

\* serve_versioned, with what there is under the two paths.
ServeVersioned(settings, req, probe, plain) ==
    LET bad == VersionError(settings, req)
        npath == PlainPath(settings.fallback, req)
        error == IF bad = None /\ probe = "NotFound" THEN "NoFile" ELSE bad
    IN CASE bad # None /\ ~npath -> ErrorPage(404)
         [] ~(bad # None /\ ~npath) /\ error = None -> ReplyFile(probe, "GoodCache", "versioned")
         [] ~(bad # None /\ ~npath) /\ error # None ->
              IF npath /\ error \in Fallback(settings.fallback_to_plain)
              THEN ReplyFile(plain, PlainCache(error), "plain")
              ELSE ErrorPage(404)

-----------------------------------------------------------------------------
(* DiskPools: name -> the settings its threads were started with.          *)

EmptyConfig == <<>>
NewPools == [pools |-> [default |-> 40], default |-> 40]

\* update(): a pool is started anew when its settings differ; none is ever
\* removed.
UpdatePools(p, config) ==
    LET pools == Extended(config, p.pools) IN [pools |-> pools, default |-> pools["default"]]

\* The pools after these configurations, one after the other.
PoolsAfter(configs) ==
    LET after[n \in 0 .. Len(configs)] ==
            IF n = 0 THEN NewPools ELSE UpdatePools(after[n - 1], configs[n])
    IN after[Len(configs)]

GetPool(p, name) == IF name \in DOMAIN p.pools THEN p.pools[name] ELSE p.default
=============================================================================
