---------------------------- MODULE Configurator ----------------------------
(***************************************************************************)
(* The files of the configuration and the thread that watches them:        *)
(* Configurator (config/mod.rs), read_config (config/read.rs), fingerprint *)
(* (config/fingerprint.rs), the updater thread (updater/mod.rs) and the    *)
(* loop of main.rs.  Files are edited while they are read, so each look at *)
(* a file is a step of its own.                                            *)
(*                                                                         *)
(* The metadata of a file (modification time, inode, device) is a number   *)
(* that is new for every change; a file that is not there has 0.  Included *)
(* files and mixins are both read as the files that the main one names.    *)
(***************************************************************************)
EXTENDS ConfigRead

CONSTANTS
    Files, Main,    \* the files, and the one of the command line
    Texts,          \* Texts[f]: versions of file f, by name
    Content,        \* Content[t]: the text of a version
    MaxWrites       \* bound: changes of files

ASSUME ConfiguratorAssumption ==
    /\ Main \in Files
    /\ \A f \in Files : Texts[f] # {} /\ Texts[f] \subseteq DOMAIN Content
    /\ \A f \in Files : \A t \in Texts[f] : Content[t] # Refused => IsText(Content[t])
    /\ \A t \in Texts[Main] : Content[t] # Refused =>
          LET named == Content[t].mixins IN
          /\ {"routing", "mixins"} \subseteq DOMAIN Content[t]
          /\ Len(named) \in Nat /\ \A i \in 1 .. Len(named) : named[i].file \in Files
    /\ MaxWrites \in Nat

EmptyMap == <<>>
Unparsable == Refused

\* The main text with its mixins, in their order.
MixedIn(main, ts) ==
    LET mixed[i \in 0 .. Len(main.mixins)] ==
            IF i = 0 THEN main
            ELSE LET m == main.mixins[i] IN MixInAll(mixed[i - 1], Content[ts[m.file]], m.prefix)
    IN mixed[Len(main.mixins)]
Combined(ts) ==
    LET main == Content[ts[Main]] IN IF main = Refused THEN Refused ELSE MixedIn(main, ts)

\* Every file in one of its versions.
Versions == {ts \in [Files -> DOMAIN Content] : \A f \in Files : ts[f] \in Texts[f]}

\* The configurations that versions of the files mean, one for each order of
\* the handlers.
MeaningsOf(ts) ==
    LET text == Combined(ts) IN
    IF text = Refused THEN {Refused}
    ELSE {Postprocess(text, order) : order \in SetToSeqs(DOMAIN WithDefaults(text).handlers)}
\* The same as a table.  (TLC computes it once, for the comparison.)
MeaningsTable == CHOOSE table \in {[ts \in Versions |-> MeaningsOf(ts)]} : table = table
\* Files that are not read do not matter.
Meanings(ts) ==
    MeaningsTable[[f \in Files |-> IF f \in DOMAIN ts THEN ts[f] ELSE CHOOSE t \in Texts[f] : TRUE]]

\* A map with one more entry, if it has none for f.
With(map, f, x) ==
    [g \in DOMAIN map \cup {f} |-> IF g \in DOMAIN map THEN map[g] ELSE x]

VARIABLES
    disk,       \* file -> its text and metadata
    writes,     \* changes so far
    cell,       \* ConfigCell: the active configuration and its fingerprint
    recorded,   \* file_metadata of the Configurator
    stage,      \* what the updater thread does next
    at,         \* which of the files it does it with
    files,      \* files of the configuration being read, in order
    metas,      \* their metadata
    texts,      \* what was read from them
    print,      \* what the fingerprint is made of
    found,      \* the new configuration
    notice,     \* the slot between the updater and the reactor is full
    applied     \* the configuration that startup and update_loop last saw

fileVars == <<disk, writes>>
cellVars == <<cell, recorded>>
readVars == <<stage, at, files, metas, texts, print, found>>
vars == <<fileVars, cellVars, readVars, notice, applied>>

NoConfig == [none |-> TRUE]
Stages == {"sleep", "stat", "read", "build", "calc", "digest", "tell", "exit"}

TypeOK ==
    /\ DOMAIN disk = Files /\ \A f \in Files : disk[f].meta \in 0 .. MaxWrites + 1
    /\ writes \in 0 .. MaxWrites
    /\ stage \in Stages
    /\ files \in Seq(Files) /\ at \in 1 .. Len(files) + 1
    /\ DOMAIN metas \subseteq Range(files) /\ DOMAIN texts \subseteq DOMAIN metas
    /\ DOMAIN print \subseteq DOMAIN metas
    /\ notice \in BOOLEAN
    /\ cell.config = NoConfig <=> recorded = EmptyMap

Init ==
    /\ \E ts \in Versions : disk = [f \in Files |-> [text |-> ts[f], meta |-> 1]]
    /\ writes = 0
    /\ cell = [config |-> NoConfig, fingerprint |-> EmptyMap] /\ recorded = EmptyMap
    /\ stage = "stat" /\ at = 1 /\ files = <<Main>>
    /\ metas = EmptyMap /\ texts = EmptyMap /\ print = EmptyMap /\ found = NoConfig
    /\ notice = FALSE /\ applied = NoConfig

Present(f) == disk[f].meta # 0

-----------------------------------------------------------------------------
(* Someone edits the files.                                                *)

Write(f, t) ==
    /\ writes < MaxWrites
    /\ t # disk[f].text \/ ~Present(f)
    /\ writes' = writes + 1
    /\ disk' = [disk EXCEPT ![f] = [text |-> t, meta |-> writes + 2]]
    /\ UNCHANGED <<cellVars, readVars, notice, applied>>

Delete(f) ==
    /\ writes < MaxWrites /\ Present(f)
    /\ writes' = writes + 1
    /\ disk' = [disk EXCEPT ![f].meta = 0]
    /\ UNCHANGED <<cellVars, readVars, notice, applied>>

-----------------------------------------------------------------------------
(* The updater thread.                                                     *)

\* The test of try_update: a file has other metadata, or is gone.
Changed == \E f \in DOMAIN recorded : disk[f].meta # recorded[f]

Idle == /\ at' = 1 /\ files' = <<Main>> /\ found' = NoConfig
        /\ metas' = EmptyMap /\ texts' = EmptyMap /\ print' = EmptyMap

\* A read that came to nothing: main() exits, the thread goes back to sleep
\* with what it had.
GiveUp ==
    /\ stage' = IF cell.config = NoConfig THEN "exit" ELSE "sleep"
    /\ Idle
    /\ UNCHANGED <<fileVars, cellVars, notice, applied>>

WakeUp ==
    /\ stage = "sleep" /\ Changed
    /\ stage' = "stat"
    /\ Idle
    /\ UNCHANGED <<fileVars, cellVars, notice, applied>>

\* metadata() of the next file of read_config; a file included has its own
\* taken when it is opened.
Stat ==
    LET f == files[at] IN
    /\ stage = "stat"
    /\ IF ~Present(f) THEN GiveUp
       ELSE /\ metas' = With(metas, f, disk[f].meta)
            /\ stage' = "read"
            /\ UNCHANGED <<fileVars, cellVars, at, files, texts, print, found, notice, applied>>

\* parse_config of that file.  The main one names the others.
Read ==
    LET f == files[at]
        named == Content[disk[Main].text].mixins
        all == IF f = Main THEN files \o [i \in 1 .. Len(named) |-> named[i].file] ELSE files
    IN
    /\ stage = "read"
    /\ IF ~Present(f) \/ Content[disk[f].text] = Unparsable THEN GiveUp
       ELSE /\ texts' = With(texts, f, disk[f].text)
            /\ files' = all
            /\ at' = IF at < Len(all) THEN at + 1 ELSE 1
            /\ stage' = IF at < Len(all) THEN "stat" ELSE "build"
            /\ UNCHANGED <<fileVars, cellVars, metas, print, found, notice, applied>>

\* The mixins and postprocess_config; a configuration that is equal to the
\* active one changes nothing, not even file_metadata.
Build ==
    /\ stage = "build"
    /\ \E cfg \in Meanings(texts) :
          IF cfg \in {Refused, cell.config} THEN GiveUp
          ELSE /\ found' = cfg
               /\ stage' = "calc"
               /\ UNCHANGED <<fileVars, cellVars, at, files, metas, texts, print, notice, applied>>

\* fingerprint::calc opens each file again and must find the metadata it
\* had before.
Calc ==
    LET f == files[at] IN
    /\ stage = "calc"
    /\ IF disk[f].meta # metas[f] THEN GiveUp
       ELSE /\ stage' = "digest"
            /\ UNCHANGED <<fileVars, cellVars, at, files, metas, texts, print, found, notice, applied>>

\* Slip: file_metadata is not replaced.
MetaForgotten == recorded
\* Slip: the metadata of the moment is kept.
MetaNow == [f \in DOMAIN metas |-> disk[f].meta]
NewMeta == metas

\* The last file is digested: the new configuration becomes active.
Install(fingerprint) ==
    /\ cell' = [config |-> found, fingerprint |-> fingerprint]
    /\ recorded' = NewMeta
    /\ Idle
    /\ IF cell.config = NoConfig
       THEN stage' = "sleep" /\ applied' = found
       ELSE stage' = "tell" /\ UNCHANGED applied

\* io::copy of the open file: what is in place now, or what was there when
\* it was opened if the file was replaced or removed since.
Digest ==
    LET f == files[at] IN
    /\ stage = "digest"
    /\ \E t \in {texts[f]} \cup (IF Present(f) THEN {disk[f].text} ELSE {}) :
          IF at < Len(files)
          THEN /\ print' = With(print, f, t)
               /\ stage' = "calc" /\ at' = at + 1
               /\ UNCHANGED <<cellVars, files, metas, texts, found, applied>>
          ELSE Install(With(print, f, t))
    /\ UNCHANGED <<fileVars, notice>>

\* Slip: the reactor is not woken up.
NoNotice == notice
\* tx.swap(())
Notice == TRUE
Tell ==
    /\ stage = "tell"
    /\ stage' = "sleep"
    /\ notice' = Notice
    /\ UNCHANGED <<fileVars, cellVars, at, files, metas, texts, print, found, applied>>

Updater == WakeUp \/ Stat \/ Read \/ Build \/ Calc \/ Digest \/ Tell

-----------------------------------------------------------------------------
\* The loop of main(): update_loop with the configuration of the moment.
UpdateLoop ==
    /\ notice
    /\ notice' = FALSE
    /\ applied' = cell.config
    /\ UNCHANGED <<fileVars, cellVars, readVars>>

Next ==
    \/ \E f \in Files : Delete(f) \/ \E t \in Texts[f] : Write(f, t)
    \/ Updater
    \/ UpdateLoop

\* The thread polls every ten seconds and the reactor handles its notices;
\* nobody has to edit a file.
Spec == Init /\ [][Next]_vars /\ WF_vars(Updater) /\ WF_vars(UpdateLoop)

-----------------------------------------------------------------------------
(* Properties.                                                             *)

OnDisk == [f \in Files |-> disk[f].text]
Parsable(f) == Present(f) /\ Content[disk[f].text] # Unparsable
Readable == Parsable(Main) /\ \A m \in Range(Content[disk[Main].text].mixins) : Parsable(m.file)

\* While the updater sees no file changed, the active configuration is what
\* is in the files, in every order of their handlers, and the main file is
\* not overruled by a mixin: no edit is overlooked, however it fell between
\* the steps of a read.
NothingMissed ==
    stage = "sleep" /\ ~Changed =>
        /\ Meanings(OnDisk) = {cell.config}
        /\ LET main == Content[disk[Main].text] IN
           \A s \in Sections \ {"session_pools"} : \A n \in DOMAIN main[s] :
              cell.config[s][n] = main[s][n]

\* And then the fingerprint that the status page shows is that of the files.
FingerprintOfFiles ==
    stage = "sleep" /\ ~Changed =>
        cell.fingerprint = [f \in DOMAIN recorded |-> disk[f].text]

\* What a chat handler should call for a method: the destination of the most
\* special pattern that the method falls under.
Under(h, method) == {p \in DOMAIN h.map : Matches(p, method)}
MostSpecial(ps) == {p \in ps : \A q \in ps : q # p =>
                       p.kind = "Exact" \/ (q.kind = "Glob" /\ IsPrefix(q.text, p.text))}
ChosenFor(h, method) ==
    IF Under(h, method) = {} THEN {h.default}
    ELSE {h.map[p] : p \in MostSpecial(Under(h, method))}

\* The names in a chat handler lead somewhere, its session pool, its handler
\* for requests that are no websockets and the upstream of each method; the
\* pool speaks the handler's dialect and notifies the destination that the
\* handler has for such notices.
ChatLeads(cfg, h, methods) ==
    LET pool == cfg.session_pools[h.session_pool] IN
    /\ h.session_pool \in DOMAIN cfg.session_pools
    /\ h.http_route # None => h.http_route \in DOMAIN cfg.handlers
    /\ pool.flags = Flags(h)
    /\ pool.inactivity_handlers # {} =>
          Resolve(h, SessionInactive(pool.flags.prefix)) \in pool.inactivity_handlers
    /\ \A method \in methods :
          Known(cfg, Resolve(h, method)) /\ ChosenFor(h, method) = {Resolve(h, method)}

\* So do the handlers and the authorizers of all routes, the upstreams of the
\* proxies and those that session pools notify.
NamesLead(cfg, methods) ==
    /\ \A line \in Range(cfg.routing) : \A r \in Range(line.paths) :
          r.handler \in DOMAIN cfg.handlers /\ r.authorizer \in DOMAIN cfg.authorizers
    /\ \A n \in DOMAIN cfg.handlers :
          LET h == cfg.handlers[n] IN
          /\ h.kind = "SwindonLattice" => ChatLeads(cfg, h, methods)
          /\ h.kind = "Proxy" => Known(cfg, h.destination)
    /\ \A n \in DOMAIN cfg.session_pools :
          \A d \in cfg.session_pools[n].inactivity_handlers : Known(cfg, d)

\* In the configuration that the server works with the names of handlers,
\* authorizers, session pools and http destinations lead somewhere, whatever
\* was edited in between, whatever the order of the handlers; and a method
\* goes to the most special pattern it falls under.  (Nobody checks the names
\* of networks, disk pools, log formats and LDAP destinations.)
ReferencesHold ==
    applied # NoConfig =>
        NamesLead(applied, {<<1>>, <<1, 2>>, <<1, 2, 3>>, <<1, 3>>, <<2, 2>>})

\* When the editing is over the server works with what is in the files, if
\* that is a configuration.
EventuallyApplied ==
    <>[](stage # "exit" /\ Readable /\ Meanings(OnDisk) # {Refused}
            => {applied} = Meanings(OnDisk))
=============================================================================
