------------------------- MODULE ConfiguratorProofs -------------------------
(***************************************************************************)
(* Proofs about Configurator, for any files, texts and number of edits.    *)
(*                                                                         *)
(* Every look at a file is a step, and the files may change between any    *)
(* two.  What makes the reading right all the same is that metadata is     *)
(* taken before the text: as long as a file has the metadata that was      *)
(* taken, it also has the text that was read and the one that was          *)
(* digested, since a change brings metadata that was never seen before.    *)
(***************************************************************************)
EXTENDS Configurator, SequenceTheorems, FiniteSetTheorems, NaturalsInduction,
        WellFoundedInduction, TLAPS

\* The first n of the files being read
First(n) == {files[i] : i \in 1 .. n}

DiskOK ==
    /\ disk \in [Files -> [text : DOMAIN Content, meta : Nat]]
    /\ \A f \in Files : disk[f].text \in Texts[f] /\ disk[f].meta <= writes + 1
    /\ writes \in 0 .. MaxWrites

\* Where the reading is
PlaceOK ==
    /\ stage \in Stages
    /\ files \in Seq(Files) /\ Main \in First(Len(files))
    /\ at \in 1 .. Len(files) /\ (stage = "build" => at = 1)

\* What is known of the files so far
Reading == {"build", "calc", "digest"}
DomainsOK ==
    /\ metas = [f \in DOMAIN metas |-> metas[f]]
    /\ texts = [f \in DOMAIN texts |-> texts[f]]
    /\ print = [f \in DOMAIN print |-> print[f]]
    /\ stage = "stat" => DOMAIN metas = First(at - 1)
    /\ stage = "read" => DOMAIN metas = First(at)
    /\ stage \in {"stat", "read"} => DOMAIN texts = First(at - 1)
    /\ stage \in Reading => /\ DOMAIN metas = First(Len(files))
                           /\ DOMAIN texts = First(Len(files))
    /\ stage \in {"calc", "digest"} => DOMAIN print = First(at - 1)
    /\ stage \notin {"calc", "digest"} => DOMAIN print = {}
    /\ stage \notin {"stat", "read"} \cup Reading => DOMAIN metas = {} /\ DOMAIN texts = {}

\* The files that a text of the main one names
Named(t) == {Content[t].mixins[i].file : i \in 1 .. Len(Content[t].mixins)}

\* Metadata that is still right vouches for the text.
Vouched(m, t) == \A f \in DOMAIN t : m[f] = disk[f].meta => t[f] = disk[f].text
Seen(m) == \A f \in DOMAIN m : m[f] \in 1 .. writes + 1

ReadOK ==
    /\ Seen(metas) /\ Vouched(metas, texts) /\ Vouched(metas, print)
    /\ \A f \in DOMAIN texts : texts[f] \in Texts[f]
    /\ Main \in DOMAIN texts => Named(texts[Main]) \subseteq First(Len(files))
    /\ stage \in {"calc", "digest"} =>
            found \in Meanings(texts) /\ found # NoConfig

CellOK ==
    /\ DOMAIN recorded \subseteq Files
    /\ recorded = EmptyMap <=> cell.config = NoConfig
    /\ Seen(recorded) /\ Vouched(recorded, cell.fingerprint)
    /\ DOMAIN cell.fingerprint = DOMAIN recorded
    /\ cell.fingerprint = [f \in DOMAIN recorded |-> cell.fingerprint[f]]
    /\ cell.config # NoConfig =>
        \E ts \in [DOMAIN recorded -> DOMAIN Content] :
            /\ Vouched(recorded, ts) /\ \A f \in DOMAIN recorded : ts[f] \in Texts[f]
            /\ Main \in DOMAIN recorded /\ Named(ts[Main]) \subseteq DOMAIN recorded
            /\ cell.config \in Meanings(ts)

AppliedOK ==
    /\ ~ notice /\ stage # "tell" => applied = cell.config
    /\ stage \in {"sleep", "tell"} => cell.config # NoConfig

Inv == /\ DiskOK /\ PlaceOK /\ DomainsOK /\ ReadOK /\ CellOK /\ AppliedOK
       /\ notice \in BOOLEAN

---------------------------------------------------------------------------
(***************************************************************************)
(* Maps, the files that are read, and what they mean.                      *)
(***************************************************************************)

LEMMA NoEntries == DOMAIN EmptyMap = {} /\ EmptyMap = [f \in DOMAIN EmptyMap |-> EmptyMap[f]]
BY DEF EmptyMap

LEMMA FirstIs ==
    ASSUME PlaceOK
    PROVE  /\ Len(files) \in Nat /\ at \in Nat /\ First(0) = {}
           /\ files[at] \in Files
           /\ First(at) = First(at - 1) \cup {files[at]}
           /\ First(at) \subseteq First(Len(files))
           /\ files[at] \in First(Len(files))
           /\ First(Len(files)) \subseteq Files
<1>1. /\ files \in Seq(Files) /\ Len(files) \in Nat
      /\ at \in 1 .. Len(files) /\ at \in Nat
    BY DEF PlaceOK
<1>2. \A i \in 1 .. Len(files) : files[i] \in Files BY <1>1
<1>3. First(0) = {}
  <2>1. 1 .. 0 = {} OBVIOUS
  <2> QED BY <2>1 DEF First
<1>4. 1 .. at = (1 .. at - 1) \cup {at} BY <1>1
<1>5. First(at) = First(at - 1) \cup {files[at]} BY <1>4 DEF First
<1>6. 1 .. at \subseteq 1 .. Len(files) BY <1>1
<1>7. First(at) \subseteq First(Len(files)) BY <1>6 DEF First
<1>8. First(Len(files)) \subseteq Files BY <1>2 DEF First
<1> QED BY <1>1, <1>2, <1>3, <1>5, <1>7, <1>8

\* Texts and digests are of files whose metadata was taken.
LEMMA Inside ==
    ASSUME PlaceOK, DomainsOK
    PROVE  /\ DOMAIN metas \subseteq First(Len(files))
           /\ DOMAIN metas \subseteq Files /\ DOMAIN texts \subseteq DOMAIN metas
           /\ DOMAIN print \subseteq DOMAIN metas
<1>1. /\ First(at) = First(at - 1) \cup {files[at]}
      /\ First(at) \subseteq First(Len(files))
      /\ First(Len(files)) \subseteq Files
    BY FirstIs
<1>2. stage \in {"sleep", "stat", "read", "build", "calc", "digest", "tell", "exit"}
    BY DEF PlaceOK, Stages
<1>3. DOMAIN metas \subseteq First(Len(files))
    BY <1>1, <1>2 DEF DomainsOK, Reading
<1>4. DOMAIN texts \subseteq DOMAIN metas
    BY <1>1, <1>2 DEF DomainsOK, Reading
<1>5. DOMAIN print \subseteq DOMAIN metas
    BY <1>1, <1>2 DEF DomainsOK, Reading
<1> QED BY <1>1, <1>3, <1>4, <1>5

\* The texts that were read, and any for the files that were not.
FullText(ts) ==
    [f \in Files |-> IF f \in DOMAIN ts THEN ts[f] ELSE CHOOSE t \in Texts[f] : TRUE]

LEMMA MeaningsAre ==
    ASSUME NEW ts, DOMAIN ts \subseteq Files,
           \A f \in DOMAIN ts : ts[f] \in Texts[f]
    PROVE  /\ FullText(ts) \in Versions
           /\ \A f \in DOMAIN ts : FullText(ts)[f] = ts[f]
           /\ Meanings(ts) = MeaningsOf(FullText(ts))
<1> DEFINE all == FullText(ts)
<1>0. all = [f \in Files |-> IF f \in DOMAIN ts THEN ts[f] ELSE CHOOSE t \in Texts[f] : TRUE]
    BY DEF FullText
<1> HIDE DEF all
<1>1. \A f \in Files : all[f] \in Texts[f] /\ all[f] \in DOMAIN Content
  <2> SUFFICES ASSUME NEW f \in Files PROVE all[f] \in Texts[f]
      BY ConfiguratorAssumption
  <2>1. Texts[f] # {} BY ConfiguratorAssumption
  <2>2. (CHOOSE t \in Texts[f] : TRUE) \in Texts[f] BY <2>1
  <2> QED BY <1>0, <2>2
<1>2. all \in Versions
  <2>1. all \in [Files -> DOMAIN Content] BY <1>0, <1>1
  <2> QED BY <1>1, <2>1 DEF Versions
<1>3. Meanings(ts) = MeaningsOf(all)
  <2>1. MeaningsTable = [x \in Versions |-> MeaningsOf(x)] BY DEF MeaningsTable
  <2>2. Meanings(ts) = MeaningsTable[all] BY <1>0 DEF Meanings
  <2> QED BY <1>2, <2>1, <2>2
<1> QED BY <1>0, <1>2, <1>3 DEF all

\* What is read is Refused or the record of a configuration.
LEMMA MeansSomething ==
    ASSUME NEW ts, DOMAIN ts \subseteq Files,
           \A f \in DOMAIN ts : ts[f] \in Texts[f],
           NEW cfg \in Meanings(ts), cfg # Refused
    PROVE  cfg # NoConfig
<1> DEFINE all == FullText(ts)
           text == Combined(all)
<1>3. Meanings(ts) = MeaningsOf(all) BY MeaningsAre
<1>4. PICK order : cfg = Postprocess(text, order)
  <2> DEFINE orders == SetToSeqs(DOMAIN WithDefaults(text).handlers)
  <2>1. MeaningsOf(all) = IF text = Refused THEN {Refused}
                          ELSE {Postprocess(text, order) : order \in orders}
      BY DEF MeaningsOf
  <2> HIDE DEF text, all, orders
  <2>2. cfg \in {Postprocess(text, order) : order \in orders} BY <1>3, <2>1
  <2> QED BY <2>2
<1> HIDE DEF text
<1>5. \E a, b, c, d, e :
        cfg = [routing |-> a, handlers |-> b, authorizers |-> c,
               session_pools |-> d, http_destinations |-> e]
    BY <1>4 DEF Postprocess
<1>6. "none" \notin DOMAIN cfg BY <1>5
<1>7. "none" \in DOMAIN NoConfig BY DEF NoConfig
<1> QED BY <1>6, <1>7

---------------------------------------------------------------------------
(***************************************************************************)
(* The files change.                                                       *)
(***************************************************************************)

\* A change makes metadata that is kept somewhere wrong, or leaves the text.
LEMMA StillVouched ==
    ASSUME NEW f \in Files, DiskOK, writes' = writes + 1,
           disk'[f].meta \in {0, writes + 2},
           \A g \in Files \ {f} : disk'[g] = disk[g],
           NEW m, DOMAIN m \subseteq Files, Seen(m)
    PROVE  /\ Seen(m)'
           /\ \A t : Vouched(m, t) /\ DOMAIN t \subseteq DOMAIN m
                        => Vouched(m, t)'
<1>1. writes \in Nat BY ConfiguratorAssumption DEF DiskOK
<1>2. \A g \in DOMAIN m : m[g] \in 1 .. writes + 1 BY DEF Seen
<1>3. \A g \in DOMAIN m : m[g] \in 1 .. writes' + 1 BY <1>1, <1>2
<1>4. f \in DOMAIN m => m[f] # disk'[f].meta BY <1>1, <1>2
<1> QED BY <1>3, <1>4 DEF Seen, Vouched

LEMMA EditKeeps ==
    ASSUME Inv, NEW f \in Files, writes < MaxWrites, writes' = writes + 1,
           NEW t \in Texts[f], NEW n \in {0, writes + 2},
           disk' = [disk EXCEPT ![f] = [text |-> t, meta |-> n]],
           UNCHANGED <<cellVars, readVars, notice, applied>>
    PROVE  Inv'
<1> USE DEF cellVars, readVars
<1>1. /\ DiskOK /\ writes \in Nat /\ MaxWrites \in Nat
      /\ disk \in [Files -> [text : DOMAIN Content, meta : Nat]]
    BY ConfiguratorAssumption DEF Inv, DiskOK
<1>2. /\ t \in DOMAIN Content /\ n \in Nat BY <1>1, ConfiguratorAssumption
<1>3. /\ disk' \in [Files -> [text : DOMAIN Content, meta : Nat]]
      /\ disk'[f].text = t /\ disk'[f].meta = n
      /\ \A g \in Files \ {f} : disk'[g] = disk[g]
    BY <1>1, <1>2
<1>4. DiskOK'
  <2>1. writes' \in 0 .. MaxWrites BY <1>1
  <2>2. ASSUME NEW g \in Files
        PROVE  disk'[g].text \in Texts[g] /\ disk'[g].meta <= writes' + 1
    <3>1. CASE g = f BY <1>1, <1>3, <3>1
    <3>2. CASE g # f
      <4>1. disk[g].text \in Texts[g] /\ disk[g].meta <= writes + 1
            /\ disk[g].meta \in Nat
          BY <1>1 DEF DiskOK
      <4> QED BY <1>1, <1>3, <3>2, <4>1
    <3> QED BY <3>1, <3>2
  <2> QED BY <1>3, <2>1, <2>2 DEF DiskOK
<1>5. PlaceOK /\ DomainsOK /\ ReadOK /\ CellOK BY DEF Inv
<1>6. PlaceOK' /\ DomainsOK' BY <1>5 DEF PlaceOK, DomainsOK, First
<1>7. /\ DOMAIN metas \subseteq Files /\ DOMAIN texts \subseteq DOMAIN metas
      /\ DOMAIN print \subseteq DOMAIN metas
    BY <1>5, Inside
<1>8. /\ Seen(metas)' /\ Vouched(metas, texts)' /\ Vouched(metas, print)'
  <2>1. Seen(metas) /\ Vouched(metas, texts) /\ Vouched(metas, print)
      BY <1>5 DEF ReadOK
  <2> QED BY <1>1, <1>3, <1>7, <2>1, StillVouched DEF Seen, Vouched
<1>9. ReadOK' BY <1>5, <1>8 DEF ReadOK, Meanings, NoConfig, First
<1>10. CellOK'
  <2>1. /\ Seen(recorded) /\ DOMAIN recorded \subseteq Files
        /\ Vouched(recorded, cell.fingerprint)
        /\ DOMAIN cell.fingerprint = DOMAIN recorded
      BY <1>5 DEF CellOK
  <2>2. /\ Seen(recorded)'
        /\ \A ts : Vouched(recorded, ts) /\ DOMAIN ts \subseteq DOMAIN recorded
                    => \A g \in DOMAIN ts : recorded[g] = disk'[g].meta
                            => ts[g] = disk'[g].text
      BY <1>1, <1>3, <2>1, StillVouched DEF Seen, Vouched
  <2>3. Vouched(recorded, cell.fingerprint)' BY <2>1, <2>2 DEF Vouched
  <2>4. ASSUME cell.config # NoConfig
        PROVE  \E ts \in [DOMAIN recorded' -> DOMAIN Content] :
                /\ Vouched(recorded, ts)'
                /\ \A g \in DOMAIN recorded' : ts[g] \in Texts[g]
                /\ Main \in DOMAIN recorded'
                /\ Named(ts[Main]) \subseteq DOMAIN recorded'
                /\ cell'.config \in Meanings(ts)
    <3>1. PICK ts \in [DOMAIN recorded -> DOMAIN Content] :
                /\ Vouched(recorded, ts)
                /\ \A g \in DOMAIN recorded : ts[g] \in Texts[g]
                /\ Main \in DOMAIN recorded
                /\ Named(ts[Main]) \subseteq DOMAIN recorded
                /\ cell.config \in Meanings(ts)
        BY <1>5, <2>4 DEF CellOK
    <3>2. Vouched(recorded, ts)'
        BY <2>2, <3>1 DEF Vouched
    <3> QED BY <3>1, <3>2
  <2> QED BY <1>5, <2>1, <2>2, <2>3, <2>4 DEF CellOK, NoConfig
<1>11. AppliedOK' /\ notice' \in BOOLEAN BY DEF Inv, AppliedOK, NoConfig
<1> QED BY <1>4, <1>6, <1>9, <1>10, <1>11 DEF Inv

---------------------------------------------------------------------------
(***************************************************************************)
(* The updater thread.                                                     *)
(***************************************************************************)

\* The disk and the active configuration are left alone.
LEMMA CellKept ==
    ASSUME Inv, UNCHANGED <<fileVars, cellVars>>
    PROVE  DiskOK' /\ CellOK'
<1> USE DEF fileVars, cellVars
<1>1. DiskOK' BY DEF Inv, DiskOK
<1>2. CellOK' BY DEF Inv, CellOK, Seen, Vouched, NoConfig
<1> QED BY <1>1, <1>2

\* The thread is done with a read, or starts one.
LEMMA IdleKeeps ==
    ASSUME Idle, stage' \in {"sleep", "exit", "stat", "tell"}
    PROVE  PlaceOK' /\ DomainsOK' /\ ReadOK'
<1>1. /\ files' = <<Main>> /\ at' = 1 /\ metas' = EmptyMap
      /\ texts' = EmptyMap /\ print' = EmptyMap
    BY DEF Idle
<1>2. Main \in Files BY ConfiguratorAssumption
<1> DEFINE q == <<Main>>
<1>3. q \in Seq(Files) /\ Len(q) = 1 /\ q[1] = Main BY <1>2
<1> HIDE DEF q
<1>4. 1 .. 0 = {} /\ 1 .. 1 = {1} OBVIOUS
<1>5. First(0)' = {} BY <1>4 DEF First
<1>6. PlaceOK'
  <2>1. Main \in First(Len(files))' BY <1>1, <1>3, <1>4 DEF First, q
  <2> QED BY <1>1, <1>3, <2>1 DEF PlaceOK, Stages, q
<1>7. DomainsOK'
  <2>1. First(at - 1)' = {} BY <1>1, <1>5 DEF First
  <2>2. /\ DOMAIN metas' = {} /\ DOMAIN texts' = {} /\ DOMAIN print' = {}
        /\ metas' = [f \in DOMAIN metas' |-> metas'[f]]
        /\ texts' = [f \in DOMAIN texts' |-> texts'[f]]
        /\ print' = [f \in DOMAIN print' |-> print'[f]]
      BY <1>1, NoEntries
  <2> QED BY <2>1, <2>2 DEF DomainsOK, Reading
<1>8. ReadOK' BY <1>1, NoEntries DEF ReadOK, Seen, Vouched
<1> QED BY <1>6, <1>7, <1>8

LEMMA GiveUpKeeps ==
    ASSUME Inv, GiveUp, stage # "tell"
    PROVE  Inv'
<1>1. DiskOK' /\ CellOK' BY CellKept DEF GiveUp
<1>2. PlaceOK' /\ DomainsOK' /\ ReadOK' BY IdleKeeps DEF GiveUp
<1>3. AppliedOK' /\ notice' \in BOOLEAN
    BY DEF Inv, AppliedOK, GiveUp, cellVars, NoConfig
<1> QED BY <1>1, <1>2, <1>3 DEF Inv

LEMMA WakeUpKeeps ==
    ASSUME Inv, WakeUp
    PROVE  Inv'
<1>1. DiskOK' /\ CellOK' BY CellKept DEF WakeUp
<1>2. PlaceOK' /\ DomainsOK' /\ ReadOK' BY IdleKeeps DEF WakeUp
<1>3. AppliedOK' /\ notice' \in BOOLEAN
    BY DEF Inv, AppliedOK, WakeUp, cellVars, NoConfig
<1> QED BY <1>1, <1>2, <1>3 DEF Inv

LEMMA StatKeeps ==
    ASSUME Inv, Stat
    PROVE  Inv'
<1> DEFINE f == files[at]
<1>1. CASE ~ Present(f) BY <1>1, GiveUpKeeps DEF Stat
<1>2. CASE Present(f)
  <2>1. /\ metas' = With(metas, f, disk[f].meta) /\ stage = "stat"
        /\ stage' = "read"
        /\ UNCHANGED <<fileVars, cellVars, at, files, texts, print, found,
                       notice, applied>>
      BY <1>2 DEF Stat
  <2>2. DiskOK' /\ CellOK' BY <2>1, CellKept
  <2>3. PlaceOK /\ DomainsOK /\ ReadOK /\ DiskOK BY DEF Inv
  <2>4. /\ f \in Files /\ First(at) = First(at - 1) \cup {f} /\ at \in Nat
      BY <2>3, FirstIs
  <2> HIDE DEF f
  <2>5. /\ DOMAIN metas' = DOMAIN metas \cup {f}
        /\ \A g \in DOMAIN metas : metas'[g] = metas[g]
        /\ f \notin DOMAIN metas => metas'[f] = disk[f].meta
        /\ metas' = [g \in DOMAIN metas' |-> metas'[g]]
      BY <2>1 DEF With
  <2>6. PlaceOK' BY <2>1, <2>3 DEF PlaceOK, First, Stages
  <2>7. DomainsOK'
    <3>1. First(at)' = First(at) /\ First(at - 1)' = First(at - 1)
        BY <2>1 DEF First
    <3> QED BY <2>1, <2>3, <2>4, <2>5, <3>1 DEF DomainsOK, Reading
  <2>8. Seen(metas)'
    <3>1. disk[f].meta \in 1 .. writes + 1
      <4>1. /\ disk[f].meta \in Nat /\ disk[f].meta <= writes + 1
            /\ writes \in Nat
          BY <2>3, <2>4, ConfiguratorAssumption DEF DiskOK
      <4> QED BY <1>2, <4>1 DEF Present, f
    <3>2. \A g \in DOMAIN metas : metas[g] \in 1 .. writes + 1
        BY <2>3 DEF ReadOK, Seen
    <3>3. writes' = writes BY <2>1 DEF fileVars
    <3> QED BY <2>5, <3>1, <3>2, <3>3 DEF Seen
  <2>9. ReadOK'
    <3>1. DOMAIN texts \subseteq DOMAIN metas /\ DOMAIN print \subseteq DOMAIN metas
        BY <2>3, Inside
    <3>2. Vouched(metas, texts)' /\ Vouched(metas, print)'
        BY <2>1, <2>3, <2>5, <3>1 DEF ReadOK, Vouched, fileVars
    <3> QED BY <2>1, <2>3, <2>8, <3>2 DEF ReadOK, First
  <2>10. AppliedOK' /\ notice' \in BOOLEAN
      BY <2>1 DEF Inv, AppliedOK, cellVars, NoConfig
  <2> QED BY <2>2, <2>6, <2>7, <2>9, <2>10 DEF Inv
<1> QED BY <1>1, <1>2

\* The list of files only grows.
LEMMA Listed ==
    ASSUME PlaceOK, NEW t \in Texts[Main], Content[t] # Refused
    PROVE  LET named == Content[t].mixins
               all == files \o [i \in 1 .. Len(named) |-> named[i].file] IN
           /\ all \in Seq(Files) /\ Len(all) \in Nat /\ Len(all) >= Len(files)
           /\ \A i \in 1 .. Len(files) : all[i] = files[i]
           /\ Named(t) \subseteq {all[i] : i \in 1 .. Len(all)}
<1> DEFINE named == Content[t].mixins
           more == [i \in 1 .. Len(named) |-> named[i].file]
           all == files \o more
<1>1. Len(named) \in Nat /\ \A i \in 1 .. Len(named) : named[i].file \in Files
    BY ConfiguratorAssumption
<1>2. more \in [1 .. Len(named) -> Files] BY <1>1
<1>3. more \in Seq(Files)
  <2> HIDE DEF more, named
  <2> QED BY <1>1, <1>2, SeqDef
<1>4. files \in Seq(Files) BY DEF PlaceOK
<1> HIDE DEF more
<1>5. /\ all \in Seq(Files) /\ Len(all) = Len(files) + Len(more)
      /\ Len(files) \in Nat /\ Len(more) \in Nat
      /\ \A i \in 1 .. Len(files) : all[i] = files[i]
    BY <1>3, <1>4
<1>6. \A i \in 1 .. Len(named) : more[i] = named[i].file BY DEF more
<1>7. Len(more) = Len(named)
  <2>1. DOMAIN more = 1 .. Len(named) BY DEF more
  <2> HIDE DEF named
  <2> QED BY <1>1, <1>3, <1>5, <2>1, LenProperties
<1>8. \A i \in 1 .. Len(more) : /\ all[Len(files) + i] = more[i]
                                /\ Len(files) + i \in 1 .. Len(all)
    BY <1>3, <1>4, <1>5
<1> HIDE DEF all
<1>9. ASSUME NEW f \in Named(t) PROVE f \in {all[i] : i \in 1 .. Len(all)}
  <2>1. PICK i \in 1 .. Len(named) : f = named[i].file BY DEF Named
  <2> HIDE DEF named
  <2>2. f = all[Len(files) + i] BY <1>6, <1>7, <1>8, <2>1
  <2>3. Len(files) + i \in 1 .. Len(all) BY <1>7, <1>8
  <2> QED BY <2>2, <2>3
<1> QED BY <1>5, <1>9 DEF more, all

LEMMA ReadKeeps ==
    ASSUME Inv, Read
    PROVE  Inv'
<1> DEFINE f == files[at]
           named == Content[disk[Main].text].mixins
           all == IF f = Main
                  THEN files \o [i \in 1 .. Len(named) |-> named[i].file]
                  ELSE files
<1>1. CASE ~ Present(f) \/ Content[disk[f].text] = Unparsable
    BY <1>1, GiveUpKeeps DEF Read
<1>2. CASE ~ (~ Present(f) \/ Content[disk[f].text] = Unparsable)
  <2>1. /\ texts' = With(texts, f, disk[f].text) /\ stage = "read"
        /\ files' = all
        /\ at' = IF at < Len(all) THEN at + 1 ELSE 1
        /\ stage' = IF at < Len(all) THEN "stat" ELSE "build"
        /\ UNCHANGED <<fileVars, cellVars, metas, print, found, notice, applied>>
      BY <1>2 DEF Read
  <2>2. DiskOK' /\ CellOK' BY <2>1, CellKept
  <2>3. PlaceOK /\ DomainsOK /\ ReadOK /\ DiskOK BY DEF Inv
  <2>4. /\ f \in Files /\ First(at) = First(at - 1) \cup {f} /\ at \in Nat
        /\ Len(files) \in Nat /\ at \in 1 .. Len(files)
        /\ files \in Seq(Files)
      BY <2>3, FirstIs DEF PlaceOK
  <2>5. /\ all \in Seq(Files) /\ Len(all) \in Nat /\ Len(all) >= Len(files)
        /\ \A i \in 1 .. Len(files) : all[i] = files[i]
        /\ f = Main => Named(disk[Main].text) \subseteq
                            {all[i] : i \in 1 .. Len(all)}
    <3>1. CASE f = Main
      <4>1. disk[Main].text \in Texts[Main] BY <2>3, <2>4, <3>1 DEF DiskOK
      <4>2. Content[disk[Main].text] # Refused BY <1>2, <3>1 DEF Unparsable
      <4> DEFINE longer == files \o [i \in 1 .. Len(named) |-> named[i].file]
      <4>3. /\ longer \in Seq(Files) /\ Len(longer) \in Nat
            /\ Len(longer) >= Len(files)
            /\ \A i \in 1 .. Len(files) : longer[i] = files[i]
            /\ Named(disk[Main].text) \subseteq
                    {longer[i] : i \in 1 .. Len(longer)}
          BY <2>3, <4>1, <4>2, Listed
      <4>4. all = longer BY <3>1
      <4> HIDE DEF longer, all
      <4> QED BY <4>3, <4>4
    <3>2. CASE f # Main BY <2>4, <3>2
    <3> QED BY <3>1, <3>2
  <2> HIDE DEF f, all
  <2>6. /\ DOMAIN texts' = DOMAIN texts \cup {f}
        /\ \A g \in DOMAIN texts : texts'[g] = texts[g]
        /\ f \notin DOMAIN texts => texts'[f] = disk[f].text
        /\ texts' = [g \in DOMAIN texts' |-> texts'[g]]
      BY <2>1 DEF With
  <2>7. {files'[i] : i \in 1 .. at} = First(at)
    <3>1. \A i \in 1 .. at : files'[i] = files[i] BY <2>1, <2>4, <2>5
    <3> QED BY <3>1 DEF First
  <2>8. PlaceOK'
    <3>1. Main \in First(Len(files))'
      <4>1. PICK i \in 1 .. Len(files) : Main = files[i]
          BY <2>3 DEF PlaceOK, First
      <4>2. i \in 1 .. Len(files') /\ Main = files'[i]
          BY <2>1, <2>4, <2>5, <4>1
      <4> QED BY <4>2 DEF First
    <3>2. at' \in 1 .. Len(files') /\ (stage' = "build" => at' = 1)
        BY <2>1, <2>4, <2>5
    <3>3. stage' \in Stages BY <2>1 DEF Stages
    <3> QED BY <2>1, <2>5, <3>1, <3>2, <3>3 DEF PlaceOK
  <2>9. DOMAIN metas' = First(at) /\ DOMAIN texts' = First(at)
      BY <2>1, <2>3, <2>4, <2>6 DEF DomainsOK
  <2>10. /\ metas' = [g \in DOMAIN metas' |-> metas'[g]]
         /\ print' = [g \in DOMAIN print' |-> print'[g]] /\ DOMAIN print' = {}
      BY <2>1, <2>3 DEF DomainsOK
  <2>11. DomainsOK'
    <3>1. CASE at < Len(all)
      <4>1. stage' = "stat" /\ at' - 1 = at BY <2>1, <2>4, <3>1
      <4>2. First(at - 1)' = First(at) BY <2>7, <4>1 DEF First
      <4> QED BY <2>6, <2>9, <2>10, <4>1, <4>2 DEF DomainsOK, Reading
    <3>2. CASE ~ (at < Len(all))
      <4>1. stage' = "build" /\ Len(files') = at BY <2>1, <2>4, <2>5, <3>2
      <4>2. First(Len(files))' = First(at) BY <2>7, <4>1 DEF First
      <4> QED BY <2>6, <2>9, <2>10, <4>1, <4>2 DEF DomainsOK, Reading
    <3> QED BY <3>1, <3>2
  <2>12. ReadOK'
    <3>1. /\ Seen(metas)' /\ Vouched(metas, print)'
        BY <2>1, <2>3 DEF ReadOK, Seen, Vouched, fileVars
    <3>2. Vouched(metas, texts)'
        BY <2>1, <2>3, <2>6 DEF ReadOK, Vouched, fileVars
    <3>3. \A g \in DOMAIN texts' : texts'[g] \in Texts[g]
        BY <2>3, <2>4, <2>6 DEF ReadOK, DiskOK
    <3>4. stage' \notin {"calc", "digest"} BY <2>1
    <3>5. ASSUME Main \in DOMAIN texts'
          PROVE  Named(texts'[Main]) \subseteq First(Len(files))'
      <4>1. First(Len(files))' = {all[i] : i \in 1 .. Len(all)}
          BY <2>1 DEF First
      <4>2. CASE Main \in DOMAIN texts
        <5>1. Named(texts[Main]) \subseteq First(Len(files))
            BY <2>3, <4>2 DEF ReadOK
        <5>2. First(Len(files)) \subseteq {all[i] : i \in 1 .. Len(all)}
          <6>1. \A i \in 1 .. Len(files) : i \in 1 .. Len(all)
              BY <2>4, <2>5
          <6> QED BY <2>5, <6>1 DEF First
        <5> QED BY <2>6, <4>1, <4>2, <5>1, <5>2
      <4>3. CASE Main \notin DOMAIN texts
        <5>1. f = Main /\ texts'[Main] = disk[Main].text
            BY <2>6, <3>5, <4>3
        <5> QED BY <2>5, <4>1, <5>1
      <4> QED BY <4>2, <4>3
    <3> QED BY <3>1, <3>2, <3>3, <3>4, <3>5 DEF ReadOK
  <2>13. AppliedOK' /\ notice' \in BOOLEAN
      BY <2>1 DEF Inv, AppliedOK, cellVars, NoConfig
  <2> QED BY <2>2, <2>8, <2>11, <2>12, <2>13 DEF Inv
<1> QED BY <1>1, <1>2

LEMMA BuildKeeps ==
    ASSUME Inv, Build
    PROVE  Inv'
<1>1. PICK cfg \in Meanings(texts) :
        IF cfg \in {Refused, cell.config} THEN GiveUp
        ELSE /\ found' = cfg
             /\ stage' = "calc"
             /\ UNCHANGED <<fileVars, cellVars, at, files, metas, texts, print,
                            notice, applied>>
    BY DEF Build
<1>2. stage = "build" BY DEF Build
<1>3. CASE cfg \in {Refused, cell.config} BY <1>1, <1>2, <1>3, GiveUpKeeps
<1>4. CASE cfg \notin {Refused, cell.config}
  <2>1. /\ found' = cfg /\ stage' = "calc"
        /\ UNCHANGED <<fileVars, cellVars, at, files, metas, texts, print,
                       notice, applied>>
      BY <1>1, <1>4
  <2>2. DiskOK' /\ CellOK' BY <2>1, CellKept
  <2>3. PlaceOK /\ DomainsOK /\ ReadOK BY DEF Inv
  <2>4. PlaceOK' BY <2>1, <2>3 DEF PlaceOK, Stages, First
  <2>5. DomainsOK'
    <3>1. at - 1 = 0 BY <1>2, <2>3 DEF PlaceOK
    <3>2. First(at - 1)' = {} BY <2>1, <2>3, <3>1, FirstIs DEF First
    <3> QED BY <1>2, <2>1, <2>3, <3>2 DEF DomainsOK, Reading, First
  <2>6. ReadOK'
    <3>1. cfg # NoConfig
      <4>1. DOMAIN texts \subseteq Files BY <2>3, Inside
      <4>2. \A f \in DOMAIN texts : texts[f] \in Texts[f] BY <2>3 DEF ReadOK
      <4> QED BY <1>4, <4>1, <4>2, MeansSomething
    <3>2. found' \in Meanings(texts)' BY <2>1 DEF Meanings
    <3>3. found' # NoConfig' BY <2>1, <3>1 DEF NoConfig
    <3>4. /\ Seen(metas)' /\ Vouched(metas, texts)' /\ Vouched(metas, print)'
          /\ \A f \in DOMAIN texts' : texts'[f] \in Texts[f]
          /\ Main \in DOMAIN texts' =>
                Named(texts'[Main]) \subseteq First(Len(files))'
        BY <2>1, <2>3 DEF ReadOK, Seen, Vouched, fileVars, First
    <3> QED BY <3>2, <3>3, <3>4 DEF ReadOK
  <2>7. AppliedOK' /\ notice' \in BOOLEAN
      BY <1>2, <2>1 DEF Inv, AppliedOK, cellVars, NoConfig
  <2> QED BY <2>2, <2>4, <2>5, <2>6, <2>7 DEF Inv
<1> QED BY <1>3, <1>4

LEMMA CalcKeeps ==
    ASSUME Inv, Calc
    PROVE  Inv'
<1> DEFINE f == files[at]
<1>1. CASE disk[f].meta # metas[f] BY <1>1, GiveUpKeeps DEF Calc
<1>2. CASE disk[f].meta = metas[f]
  <2>1. /\ stage = "calc" /\ stage' = "digest"
        /\ UNCHANGED <<fileVars, cellVars, at, files, metas, texts, print, found,
                       notice, applied>>
      BY <1>2 DEF Calc
  <2>2. DiskOK' /\ CellOK' BY <2>1, CellKept
  <2>3. PlaceOK /\ DomainsOK /\ ReadOK BY DEF Inv
  <2>4. PlaceOK' BY <2>1, <2>3 DEF PlaceOK, Stages, First
  <2>5. DomainsOK' BY <2>1, <2>3 DEF DomainsOK, Reading, First
  <2>6. ReadOK'
    <3>1. Meanings(texts)' = Meanings(texts) BY <2>1 DEF Meanings
    <3> QED BY <2>1, <2>3, <3>1 DEF ReadOK, Seen, Vouched, fileVars, NoConfig, First
  <2>7. AppliedOK' /\ notice' \in BOOLEAN
      BY <2>1 DEF Inv, AppliedOK, cellVars, NoConfig
  <2> QED BY <2>2, <2>4, <2>5, <2>6, <2>7 DEF Inv
<1> QED BY <1>1, <1>2

LEMMA DigestKeeps ==
    ASSUME Inv, Digest
    PROVE  Inv'
<1> DEFINE f == files[at]
<1>1. PICK t \in {texts[f]} \cup (IF Present(f) THEN {disk[f].text} ELSE {}) :
        IF at < Len(files)
        THEN /\ print' = With(print, f, t)
             /\ stage' = "calc" /\ at' = at + 1
             /\ UNCHANGED <<cellVars, files, metas, texts, found, applied>>
        ELSE Install(With(print, f, t))
    BY DEF Digest
<1>2. stage = "digest" /\ UNCHANGED <<fileVars, notice>> BY DEF Digest
<1>3. PlaceOK /\ DomainsOK /\ ReadOK /\ DiskOK /\ CellOK BY DEF Inv
<1>4. /\ f \in Files /\ First(at) = First(at - 1) \cup {f} /\ at \in Nat
      /\ Len(files) \in Nat /\ at \in 1 .. Len(files)
      /\ f \in First(Len(files)) /\ First(Len(files)) \subseteq Files
    BY <1>3, FirstIs DEF PlaceOK
<1>5. /\ DOMAIN metas = First(Len(files)) /\ DOMAIN texts = First(Len(files))
      /\ DOMAIN print = First(at - 1)
    BY <1>2, <1>3 DEF DomainsOK, Reading
<1>6. metas[f] = disk[f].meta => t = disk[f].text
    BY <1>1, <1>3, <1>4, <1>5 DEF ReadOK, Vouched
<1> DEFINE new == With(print, f, t)
<1>7. /\ DOMAIN new = First(at)
      /\ \A g \in DOMAIN print : new[g] = print[g]
      /\ f \notin DOMAIN print => new[f] = t
      /\ new = [g \in DOMAIN new |-> new[g]]
    BY <1>4, <1>5 DEF With
<1> HIDE DEF new, f
<1>8. Vouched(metas, new)
  <2>1. Vouched(metas, print) BY <1>3 DEF ReadOK
  <2>2. \A g \in DOMAIN new : g \in DOMAIN print \/ (g = f /\ f \notin DOMAIN print)
      BY <1>4, <1>5, <1>7
  <2> QED BY <1>6, <1>7, <2>1, <2>2 DEF Vouched
<1>9. disk' = disk /\ writes' = writes BY <1>2 DEF fileVars
<1>10. CASE at < Len(files)
  <2>1. /\ print' = new /\ stage' = "calc" /\ at' = at + 1
        /\ UNCHANGED <<cellVars, files, metas, texts, found, applied>>
      BY <1>1, <1>10 DEF new
  <2>2. DiskOK' /\ CellOK' BY <1>2, <2>1, CellKept
  <2>3. PlaceOK'
    <3>1. at' \in 1 .. Len(files') BY <1>4, <1>10, <2>1
    <3> QED BY <1>3, <2>1, <3>1 DEF PlaceOK, Stages, First
  <2>4. DomainsOK'
    <3>1. at' - 1 = at BY <1>4, <2>1
    <3>2. First(at - 1)' = First(at) /\ First(Len(files))' = First(Len(files))
        BY <2>1, <3>1 DEF First
    <3> QED BY <1>3, <1>5, <1>7, <2>1, <3>2 DEF DomainsOK, Reading
  <2>5. ReadOK'
    <3>1. Meanings(texts)' = Meanings(texts) BY <2>1 DEF Meanings
    <3>2. Vouched(metas, print)' BY <1>8, <1>9, <2>1 DEF Vouched
    <3> QED BY <1>2, <1>3, <1>9, <2>1, <3>1, <3>2
         DEF ReadOK, Seen, Vouched, NoConfig, First
  <2>6. AppliedOK' /\ notice' \in BOOLEAN
      BY <1>2, <2>1 DEF Inv, AppliedOK, cellVars, NoConfig
  <2> QED BY <2>2, <2>3, <2>4, <2>5, <2>6 DEF Inv
<1>11. CASE ~ (at < Len(files))
  <2>1. /\ cell' = [config |-> found, fingerprint |-> new]
        /\ recorded' = metas /\ Idle
        /\ IF cell.config = NoConfig
           THEN stage' = "sleep" /\ applied' = found
           ELSE stage' = "tell" /\ UNCHANGED applied
      BY <1>1, <1>11 DEF Install, NewMeta, new
  <2>2. at = Len(files) BY <1>4, <1>11
  <2>3. DiskOK' BY <1>3, <1>9 DEF DiskOK
  <2>4. PlaceOK' /\ DomainsOK' /\ ReadOK' BY <2>1, IdleKeeps
  <2>5. cell'.config = found /\ cell'.fingerprint = new BY <2>1
  <2>6. CellOK'
    <3>1. found \in Meanings(texts) /\ found # NoConfig
        BY <1>2, <1>3 DEF ReadOK
    <3>2. recorded' # EmptyMap
      <4>1. Main \in DOMAIN metas BY <1>3, <1>5 DEF PlaceOK
      <4> QED BY <2>1, <4>1, NoEntries
    <3>3. DOMAIN recorded' = DOMAIN new /\ DOMAIN recorded' \subseteq Files
        BY <1>4, <1>5, <1>7, <2>1, <2>2
    <3>4. Seen(recorded)' BY <1>3, <1>9, <2>1 DEF ReadOK, Seen
    <3>5. Vouched(recorded, cell.fingerprint)'
        BY <1>8, <1>9, <2>1, <2>5 DEF Vouched
    <3>6. \E ts \in [DOMAIN recorded' -> DOMAIN Content] :
            /\ Vouched(recorded, ts)'
            /\ \A g \in DOMAIN recorded' : ts[g] \in Texts[g]
            /\ Main \in DOMAIN recorded'
            /\ Named(ts[Main]) \subseteq DOMAIN recorded'
            /\ cell'.config \in Meanings(ts)
      <4>1. \A g \in DOMAIN texts : texts[g] \in Texts[g] /\ g \in Files
          BY <1>3, <1>4, <1>5 DEF ReadOK
      <4>2. \A g \in DOMAIN texts : texts[g] \in DOMAIN Content
          BY <4>1, ConfiguratorAssumption
      <4>3. texts \in [DOMAIN recorded' -> DOMAIN Content]
          BY <1>3, <1>5, <2>1, <4>2 DEF DomainsOK
      <4>4. \A g \in DOMAIN texts : recorded'[g] = disk'[g].meta
                                        => texts[g] = disk'[g].text
          BY <1>3, <1>9, <2>1 DEF ReadOK, Vouched
      <4>5. PICK ts : ts = texts OBVIOUS
      <4>6. Vouched(recorded, ts)' BY <4>4, <4>5 DEF Vouched
      <4>7. Main \in DOMAIN recorded' BY <1>3, <1>5, <2>1 DEF PlaceOK
      <4>8. Named(texts[Main]) \subseteq DOMAIN recorded'
          BY <1>3, <1>5, <2>1, <4>7 DEF ReadOK
      <4> QED BY <1>5, <2>1, <2>5, <3>1, <4>1, <4>3, <4>5, <4>6, <4>7, <4>8
    <3> QED BY <1>7, <2>5, <3>1, <3>2, <3>3, <3>4, <3>5, <3>6 DEF CellOK, NoConfig
  <2>7. AppliedOK' /\ notice' \in BOOLEAN
    <3>1. found # NoConfig BY <1>2, <1>3 DEF ReadOK
    <3>2. CASE cell.config = NoConfig
        BY <1>2, <2>1, <2>5, <3>2, <3>1 DEF Inv, AppliedOK, NoConfig
    <3>3. CASE cell.config # NoConfig
        BY <1>2, <2>1, <2>5, <3>3, <3>1 DEF Inv, AppliedOK, NoConfig
    <3> QED BY <3>2, <3>3
  <2> QED BY <2>3, <2>4, <2>6, <2>7 DEF Inv
<1> QED BY <1>10, <1>11

LEMMA TellKeeps ==
    ASSUME Inv, Tell \/ UpdateLoop \/ UNCHANGED vars
    PROVE  Inv'
<1> USE DEF vars, fileVars, cellVars, readVars
<1>1. UNCHANGED <<fileVars, cellVars, at, files, metas, texts, print, found>>
    BY DEF Tell, UpdateLoop
<1>2. stage' = stage \/ (stage = "tell" /\ stage' = "sleep")
    BY DEF Tell, UpdateLoop
<1>3. DiskOK' /\ CellOK' BY <1>1, CellKept
<1>4. PlaceOK /\ DomainsOK /\ ReadOK BY DEF Inv
<1>5. PlaceOK' BY <1>1, <1>2, <1>4 DEF PlaceOK, Stages, First
<1>6. DomainsOK' BY <1>1, <1>2, <1>4 DEF DomainsOK, Reading, First
<1>7. ReadOK'
  <2>1. Meanings(texts)' = Meanings(texts) BY <1>1 DEF Meanings
  <2> QED BY <1>1, <1>2, <1>4, <2>1 DEF ReadOK, Seen, Vouched, NoConfig, First
<1>8. AppliedOK' /\ notice' \in BOOLEAN
    BY DEF Inv, AppliedOK, Tell, Notice, UpdateLoop, NoConfig
<1> QED BY <1>3, <1>5, <1>6, <1>7, <1>8 DEF Inv

---------------------------------------------------------------------------
(***************************************************************************)
(* The invariant holds.                                                    *)
(***************************************************************************)

LEMMA InitOK == Init => Inv
<1> SUFFICES ASSUME Init PROVE Inv OBVIOUS
<1>1. PICK ts \in Versions : disk = [f \in Files |-> [text |-> ts[f], meta |-> 1]]
    BY DEF Init
<1>2. /\ writes = 0 /\ cell = [config |-> NoConfig, fingerprint |-> EmptyMap]
      /\ recorded = EmptyMap /\ stage = "stat" /\ at = 1 /\ files = <<Main>>
      /\ metas = EmptyMap /\ texts = EmptyMap /\ print = EmptyMap
      /\ notice = FALSE /\ applied = NoConfig
    BY DEF Init
<1>3. DiskOK
  <2>1. \A f \in Files : ts[f] \in DOMAIN Content /\ ts[f] \in Texts[f]
      BY DEF Versions
  <2>2. \A f \in Files : disk[f].text \in Texts[f] /\ disk[f].meta = 1
      BY <1>1, <2>1
  <2>3. disk \in [Files -> [text : DOMAIN Content, meta : Nat]]
      BY <1>1, <2>1
  <2> QED BY <1>2, <2>2, <2>3, ConfiguratorAssumption DEF DiskOK
<1> DEFINE q == <<Main>>
<1>4. q \in Seq(Files) /\ Len(q) = 1 /\ q[1] = Main BY ConfiguratorAssumption
<1> HIDE DEF q
<1>5. 1 .. 0 = {} /\ 1 .. 1 = {1} OBVIOUS
<1>6. First(at - 1) = {} BY <1>2, <1>5 DEF First
<1>7. PlaceOK
  <2>1. Main \in First(Len(files)) BY <1>2, <1>4, <1>5 DEF First, q
  <2> QED BY <1>2, <1>4, <2>1 DEF PlaceOK, Stages, q
<1>8. DomainsOK
  <2>1. /\ DOMAIN metas = {} /\ DOMAIN texts = {} /\ DOMAIN print = {}
        /\ metas = [f \in DOMAIN metas |-> metas[f]]
        /\ texts = [f \in DOMAIN texts |-> texts[f]]
        /\ print = [f \in DOMAIN print |-> print[f]]
      BY <1>2, NoEntries
  <2> QED BY <1>2, <1>6, <2>1 DEF DomainsOK, Reading
<1>9. ReadOK BY <1>2, NoEntries DEF ReadOK, Seen, Vouched
<1>10. CellOK
  <2>1. cell.config = NoConfig /\ cell.fingerprint = EmptyMap BY <1>2
  <2> QED BY <1>2, <2>1, NoEntries DEF CellOK, Seen, Vouched
<1>11. AppliedOK /\ notice \in BOOLEAN
  <2>1. cell.config = NoConfig BY <1>2
  <2> QED BY <1>2, <2>1 DEF AppliedOK
<1> QED BY <1>3, <1>7, <1>8, <1>9, <1>10, <1>11 DEF Inv

LEMMA NextKeeps == Inv /\ [Next]_vars => Inv'
<1> SUFFICES ASSUME Inv, [Next]_vars PROVE Inv' OBVIOUS
<1>1. DiskOK /\ disk \in [Files -> [text : DOMAIN Content, meta : Nat]]
    BY DEF Inv, DiskOK
<1>2. ASSUME NEW f \in Files, Delete(f) PROVE Inv'
  <2>1. /\ disk[f].text \in Texts[f]
        /\ disk' = [disk EXCEPT ![f] = [text |-> disk[f].text, meta |-> 0]]
    <3>1. disk[f].text \in Texts[f] BY <1>1 DEF DiskOK
    <3>2. disk[f] \in [text : DOMAIN Content, meta : Nat] BY <1>1
    <3>3. [disk[f] EXCEPT !.meta = 0] = [text |-> disk[f].text, meta |-> 0]
        BY <3>2
    <3>4. disk' = [disk EXCEPT ![f] = [disk[f] EXCEPT !.meta = 0]]
        BY <1>2 DEF Delete
    <3> QED BY <3>1, <3>3, <3>4
  <2>2. 0 \in {0, writes + 2} OBVIOUS
  <2> QED BY <1>2, <2>1, <2>2, EditKeeps DEF Delete
<1>3. ASSUME NEW f \in Files, NEW t \in Texts[f], Write(f, t) PROVE Inv'
  <2>1. writes + 2 \in {0, writes + 2} OBVIOUS
  <2> QED BY <1>3, <2>1, EditKeeps DEF Write
<1>4. CASE Updater
    BY <1>4, WakeUpKeeps, StatKeeps, ReadKeeps, BuildKeeps, CalcKeeps,
       DigestKeeps, TellKeeps
    DEF Updater
<1>5. CASE UpdateLoop \/ UNCHANGED vars BY <1>5, TellKeeps
<1> QED BY <1>2, <1>3, <1>4, <1>5 DEF Next

LEMMA Invariance == Spec => []Inv
BY InitOK, NextKeeps, PTL DEF Spec

---------------------------------------------------------------------------
(***************************************************************************)
(* Numbers and folds.                                                      *)
(***************************************************************************)

\* A set of numbers has a least element.
LEMMA Least ==
    ASSUME NEW T \in SUBSET Nat, T # {}
    PROVE  \E x \in T : \A y \in T : x <= y
<1> DEFINE R == OpToRel(<, Nat)
<1>1. IsWellFoundedOn(R, Nat) BY NatLessThanWellFounded
<1>2. R = {p \in Nat \X Nat : p[1] < p[2]} BY DEF OpToRel
<1> HIDE DEF R
<1>3. PICK x \in T : \A y \in T : ~ (<<y, x>> \in R) BY <1>1, WFMin
<1>4. ASSUME NEW y \in T PROVE x <= y
  <2>1. <<y, x>> \in Nat \X Nat OBVIOUS
  <2> QED BY <1>2, <1>3, <2>1
<1> QED BY <1>4

\* Induction over numbers.
LEMMA FromZero ==
    ASSUME NEW S \in SUBSET Nat, 0 \in S, \A n \in Nat : n \in S => n + 1 \in S
    PROVE  S = Nat
<1> SUFFICES ASSUME S # Nat PROVE FALSE OBVIOUS
<1> DEFINE T == Nat \ S
<1>1. PICK x \in T : \A y \in T : x <= y BY Least
<1>2. x # 0 /\ x - 1 \in Nat /\ ~ (x <= x - 1) OBVIOUS
<1>3. x - 1 \in S BY <1>1, <1>2
<1>4. (x - 1) + 1 \in S BY <1>2, <1>3
<1> QED BY <1>2, <1>4

\* FoldLeft goes through the sets of positions, the last position first.
Folded(f, cfg, order, n) ==
    f = [s \in SUBSET (1 .. n) |->
            IF s = {} THEN cfg.session_pools
            ELSE PostprocessHandler(cfg, f[s \ {Max(s)}], order[Max(s)])]

LEMMA MaxOf ==
    ASSUME NEW k \in Nat, NEW s \in SUBSET (1 .. k), k \in s
    PROVE  Max(s) = k
<1>1. \A x \in s : x \in Nat /\ k >= x OBVIOUS
<1>2. \A y \in s : k >= y BY <1>1
<1>3. Max(s) \in s /\ \A y \in s : Max(s) >= y BY <1>2 DEF Max
<1>4. Max(s) \in Nat /\ k >= Max(s) BY <1>1, <1>3
<1>5. Max(s) >= k BY <1>3
<1> HIDE DEF Max
<1> QED BY <1>4, <1>5

LEMMA FoldExists ==
    ASSUME NEW cfg, NEW order, NEW n \in Nat
    PROVE  \E f : Folded(f, cfg, order, n)
<1> DEFINE S == {k \in Nat : \E f : Folded(f, cfg, order, k)}
<1>1. 0 \in S
  <2> DEFINE f == [s \in SUBSET (1 .. 0) |-> cfg.session_pools]
  <2>1. \A s \in SUBSET (1 .. 0) : s = {} OBVIOUS
  <2>2. Folded(f, cfg, order, 0) BY <2>1 DEF Folded
  <2> QED BY <2>2
<1>2. ASSUME NEW k \in Nat, k \in S PROVE k + 1 \in S
  <2>1. PICK f : Folded(f, cfg, order, k) BY <1>2
  <2> DEFINE g == [s \in SUBSET (1 .. k + 1) |->
                      IF k + 1 \in s THEN PostprocessHandler(cfg, f[s \ {k + 1}], order[k + 1])
                      ELSE f[s]]
             G(h) == [s \in SUBSET (1 .. k + 1) |->
                        IF s = {} THEN cfg.session_pools
                        ELSE PostprocessHandler(cfg, h[s \ {Max(s)}], order[Max(s)])]
  <2>2. ASSUME NEW s \in SUBSET (1 .. k + 1)
        PROVE  g[s] = IF s = {} THEN cfg.session_pools
                      ELSE PostprocessHandler(cfg, g[s \ {Max(s)}], order[Max(s)])
    <3>1. CASE k + 1 \in s
      <4>1. Max(s) = k + 1 BY <3>1, MaxOf
      <4>2. s \ {k + 1} \in SUBSET (1 .. k + 1) /\ k + 1 \notin s \ {k + 1} OBVIOUS
      <4>3. g[s \ {k + 1}] = f[s \ {k + 1}] BY <4>2
      <4>4. g[s] = PostprocessHandler(cfg, f[s \ {k + 1}], order[k + 1]) BY <3>1
      <4> HIDE DEF g
      <4> QED BY <3>1, <4>1, <4>3, <4>4
    <3>2. CASE k + 1 \notin s
      <4> DEFINE r == s \ {Max(s)}
      <4>1. s \in SUBSET (1 .. k) BY <3>2
      <4>2. r \in SUBSET (1 .. k) /\ r \in SUBSET (1 .. k + 1) /\ k + 1 \notin r BY <4>1, <3>2
      <4>3. g[r] = f[r] /\ g[s] = f[s] BY <3>2, <4>2
      <4>4. f[s] = IF s = {} THEN cfg.session_pools
                   ELSE PostprocessHandler(cfg, f[r], order[Max(s)])
          BY <2>1, <4>1 DEF Folded
      <4> HIDE DEF g, r
      <4>5. g[s] = IF s = {} THEN cfg.session_pools
                   ELSE PostprocessHandler(cfg, g[r], order[Max(s)])
          BY <4>3, <4>4
      <4> QED BY <4>5 DEF r
    <3> QED BY <3>1, <3>2
  <2>3. g = [s \in SUBSET (1 .. k + 1) |-> g[s]] OBVIOUS
  <2> HIDE DEF g
  <2>4. Folded(g, cfg, order, k + 1) BY <2>2, <2>3 DEF Folded
  <2> QED BY <2>4
<1> HIDE DEF S
<1>3. S \subseteq Nat BY DEF S
<1>4. S = Nat BY <1>1, <1>2, <1>3, FromZero
<1> QED BY <1>4 DEF S

\* t: the session pools after each of the handlers
Ran(t, cfg, order, n) ==
    /\ t[0] = cfg.session_pools
    /\ \A i \in 1 .. n : t[i] = PostprocessHandler(cfg, t[i - 1], order[i])

LEMMA LoopIs ==
    ASSUME NEW cfg, NEW order, NEW n \in Nat, DOMAIN order = 1 .. n
    PROVE  \E t : Ran(t, cfg, order, n) /\ PostprocessHandlers(cfg, order) = t[n]
<1> DEFINE F(f) == [s \in SUBSET (1 .. n) |->
                       IF s = {} THEN cfg.session_pools
                       ELSE PostprocessHandler(cfg, f[s \ {Max(s)}], order[Max(s)])]
           f == CHOOSE h : h = F(h)
           t == [i \in 0 .. n |-> f[1 .. i]]
<1>0. PICK h : Folded(h, cfg, order, n) BY FoldExists
<1>1. h = F(h) BY <1>0 DEF Folded
<1>2. f = F(f) BY <1>1
<1>3. PostprocessHandlers(cfg, order) = f[1 .. n]
    BY DEF PostprocessHandlers, FoldLeft, MapThenFoldSet
<1> HIDE DEF f
<1>4. t[0] = cfg.session_pools
  <2>1. 1 .. 0 = {} OBVIOUS
  <2>2. f[{}] = cfg.session_pools BY <1>2
  <2> QED BY <2>1, <2>2
<1>5. ASSUME NEW i \in 1 .. n PROVE t[i] = PostprocessHandler(cfg, t[i - 1], order[i])
  <2>1. 1 .. i \in SUBSET (1 .. n) /\ i \in 1 .. i /\ i \in Nat OBVIOUS
  <2>2. Max(1 .. i) = i BY <2>1, MaxOf
  <2>3. (1 .. i) \ {i} = 1 .. i - 1 OBVIOUS
  <2>4. f[1 .. i] = PostprocessHandler(cfg, f[1 .. i - 1], order[i])
      BY <1>2, <2>1, <2>2, <2>3
  <2>5. t[i] = f[1 .. i] /\ t[i - 1] = f[1 .. i - 1] OBVIOUS
  <2> QED BY <2>4, <2>5
<1>6. t[n] = f[1 .. n] OBVIOUS
<1> HIDE DEF t
<1> QED BY <1>3, <1>4, <1>5, <1>6 DEF Ran

---------------------------------------------------------------------------
(***************************************************************************)
(* postprocess_config goes through the handlers in the order of a hash     *)
(* map.  The order does not matter: what one handler does to its pool the  *)
(* next one of the pool would do too, or it is refused.                    *)
(***************************************************************************)

UsesPool(cfg, name, pool) ==
    cfg.handlers[name].kind = "SwindonLattice" /\ cfg.handlers[name].session_pool = pool

\* A handler is accepted as long as no other one has been looked at,
Alone(cfg, name) ==
    LET h == cfg.handlers[name] IN
    /\ h.kind = "SwindonLattice" =>
          /\ h.session_pool \in DOMAIN cfg.session_pools
          /\ LatticeAccepted(cfg, cfg.session_pools[h.session_pool], h)
    /\ h.kind = "Proxy" => Known(cfg, h.destination)
    /\ h.kind = "Static" => ~(h.strip_host_suffix /\ h.mode # "with_hostname")
\* and those of one pool want the same.
Agree(cfg, D) ==
    \A m, n \in D : \A pool : UsesPool(cfg, m, pool) /\ UsesPool(cfg, n, pool) =>
        Flags(cfg.handlers[m]) = Flags(cfg.handlers[n])
Good(cfg, D) == (\A n \in D : Alone(cfg, n)) /\ Agree(cfg, D)

\* The session pools P as the handlers D leave them.
PoolLeft(p, cfg, D, n) ==
    /\ p = [flags |-> p.flags, inactivity_handlers |-> cfg.session_pools[n].inactivity_handlers]
    /\ \A m \in D : UsesPool(cfg, m, n) => p.flags = Flags(cfg.handlers[m])
    /\ (\A m \in D : ~UsesPool(cfg, m, n)) => p.flags = NoFlags
PoolsLeft(P, cfg, D) ==
    /\ P = [n \in DOMAIN cfg.session_pools |-> P[n]]
    /\ \A n \in DOMAIN cfg.session_pools : PoolLeft(P[n], cfg, D, n)

IsPools(P) == IsMap(P) /\ \A n \in DOMAIN P : IsPool(n, P[n])

LEMMA PoolsLeftUnique ==
    ASSUME NEW cfg, NEW D, NEW P, NEW Q, PoolsLeft(P, cfg, D), PoolsLeft(Q, cfg, D)
    PROVE  P = Q
<1>1. ASSUME NEW n \in DOMAIN cfg.session_pools PROVE P[n] = Q[n]
  <2>1. PoolLeft(P[n], cfg, D, n) /\ PoolLeft(Q[n], cfg, D, n) BY DEF PoolsLeft
  <2>2. P[n].flags = Q[n].flags
    <3>1. CASE \E m \in D : UsesPool(cfg, m, n) BY <2>1, <3>1 DEF PoolLeft
    <3>2. CASE \A m \in D : ~UsesPool(cfg, m, n) BY <2>1, <3>2 DEF PoolLeft
    <3> QED BY <3>1, <3>2
  <2> QED BY <2>1, <2>2 DEF PoolLeft
<1> QED BY <1>1 DEF PoolsLeft

LEMMA PoolsNotRefused ==
    ASSUME NEW cfg, IsPools(cfg.session_pools), NEW P,
           P = [n \in DOMAIN cfg.session_pools |-> P[n]]
    PROVE  P # Refused
<1>1. "refused" \notin DOMAIN cfg.session_pools BY DEF IsPools, IsPool
<1>2. DOMAIN P = DOMAIN cfg.session_pools OBVIOUS
<1>3. "refused" \in DOMAIN Refused BY DEF Refused
<1> QED BY <1>1, <1>2, <1>3

LEMMA NoneLeft ==
    ASSUME NEW cfg, IsPools(cfg.session_pools)
    PROVE  PoolsLeft(cfg.session_pools, cfg, {})
<1> DEFINE P == cfg.session_pools
<1>1. P = [n \in DOMAIN P |-> P[n]] BY DEF IsPools, IsMap
<1>2. ASSUME NEW n \in DOMAIN P PROVE PoolLeft(P[n], cfg, {}, n)
  <2>1. P[n] = [flags |-> NoFlags, inactivity_handlers |-> P[n].inactivity_handlers]
      BY DEF IsPools, IsPool
  <2>2. P[n].flags = NoFlags BY <2>1
  <2> QED BY <2>1, <2>2 DEF PoolLeft
<1> QED BY <1>1, <1>2 DEF PoolsLeft

LEMMA FlagsSet == \A h : Flags(h) # NoFlags
<1> TAKE h
<1>1. "unset" \in DOMAIN NoFlags BY DEF NoFlags
<1>2. "unset" \notin DOMAIN Flags(h) BY DEF Flags
<1> QED BY <1>1, <1>2

\* Acceptance depends on the handlers before only through the flags.
LEMMA AcceptedIs ==
    ASSUME NEW cfg, IsPools(cfg.session_pools), NEW n \in DOMAIN cfg.session_pools,
           NEW D, NEW p, PoolLeft(p, cfg, D, n), NEW h
    PROVE  LatticeAccepted(cfg, p, h) <=>
              /\ LatticeAccepted(cfg, cfg.session_pools[n], h)
              /\ p.flags \in {NoFlags, Flags(h)}
<1>1. p.inactivity_handlers = cfg.session_pools[n].inactivity_handlers BY DEF PoolLeft
<1>2. cfg.session_pools[n].flags = NoFlags
  <2>1. IsPool(n, cfg.session_pools[n]) BY DEF IsPools
  <2> QED BY <2>1 DEF IsPool
<1> QED BY <1>1, <1>2 DEF LatticeAccepted

LEMMA OneMoreHandler ==
    ASSUME NEW cfg, IsPools(cfg.session_pools), NEW D, NEW P, PoolsLeft(P, cfg, D),
           Good(cfg, D), NEW name,
           NEW Q, Q = PostprocessHandler(cfg, P, name)
    PROVE  /\ Q # Refused => Good(cfg, D \cup {name}) /\ PoolsLeft(Q, cfg, D \cup {name})
           /\ Good(cfg, D \cup {name}) => Q # Refused
<1> DEFINE E == D \cup {name}
           h == cfg.handlers[name]
           n == h.session_pool
           P0 == cfg.session_pools
<1>0. P # Refused BY PoolsNotRefused DEF PoolsLeft
<1>1. CASE h.kind # "SwindonLattice"
  <2>1. \A pool : ~UsesPool(cfg, name, pool) BY <1>1 DEF UsesPool
  <2>2. Agree(cfg, E) BY <2>1 DEF Agree, Good
  <2>3. PoolsLeft(P, cfg, E) BY <2>1 DEF PoolsLeft, PoolLeft
  <2>4. Good(cfg, E) <=> Alone(cfg, name) BY <2>2 DEF Good
  <2>5. Q = IF Alone(cfg, name) THEN P ELSE Refused
    <3>1. CASE h.kind = "Proxy" BY <1>0, <3>1 DEF PostprocessHandler, Alone
    <3>2. CASE h.kind = "Static"
      <4>1. Q = IF h.strip_host_suffix /\ h.mode # "with_hostname" THEN Refused ELSE P
          BY <1>0, <3>2 DEF PostprocessHandler
      <4>2. Alone(cfg, name) <=> ~(h.strip_host_suffix /\ h.mode # "with_hostname")
          BY <3>2, Zenon DEF Alone
      <4> QED BY <4>1, <4>2, Zenon
    <3>3. CASE h.kind \notin {"Proxy", "Static"}
        BY <1>0, <1>1, <3>3 DEF PostprocessHandler, Alone
    <3> QED BY <3>1, <3>2, <3>3
  <2> HIDE DEF E, h
  <2>8. /\ Q # Refused => Good(cfg, E) /\ PoolsLeft(Q, cfg, E)
        /\ Good(cfg, E) => Q # Refused
      BY <1>0, <2>3, <2>4, <2>5
  <2> QED BY <2>8 DEF E
<1>2. CASE h.kind = "SwindonLattice"
  <2>1. UsesPool(cfg, name, n) /\ \A pool : UsesPool(cfg, name, pool) => pool = n
      BY <1>2 DEF UsesPool
  <2>2. Q = IF n \in DOMAIN P /\ LatticeAccepted(cfg, P[n], h)
            THEN [P EXCEPT ![n].flags = Flags(h)] ELSE Refused
      BY <1>0, <1>2 DEF PostprocessHandler
  <2>3. DOMAIN P = DOMAIN P0 BY DEF PoolsLeft
  <2>4. Alone(cfg, name) <=> n \in DOMAIN P0 /\ LatticeAccepted(cfg, P0[n], h)
      BY <1>2 DEF Alone
  <2>5. CASE n \notin DOMAIN P0
    <3>1. ~ Good(cfg, E) BY <2>4, <2>5 DEF Good
    <3> QED BY <2>2, <2>3, <2>5, <3>1
  <2>6. CASE n \in DOMAIN P0
    <3>1. PoolLeft(P[n], cfg, D, n) BY <2>6 DEF PoolsLeft
    <3>2. LatticeAccepted(cfg, P[n], h) <=>
             LatticeAccepted(cfg, P0[n], h) /\ P[n].flags \in {NoFlags, Flags(h)}
        BY <2>6, <3>1, AcceptedIs
    <3>3. P[n].flags \in {NoFlags, Flags(h)} <=>
             \A m \in D : UsesPool(cfg, m, n) => Flags(cfg.handlers[m]) = Flags(h)
      <4>1. CASE \E m \in D : UsesPool(cfg, m, n)
        <5>1. PICK m \in D : UsesPool(cfg, m, n) BY <4>1
        <5>2. P[n].flags = Flags(cfg.handlers[m]) BY <3>1, <5>1 DEF PoolLeft
        <5>3. P[n].flags # NoFlags BY <5>2, FlagsSet
        <5>4. \A k \in D : UsesPool(cfg, k, n) => P[n].flags = Flags(cfg.handlers[k])
            BY <3>1 DEF PoolLeft
        <5> QED BY <5>1, <5>3, <5>4
      <4>2. CASE \A m \in D : ~UsesPool(cfg, m, n)
        <5>1. P[n].flags = NoFlags BY <3>1, <4>2 DEF PoolLeft
        <5> QED BY <4>2, <5>1
      <4> QED BY <4>1, <4>2
    <3>4. Agree(cfg, E) <=>
             \A m \in D : UsesPool(cfg, m, n) => Flags(cfg.handlers[m]) = Flags(h)
        BY <2>1 DEF Agree, Good
    <3>5. Good(cfg, E) <=> Alone(cfg, name) /\ Agree(cfg, E) BY DEF Good
    <3>6. Good(cfg, E) <=> LatticeAccepted(cfg, P[n], h)
        BY <2>4, <2>6, <3>2, <3>3, <3>4, <3>5
    <3> DEFINE R == [P EXCEPT ![n].flags = Flags(h)]
    <3>7. R = [k \in DOMAIN P0 |-> R[k]] BY <2>3 DEF PoolsLeft
    <3>8. R # Refused BY <3>7, PoolsNotRefused
    <3>9. ASSUME LatticeAccepted(cfg, P[n], h), NEW k \in DOMAIN P0
          PROVE  PoolLeft(R[k], cfg, E, k)
      <4>1. PoolLeft(P[k], cfg, D, k) BY DEF PoolsLeft
      <4>2. CASE k # n
        <5>1. R[k] = P[k] BY <4>2, <2>3
        <5>2. ~UsesPool(cfg, name, k) BY <2>1, <4>2
        <5> HIDE DEF R
        <5> QED BY <4>1, <5>1, <5>2 DEF PoolLeft
      <4>3. CASE k = n
        <5>1. R[n] = [P[n] EXCEPT !.flags = Flags(h)] BY <2>3, <2>6
        <5>2. R[n] = [flags |-> Flags(h), inactivity_handlers |-> P0[n].inactivity_handlers]
            BY <3>1, <5>1 DEF PoolLeft
        <5>3. \A m \in E : UsesPool(cfg, m, n) => Flags(cfg.handlers[m]) = Flags(h)
            BY <3>2, <3>3, <3>9
        <5> HIDE DEF R
        <5>4. R[n].flags = Flags(h) BY <5>2
        <5>5. ~ \A m \in E : ~UsesPool(cfg, m, n) BY <2>1
        <5> QED BY <4>3, <5>2, <5>3, <5>4, <5>5 DEF PoolLeft
      <4> QED BY <4>2, <4>3
    <3> HIDE DEF R
    <3>10. LatticeAccepted(cfg, P[n], h) => PoolsLeft(R, cfg, E) BY <3>7, <3>9 DEF PoolsLeft
    <3>11. Q = IF LatticeAccepted(cfg, P[n], h) THEN R ELSE Refused
        BY <2>2, <2>3, <2>6 DEF R
    <3> HIDE DEF E
    <3> QED BY <3>6, <3>8, <3>10, <3>11 DEF E
  <2> QED BY <2>5, <2>6
<1> QED BY <1>1, <1>2

Handled(order, k) == {order[i] : i \in 1 .. k}

LEMMA LoopKeeps ==
    ASSUME NEW cfg, IsPools(cfg.session_pools), NEW order, NEW n \in Nat,
           NEW t, Ran(t, cfg, order, n)
    PROVE  LET D == Handled(order, n) IN
           /\ t[n] # Refused => Good(cfg, D) /\ PoolsLeft(t[n], cfg, D)
           /\ Good(cfg, D) => t[n] # Refused
<1> DEFINE Holds(k) ==
              /\ t[k] # Refused =>
                    Good(cfg, Handled(order, k)) /\ PoolsLeft(t[k], cfg, Handled(order, k))
              /\ Good(cfg, Handled(order, k)) => t[k] # Refused
           S == {k \in Nat : k <= n => Holds(k)}
<1>1. 0 \in S
  <2>1. Handled(order, 0) = {} BY DEF Handled
  <2>2. Good(cfg, {}) BY DEF Good, Agree
  <2>3. t[0] = cfg.session_pools BY DEF Ran
  <2>4. PoolsLeft(t[0], cfg, {}) BY <2>3, NoneLeft
  <2>5. t[0] # Refused BY <2>4, PoolsNotRefused DEF PoolsLeft
  <2> QED BY <2>1, <2>2, <2>4, <2>5
<1>2. ASSUME NEW k \in Nat, k \in S PROVE k + 1 \in S
  <2> SUFFICES ASSUME k + 1 <= n PROVE Holds(k + 1) OBVIOUS
  <2> DEFINE D == Handled(order, k)
             E == Handled(order, k + 1)
             P == t[k]
             Q == t[k + 1]
             name == order[k + 1]
  <2>1. Holds(k) BY <1>2
  <2>2. E = D \cup {name} BY DEF Handled
  <2>3. Q = PostprocessHandler(cfg, P, name)
    <3>1. k + 1 \in 1 .. n /\ (k + 1) - 1 = k OBVIOUS
    <3>2. t[k + 1] = PostprocessHandler(cfg, t[(k + 1) - 1], order[k + 1]) BY <3>1 DEF Ran
    <3> QED BY <3>1, <3>2
  <2>4. (P # Refused => Good(cfg, D) /\ PoolsLeft(P, cfg, D)) /\ (Good(cfg, D) => P # Refused)
      BY <2>1
  <2> HIDE DEF D, E, P, Q, name, Holds
  <2>5. CASE P = Refused
    <3>1. Q = Refused BY <2>3, <2>5 DEF PostprocessHandler
    <3>2. Good(cfg, E) => Good(cfg, D) BY <2>2 DEF Good, Agree
    <3>3. ~ Good(cfg, E) BY <2>4, <2>5, <3>2
    <3> QED BY <3>1, <3>3 DEF Holds, E, Q
  <2>6. CASE P # Refused
    <3>1. Good(cfg, D) /\ PoolsLeft(P, cfg, D) BY <2>4, <2>6
    <3>2. /\ Q # Refused => Good(cfg, E) /\ PoolsLeft(Q, cfg, E)
          /\ Good(cfg, E) => Q # Refused
        BY <2>2, <2>3, <3>1, OneMoreHandler
    <3> QED BY <3>2 DEF Holds, E, Q
  <2> QED BY <2>5, <2>6
<1> HIDE DEF S
<1>3. S \subseteq Nat BY DEF S
<1>4. S = Nat BY <1>1, <1>2, <1>3, FromZero
<1>5. n \in S BY <1>4
<1> QED BY <1>5 DEF S

\* An order of the handlers has all of them.
LEMMA AllHandled ==
    ASSUME NEW H, IsFiniteSet(H), NEW order \in SetToSeqs(H)
    PROVE  \E n \in Nat : DOMAIN order = 1 .. n /\ Handled(order, n) = H
<1> DEFINE n == Cardinality(H)
           D == 1 .. n
<1>1. n \in Nat BY FS_CardinalityType
<1>2. order \in [D -> H] /\ \A i, j \in D : i # j => order[i] # order[j] BY DEF SetToSeqs
<1>3. order \in Injection(D, H) BY <1>2 DEF Injection, IsInjective
<1>4. Cardinality(D) = n BY <1>1, FS_Interval
<1>5. order \in Surjection(D, H) BY <1>3, <1>4, FS_Injection
<1>6. Handled(order, n) = H BY <1>2, <1>5 DEF Surjection, Handled
<1> QED BY <1>1, <1>2, <1>6

LEMMA LoopAccepts ==
    ASSUME NEW cfg, IsPools(cfg.session_pools), IsFiniteSet(DOMAIN cfg.handlers),
           NEW order \in SetToSeqs(DOMAIN cfg.handlers)
    PROVE  LET H == DOMAIN cfg.handlers
               R == PostprocessHandlers(cfg, order)
           IN /\ R # Refused => Good(cfg, H) /\ PoolsLeft(R, cfg, H)
              /\ Good(cfg, H) => R # Refused
<1>1. PICK n \in Nat : DOMAIN order = 1 .. n /\ Handled(order, n) = DOMAIN cfg.handlers
    BY AllHandled
<1>2. PICK t : Ran(t, cfg, order, n) /\ PostprocessHandlers(cfg, order) = t[n]
    BY <1>1, LoopIs
<1> QED BY <1>1, <1>2, LoopKeeps

\* Any two orders of the handlers give the same.
LEMMA OrdersAgree ==
    ASSUME NEW cfg, IsPools(cfg.session_pools), IsFiniteSet(DOMAIN cfg.handlers),
           NEW o1 \in SetToSeqs(DOMAIN cfg.handlers), NEW o2 \in SetToSeqs(DOMAIN cfg.handlers)
    PROVE  PostprocessHandlers(cfg, o1) = PostprocessHandlers(cfg, o2)
<1> DEFINE H == DOMAIN cfg.handlers
           R1 == PostprocessHandlers(cfg, o1)
           R2 == PostprocessHandlers(cfg, o2)
<1>1. /\ R1 # Refused => Good(cfg, H) /\ PoolsLeft(R1, cfg, H)
      /\ Good(cfg, H) => R1 # Refused
    BY LoopAccepts
<1>2. /\ R2 # Refused => Good(cfg, H) /\ PoolsLeft(R2, cfg, H)
      /\ Good(cfg, H) => R2 # Refused
    BY LoopAccepts
<1> HIDE DEF H, R1, R2
<1>3. CASE R1 = Refused BY <1>1, <1>2, <1>3 DEF R1, R2
<1>4. CASE R1 # Refused
  <2>1. PoolsLeft(R1, cfg, H) /\ PoolsLeft(R2, cfg, H) BY <1>1, <1>2, <1>4
  <2>2. R1 = R2 BY <2>1, PoolsLeftUnique
  <2> QED BY <2>2 DEF R1, R2
<1> QED BY <1>3, <1>4

---------------------------------------------------------------------------
(***************************************************************************)
(* What the mixins make of the main text.                                  *)
(***************************************************************************)

MainText(text) == IsText(text) /\ {"routing", "mixins"} \subseteq DOMAIN text

\* text has the entries of main, and its routing.
Keeps(text, main) ==
    /\ DOMAIN text = DOMAIN main /\ text.routing = main.routing
    /\ \A s \in Sections : \A n \in DOMAIN main[s] :
          n \in DOMAIN text[s] /\ text[s][n] = main[s][n]

\* j has the entries of f, and those of g that f does not have.
IsJoined(j, f, g) ==
    /\ IsMap(j) /\ DOMAIN j = DOMAIN f \cup DOMAIN g
    /\ \A n \in DOMAIN f : j[n] = f[n]
    /\ \A n \in DOMAIN g \ DOMAIN f : j[n] = g[n]

LEMMA JoinedIs == \A f, g : IsJoined(Joined(f, g), f, g)
BY DEF Joined, IsJoined, IsMap

LEMMA OneMixin ==
    ASSUME NEW main, MainText(main), NEW text, MainText(text), Keeps(text, main),
           NEW mixin, mixin # Refused => IsText(mixin), NEW prefix,
           NEW R, R = MixInAll(text, mixin, prefix), R # Refused
    PROVE  MainText(R) /\ Keeps(R, main)
<1> DEFINE mixed == [s \in Sections |-> MixIn(text[s], mixin[s], prefix)]
<1>1. text # Refused /\ mixin # Refused BY DEF MixInAll
<1>2. R = Joined(mixed, text) /\ \A s \in Sections : mixed[s] # Refused
    BY <1>1 DEF MixInAll
<1>3. \A s \in Sections : mixed[s] = MixIn(text[s], mixin[s], prefix) OBVIOUS
<1>4. DOMAIN mixed = Sections OBVIOUS
<1> HIDE DEF mixed
<1>5. IsJoined(R, mixed, text) BY <1>2, JoinedIs
<1>6. ASSUME NEW s \in Sections PROVE IsJoined(R[s], text[s], mixin[s])
  <2>1. R[s] = mixed[s] BY <1>4, <1>5 DEF IsJoined
  <2>2. R[s] = Joined(text[s], mixin[s]) BY <1>2, <1>3, <2>1 DEF MixIn
  <2> QED BY <2>2, JoinedIs
<1>7. /\ IsMap(R) /\ DOMAIN R = DOMAIN text
      /\ R.routing = text.routing
  <2>1. Sections \subseteq DOMAIN text /\ "routing" \in DOMAIN text BY DEF MainText, IsText
  <2>2. "routing" \notin Sections BY DEF Sections
  <2> QED BY <1>4, <1>5, <2>1, <2>2 DEF IsJoined
<1>8. IsText(text) /\ IsText(mixin) BY <1>1 DEF MainText
<1>9. \A s \in Sections : IsMap(R[s]) BY <1>6 DEF IsJoined
<1>10. /\ IsJoined(R.handlers, text.handlers, mixin.handlers)
       /\ IsJoined(R.session_pools, text.session_pools, mixin.session_pools)
    BY <1>6 DEF Sections
<1>11. IsFiniteSet(DOMAIN R.handlers)
  <2>1. DOMAIN R.handlers = DOMAIN text.handlers \cup DOMAIN mixin.handlers
      BY <1>10 DEF IsJoined
  <2>2. IsFiniteSet(DOMAIN text.handlers) /\ IsFiniteSet(DOMAIN mixin.handlers)
      BY <1>8 DEF IsText
  <2> QED BY <2>1, <2>2, FS_Union
<1>12. \A n \in DOMAIN R.handlers : IsHandler(R.handlers[n])
  <2>1. /\ \A n \in DOMAIN text.handlers : IsHandler(text.handlers[n])
        /\ \A n \in DOMAIN mixin.handlers : IsHandler(mixin.handlers[n])
      BY <1>8 DEF IsText
  <2> QED BY <1>10, <2>1 DEF IsJoined
<1>13. \A n \in DOMAIN R.session_pools : IsPool(n, R.session_pools[n])
  <2>1. /\ \A n \in DOMAIN text.session_pools : IsPool(n, text.session_pools[n])
        /\ \A n \in DOMAIN mixin.session_pools : IsPool(n, mixin.session_pools[n])
      BY <1>8 DEF IsText
  <2> QED BY <1>10, <2>1 DEF IsJoined
<1>14. MainText(R)
    BY <1>7, <1>8, <1>9, <1>11, <1>12, <1>13 DEF MainText, IsText
<1>15. ASSUME NEW s \in Sections, NEW n \in DOMAIN main[s]
       PROVE  n \in DOMAIN R[s] /\ R[s][n] = main[s][n]
  <2>1. n \in DOMAIN text[s] /\ text[s][n] = main[s][n] BY DEF Keeps
  <2>2. IsJoined(R[s], text[s], mixin[s]) BY <1>6
  <2> QED BY <2>1, <2>2 DEF IsJoined
<1> QED BY <1>7, <1>14, <1>15 DEF Keeps

\* t: the text after each of the mixins
MixedTrace(t, main, ts, n) ==
    /\ t = [i \in 0 .. n |-> t[i]]
    /\ t[0] = main
    /\ \A i \in 1 .. n :
          t[i] = MixInAll(t[i - 1], Content[ts[main.mixins[i].file]], main.mixins[i].prefix)

LEMMA MixedTraceExists ==
    ASSUME NEW main, NEW ts, NEW n \in Nat
    PROVE  \E t : MixedTrace(t, main, ts, n)
<1> DEFINE S == {k \in Nat : \E t : MixedTrace(t, main, ts, k)}
           Mixin(i) == Content[ts[main.mixins[i].file]]
           Prefix(i) == main.mixins[i].prefix
<1>1. 0 \in S
  <2> DEFINE t == [i \in 0 .. 0 |-> main]
  <2>1. MixedTrace(t, main, ts, 0) BY DEF MixedTrace
  <2> QED BY <2>1
<1>2. ASSUME NEW k \in Nat, k \in S PROVE k + 1 \in S
  <2>1. PICK t : MixedTrace(t, main, ts, k) BY <1>2
  <2> DEFINE u == [i \in 0 .. k + 1 |->
                      IF i <= k THEN t[i] ELSE MixInAll(t[k], Mixin(k + 1), Prefix(k + 1))]
  <2>2. u[0] = main BY <2>1 DEF MixedTrace
  <2>3. ASSUME NEW i \in 1 .. k + 1 PROVE u[i] = MixInAll(u[i - 1], Mixin(i), Prefix(i))
    <3>1. CASE i <= k
      <4>1. u[i] = t[i] /\ u[i - 1] = t[i - 1] /\ i \in 1 .. k BY <3>1
      <4> QED BY <2>1, <4>1 DEF MixedTrace
    <3>2. CASE i = k + 1
      <4>1. i - 1 = k /\ u[k] = t[k] /\ u[i] = MixInAll(t[k], Mixin(k + 1), Prefix(k + 1))
          BY <3>2
      <4> HIDE DEF u, Mixin, Prefix
      <4> QED BY <3>2, <4>1
    <3> QED BY <3>1, <3>2
  <2>4. u = [i \in 0 .. k + 1 |-> u[i]] OBVIOUS
  <2> HIDE DEF u
  <2>5. MixedTrace(u, main, ts, k + 1) BY <2>2, <2>3, <2>4 DEF MixedTrace
  <2> QED BY <2>5
<1> HIDE DEF S
<1>3. S \subseteq Nat BY DEF S
<1>4. S = Nat BY <1>1, <1>2, <1>3, FromZero
<1> QED BY <1>4 DEF S

LEMMA MixedInIs ==
    ASSUME NEW main, NEW ts, Len(main.mixins) \in Nat
    PROVE  \E t : MixedTrace(t, main, ts, Len(main.mixins))
                    /\ MixedIn(main, ts) = t[Len(main.mixins)]
<1> DEFINE n == Len(main.mixins)
           F(f) == [i \in 0 .. n |->
                      IF i = 0 THEN main
                      ELSE MixInAll(f[i - 1], Content[ts[main.mixins[i].file]],
                                    main.mixins[i].prefix)]
           t == CHOOSE f : f = F(f)
<1>1. PICK u : MixedTrace(u, main, ts, n) BY MixedTraceExists
<1>2. u = F(u)
  <2>1. \A i \in 0 .. n : i # 0 => i \in 1 .. n OBVIOUS
  <2> QED BY <1>1, <2>1 DEF MixedTrace
<1>3. t = F(t) BY <1>2
<1>4. MixedIn(main, ts) = t[n] BY DEF MixedIn
<1> HIDE DEF t
<1>5. MixedTrace(t, main, ts, n) BY <1>3 DEF MixedTrace
<1> QED BY <1>4, <1>5

\* Only the files that the main one names matter.
LEMMA SameMixins ==
    ASSUME NEW main, NEW ts, NEW us, Len(main.mixins) \in Nat,
           \A i \in 1 .. Len(main.mixins) : ts[main.mixins[i].file] = us[main.mixins[i].file]
    PROVE  MixedIn(main, ts) = MixedIn(main, us)
<1> DEFINE n == Len(main.mixins)
<1>1. PICK t : MixedTrace(t, main, ts, n) /\ MixedIn(main, ts) = t[n] BY MixedInIs
<1>2. PICK u : MixedTrace(u, main, us, n) /\ MixedIn(main, us) = u[n] BY MixedInIs
<1> DEFINE S == {k \in Nat : k <= n => t[k] = u[k]}
<1>3. 0 \in S BY <1>1, <1>2 DEF MixedTrace
<1>4. ASSUME NEW k \in Nat, k \in S PROVE k + 1 \in S
  <2> SUFFICES ASSUME k + 1 <= n PROVE t[k + 1] = u[k + 1] OBVIOUS
  <2> DEFINE i == k + 1
             m == main.mixins[i]
  <2>1. i \in 1 .. n /\ i - 1 = k /\ t[k] = u[k] BY <1>4
  <2>2. t[i] = MixInAll(t[i - 1], Content[ts[m.file]], m.prefix) BY <1>1, <2>1 DEF MixedTrace
  <2>3. u[i] = MixInAll(u[i - 1], Content[us[m.file]], m.prefix) BY <1>2, <2>1 DEF MixedTrace
  <2>4. ts[m.file] = us[m.file] BY <2>1
  <2> HIDE DEF i, m
  <2>5. t[i] = u[i] BY <2>1, <2>2, <2>3, <2>4
  <2> QED BY <2>5 DEF i
<1> HIDE DEF S
<1>5. S \subseteq Nat BY DEF S
<1>6. S = Nat BY <1>3, <1>4, <1>5, FromZero
<1>7. n \in S BY <1>6
<1> QED BY <1>1, <1>2, <1>7 DEF S

LEMMA MixedKeeps ==
    ASSUME NEW main, MainText(main), NEW ts, Len(main.mixins) \in Nat,
           \A i \in 1 .. Len(main.mixins) : LET mixin == Content[ts[main.mixins[i].file]] IN
                             mixin # Refused => IsText(mixin),
           MixedIn(main, ts) # Refused
    PROVE  MainText(MixedIn(main, ts)) /\ Keeps(MixedIn(main, ts), main)
<1> DEFINE n == Len(main.mixins)
<1>1. PICK t : MixedTrace(t, main, ts, n) /\ MixedIn(main, ts) = t[n] BY MixedInIs
<1> DEFINE S == {k \in Nat : k <= n /\ t[k] # Refused => MainText(t[k]) /\ Keeps(t[k], main)}
<1>2. 0 \in S
  <2>1. t[0] = main BY <1>1 DEF MixedTrace
  <2> QED BY <2>1 DEF Keeps
<1>3. ASSUME NEW k \in Nat, k \in S PROVE k + 1 \in S
  <2> DEFINE i == k + 1
             m == main.mixins[i]
  <2> SUFFICES ASSUME i <= n, t[i] # Refused PROVE MainText(t[i]) /\ Keeps(t[i], main) OBVIOUS
  <2>1. i \in 1 .. n /\ i - 1 = k /\ k <= n OBVIOUS
  <2>2. t[i] = MixInAll(t[i - 1], Content[ts[m.file]], m.prefix) BY <1>1, <2>1 DEF MixedTrace
  <2>3. Content[ts[m.file]] # Refused => IsText(Content[ts[m.file]]) BY <2>1
  <2> HIDE DEF i, m
  <2>4. t[i] = MixInAll(t[k], Content[ts[m.file]], m.prefix) BY <2>1, <2>2
  <2>5. t[k] # Refused BY <2>4 DEF MixInAll
  <2>6. MainText(t[k]) /\ Keeps(t[k], main) BY <1>3, <2>1, <2>5
  <2> QED BY <2>3, <2>4, <2>6, OneMixin
<1> HIDE DEF S
<1>4. S \subseteq Nat BY DEF S
<1>5. S = Nat BY <1>2, <1>3, <1>4, FromZero
<1>6. n \in S BY <1>5
<1> QED BY <1>1, <1>6 DEF S

---------------------------------------------------------------------------
(***************************************************************************)
(* Methods and patterns.                                                   *)
(***************************************************************************)

LEMMA GlobIs ==
    ASSUME NEW method \in Seq(Nat), NEW p, IsPattern(p), p.kind = "Glob", Matches(p, method)
    PROVE  /\ Len(p.text) \in Nat /\ Len(p.text) < Len(method)
           /\ p.text \in Seq(Nat) /\ DOMAIN p.text = 1 .. Len(p.text)
           /\ \A i \in 1 .. Len(p.text) : p.text[i] = method[i]
<1> DEFINE s == p.text
<1>1. s \in Seq(Nat) BY DEF IsPattern
<1>2. Len(s) \in Nat /\ Len(method) \in Nat /\ DOMAIN s = 1 .. Len(s) BY <1>1
<1>3. Len(s) <= Len(method) /\ SubSeq(s, 1, Len(s)) = SubSeq(method, 1, Len(s)) /\ s # method
    BY DEF Matches, IsStrictPrefix, IsPrefix
<1>4. ASSUME NEW i \in 1 .. Len(s) PROVE s[i] = method[i]
  <2>1. SubSeq(s, 1, Len(s))[i] = s[i] BY <1>1, <1>2
  <2>2. SubSeq(method, 1, Len(s))[i] = method[i] BY <1>2, <1>3
  <2> QED BY <1>3, <2>1, <2>2
<1>5. Len(s) # Len(method)
  <2> SUFFICES ASSUME Len(s) = Len(method) PROVE FALSE OBVIOUS
  <2>1. s = method BY <1>1, <1>2, <1>4
  <2> QED BY <1>3, <2>1
<1> QED BY <1>1, <1>2, <1>3, <1>4, <1>5

\* Of two beginnings of a method the longer one comes later.
LEMMA TwoPrefixes ==
    ASSUME NEW method, NEW s \in Seq(Nat), NEW t \in Seq(Nat),
           \A i \in 1 .. Len(s) : s[i] = method[i],
           \A i \in 1 .. Len(t) : t[i] = method[i],
           s # t, Len(t) <= Len(s)
    PROVE  /\ IsPrefix(t, s) /\ ~ IsPrefix(s, t)
           /\ Less(t, s) /\ ~ Less(s, t)
<1>1. Len(s) \in Nat /\ Len(t) \in Nat OBVIOUS
<1>2. \A i \in 1 .. Len(t) : i \in 1 .. Len(s) BY <1>1
<1>3. \A i \in 1 .. Len(t) : t[i] = s[i] BY <1>2
<1>4. Len(t) # Len(s) BY <1>3, SeqEqual
<1>5. Len(t) < Len(s) BY <1>1, <1>4
<1>6. SubSeq(t, 1, Len(t)) = SubSeq(s, 1, Len(t))
  <2> DEFINE n == Len(t)
             a == SubSeq(t, 1, n)
             b == SubSeq(s, 1, n)
  <2>1. a = [i \in 1 .. n |-> t[i]] BY <1>1
  <2>2. b = [i \in 1 .. n |-> s[i]] BY <1>1, <1>5
  <2> HIDE DEF n, a, b
  <2>3. a = b BY <1>3, <2>1, <2>2 DEF n
  <2> QED BY <2>3 DEF a, b, n
<1>7. IsPrefix(t, s) BY <1>6 DEF IsPrefix
<1>8. ~ IsPrefix(s, t) BY <1>1, <1>5 DEF IsPrefix
<1>9. Less(t, s) BY <1>7 DEF Less, IsStrictPrefix
<1>10. ~ Less(s, t)
  <2>1. ~ IsStrictPrefix(s, t) BY <1>8 DEF IsStrictPrefix
  <2>2. ASSUME NEW i \in (1 .. Len(s)) \cap DOMAIN t PROVE ~ (s[i] < t[i])
    <3>1. i \in 1 .. Len(t) /\ i \in 1 .. Len(s) OBVIOUS
    <3>2. s[i] = t[i] /\ s[i] \in Nat BY <1>3, <3>1
    <3> QED BY <3>2
  <2> QED BY <2>1, <2>2 DEF Less
<1> QED BY <1>7, <1>8, <1>9, <1>10

\* Of two globs for a method the longer one is the more special one.
LEMMA TwoGlobs ==
    ASSUME NEW method \in Seq(Nat), NEW p, NEW q, IsPattern(p), IsPattern(q),
           p.kind = "Glob", q.kind = "Glob", Matches(p, method), Matches(q, method),
           p # q, Len(q.text) <= Len(p.text)
    PROVE  /\ Before(p, q) /\ ~ Before(q, p)
           /\ IsPrefix(q.text, p.text) /\ ~ IsPrefix(p.text, q.text)
<1>1. /\ p.text \in Seq(Nat) /\ \A i \in 1 .. Len(p.text) : p.text[i] = method[i]
      /\ q.text \in Seq(Nat) /\ \A i \in 1 .. Len(q.text) : q.text[i] = method[i]
    BY GlobIs
<1>2. p.text # q.text BY DEF IsPattern
<1>3. /\ IsPrefix(q.text, p.text) /\ ~ IsPrefix(p.text, q.text)
      /\ Less(q.text, p.text) /\ ~ Less(p.text, q.text)
    BY <1>1, <1>2, TwoPrefixes
<1> QED BY <1>3 DEF Before

\* An exact pattern for a method is the method.
LEMMA ExactIs ==
    ASSUME NEW method, NEW p, NEW q, IsPattern(p), IsPattern(q),
           p.kind = "Exact", q.kind = "Exact", Matches(p, method), Matches(q, method)
    PROVE  p = q
BY DEF IsPattern, Matches

\* p is the first pattern in the order of the table, and the most special.
IsFirst(p, ps) ==
    /\ p \in ps
    /\ \A q \in ps \ {p} : Before(p, q) /\ ~ Before(q, p)
    /\ MostSpecial(ps) = {p}

LEMMA OneIsFirst ==
    ASSUME NEW method \in Seq(Nat), NEW ps, ps # {},
           \A p \in ps : IsPattern(p) /\ Matches(p, method)
    PROVE  \E p : IsFirst(p, ps)
<1>0. \A p \in ps : p.kind = "Exact" \/ p.kind = "Glob" BY DEF IsPattern
<1>1. CASE \E p \in ps : p.kind = "Exact"
  <2>1. PICK p \in ps : p.kind = "Exact" BY <1>1
  <2>2. \A q \in ps : q.kind = "Exact" => q = p BY <2>1, ExactIs
  <2>3. \A q \in ps \ {p} : q.kind = "Glob" BY <1>0, <2>2
  <2>4. \A q \in ps \ {p} : Before(p, q) /\ ~ Before(q, p) BY <2>1, <2>3 DEF Before
  <2>5. MostSpecial(ps) = {p} BY <2>1, <2>3 DEF MostSpecial
  <2> QED BY <2>1, <2>4, <2>5 DEF IsFirst
<1>2. CASE \A p \in ps : p.kind = "Glob"
  <2>1. \A p \in ps : Len(p.text) \in Nat /\ Len(p.text) < Len(method) BY <1>2, GlobIs
  <2> DEFINE n == Len(method)
             T == {n - Len(p.text) : p \in ps}
  <2>2. n \in Nat OBVIOUS
  <2> HIDE DEF n
  <2>3. T \in SUBSET Nat /\ T # {} BY <2>1, <2>2 DEF n
  <2>4. PICK x \in T : \A y \in T : x <= y BY <2>3, Least
  <2>5. PICK p \in ps : x = n - Len(p.text) BY <2>4
  <2>6. ASSUME NEW q \in ps PROVE Len(q.text) <= Len(p.text)
    <3>1. n - Len(p.text) <= n - Len(q.text) BY <2>4, <2>5
    <3> QED BY <2>1, <2>2, <3>1
  <2>7. \A q \in ps \ {p} : /\ Before(p, q) /\ ~ Before(q, p)
                            /\ IsPrefix(q.text, p.text) /\ ~ IsPrefix(p.text, q.text)
      BY <1>2, <2>6, TwoGlobs
  <2>8. MostSpecial(ps) = {p} BY <1>2, <2>7 DEF MostSpecial
  <2> QED BY <2>7, <2>8 DEF IsFirst
<1> QED BY <1>0, <1>1, <1>2

\* resolve() finds the destination of the most special pattern.
LEMMA ResolveIs ==
    ASSUME NEW h, \A p \in DOMAIN h.map : IsPattern(p), NEW method \in Seq(Nat)
    PROVE  /\ ChosenFor(h, method) = {Resolve(h, method)}
           /\ Resolve(h, method) = h.default
                \/ \E p \in DOMAIN h.map : Resolve(h, method) = h.map[p]
<1> DEFINE ps == Under(h, method)
<1>1. ps = {p \in DOMAIN h.map : Matches(p, method)} BY DEF Under
<1>2. CASE ps = {}
  <2>1. Resolve(h, method) = h.default BY <1>1, <1>2 DEF Resolve
  <2> QED BY <1>2, <2>1 DEF ChosenFor
<1>3. CASE ps # {}
  <2>1. \A p \in ps : IsPattern(p) /\ Matches(p, method) BY <1>1
  <2> HIDE DEF ps
  <2>2. PICK p : IsFirst(p, ps) BY <1>3, <2>1, OneIsFirst
  <2> DEFINE best == CHOOSE x \in ps : \A q \in ps \ {x} : Before(x, q)
  <2>3. best \in ps /\ \A q \in ps \ {best} : Before(best, q) BY <2>2 DEF IsFirst
  <2>4. Resolve(h, method) = h.map[best] BY <1>1, <1>3 DEF Resolve
  <2> HIDE DEF best
  <2>5. best = p BY <2>2, <2>3 DEF IsFirst
  <2>6. ChosenFor(h, method) = {h.map[p]} BY <1>3, <2>2 DEF ChosenFor, IsFirst, ps
  <2>7. p \in DOMAIN h.map BY <1>1, <2>2 DEF IsFirst
  <2> QED BY <2>4, <2>5, <2>6, <2>7
<1> QED BY <1>2, <1>3

---------------------------------------------------------------------------
(***************************************************************************)
(* What a configuration that was not refused is like.                      *)
(***************************************************************************)

LEMMA DefaultsAre ==
    ASSUME NEW text, MainText(text), NEW c, c = WithDefaults(text)
    PROVE  /\ c.session_pools = text.session_pools
           /\ c.http_destinations = text.http_destinations
           /\ c.routing = text.routing
           /\ IsJoined(c.handlers, text.handlers, [default |-> [kind |-> "NotFound"]])
           /\ IsJoined(c.authorizers, text.authorizers, [default |-> "AllowAll"])
<1>1. Sections \cup {"routing"} \subseteq DOMAIN text BY DEF MainText, IsText
<1>2. /\ c.session_pools = text.session_pools
      /\ c.http_destinations = text.http_destinations
      /\ c.routing = text.routing
    BY <1>1 DEF WithDefaults, Sections
<1>3. /\ c.handlers = Joined(text.handlers, [default |-> [kind |-> "NotFound"]])
      /\ c.authorizers = Joined(text.authorizers, [default |-> "AllowAll"])
    BY <1>1 DEF WithDefaults, Sections
<1> QED BY <1>2, <1>3, JoinedIs

LEMMA DefaultsOK ==
    ASSUME NEW text, MainText(text), NEW c, c = WithDefaults(text)
    PROVE  /\ IsPools(c.session_pools) /\ IsFiniteSet(DOMAIN c.handlers)
           /\ \A n \in DOMAIN c.handlers : IsHandler(c.handlers[n])
<1> DEFINE other == [default |-> [kind |-> "NotFound"]]
<1>1. /\ c.session_pools = text.session_pools
      /\ IsJoined(c.handlers, text.handlers, other)
    BY DefaultsAre
<1>2. IsText(text) BY DEF MainText
<1>3. IsPools(c.session_pools) BY <1>1, <1>2 DEF IsPools, IsText, Sections
<1>4. DOMAIN other = {"default"} /\ IsHandler(other["default"]) BY DEF IsHandler
<1> HIDE DEF other
<1>5. IsFiniteSet(DOMAIN c.handlers)
  <2>1. DOMAIN c.handlers = DOMAIN text.handlers \cup {"default"} BY <1>1, <1>4 DEF IsJoined
  <2>2. IsFiniteSet(DOMAIN text.handlers) BY <1>2 DEF IsText
  <2> QED BY <2>1, <2>2, FS_AddElement
<1>6. \A n \in DOMAIN c.handlers : IsHandler(c.handlers[n])
  <2>1. \A n \in DOMAIN text.handlers : IsHandler(text.handlers[n]) BY <1>2 DEF IsText
  <2> QED BY <1>1, <1>4, <2>1 DEF IsJoined
<1> QED BY <1>3, <1>5, <1>6

\* The upstreams that session pools notify are known.
NoticesKnown(cfg) ==
    \A n \in DOMAIN cfg.session_pools :
        \A d \in cfg.session_pools[n].inactivity_handlers : Known(cfg, d)

LEMMA MeaningIs ==
    ASSUME NEW text, MainText(text), NEW c, c = WithDefaults(text),
           NEW order \in SetToSeqs(DOMAIN c.handlers),
           NEW R, R = Postprocess(text, order), R # Refused
    PROVE  /\ R.routing = Table(c.routing) /\ R.handlers = c.handlers
           /\ R.authorizers = c.authorizers /\ R.http_destinations = c.http_destinations
           /\ ~ CreateError(c.routing, c.handlers, DOMAIN c.authorizers)
           /\ Good(c, DOMAIN c.handlers)
           /\ PoolsLeft(R.session_pools, c, DOMAIN c.handlers)
           /\ NoticesKnown(c)
<1> DEFINE pools == PostprocessHandlers(c, order)
<1>1. /\ pools # Refused
      /\ ~ CreateError(c.routing, c.handlers, DOMAIN c.authorizers)
      /\ NoticesKnown(c)
      /\ R = [routing |-> Table(c.routing), handlers |-> c.handlers,
              authorizers |-> c.authorizers, session_pools |-> pools,
              http_destinations |-> c.http_destinations]
    BY DEF Postprocess, NoticesKnown
<1>2. IsPools(c.session_pools) /\ IsFiniteSet(DOMAIN c.handlers) BY DefaultsOK
<1>3. Good(c, DOMAIN c.handlers) /\ PoolsLeft(pools, c, DOMAIN c.handlers)
    BY <1>1, <1>2, LoopAccepts
<1> HIDE DEF pools
<1> QED BY <1>1, <1>3

LEMMA MeaningLeads ==
    ASSUME NEW text, MainText(text), NEW c, c = WithDefaults(text),
           NEW order \in SetToSeqs(DOMAIN c.handlers),
           NEW R, R = Postprocess(text, order), R # Refused
    PROVE  NamesLead(R, Seq(Nat))
<1> DEFINE H == DOMAIN c.handlers
<1>1. /\ R.routing = Table(c.routing) /\ R.handlers = c.handlers
      /\ R.authorizers = c.authorizers /\ R.http_destinations = c.http_destinations
      /\ ~ CreateError(c.routing, c.handlers, DOMAIN c.authorizers)
      /\ Good(c, H) /\ PoolsLeft(R.session_pools, c, H) /\ NoticesKnown(c)
    BY MeaningIs
<1>2. ASSUME NEW line \in Range(R.routing), NEW r \in Range(line.paths)
      PROVE  r.handler \in DOMAIN R.handlers /\ r.authorizer \in DOMAIN R.authorizers
    BY <1>1 DEF CreateError
<1>3. \A n \in H : IsHandler(c.handlers[n]) BY DefaultsOK
<1>4. \A d : Known(R, d) <=> Known(c, d) BY <1>1 DEF Known
<1>5. ASSUME NEW n \in H, c.handlers[n].kind = "SwindonLattice"
      PROVE  ChatLeads(R, c.handlers[n], Seq(Nat))
  <2> DEFINE h == c.handlers[n]
             k == h.session_pool
             pool == R.session_pools[k]
  <2>1. Alone(c, n) BY <1>1 DEF Good
  <2>2. k \in DOMAIN c.session_pools /\ LatticeAccepted(c, c.session_pools[k], h)
      BY <1>5, <2>1 DEF Alone
  <2>3. DOMAIN R.session_pools = DOMAIN c.session_pools BY <1>1 DEF PoolsLeft
  <2>4. PoolLeft(pool, c, H, k) BY <1>1, <2>2 DEF PoolsLeft
  <2>5. UsesPool(c, n, k) BY <1>5 DEF UsesPool
  <2>6. pool.flags = Flags(h) BY <2>4, <2>5 DEF PoolLeft
  <2>7. pool.inactivity_handlers = c.session_pools[k].inactivity_handlers
      BY <2>4 DEF PoolLeft
  <2>8. \/ c.session_pools[k].inactivity_handlers = {}
        \/ Resolve(h, SessionInactive(Flags(h).prefix)) \in
               c.session_pools[k].inactivity_handlers
      BY <2>2 DEF LatticeAccepted
  <2>9. Known(c, h.default) /\ \A p \in DOMAIN h.map : Known(c, h.map[p])
      BY <2>2 DEF LatticeAccepted, MessageHandlersKnown
  <2>10. \A p \in DOMAIN h.map : IsPattern(p) BY <1>3, <1>5 DEF IsHandler
  <2>13. h.http_route # None => h.http_route \in DOMAIN R.handlers
      BY <1>1, <2>2 DEF LatticeAccepted
  <2> HIDE DEF h, k, pool
  <2>11. ASSUME NEW method \in Seq(Nat)
         PROVE  Known(R, Resolve(h, method)) /\ ChosenFor(h, method) = {Resolve(h, method)}
    <3>1. /\ ChosenFor(h, method) = {Resolve(h, method)}
          /\ Resolve(h, method) = h.default
                \/ \E p \in DOMAIN h.map : Resolve(h, method) = h.map[p]
        BY <2>10, ResolveIs
    <3>2. Known(c, Resolve(h, method)) BY <2>9, <3>1
    <3> QED BY <1>4, <3>1, <3>2
  <2>12. pool.inactivity_handlers # {} =>
            Resolve(h, SessionInactive(pool.flags.prefix)) \in pool.inactivity_handlers
      BY <2>6, <2>7, <2>8
  <2> QED BY <2>2, <2>3, <2>6, <2>11, <2>12, <2>13 DEF h, k, pool, ChatLeads
<1>6. ASSUME NEW n \in H, c.handlers[n].kind = "Proxy"
      PROVE  Known(R, c.handlers[n].destination)
    BY <1>1, <1>4, <1>6 DEF Good, Alone
<1>7. ASSUME NEW n \in DOMAIN R.session_pools, NEW d \in R.session_pools[n].inactivity_handlers
      PROVE  Known(R, d)
  <2>1. n \in DOMAIN c.session_pools /\ PoolLeft(R.session_pools[n], c, H, n)
      BY <1>1 DEF PoolsLeft
  <2>2. d \in c.session_pools[n].inactivity_handlers BY <2>1 DEF PoolLeft
  <2> QED BY <1>1, <1>4, <2>1, <2>2 DEF NoticesKnown
<1> QED BY <1>1, <1>2, <1>5, <1>6, <1>7 DEF NamesLead

\* The files named by the main one are texts, or cannot be parsed.
LEMMA CombinedOK ==
    ASSUME NEW ts \in Versions, Combined(ts) # Refused
    PROVE  /\ Content[ts[Main]] # Refused
           /\ MainText(Combined(ts)) /\ Keeps(Combined(ts), Content[ts[Main]])
<1> DEFINE main == Content[ts[Main]]
<1>1. \A f \in Files : ts[f] \in Texts[f] BY DEF Versions
<1>2. Main \in Files /\ ts[Main] \in Texts[Main] BY <1>1, ConfiguratorAssumption
<1>3. main # Refused /\ Combined(ts) = MixedIn(main, ts) BY DEF Combined
<1>4. MainText(main) BY <1>2, <1>3, ConfiguratorAssumption DEF MainText
<1>5. /\ Len(main.mixins) \in Nat
      /\ \A i \in 1 .. Len(main.mixins) : main.mixins[i].file \in Files
    BY <1>2, <1>3, ConfiguratorAssumption
<1>6. \A f \in Files : Content[ts[f]] # Refused => IsText(Content[ts[f]])
    BY <1>1, ConfiguratorAssumption
<1> HIDE DEF main
<1>7. \A i \in 1 .. Len(main.mixins) :
          LET mixin == Content[ts[main.mixins[i].file]] IN mixin # Refused => IsText(mixin)
    BY <1>5, <1>6
<1>8. MixedIn(main, ts) # Refused BY <1>3
<1>9. MainText(MixedIn(main, ts)) /\ Keeps(MixedIn(main, ts), main)
    BY <1>4, <1>5, <1>7, <1>8, MixedKeeps
<1> QED BY <1>3, <1>9 DEF main

\* The texts mean one configuration, in which every name leads somewhere and
\* the entries of the main file are as they were written.
LEMMA OneMeaning ==
    ASSUME NEW ts \in Versions, NEW cfg \in MeaningsOf(ts), cfg # Refused
    PROVE  /\ MeaningsOf(ts) = {cfg}
           /\ NamesLead(cfg, Seq(Nat))
           /\ Content[ts[Main]] # Refused
           /\ \A s \in Sections \ {"session_pools"} : \A n \in DOMAIN Content[ts[Main]][s] :
                 cfg[s][n] = Content[ts[Main]][s][n]
<1> DEFINE text == Combined(ts)
           c == WithDefaults(text)
           main == Content[ts[Main]]
           orders == SetToSeqs(DOMAIN c.handlers)
<1>1. MeaningsOf(ts) = IF text = Refused THEN {Refused}
                       ELSE {Postprocess(text, order) : order \in orders}
    BY DEF MeaningsOf
<1>2. text # Refused BY <1>1
<1>3. main # Refused /\ MainText(text) /\ Keeps(text, main) BY <1>2, CombinedOK
<1> HIDE DEF text, main
<1>4. PICK order \in orders : cfg = Postprocess(text, order) BY <1>1, <1>2
<1>5. IsPools(c.session_pools) /\ IsFiniteSet(DOMAIN c.handlers) BY <1>3, DefaultsOK
<1>6. \A o \in orders : PostprocessHandlers(c, o) = PostprocessHandlers(c, order)
    BY <1>5, OrdersAgree
<1>7. \A o \in orders : Postprocess(text, o) = cfg
    BY <1>4, <1>6 DEF Postprocess
<1>8. MeaningsOf(ts) = {cfg} BY <1>1, <1>2, <1>4, <1>7
<1>9. NamesLead(cfg, Seq(Nat)) BY <1>3, <1>4, MeaningLeads
<1>10. /\ cfg.handlers = c.handlers /\ cfg.authorizers = c.authorizers
       /\ cfg.http_destinations = c.http_destinations
    BY <1>3, <1>4, MeaningIs
<1>11. /\ c.http_destinations = text.http_destinations
       /\ IsJoined(c.handlers, text.handlers, [default |-> [kind |-> "NotFound"]])
       /\ IsJoined(c.authorizers, text.authorizers, [default |-> "AllowAll"])
    BY <1>3, DefaultsAre
<1> HIDE DEF c
<1>12. /\ \A n \in DOMAIN text.handlers : cfg.handlers[n] = text.handlers[n]
       /\ \A n \in DOMAIN text.authorizers : cfg.authorizers[n] = text.authorizers[n]
       /\ \A n \in DOMAIN text.http_destinations :
             cfg.http_destinations[n] = text.http_destinations[n]
    BY <1>10, <1>11 DEF IsJoined
<1>13. ASSUME NEW s \in Sections \ {"session_pools"}, NEW n \in DOMAIN main[s]
       PROVE  cfg[s][n] = main[s][n]
  <2>1. n \in DOMAIN text[s] /\ text[s][n] = main[s][n] BY <1>3 DEF Keeps
  <2>2. s \in {"handlers", "authorizers", "http_destinations"} BY DEF Sections
  <2> QED BY <1>12, <2>1, <2>2
<1> QED BY <1>3, <1>8, <1>9, <1>13 DEF main

\* Files that the main one does not name do not matter.
LEMMA SameMeaning ==
    ASSUME NEW ts \in Versions, NEW us \in Versions, ts[Main] = us[Main],
           Content[ts[Main]] # Refused, \A f \in Named(ts[Main]) : ts[f] = us[f]
    PROVE  MeaningsOf(ts) = MeaningsOf(us)
<1> DEFINE main == Content[ts[Main]]
<1>1. ts[Main] \in Texts[Main] BY ConfiguratorAssumption DEF Versions
<1>2. Len(main.mixins) \in Nat BY <1>1, ConfiguratorAssumption
<1>3. \A i \in 1 .. Len(main.mixins) : ts[main.mixins[i].file] = us[main.mixins[i].file]
    BY DEF Named
<1>4. Combined(ts) = MixedIn(main, ts) /\ Combined(us) = MixedIn(main, us) BY DEF Combined
<1> HIDE DEF main
<1>5. Combined(ts) = Combined(us) BY <1>2, <1>3, <1>4, SameMixins
<1> QED BY <1>5 DEF MeaningsOf

---------------------------------------------------------------------------
(***************************************************************************)
(* Whatever becomes active or is applied was accepted.                     *)
(***************************************************************************)

Accepted(cfg) == cfg # Refused /\ \E ts \in Versions : cfg \in MeaningsOf(ts)

AcceptedInv ==
    /\ stage \in {"calc", "digest"} => Accepted(found)
    /\ cell.config # NoConfig => Accepted(cell.config)
    /\ applied # NoConfig => Accepted(applied)

LEMMA GiveUpAccepted == AcceptedInv /\ GiveUp => AcceptedInv'
BY DEF AcceptedInv, GiveUp, cellVars

LEMMA BuildAccepted ==
    ASSUME Inv, AcceptedInv, Build PROVE AcceptedInv'
<1>1. PICK cfg \in Meanings(texts) :
          IF cfg \in {Refused, cell.config} THEN GiveUp
          ELSE /\ found' = cfg
               /\ stage' = "calc"
               /\ UNCHANGED <<fileVars, cellVars, at, files, metas, texts, print, notice, applied>>
    BY DEF Build
<1>2. CASE cfg \in {Refused, cell.config}
  <2>1. GiveUp BY <1>1, <1>2
  <2> QED BY <2>1, GiveUpAccepted
<1>3. CASE cfg \notin {Refused, cell.config}
  <2>1. stage = "build" BY DEF Build
  <2>2. DOMAIN texts \subseteq Files /\ \A f \in DOMAIN texts : texts[f] \in Texts[f]
    <3>1. DOMAIN texts = First(Len(files)) /\ files \in Seq(Files)
        BY <2>1 DEF Inv, DomainsOK, PlaceOK, Reading
    <3> QED BY <3>1 DEF Inv, ReadOK, First
  <2>3. FullText(texts) \in Versions /\ Meanings(texts) = MeaningsOf(FullText(texts))
      BY <2>2, MeaningsAre
  <2>4. Accepted(cfg) BY <1>3, <2>3 DEF Accepted
  <2>5. found' = cfg /\ cell' = cell /\ applied' = applied BY <1>1, <1>3 DEF cellVars
  <2> QED BY <2>4, <2>5 DEF AcceptedInv
<1> QED BY <1>2, <1>3

LEMMA NextAccepted == Inv /\ AcceptedInv /\ [Next]_vars => AcceptedInv'
<1> SUFFICES ASSUME Inv, AcceptedInv, [Next]_vars PROVE AcceptedInv' OBVIOUS
<1>1. CASE UNCHANGED vars
  <2>1. stage' = stage /\ found' = found /\ cell' = cell /\ applied' = applied
      BY <1>1 DEF vars, cellVars, readVars
  <2> QED BY <2>1 DEF AcceptedInv
<1>2. ASSUME NEW f \in Files, Delete(f) \/ \E t \in Texts[f] : Write(f, t) PROVE AcceptedInv'
  <2>1. stage' = stage /\ found' = found /\ cell' = cell /\ applied' = applied
      BY <1>2 DEF Delete, Write, cellVars, readVars
  <2> QED BY <2>1 DEF AcceptedInv
<1>3. CASE WakeUp BY <1>3 DEF AcceptedInv, WakeUp, cellVars
<1>4. CASE Stat
  <2>1. CASE GiveUp BY <2>1, GiveUpAccepted
  <2>2. CASE ~ GiveUp BY <1>4, <2>2 DEF AcceptedInv, Stat, cellVars
  <2> QED BY <2>1, <2>2
<1>5. CASE Read
  <2>1. CASE GiveUp BY <2>1, GiveUpAccepted
  <2>2. CASE ~ GiveUp
    <3>1. stage' \in {"stat", "build"} /\ cell' = cell /\ applied' = applied
        BY <1>5, <2>2 DEF Read, cellVars
    <3> QED BY <3>1 DEF AcceptedInv
  <2> QED BY <2>1, <2>2
<1>6. CASE Build BY <1>6, BuildAccepted
<1>7. CASE Calc
  <2>1. CASE GiveUp BY <2>1, GiveUpAccepted
  <2>2. CASE ~ GiveUp
    <3>1. stage = "calc" /\ found' = found /\ cell' = cell /\ applied' = applied
        BY <1>7, <2>2 DEF Calc, cellVars
    <3> QED BY <3>1 DEF AcceptedInv
  <2> QED BY <2>1, <2>2
<1>8. CASE Digest
  <2>1. stage = "digest" BY <1>8 DEF Digest
  <2>2. \/ found' = found /\ cell' = cell /\ applied' = applied
        \/ /\ cell'.config = found /\ applied' \in {found, applied}
           /\ stage' \in {"sleep", "tell"}
    <3>1. PICK t : IF at < Len(files)
          THEN /\ print' = With(print, files[at], t)
               /\ stage' = "calc" /\ at' = at + 1
               /\ UNCHANGED <<cellVars, files, metas, texts, found, applied>>
          ELSE Install(With(print, files[at], t))
        BY <1>8 DEF Digest
    <3>2. CASE at < Len(files) BY <3>1, <3>2 DEF cellVars
    <3>3. CASE ~ (at < Len(files))
      <4>1. Install(With(print, files[at], t)) BY <3>1, <3>3
      <4> QED BY <4>1 DEF Install
    <3> QED BY <3>2, <3>3
  <2> QED BY <2>1, <2>2 DEF AcceptedInv
<1>9. CASE Tell BY <1>9 DEF AcceptedInv, Tell, cellVars
<1>10. CASE UpdateLoop BY <1>10 DEF AcceptedInv, UpdateLoop, cellVars, readVars
<1> QED BY <1>1, <1>2, <1>3, <1>4, <1>5, <1>6, <1>7, <1>8, <1>9, <1>10 DEF Next, Updater

LEMMA AlwaysAccepted == Spec => []AcceptedInv
<1>1. Init => AcceptedInv BY DEF Init, AcceptedInv
<1> QED BY <1>1, NextAccepted, Invariance, PTL DEF Spec

---------------------------------------------------------------------------
(***************************************************************************)
(* Theorems.                                                               *)
(***************************************************************************)

\* The updater thread's notes on the files it reads fit together, and
\* file_metadata is filled exactly when there is an active configuration.
THEOREM TypeCorrect == Spec => []TypeOK
<1>1. ASSUME Inv PROVE TypeOK
  <2>1. PlaceOK /\ DomainsOK /\ DiskOK /\ CellOK BY <1>1 DEF Inv
  <2>2. /\ DOMAIN metas \subseteq First(Len(files))
        /\ DOMAIN texts \subseteq DOMAIN metas
        /\ DOMAIN print \subseteq DOMAIN metas
      BY <2>1, Inside
  <2>3. First(Len(files)) = Range(files)
    <3>1. DOMAIN files = 1 .. Len(files) BY <2>1 DEF PlaceOK
    <3> QED BY <3>1 DEF First, Range
  <2>4. at \in 1 .. Len(files) + 1 BY <2>1, FirstIs DEF PlaceOK
  <2>5. \A f \in Files : disk[f].meta \in 0 .. MaxWrites + 1
    <3>1. \A f \in Files : disk[f].meta \in Nat /\ disk[f].meta <= writes + 1
        BY <2>1 DEF DiskOK
    <3>2. writes \in 0 .. MaxWrites /\ MaxWrites \in Nat
        BY <2>1, ConfiguratorAssumption DEF DiskOK
    <3> QED BY <3>1, <3>2
  <2>6. DOMAIN disk = Files BY <2>1 DEF DiskOK
  <2> QED BY <1>1, <2>1, <2>2, <2>3, <2>4, <2>5, <2>6
       DEF TypeOK, Inv, PlaceOK, DiskOK, CellOK
<1>2. Inv => TypeOK BY <1>1
<1> QED BY <1>2, Invariance, PTL

\* The fingerprint of the status page is that of the files, whenever
\* try_update would find nothing changed: fingerprint::calc opens the files
\* again, but only digests what had its metadata from before the reading.
THEOREM FingerprintIsTheirs == Spec => []FingerprintOfFiles
<1>1. ASSUME Inv PROVE FingerprintOfFiles
  <2> SUFFICES ASSUME ~ Changed
               PROVE  cell.fingerprint = [f \in DOMAIN recorded |-> disk[f].text]
      BY DEF FingerprintOfFiles
  <2>1. /\ Vouched(recorded, cell.fingerprint)
        /\ DOMAIN cell.fingerprint = DOMAIN recorded
        /\ cell.fingerprint = [f \in DOMAIN recorded |-> cell.fingerprint[f]]
      BY <1>1 DEF Inv, CellOK
  <2>2. \A f \in DOMAIN recorded : cell.fingerprint[f] = disk[f].text
      BY <2>1 DEF Vouched, Changed
  <2> QED BY <2>1, <2>2
<1>2. Inv => FingerprintOfFiles BY <1>1
<1> QED BY <1>2, Invariance, PTL

\* While try_update finds nothing changed and no notice is on its way, the
\* server works with the active configuration, and that is a meaning of the
\* texts that are in the files now; the files watched are all that matter,
\* the main one and those it names.
WorksWithFiles ==
    stage = "sleep" /\ ~ Changed /\ ~ notice =>
        /\ applied = cell.config
        /\ applied \in Meanings([f \in DOMAIN recorded |-> disk[f].text])
        /\ {Main} \cup Named(disk[Main].text) \subseteq DOMAIN recorded

\* However the edits fall between the steps of read_config, calc and the
\* replacement in try_update and update_loop.
THEOREM EditsNotOverlooked == Spec => []WorksWithFiles
<1>1. ASSUME Inv PROVE WorksWithFiles
  <2> SUFFICES ASSUME stage = "sleep", ~ Changed, ~ notice
               PROVE  /\ applied = cell.config
                      /\ applied \in
                            Meanings([f \in DOMAIN recorded |-> disk[f].text])
                      /\ {Main} \cup Named(disk[Main].text) \subseteq
                            DOMAIN recorded
      BY DEF WorksWithFiles
  <2>1. applied = cell.config /\ cell.config # NoConfig
      BY <1>1 DEF Inv, AppliedOK
  <2>2. PICK ts \in [DOMAIN recorded -> DOMAIN Content] :
            /\ Vouched(recorded, ts)
            /\ Main \in DOMAIN recorded
            /\ Named(ts[Main]) \subseteq DOMAIN recorded
            /\ cell.config \in Meanings(ts)
      BY <1>1, <2>1 DEF Inv, CellOK
  <2>3. \A f \in DOMAIN recorded : ts[f] = disk[f].text
      BY <2>2 DEF Vouched, Changed
  <2>4. ts = [f \in DOMAIN recorded |-> disk[f].text] BY <2>2, <2>3
  <2> QED BY <2>1, <2>2, <2>3, <2>4
<1>2. Inv => WorksWithFiles BY <1>1
<1> QED BY <1>2, Invariance, PTL

\* While try_update finds nothing changed, the active configuration is the
\* only thing the texts in the files can mean, whatever the order in which
\* postprocess_config meets the handlers, and no mixin overrules an entry of
\* the main file.
THEOREM NothingIsMissed == Spec => []NothingMissed
<1>1. ASSUME Inv, AcceptedInv PROVE NothingMissed
  <2> SUFFICES ASSUME stage = "sleep", ~ Changed
               PROVE  /\ Meanings(OnDisk) = {cell.config}
                      /\ \A s \in Sections \ {"session_pools"} :
                         \A n \in DOMAIN Content[disk[Main].text][s] :
                            cell.config[s][n] = Content[disk[Main].text][s][n]
      BY DEF NothingMissed
  <2> DEFINE us == OnDisk
  <2>1. cell.config # NoConfig BY <1>1 DEF Inv, AppliedOK
  <2>2. cell.config # Refused BY <1>1, <2>1 DEF AcceptedInv, Accepted
  <2>3. PICK ts \in [DOMAIN recorded -> DOMAIN Content] :
            /\ Vouched(recorded, ts) /\ \A f \in DOMAIN recorded : ts[f] \in Texts[f]
            /\ Main \in DOMAIN recorded /\ Named(ts[Main]) \subseteq DOMAIN recorded
            /\ cell.config \in Meanings(ts)
      BY <1>1, <2>1 DEF Inv, CellOK
  <2>4. \A f \in DOMAIN recorded : ts[f] = disk[f].text BY <2>3 DEF Vouched, Changed
  <2>5. DOMAIN ts = DOMAIN recorded /\ DOMAIN recorded \subseteq Files
      BY <1>1, <2>3 DEF Inv, CellOK
  <2> DEFINE full == FullText(ts)
  <2>6. /\ full \in Versions /\ \A f \in DOMAIN recorded : full[f] = ts[f]
        /\ Meanings(ts) = MeaningsOf(full)
      BY <2>3, <2>5, MeaningsAre
  <2>7. /\ DOMAIN us = Files /\ \A f \in Files : us[f] = disk[f].text
        /\ \A f \in Files : us[f] \in Texts[f]
      BY <1>1 DEF OnDisk, Inv, DiskOK
  <2> HIDE DEF us, full
  <2>8. /\ FullText(us) \in Versions /\ \A f \in Files : FullText(us)[f] = us[f]
        /\ Meanings(us) = MeaningsOf(FullText(us))
      BY <2>7, MeaningsAre
  <2>9. \A f \in DOMAIN recorded : full[f] = FullText(us)[f] BY <2>4, <2>5, <2>6, <2>7, <2>8
  <2>10. /\ MeaningsOf(full) = {cell.config} /\ Content[full[Main]] # Refused
         /\ \A s \in Sections \ {"session_pools"} : \A n \in DOMAIN Content[full[Main]][s] :
               cell.config[s][n] = Content[full[Main]][s][n]
      BY <2>2, <2>3, <2>6, OneMeaning
  <2>11. full[Main] = ts[Main] /\ full[Main] = FullText(us)[Main]
      BY <2>3, <2>6, <2>9
  <2>12. \A f \in Named(full[Main]) : full[f] = FullText(us)[f] BY <2>3, <2>9, <2>11
  <2>13. MeaningsOf(full) = MeaningsOf(FullText(us))
      BY <2>6, <2>8, <2>10, <2>11, <2>12, SameMeaning
  <2>14. full[Main] = disk[Main].text BY <2>3, <2>4, <2>11
  <2> QED BY <2>8, <2>10, <2>13, <2>14 DEF us
<1>2. Inv /\ AcceptedInv => NothingMissed BY <1>1
<1> QED BY <1>2, Invariance, AlwaysAccepted, PTL

\* For every method, not only for those that the run looks at.
EveryNameLeads == applied # NoConfig => NamesLead(applied, Seq(Nat))

\* In what startup and update_loop work with, every name leads somewhere: the
\* checks of postprocess_config, made one handler after the other, are enough
\* for all handlers together.
THEOREM EveryNameLeadsAlways == Spec => []EveryNameLeads
<1>1. ASSUME AcceptedInv PROVE EveryNameLeads
    BY <1>1, OneMeaning DEF AcceptedInv, Accepted, EveryNameLeads
<1>2. AcceptedInv => EveryNameLeads BY <1>1
<1> QED BY <1>2, AlwaysAccepted, PTL

\* The same as the run states it.
THEOREM ReferencesAlwaysHold == Spec => []ReferencesHold
<1>1. ASSUME EveryNameLeads PROVE ReferencesHold
  <2>1. <<1>> \in Seq(Nat) /\ <<1, 2>> \in Seq(Nat) /\ <<1, 2, 3>> \in Seq(Nat) OBVIOUS
  <2>2. <<1, 3>> \in Seq(Nat) /\ <<2, 2>> \in Seq(Nat) OBVIOUS
  <2>3. {<<1>>, <<1, 2>>, <<1, 2, 3>>, <<1, 3>>, <<2, 2>>} \subseteq Seq(Nat) BY <2>1, <2>2
  <2>4. ASSUME NEW M \in SUBSET Seq(Nat), NamesLead(applied, Seq(Nat))
        PROVE  NamesLead(applied, M)
      BY <2>4 DEF NamesLead, ChatLeads
  <2> QED BY <1>1, <2>3, <2>4 DEF EveryNameLeads, ReferencesHold
<1>2. EveryNameLeads => ReferencesHold BY <1>1
<1> QED BY <1>2, EveryNameLeadsAlways, PTL
=============================================================================
