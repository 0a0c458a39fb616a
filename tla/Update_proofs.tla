--------------------------- MODULE Update_proofs ---------------------------
(***************************************************************************)
(* Proofs about Update, for any number of processes, registries, origins   *)
(* and versions, with every fault: the store stays coherent and complete   *)
(* enough to be used, although updates interleave without a lock.          *)
(***************************************************************************)
EXTENDS Update, TLAPS

\* A database any process may start its next update from.
Good(d) == /\ Coherent(d.sources, d.entries)
           /\ \E s \in d.sources : s.reg = MAL

\* What Update has gathered when it is at place i of RegistryFiles: coherent,
\* about the registries before i only, MA-L among them if it is before i.
Gathered(ss, es, i) ==
    /\ Coherent(ss, es)
    /\ \A s \in ss : \E k \in 1 .. i - 1 : s.reg = RegistryFiles[k]
    /\ \A k \in 1 .. i - 1 : RegistryFiles[k] = MAL => \E s \in ss : s.reg = MAL

\* The inductive invariant.  The store is what some process had in writeStore,
\* which is what it gathered, from the wire or from its previous copy, which was
\* the store: each of them must be coherent for the others to stay so.
UInv == /\ TypeOK
        /\ Readable => Good(content)
        /\ \A p \in Procs : /\ asked[p] # None => Good(asked[p])
                            /\ prev[p] # None => Good(prev[p])
                            /\ Gathered(sources[p], entries[p], idx[p])
                            /\ pc[p] # "idle" => base[p] \in Origins

USE DEF PC, How, Results, AllCommands

LEMMA RegistriesLemma == /\ Len(RegistryFiles) \in Nat
                         /\ \A i \in 1 .. Len(RegistryFiles) :
                               RegistryFiles[i] \in Registries
  BY RegistriesAssumption DEF Registries

\* The loop's registry is one of the registries.
LEMMA RegType ==
  ASSUME TypeOK, NEW p \in Procs, Fetching(p)
  PROVE  /\ Reg(p) \in Registries
         /\ idx[p] \in 1 .. Len(RegistryFiles)
         /\ idx[p] + 1 \in 1 .. Len(RegistryFiles) + 1
  BY RegistriesLemma DEF TypeOK, Fetching, Reg

\* A store that is there at first was saved by an update.
THEOREM UInitInv == Init => UInv
  <1> SUFFICES ASSUME Init PROVE UInv
    OBVIOUS
  <1>1. TypeOK
    BY BoundsAssumption, RegistriesLemma DEF Init, TypeOK, NotBegun, Version, Time
  <1>2. Gathered({}, {}, 1)
    BY DEF Gathered, Coherent
  <1> QED
    BY <1>1, <1>2 DEF Init, UInv, Readable
-----------------------------------------------------------------------------
\* Reset and the steps that touch no gathered data.
LEMMA ResetTypes ==
  ASSUME TypeOK, NEW p \in Procs, Reset(p), UNCHANGED <<upstream, now>>,
         content' \in DB \cup {None, Torn}, asked' \in [Procs -> DB \cup {None}]
  PROVE  TypeOK'
  <1>1. /\ NotBegun \in [upstream : [Origins -> [Registries -> Version]], now : Time]
        /\ 1 \in 1 .. Len(RegistryFiles) + 1
    BY BoundsAssumption, RegistriesLemma DEF NotBegun, Version, Time
  <1>2. /\ began' \in [Procs -> [upstream : [Origins -> [Registries -> Version]],
                                now : Time]]
        /\ idx' \in [Procs -> 1 .. Len(RegistryFiles) + 1]
    BY <1>1 DEF TypeOK, Reset
  <1>3. how' \in [Procs -> [Registries -> How]]
    BY DEF TypeOK, Reset
  <1>4. sources' \in [Procs -> SUBSET Source] /\ entries' \in [Procs -> SUBSET Row]
    BY DEF TypeOK, Reset
  <1> QED
    BY <1>2, <1>3, <1>4 DEF TypeOK, Reset

LEMMA ObtainedTypes ==
  ASSUME TypeOK, NEW p \in Procs, Fetching(p), NEW way \in How,
         NEW src \in SUBSET Source, NEW got \in SUBSET Row,
         Obtained(p, way, src, got)
  PROVE  TypeOK'
  <1> USE RegType DEF Obtained, Goto, svars
  <1>1. how' \in [Procs -> [Registries -> How]]
    BY DEF TypeOK
  <1>2. sources' \in [Procs -> SUBSET Source] /\ entries' \in [Procs -> SUBSET Row]
    BY DEF TypeOK
  <1> QED
    BY <1>1, <1>2 DEF TypeOK

\* The previous copy's sources and rows of a registry.
LEMMA CachedTypes ==
  ASSUME TypeOK, NEW p \in Procs
  PROVE  /\ HeldSources(p) \in SUBSET Source
         /\ EntriesOf(prev[p], Reg(p)) \in SUBSET Row
  BY DEF TypeOK, HeldSources, SourcesOf, EntriesOf, RowsIn, DB

\* The rows and the source a response with a body brings.
LEMMA BodyTypes ==
  ASSUME TypeOK, NEW p \in Procs, Fetching(p), base[p] \in Origins
  PROVE  /\ Published(p) \in Version
         /\ {[reg |-> Reg(p), url |-> base[p],
              tag |-> TagOf(Reg(p), Published(p))]} \in SUBSET Source
         /\ RowsOf(Reg(p), base[p], Published(p)) \in SUBSET Row
  BY RegType DEF TypeOK, Published, TagOf, RowsOf, Source, Row, Tag
\* Every step keeps the types.
LEMMA EndTypes ==
  ASSUME TypeOK, NEW p \in Procs, NEW outcome \in Results, End(p, outcome)
  PROVE  pc' \in [Procs -> PC] /\ result' \in [Procs -> Results]
  BY DEF TypeOK, End

LEMMA FetchTypes ==
  ASSUME TypeOK, NEW p \in Procs, base[p] \in Origins,
         \/ FetchBody(p) \/ FetchBadBody(p) \/ FetchFails(p)
         \/ NotModified(p) \/ NotModifiedAgain(p)
  PROVE  TypeOK'
  <1>1. Fetching(p)
    BY DEF FetchBody, FetchBadBody, FetchFails, NotModified, NotModifiedAgain
  <1>2. ASSUME NEW outcome \in Results, End(p, outcome),
               UNCHANGED <<svars, gvars, upstream, now, op, base, db>>
        PROVE  TypeOK'
    BY <1>2, EndTypes DEF TypeOK, svars, gvars
  <1>3. ASSUME NEW way \in How, KeepCached(p, way) PROVE TypeOK'
    BY <1>1, <1>3, CachedTypes, ObtainedTypes DEF KeepCached
  <1>4. ASSUME Unobtained(p) PROVE TypeOK'
    <2>1. CASE Reg(p) = MAL
      BY <1>2, <1>4, <2>1 DEF Unobtained, UpdateFails
    <2>2. CASE Reg(p) # MAL
      BY <1>1, <1>4, <2>2, ObtainedTypes DEF Unobtained
    <2> QED
      BY <2>1, <2>2
  <1>5. CASE FetchBody(p)
    BY <1>1, <1>5, BodyTypes, ObtainedTypes DEF FetchBody
  <1>6. CASE FetchBadBody(p)
    BY <1>4, <1>6 DEF FetchBadBody
  <1>7. CASE FetchFails(p)
    BY <1>3, <1>4, <1>7 DEF FetchFails
  <1>8. CASE NotModified(p)
    <2>1. CASE Cached(p)
      BY <1>3, <1>8, <2>1 DEF NotModified
    <2>2. CASE ~Cached(p)
      BY <1>8, <2>2 DEF NotModified, Goto, TypeOK, svars, gvars
    <2> QED
      BY <2>1, <2>2
  <1>9. CASE NotModifiedAgain(p)
    BY <1>2, <1>9 DEF NotModifiedAgain
  <1> QED
    BY <1>5, <1>6, <1>7, <1>8, <1>9

LEMMA LoadTypes ==
  ASSUME TypeOK, NEW p \in Procs,
         \/ PlainLoad(p) \/ FreshEnough(p) \/ NeedsRefresh(p) \/ LoadCorrupt(p)
         \/ LoadPrev(p) \/ Reload(p)
  PROVE  TypeOK'
  <1>1. [upstream |-> upstream, now |-> now] \in
           [upstream : [Origins -> [Registries -> Version]], now : Time]
    BY DEF TypeOK
  <1> USE EndTypes DEF Readable, Corrupt, svars, gvars
  <1>2. CASE PlainLoad(p)
    BY <1>2 DEF PlainLoad, TypeOK
  <1>3. CASE FreshEnough(p)
    BY <1>1, <1>3 DEF FreshEnough, TypeOK
  <1>4. CASE NeedsRefresh(p)
    BY <1>4 DEF NeedsRefresh, Goto, TypeOK
  <1>5. CASE LoadCorrupt(p)
    BY <1>5 DEF LoadCorrupt, TypeOK
  <1>6. CASE LoadPrev(p)
    BY <1>1, <1>6 DEF LoadPrev, Goto, TypeOK
  <1>7. CASE Reload(p)
    <2>1. content \in DB \/ ~Readable
      BY DEF TypeOK
    <2>2. db' \in [Procs -> DB \cup {None}]
      BY <1>7, <2>1 DEF Reload, TypeOK
    <2>3. PICK outcome \in {"answered", "error"} : End(p, outcome)
      BY <1>7 DEF Reload
    <2>4. pc' \in [Procs -> PC] /\ result' \in [Procs -> Results]
      BY <2>3 DEF Results
    <2>5. UNCHANGED <<svars, gvars, upstream, now, op, base>>
      BY <1>7 DEF Reload
    <2> QED
      BY <2>2, <2>4, <2>5 DEF TypeOK
  <1> QED
    BY <1>2, <1>3, <1>4, <1>5, <1>6, <1>7

LEMMA SaveTypes ==
  ASSUME TypeOK, NEW p \in Procs, Save(p) \/ SaveFails(p) \/ Saved(p) \/ Kill(p)
  PROVE  TypeOK'
  <1> USE EndTypes DEF svars, gvars
  <1>1. CASE Save(p)
    <2>1. [gen |-> now, sources |-> sources[p], entries |-> entries[p]] \in DB
      BY DEF TypeOK, DB
    <2> QED
      BY <1>1, <2>1 DEF Save, S!Ask, Goto, TypeOK
  <1>2. CASE SaveFails(p)
    BY <1>2 DEF SaveFails, UpdateFails, S!GiveUp, TypeOK
  <1>3. CASE Saved(p)
    BY <1>3 DEF Saved, S!Put, Goto, TypeOK
  <1>4. CASE Kill(p)
    BY <1>4, ResetTypes DEF Kill, S!GiveUp, TypeOK
  <1> QED
    BY <1>1, <1>2, <1>3, <1>4

LEMMA WorldTypes ==
  ASSUME TypeOK,
         \/ \E o \in Origins, r \in Registries : Publish(o, r)
         \/ Tick \/ RemoveStore \/ DamageStore
  PROVE  TypeOK'
  <1> USE DEF svars, gvars
  <1>1. ASSUME NEW o \in Origins, NEW r \in Registries, Publish(o, r)
        PROVE  TypeOK'
    <2>1. upstream[o][r] + 1 \in Version
      BY <1>1, BoundsAssumption DEF Publish, TypeOK, Version
    <2> QED
      BY <1>1, <2>1 DEF Publish, TypeOK
  <1>2. CASE Tick
    BY <1>2, BoundsAssumption DEF Tick, TypeOK, Time
  <1>3. CASE RemoveStore \/ DamageStore
    BY <1>3 DEF RemoveStore, DamageStore, TypeOK
  <1> QED
    BY <1>1, <1>2, <1>3
-----------------------------------------------------------------------------
\* Update's loop adds one registry: what it adds is coherent by itself, and
\* about a registry not gathered before, since RegistryFiles repeats none.
LEMMA GatheredGrows ==
  ASSUME NEW ss, NEW es, NEW i \in 1 .. Len(RegistryFiles), Gathered(ss, es, i),
         NEW src, NEW got,
         \A s \in src : s.reg = RegistryFiles[i],
         \A s, t \in src : s = t,
         \A e \in got : /\ e.reg = RegistryFiles[i]
                       /\ \E s \in src : s.url = e.url,
         \A s \in src : s.tag # None => got = RowsOf(s.reg, s.url, s.tag),
         RegistryFiles[i] = MAL => src # {}
  PROVE  Gathered(ss \cup src, es \cup got, i + 1)
  <1>1. i \in Nat /\ i >= 1 /\ \A k \in 1 .. i - 1 : k \in 1 .. Len(RegistryFiles)
    BY RegistriesLemma
  <1>2. \A s \in ss : s.reg # RegistryFiles[i]
    BY <1>1, RegistriesAssumption DEF Gathered
  <1>3. \A e \in es : e.reg # RegistryFiles[i]
    BY <1>2 DEF Gathered, Coherent
  <1>4. /\ \A s \in ss : RowsIn(es \cup got, s.reg) = RowsIn(es, s.reg)
        /\ \A s \in src : RowsIn(es \cup got, s.reg) = got
    BY <1>2, <1>3 DEF RowsIn
  <1>5. Coherent(ss \cup src, es \cup got)
    <2> DEFINE All == ss \cup src
    <2>1. ASSUME NEW s \in All, s.tag # None
          PROVE  RowsIn(es \cup got, s.reg) = RowsOf(s.reg, s.url, s.tag)
      BY <1>4, <2>1 DEF Gathered, Coherent
    <2>2. ASSUME NEW s \in All, NEW t \in All, s.reg = t.reg PROVE s = t
      BY <1>2, <2>2 DEF Gathered, Coherent
    <2>3. ASSUME NEW e \in es \cup got
          PROVE  \E s \in All : s.reg = e.reg /\ s.url = e.url
      BY DEF Gathered, Coherent
    <2> QED
      BY <2>1, <2>2, <2>3 DEF Coherent
  <1>6. \A s \in ss \cup src : \E k \in 1 .. (i + 1) - 1 : s.reg = RegistryFiles[k]
    BY <1>1 DEF Gathered
  <1>7. \A k \in 1 .. (i + 1) - 1 : RegistryFiles[k] = MAL =>
           \E s \in ss \cup src : s.reg = MAL
    BY <1>1 DEF Gathered
  <1> QED
    BY <1>5, <1>6, <1>7 DEF Gathered

\* A registry kept from a coherent previous copy is coherent by itself.
LEMMA CachedGood ==
  ASSUME UInv, NEW p \in Procs, Fetching(p), Cached(p), NEW way,
         KeepCached(p, way)
  PROVE  Gathered(sources'[p], entries'[p], idx'[p])
  <1> DEFINE src == HeldSources(p)
             got == EntriesOf(prev[p], Reg(p))
  <1>1. prev[p] # None /\ Coherent(prev[p].sources, prev[p].entries)
    BY DEF UInv, Good, Cached, HeldSources, SourcesOf
  <1>2. /\ src = {s \in prev[p].sources : s.reg = Reg(p) /\ s.url = base[p]}
        /\ got = RowsIn(prev[p].entries, Reg(p))
        /\ src # {}
    BY <1>1 DEF HeldSources, SourcesOf, EntriesOf, Cached
  <1>3. /\ \A s \in src : s.reg = Reg(p)
        /\ \A s, t \in src : s = t
        /\ \A s \in src : s.tag # None => got = RowsOf(s.reg, s.url, s.tag)
    BY <1>1, <1>2 DEF Coherent
  <1>4. \A e \in got : e.reg = Reg(p) /\ \E s \in src : s.url = e.url
    <2> SUFFICES ASSUME NEW e \in got
                 PROVE  e.reg = Reg(p) /\ \E s \in src : s.url = e.url
      OBVIOUS
    <2>1. e \in prev[p].entries /\ e.reg = Reg(p)
      BY <1>2 DEF RowsIn
    <2>2. PICK s \in prev[p].sources : s.reg = e.reg /\ s.url = e.url
      BY <1>1, <2>1 DEF Coherent
    <2>3. PICK t \in src : TRUE
      BY <1>2
    <2>4. s = t
      BY <1>1, <1>2, <2>1, <2>2, <2>3 DEF Coherent
    <2> QED
      BY <2>1, <2>2, <2>3, <2>4
  <1>5. Gathered(sources[p], entries[p], idx[p])
    BY DEF UInv
  <1>6. idx[p] \in 1 .. Len(RegistryFiles) /\ Reg(p) = RegistryFiles[idx[p]]
    BY RegType DEF UInv, Reg
  <1>7. Gathered(sources[p] \cup src, entries[p] \cup got, idx[p] + 1)
    <2> HIDE DEF src, got
    <2> QED
      BY <1>2, <1>3, <1>4, <1>5, <1>6, GatheredGrows
  <1>8. /\ sources'[p] = sources[p] \cup src
        /\ entries'[p] = entries[p] \cup got
        /\ idx'[p] = idx[p] + 1
    BY DEF KeepCached, Obtained, UInv, TypeOK
  <1> QED
    BY <1>7, <1>8

\* A registry just downloaded is coherent by itself: body and validator come
\* from one response.
LEMMA BodyGood ==
  ASSUME UInv, NEW p \in Procs, FetchBody(p)
  PROVE  Gathered(sources'[p], entries'[p], idx'[p])
  <1> DEFINE v == Published(p)
             src == {[reg |-> Reg(p), url |-> base[p], tag |-> TagOf(Reg(p), v)]}
             got == RowsOf(Reg(p), base[p], v)
  <1>1. /\ \A s \in src : s.reg = Reg(p) /\ s.url = base[p]
        /\ \A s, t \in src : s = t
        /\ src # {}
        /\ \A s \in src : s.tag # None => got = RowsOf(s.reg, s.url, s.tag)
    BY DEF TagOf
  <1>2. \A e \in got : e.reg = Reg(p) /\ e.url = base[p]
    BY DEF RowsOf
  <1>3. idx[p] \in 1 .. Len(RegistryFiles) /\ Reg(p) = RegistryFiles[idx[p]]
    BY RegType DEF UInv, Reg, FetchBody
  <1>4. Gathered(sources[p], entries[p], idx[p])
    BY DEF UInv
  <1>5. Gathered(sources[p] \cup src, entries[p] \cup got, idx[p] + 1)
    <2>1. \A e \in got : e.reg = Reg(p) /\ \E s \in src : s.url = e.url
      BY <1>1, <1>2
    <2> HIDE DEF src, got
    <2> QED
      BY <1>1, <1>3, <1>4, <2>1, GatheredGrows
  <1>6. /\ sources'[p] = sources[p] \cup src
        /\ entries'[p] = entries[p] \cup got
        /\ idx'[p] = idx[p] + 1
    BY DEF FetchBody, Obtained, UInv, TypeOK
  <1> QED
    BY <1>5, <1>6

\* A registry that could not be had adds nothing, and is not MA-L.
LEMMA DroppedGood ==
  ASSUME UInv, NEW p \in Procs, Fetching(p), Unobtained(p)
  PROVE  Gathered(sources'[p], entries'[p], idx'[p])
  <1>1. Gathered(sources[p], entries[p], idx[p])
    BY DEF UInv
  <1>2. idx[p] \in 1 .. Len(RegistryFiles) /\ Reg(p) = RegistryFiles[idx[p]]
    BY RegType DEF UInv, Reg
  <1>3. CASE Reg(p) = MAL
    BY <1>1, <1>3 DEF Unobtained, gvars
  <1>4. CASE Reg(p) # MAL
    <2>1. Gathered(sources[p] \cup {}, entries[p] \cup {}, idx[p] + 1)
      BY <1>1, <1>2, <1>4, GatheredGrows
    <2> QED
      BY <1>4, <2>1 DEF Unobtained, Obtained, UInv, TypeOK
  <1> QED
    BY <1>3, <1>4
-----------------------------------------------------------------------------
\* What p's own step leaves alone of the other processes and of the store.
LEMMA OwnStep ==
  ASSUME UInv, TypeOK', NEW p \in Procs,
         UNCHANGED svars, UNCHANGED prev,
         \A q \in Procs \ {p} : /\ sources'[q] = sources[q]
                                /\ entries'[q] = entries[q]
                                /\ idx'[q] = idx[q]
                                /\ pc'[q] = pc[q],
         UNCHANGED base, pc[p] # "idle",
         Gathered(sources'[p], entries'[p], idx'[p])
  PROVE  UInv'
  BY DEF UInv, svars, Readable

LEMMA FetchInv ==
  ASSUME UInv, NEW p \in Procs,
         \/ FetchBody(p) \/ FetchBadBody(p) \/ FetchFails(p)
         \/ NotModified(p) \/ NotModifiedAgain(p)
  PROVE  UInv'
  <1>1. Fetching(p) /\ pc[p] # "idle"
    BY DEF Fetching, FetchBody, FetchBadBody, FetchFails, NotModified, NotModifiedAgain
  <1>2. TypeOK'
    BY <1>1, FetchTypes DEF UInv
  <1>3. /\ UNCHANGED svars /\ UNCHANGED prev /\ UNCHANGED base
        /\ \A q \in Procs \ {p} : /\ sources'[q] = sources[q]
                                  /\ entries'[q] = entries[q]
                                  /\ idx'[q] = idx[q]
                                  /\ pc'[q] = pc[q]
    BY DEF UInv, TypeOK, FetchBody, FetchBadBody, FetchFails, NotModified,
           NotModifiedAgain, KeepCached, Unobtained, Obtained, UpdateFails, End, Goto,
           gvars
  <1>4. Gathered(sources'[p], entries'[p], idx'[p])
    <2>1. CASE FetchBody(p)
      BY <2>1, BodyGood
    <2>2. CASE FetchBadBody(p)
      BY <1>1, <2>2, DroppedGood DEF FetchBadBody
    <2>3. CASE FetchFails(p)
      BY <1>1, <2>3, DroppedGood, CachedGood DEF FetchFails
    <2>4. CASE NotModified(p) /\ Cached(p)
      BY <1>1, <2>4, CachedGood DEF NotModified
    <2>5. CASE (NotModified(p) /\ ~Cached(p)) \/ NotModifiedAgain(p)
      BY <2>5 DEF NotModified, NotModifiedAgain, gvars, UInv
    <2> QED
      BY <2>1, <2>2, <2>3, <2>4, <2>5
  <1> QED
    BY <1>1, <1>2, <1>3, <1>4, OwnStep

LEMMA LoadInv ==
  ASSUME UInv, NEW p \in Procs,
         \/ PlainLoad(p) \/ FreshEnough(p) \/ NeedsRefresh(p) \/ LoadCorrupt(p)
         \/ LoadPrev(p) \/ Reload(p)
  PROVE  UInv'
  <1>1. TypeOK'
    BY LoadTypes DEF UInv
  <1>2. /\ UNCHANGED <<content, asked, base, sources, entries, idx>>
        /\ pc[p] # "idle"
        /\ \A q \in Procs \ {p} : pc'[q] = pc[q]
        /\ \/ prev' = prev
           \/ prev' = [prev EXCEPT ![p] = IF Readable THEN content ELSE None]
    BY DEF UInv, TypeOK, PlainLoad, FreshEnough, NeedsRefresh, LoadCorrupt, LoadPrev,
           Reload, End, Goto, svars, gvars
  <1>3. \A q \in Procs : prev'[q] # None => Good(prev'[q])
    BY <1>2 DEF UInv, TypeOK
  <1> QED
    BY <1>1, <1>2, <1>3 DEF UInv, Readable

\* What is handed to writeStore is complete: the loop has been past MA-L.
LEMMA SaveInv ==
  ASSUME UInv, NEW p \in Procs, Save(p)
  PROVE  UInv'
  <1> DEFINE d == [gen |-> now, sources |-> sources[p], entries |-> entries[p]]
  <1>1. TypeOK'
    BY SaveTypes DEF UInv
  <1>2. idx[p] = Len(RegistryFiles) + 1 /\ Gathered(sources[p], entries[p], idx[p])
    BY RegistriesLemma DEF UInv, TypeOK, Save
  <1>3. PICK k \in 1 .. Len(RegistryFiles) : RegistryFiles[k] = MAL
    BY RegistriesAssumption DEF Registries
  <1>4. Good(d)
    BY <1>2, <1>3, RegistriesLemma DEF Good, Gathered
  <1>5. /\ UNCHANGED <<content, prev, sources, entries, idx, base>>
        /\ asked' = [asked EXCEPT ![p] = d]
        /\ pc[p] # "idle" /\ \A q \in Procs \ {p} : pc'[q] = pc[q]
    BY DEF UInv, TypeOK, Save, S!Ask, Goto, gvars
  <1>6. \A q \in Procs : asked'[q] # None => Good(asked'[q])
    BY <1>4, <1>5 DEF UInv, TypeOK
  <1> QED
    BY <1>1, <1>5, <1>6 DEF UInv, Readable

\* The end of a save: the store is what was asked, or what it was.
LEMMA SavedInv ==
  ASSUME UInv, NEW p \in Procs, SaveFails(p) \/ Saved(p)
  PROVE  UInv'
  <1>1. TypeOK'
    BY SaveTypes DEF UInv
  <1>2. /\ UNCHANGED <<prev, sources, entries, idx, base>>
        /\ asked' = [asked EXCEPT ![p] = None]
        /\ content' = content \/ (content' = asked[p] /\ asked[p] # None)
        /\ pc[p] # "idle" /\ \A q \in Procs \ {p} : pc'[q] = pc[q]
    BY DEF UInv, TypeOK, SaveFails, Saved, S!GiveUp, S!Put, UpdateFails, End, Goto,
           gvars
  <1>3. \A q \in Procs : asked'[q] # None => Good(asked'[q])
    BY <1>2 DEF UInv, TypeOK
  <1>4. Readable' => Good(content')
    BY <1>2 DEF UInv, Readable
  <1> QED
    BY <1>1, <1>2, <1>3, <1>4 DEF UInv

\* A process that starts, finishes or dies takes nothing gathered with it.
LEMMA StartInv ==
  ASSUME UInv, NEW p \in Procs, NEW c \in Commands, NEW o \in Origins, Start(p, c, o)
  PROVE  UInv'
  <1>1. /\ UNCHANGED <<content, asked, prev, sources, entries, idx>>
        /\ base' = [base EXCEPT ![p] = o]
        /\ \A q \in Procs \ {p} : pc'[q] = pc[q]
    BY DEF UInv, TypeOK, Start, Goto, svars, gvars
  <1>2. TypeOK'
    BY SetsAssumption DEF UInv, TypeOK, Start, Goto, svars, gvars
  <1> QED
    BY <1>1, <1>2 DEF UInv, TypeOK, Readable

LEMMA ResetInv ==
  ASSUME UInv, NEW p \in Procs, Finish(p) \/ Kill(p)
  PROVE  UInv'
  <1>1. TypeOK'
    BY SaveTypes, ResetTypes DEF UInv, TypeOK, Finish, svars
  <1>2. /\ content' = content
        /\ \A q \in Procs : asked'[q] # None => asked'[q] = asked[q]
        /\ Reset(p)
    BY DEF UInv, TypeOK, Finish, Kill, S!GiveUp, svars
  <1>3. Gathered({}, {}, 1)
    BY DEF Gathered, Coherent
  <1>4. ASSUME NEW q \in Procs
        PROVE  /\ prev'[q] # None => Good(prev'[q])
               /\ Gathered(sources'[q], entries'[q], idx'[q])
               /\ pc'[q] # "idle" => base'[q] \in Origins
    <2>1. CASE q = p
      BY <1>2, <1>3, <2>1 DEF UInv, TypeOK, Reset
    <2>2. CASE q # p
      <3>1. /\ prev'[q] = prev[q] /\ pc'[q] = pc[q] /\ base'[q] = base[q]
            /\ sources'[q] = sources[q] /\ entries'[q] = entries[q]
            /\ idx'[q] = idx[q]
        BY <1>2, <2>2 DEF UInv, TypeOK, Reset
      <3> QED
        BY <3>1 DEF UInv
    <2> QED
      BY <2>1, <2>2
  <1> QED
    BY <1>1, <1>2, <1>4 DEF UInv, Readable

LEMMA WorldInv ==
  ASSUME UInv,
         \/ \E o \in Origins, r \in Registries : Publish(o, r)
         \/ Tick \/ RemoveStore \/ DamageStore
  PROVE  UInv'
  <1>1. TypeOK'
    BY WorldTypes DEF UInv
  <1>2. /\ UNCHANGED <<asked, prev, sources, entries, idx, pc, base>>
        /\ content' \in {content, None, Torn}
    BY DEF Publish, Tick, RemoveStore, DamageStore, svars, gvars
  <1> QED
    BY <1>1, <1>2 DEF UInv, Readable

\* No exchange of any process, whatever the origin answers and whoever touches
\* the store, parts rows from the validators they came with (Update, fetchRegistry).
THEOREM UNextInv == UInv /\ [Next]_vars => UInv'
  <1> SUFFICES ASSUME UInv, [Next]_vars PROVE UInv'
    OBVIOUS
  <1>1. CASE UNCHANGED vars
    BY <1>1 DEF vars, UInv, TypeOK, Readable
  <1>2. ASSUME NEW p \in Procs, Starts(p) PROVE UInv'
    BY <1>2, StartInv DEF Starts
  <1>3. ASSUME NEW p \in Procs, Step(p) PROVE UInv'
    BY <1>3, LoadInv, FetchInv, SaveInv, SavedInv DEF Step
  <1>4. ASSUME NEW p \in Procs, Finish(p) \/ Kill(p) PROVE UInv'
    BY <1>4, ResetInv
  <1>5. CASE \/ \E o \in Origins, r \in Registries : Publish(o, r)
             \/ Tick \/ RemoveStore \/ DamageStore
    BY <1>5, WorldInv
  <1> QED
    BY <1>1, <1>2, <1>3, <1>4, <1>5 DEF Next

\* So the store and all that is on its way to it are coherent throughout.
THEOREM UInvariant == Spec => []UInv
  BY UInitInv, UNextInv, PTL DEF Spec

\* The variables keep their types: no step counts past RegistryFiles, past the
\* clock or past the published versions.
THEOREM UTypeCorrect == Spec => []TypeOK
  <1>1. UInv => TypeOK
    BY DEF UInv
  <1> QED
    BY <1>1, UInvariant, PTL

\* However many processes update, fail, fall back, die or change their base URL,
\* and whoever renames last, the validators of the store certify its rows.
THEOREM StoreAlwaysCoherent == Spec => []StoreCoherent
  <1>1. UInv => StoreCoherent
    BY DEF UInv, Good, StoreCoherent
  <1> QED
    BY <1>1, UInvariant, PTL

\* A readable store has MA-L.
THEOREM MALAlwaysPresent == Spec => []RequiredPresent
  <1>1. UInv => RequiredPresent
    BY DEF UInv, Good, RequiredPresent
  <1> QED
    BY <1>1, UInvariant, PTL
-----------------------------------------------------------------------------
\* Each step of a process asks for a save, ends one, or leaves the store alone.
LEMMA UsesStore ==
  ASSUME UInv, [Next]_vars, Faults \cap {"remove", "damage"} = {}
  PROVE  [S!ANext]_(S!avars)
  <1> USE DEF S!avars, svars
  <1>1. CASE UNCHANGED vars
    BY <1>1 DEF vars
  <1>2. ASSUME NEW p \in Procs, Save(p) PROVE \E d \in DB : S!Ask(p, d)
    <2>1. [gen |-> now, sources |-> sources[p], entries |-> entries[p]] \in DB
      BY DEF UInv, TypeOK, DB
    <2> QED
      BY <1>2, <2>1 DEF Save
  <1>3. ASSUME NEW p \in Procs, SaveFails(p) \/ Saved(p) PROVE S!GiveUp(p) \/ S!Put(p)
    BY <1>3 DEF SaveFails, Saved
  <1>4. ASSUME NEW p \in Procs, Kill(p) PROVE S!GiveUp(p) \/ UNCHANGED svars
    BY <1>4 DEF Kill
  <1>5. ASSUME NEW p \in Procs,
               \/ PlainLoad(p) \/ FreshEnough(p) \/ NeedsRefresh(p) \/ LoadCorrupt(p)
               \/ LoadPrev(p) \/ Reload(p) \/ Starts(p) \/ Finish(p)
        PROVE  UNCHANGED svars
    BY <1>5 DEF PlainLoad, FreshEnough, NeedsRefresh, LoadCorrupt, LoadPrev, Reload,
                Starts, Start, Finish
  <1>6. ASSUME NEW p \in Procs,
               \/ FetchBody(p) \/ FetchBadBody(p) \/ FetchFails(p)
               \/ NotModified(p) \/ NotModifiedAgain(p)
        PROVE  UNCHANGED svars
    BY <1>6 DEF FetchBody, FetchBadBody, FetchFails, NotModified, NotModifiedAgain,
                KeepCached, Unobtained, Obtained
  <1>7. ASSUME (\E o \in Origins, r \in Registries : Publish(o, r)) \/ Tick
        PROVE  UNCHANGED svars
    BY <1>7 DEF Publish, Tick
  <1> HIDE DEF svars
  <1> QED
    BY <1>1, <1>2, <1>3, <1>4, <1>5, <1>6, <1>7
       DEF Next, Step, S!ANext, RemoveStore, DamageStore, svars

\* Unless someone deletes or damages the store by hand, commands do nothing to it
\* but what AtomicStore has writers do, which WriteStore and McpDatabase are
\* proved to implement: the three models are about one store.
THEOREM UpdateUsesAtomicStore ==
    Faults \cap {"remove", "damage"} = {} => (Spec => S!ASpec)
  <1> SUFFICES ASSUME Faults \cap {"remove", "damage"} = {} PROVE Spec => S!ASpec
    OBVIOUS
  <1>1. Init => S!AInit
    BY DEF Init, S!AInit
  <1>2. UInv /\ [Next]_vars => [S!ANext]_(S!avars)
    BY UsesStore
  <1> QED
    BY <1>1, <1>2, UInvariant, PTL DEF Spec, S!ASpec
-----------------------------------------------------------------------------
\* How many exchanges p may still have before its command is over: two for each
\* registry not yet gathered, and those before and after the loop.
Left(p) == 2 * (Len(RegistryFiles) + 1 - idx[p])
Work(p) == CASE pc[p] = "idle"    -> 0
             [] pc[p] = "done"    -> 1
             [] pc[p] = "plain"   -> 2
             [] pc[p] = "reload"  -> 2
             [] pc[p] = "write"   -> 3
             [] pc[p] = "refetch" -> 3 + Left(p)
             [] pc[p] = "fetch"   -> 4 + Left(p)
             [] pc[p] = "load"    -> 5 + Left(p)
             [] pc[p] = "ensure"  -> 6 + Left(p)

\* Every exchange leaves less of a command to do, and nothing that others do, to
\* the store, to the origins or to the clock, makes it more.
Dwindles ==
    [][\A p \in Procs : /\ Step(p) \/ Finish(p) => Work(p)' < Work(p)
                        /\ pc[p] # "idle" => Work(p)' <= Work(p)]_vars

LEMMA LeftType == TypeOK => \A p \in Procs : Left(p) \in 0 .. 2 * Len(RegistryFiles)
  BY RegistriesLemma DEF TypeOK, Left

LEMMA WorkType ==
  ASSUME TypeOK, NEW p \in Procs
  PROVE  /\ Work(p) \in 0 .. 6 + 2 * Len(RegistryFiles)
         /\ pc[p] # "idle" => Work(p) # 0
  <1>1. Left(p) \in 0 .. 2 * Len(RegistryFiles) /\ pc[p] \in PC
    BY LeftType DEF TypeOK
  <1> DEFINE l == Left(p)
             n == Len(RegistryFiles)
  <1>2. Work(p) \in {0, 1, 2, 3, 3 + l, 4 + l, 5 + l, 6 + l} /\ (pc[p] # "idle" => Work(p) # 0)
    BY <1>1 DEF Work
  <1>3. n \in Nat
    BY RegistriesLemma
  <1> HIDE DEF l, n
  <1>4. \A x \in {0, 1, 2, 3, 3 + l, 4 + l, 5 + l, 6 + l} : x \in 0 .. 6 + 2 * n
    BY <1>1, <1>3 DEF l, n
  <1> QED
    BY <1>2, <1>4 DEF n

LEMMA EndsSooner ==
  ASSUME TypeOK, NEW p \in Procs, NEW outcome, pc[p] \notin {"idle", "done"}, End(p, outcome)
  PROVE  Work(p)' < Work(p)
  BY LeftType DEF TypeOK, End, Work

\* The loop goes to the next registry.
LEMMA NextSooner ==
  ASSUME TypeOK, NEW p \in Procs, Fetching(p), NEW way, NEW src, NEW got,
         Obtained(p, way, src, got)
  PROVE  Work(p)' < Work(p)
  <1>1. pc'[p] = "fetch" /\ idx'[p] = idx[p] + 1 /\ pc[p] \in {"fetch", "refetch"}
    BY DEF TypeOK, Obtained, Goto, Fetching
  <1>2. idx[p] \in Int /\ Len(RegistryFiles) \in Int
    BY RegistriesLemma DEF TypeOK
  <1>3. Left(p)' = Left(p) - 2 /\ Left(p) \in Int
    <2>1. \A n, i \in Int : 2 * (n + 1 - (i + 1)) = 2 * (n + 1 - i) - 2 /\ 2 * (n + 1 - i) \in Int
      OBVIOUS
    <2> QED
      BY <1>1, <1>2, <2>1, Zenon DEF Left
  <1>4. Work(p) \in {3 + Left(p), 4 + Left(p)}
    <2>1. CASE pc[p] = "fetch"
      BY <2>1 DEF Work
    <2>2. CASE pc[p] = "refetch"
      BY <2>2 DEF Work
    <2> QED
      BY <1>1, <2>1, <2>2
  <1>5. Work(p)' = 4 + Left(p)'
    BY <1>1 DEF Work
  <1> QED
    BY <1>3, <1>4, <1>5

LEMMA FetchSooner ==
  ASSUME TypeOK, NEW p \in Procs,
         \/ FetchBody(p) \/ FetchBadBody(p) \/ FetchFails(p)
         \/ NotModified(p) \/ NotModifiedAgain(p)
  PROVE  Work(p)' < Work(p)
  <1>1. Fetching(p) /\ pc[p] \notin {"idle", "done"}
    BY DEF Fetching, FetchBody, FetchBadBody, FetchFails, NotModified, NotModifiedAgain
  <1>2. ASSUME Unobtained(p) PROVE Work(p)' < Work(p)
    BY <1>1, <1>2, EndsSooner, NextSooner DEF Unobtained, UpdateFails
  <1>3. ASSUME NEW way, KeepCached(p, way) PROVE Work(p)' < Work(p)
    BY <1>1, <1>3, NextSooner DEF KeepCached
  <1>4. CASE FetchBody(p)
    BY <1>1, <1>4, NextSooner DEF FetchBody
  <1>5. CASE FetchBadBody(p) \/ FetchFails(p)
    BY <1>2, <1>3, <1>5 DEF FetchBadBody, FetchFails
  <1>6. CASE NotModified(p) /\ ~Cached(p)
    <2>1. pc[p] = "fetch" /\ pc'[p] = "refetch" /\ idx'[p] = idx[p]
      BY <1>6 DEF TypeOK, NotModified, Goto, gvars
    <2> QED
      BY <2>1, LeftType DEF Work, Left
  <1>7. CASE (NotModified(p) /\ Cached(p)) \/ NotModifiedAgain(p)
    BY <1>1, <1>3, <1>7, EndsSooner DEF NotModified, NotModifiedAgain
  <1> QED
    BY <1>4, <1>5, <1>6, <1>7

LEMMA StepSooner ==
  ASSUME TypeOK, NEW p \in Procs, Step(p)
  PROVE  Work(p)' < Work(p)
  <1>1. CASE PlainLoad(p) \/ FreshEnough(p) \/ LoadCorrupt(p) \/ SaveFails(p) \/ Reload(p)
    BY <1>1, EndsSooner
       DEF PlainLoad, FreshEnough, LoadCorrupt, SaveFails, UpdateFails, Reload
  <1>2. CASE Saved(p)
    <2>1. CASE op[p] = "update"
      BY <1>2, <2>1, EndsSooner DEF Saved
    <2>2. CASE op[p] # "update"
      BY <1>2, <2>2 DEF Saved, Goto, TypeOK, Work
    <2> QED
      BY <2>1, <2>2
  <1>3. CASE NeedsRefresh(p)
    <2>1. pc[p] = "ensure" /\ pc'[p] = "load" /\ idx'[p] = idx[p]
      BY <1>3 DEF NeedsRefresh, Goto, TypeOK, gvars
    <2> QED
      BY <2>1, LeftType DEF Work, Left
  <1>4. CASE LoadPrev(p)
    <2>1. pc[p] = "load" /\ pc'[p] = "fetch" /\ idx'[p] = idx[p]
      BY <1>4 DEF LoadPrev, Goto, TypeOK
    <2> QED
      BY <2>1, LeftType DEF Work, Left
  <1>5. CASE Save(p)
    <2>1. pc[p] = "fetch" /\ pc'[p] = "write"
      BY <1>5 DEF Save, Goto, TypeOK
    <2> QED
      BY <2>1, LeftType DEF Work
  <1> QED
    BY <1>1, <1>2, <1>3, <1>4, <1>5, FetchSooner DEF Step

\* What is not p's own leaves p's work alone.
LEMMA OthersLeave ==
  ASSUME TypeOK, [Next]_vars, NEW p \in Procs, pc[p] # "idle",
         ~Step(p), ~Finish(p), ~Kill(p)
  PROVE  pc'[p] = pc[p] /\ idx'[p] = idx[p]
  <1>1. CASE UNCHANGED vars
    BY <1>1 DEF vars
  <1>2. ASSUME NEW q \in Procs, Starts(q) PROVE pc'[p] = pc[p] /\ idx'[p] = idx[p]
    BY <1>2 DEF Starts, Start, Goto, TypeOK, gvars
  <1>3. ASSUME NEW q \in Procs \ {p}, Step(q) PROVE pc'[p] = pc[p] /\ idx'[p] = idx[p]
    BY <1>3 DEF Step, PlainLoad, FreshEnough, NeedsRefresh, LoadCorrupt, LoadPrev, FetchBody,
                FetchBadBody, FetchFails, NotModified, NotModifiedAgain, KeepCached,
                Unobtained, Obtained, UpdateFails, Save, SaveFails, Saved, Reload, End, Goto,
                TypeOK, gvars
  <1>4. ASSUME NEW q \in Procs \ {p}, Finish(q) \/ Kill(q)
        PROVE  pc'[p] = pc[p] /\ idx'[p] = idx[p]
    BY <1>4 DEF Finish, Kill, Reset, TypeOK
  <1>5. CASE \/ \E o \in Origins, r \in Registries : Publish(o, r)
             \/ Tick \/ RemoveStore \/ DamageStore
    BY <1>5 DEF Publish, Tick, RemoveStore, DamageStore, gvars
  <1> QED
    BY <1>1, <1>2, <1>3, <1>4, <1>5 DEF Next

\* The core of CommandsEnd, for any number of registries and processes and with
\* every fault: a command is over after at most 6 + 2 * Len(RegistryFiles)
\* exchanges.  That each of them happens is the fairness TLC assumes.
THEOREM CommandsBounded ==
  Spec => /\ Dwindles
          /\ [](\A p \in Procs : /\ Work(p) \in 0 .. 6 + 2 * Len(RegistryFiles)
                                 /\ pc[p] # "idle" => Work(p) # 0)
  <1>1. ASSUME UInv, [Next]_vars, NEW p \in Procs
        PROVE  /\ Step(p) \/ Finish(p) => Work(p)' < Work(p)
               /\ pc[p] # "idle" => Work(p)' <= Work(p)
    <2>1. TypeOK /\ TypeOK'
      BY <1>1, UNextInv DEF UInv
    <2>2. Work(p) \in Nat /\ (pc[p] # "idle" => Work(p) > 0)
      BY <2>1, WorkType, RegistriesLemma
    <2>3. Work(p)' \in Nat /\ (pc'[p] = "idle" => Work(p)' = 0)
      <3>1. pc'[p] \in PC /\ Left(p)' \in Nat
        BY <2>1, RegistriesLemma DEF TypeOK, Left
      <3> QED
        BY <3>1 DEF Work
    <2>4. CASE Step(p)
      BY <2>1, <2>2, <2>4, <2>3, StepSooner
    <2>5. CASE Finish(p) \/ Kill(p)
      <3>1. pc'[p] = "idle" /\ pc[p] # "idle"
        BY <2>1, <2>5 DEF Finish, Kill, Reset, TypeOK
      <3> QED
        BY <2>2, <2>3, <3>1
    <2>6. CASE ~Step(p) /\ ~Finish(p) /\ ~Kill(p) /\ pc[p] # "idle"
      <3>1. Work(p)' = Work(p)
        BY <1>1, <2>1, <2>6, OthersLeave DEF Work, Left
      <3> QED
        BY <2>2, <2>6, <3>1
    <2> QED
      BY <2>4, <2>5, <2>6
  <1>2. UInv /\ [Next]_vars
           => \A p \in Procs : /\ Step(p) \/ Finish(p) => Work(p)' < Work(p)
                               /\ pc[p] # "idle" => Work(p)' <= Work(p)
    BY <1>1
  <1>3. TypeOK => \A p \in Procs : /\ Work(p) \in 0 .. 6 + 2 * Len(RegistryFiles)
                                   /\ pc[p] # "idle" => Work(p) # 0
    BY WorkType
  <1> QED
    BY <1>2, <1>3, UInvariant, UTypeCorrect, PTL DEF Spec, Dwindles
=============================================================================
