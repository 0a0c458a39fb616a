------------------------ MODULE UpdateResult_proofs ------------------------
(***************************************************************************)
(* What Update tells of its own work: that UpdateResult is true, for any   *)
(* number of processes; for which registries it can run into a missing     *)
(* body; how old an answer can be; and that no save loses what its Update  *)
(* started from.                                                           *)
(***************************************************************************)
EXTENDS Update_proofs

USE DEF PC, How, Results, AllCommands

\* What UpdateResult says of registry r is true of what p has gathered.
Tells(p, r) ==
    /\ how[p][r] # "pending"
    /\ how[p][r] \in {"downloaded", "unchanged"} =>
          \E v \in Version : /\ v >= began[p].upstream[base[p]][r]
                            /\ RowsIn(entries[p], r) = RowsOf(r, base[p], v)
    /\ how[p][r] = "fallback" =>
          RowsIn(entries[p], r) = EntriesOf(prev[p], r) /\ RowsIn(entries[p], r) # {}
    /\ how[p][r] = "dropped" =>
          RowsIn(entries[p], r) = {} /\ \A s \in sources[p] : s.reg # r

Gathers(p, d) == /\ d # None /\ d.sources = sources[p] /\ d.entries = entries[p]
                 /\ idx[p] = Len(RegistryFiles) + 1

\* The origin only ever publishes newer versions, the loop tells the truth of the
\* registries it is past, and what is saved and returned is what it gathered.
Telling(p) ==
    /\ \A o \in Origins, r \in Registries : began[p].upstream[o][r] <= upstream[o][r]
    /\ pc[p] \in {"idle", "ensure", "load"} => idx[p] = 1
    /\ pc[p] # "done" => result[p] # "updated"
    /\ pc[p] \in {"fetch", "refetch", "write"} \/ result[p] = "updated" =>
          \A k \in 1 .. idx[p] - 1 : Tells(p, RegistryFiles[k])
    /\ pc[p] = "write" => Gathers(p, asked[p])
    /\ result[p] = "updated" => Gathers(p, db[p])

\* A step that is none of q's.
Kept(q) == /\ pc'[q] = pc[q] /\ result'[q] = result[q] /\ idx'[q] = idx[q]
           /\ sources'[q] = sources[q] /\ entries'[q] = entries[q] /\ how'[q] = how[q]
           /\ prev'[q] = prev[q] /\ base'[q] = base[q] /\ began'[q] = began[q]
           /\ db'[q] = db[q] /\ asked'[q] = asked[q]

Rising == /\ \A o \in Origins, r \in Registries : upstream'[o][r] >= upstream[o][r]
          /\ now' >= now

LEMMA PublishedRises == TypeOK /\ [Next]_vars => Rising
<1>. SUFFICES ASSUME TypeOK, [Next]_vars PROVE Rising
  OBVIOUS
<1>0. now \in Int /\ \A o \in Origins, r \in Registries : upstream[o][r] \in Int
  BY BoundsAssumption DEF TypeOK, Version, Time
<1>1. CASE upstream' = upstream /\ now' = now
  BY <1>0, <1>1 DEF Rising
<1>2. CASE Tick
  BY <1>0, <1>2 DEF Rising, Tick
<1>3. ASSUME NEW o \in Origins, NEW r \in Registries, Publish(o, r) PROVE Rising
  <2>1. \A a \in Origins, b \in Registries :
           upstream'[a][b] = upstream[a][b] \/ upstream'[a][b] = upstream[a][b] + 1
    BY <1>3 DEF Publish, TypeOK
  <2>. QED BY <1>0, <1>3, <2>1 DEF Rising, Publish
<1>4. ASSUME NEW p \in Procs, Step(p) PROVE upstream' = upstream /\ now' = now
  BY <1>4 DEF Step, PlainLoad, FreshEnough, NeedsRefresh, LoadCorrupt, LoadPrev, FetchBody,
     FetchBadBody, FetchFails, NotModified, NotModifiedAgain, Save, SaveFails, Saved, Reload,
     KeepCached, Unobtained, Obtained
<1>. QED BY <1>1, <1>2, <1>3, <1>4 DEF Next, Starts, Start, Finish, Kill,
                                      RemoveStore, DamageStore, vars

LEMMA KeptTells ==
    ASSUME TypeOK, TypeOK', Rising, NEW q \in Procs, Telling(q), Kept(q)
    PROVE  Telling(q)'
<1>1. \A o \in Origins, r \in Registries : began'[q].upstream[o][r] <= upstream'[o][r]
  <2>1. TAKE o \in Origins, r \in Registries
  <2>2. /\ began[q].upstream[o][r] \in Int /\ upstream[o][r] \in Int /\ upstream'[o][r] \in Int
    BY BoundsAssumption DEF TypeOK, Version
  <2>. QED BY <2>2 DEF Rising, Kept, Telling
<1>2. \A r : Tells(q, r) => Tells(q, r)'
  BY DEF Kept, Tells
<1>3. (pc[q] \in {"fetch", "refetch", "write"} \/ result[q] = "updated" =>
          \A k \in 1 .. idx[q] - 1 : Tells(q, RegistryFiles[k]))'
  BY <1>2 DEF Kept, Telling
<1>4. \A d : Gathers(q, d) => Gathers(q, d)'
  BY DEF Gathers, Kept
<1>. QED BY <1>1, <1>3, <1>4 DEF Telling, Kept, Gathers

\* The loop's step: what is told of the registry it is at becomes true, what was
\* told of the others stays so.
LEMMA ObtainedTells ==
    ASSUME UInv, NEW p \in Procs, Fetching(p), Telling(p),
           NEW way \in How \ {"pending"}, NEW src, NEW got, Obtained(p, way, src, got),
           \A s \in src : s.reg = Reg(p), \A e \in got : e.reg = Reg(p),
           way \in {"downloaded", "unchanged"} =>
              \E v \in Version : /\ v >= began[p].upstream[base[p]][Reg(p)]
                                /\ got = RowsOf(Reg(p), base[p], v),
           way = "fallback" => got = EntriesOf(prev[p], Reg(p)) /\ got # {},
           way = "dropped" => src = {} /\ got = {}
    PROVE  Telling(p)'
<1>1. /\ Reg(p) \in Registries /\ idx[p] \in 1 .. Len(RegistryFiles)
      /\ Reg(p) = RegistryFiles[idx[p]] /\ Len(RegistryFiles) \in Nat
  BY RegType, RegistriesLemma DEF UInv, Reg
<1>2. /\ sources'[p] = sources[p] \cup src /\ entries'[p] = entries[p] \cup got
      /\ how'[p][Reg(p)] = way /\ idx'[p] = idx[p] + 1
      /\ \A r \in Registries \ {Reg(p)} : how'[p][r] = how[p][r]
      /\ pc'[p] = "fetch" /\ UNCHANGED <<result, upstream, base, prev, began, asked, db>>
  BY <1>1 DEF Obtained, Goto, UInv, TypeOK, svars
<1>3. /\ \A s \in sources[p] : s.reg # Reg(p)
      /\ \A e \in entries[p] : e.reg # Reg(p)
  <2>1. Gathered(sources[p], entries[p], idx[p])
    BY DEF UInv
  <2>2. \A s \in sources[p] : s.reg # Reg(p)
    <3>1. SUFFICES ASSUME NEW s \in sources[p] PROVE s.reg # Reg(p)
      OBVIOUS
    <3>2. PICK k \in 1 .. idx[p] - 1 : s.reg = RegistryFiles[k]
      BY <2>1 DEF Gathered
    <3>3. k \in 1 .. Len(RegistryFiles) /\ k # idx[p]
      BY <1>1
    <3>. QED BY <1>1, <3>2, <3>3, RegistriesAssumption
  <2>. QED BY <2>1, <2>2 DEF Gathered, Coherent
<1>4. /\ RowsIn(entries'[p], Reg(p)) = got
      /\ \A r : r # Reg(p) => RowsIn(entries'[p], r) = RowsIn(entries[p], r)
      /\ \A r : r # Reg(p) /\ (\A s \in sources[p] : s.reg # r) => \A s \in sources'[p] : s.reg # r
  BY <1>2, <1>3 DEF RowsIn
<1>5. \A r : r = Reg(p) => Tells(p, r)'
  <2>1. way = "dropped" => \A s \in sources'[p] : s.reg # Reg(p)
    BY <1>2, <1>3
  <2>. QED BY <1>2, <1>4, <2>1 DEF Tells
<1>6. \A r \in Registries : r # Reg(p) /\ Tells(p, r) => Tells(p, r)'
  BY <1>2, <1>4 DEF Tells
<1>7. \A k \in 1 .. idx'[p] - 1 : Tells(p, RegistryFiles[k])'
  <2>1. SUFFICES ASSUME NEW k \in 1 .. idx'[p] - 1, NEW r, r = RegistryFiles[k]
                 PROVE  Tells(p, r)'
    OBVIOUS
  <2>2. CASE k = idx[p]
    BY <1>1, <1>5, <2>1, <2>2
  <2>3. CASE k # idx[p]
    <3>1. k \in 1 .. idx[p] - 1 /\ k \in 1 .. Len(RegistryFiles)
      BY <1>1, <1>2, <2>3
    <3>2. r \in Registries /\ r # Reg(p)
      BY <1>1, <2>1, <2>3, <3>1, RegistriesAssumption DEF Registries
    <3>3. Tells(p, r)
      BY <2>1, <3>1 DEF Telling, Fetching
    <3>. QED BY <1>6, <3>2, <3>3
  <2>. QED BY <2>2, <2>3
<1>8. pc[p] # "done" /\ result'[p] # "updated"
  BY <1>2 DEF Fetching, Telling
<1>. QED BY <1>2, <1>7, <1>8 DEF Telling

\* What Update fails with is never told as an update.
LEMMA EndTells ==
    ASSUME TypeOK, NEW p \in Procs, Telling(p), NEW outcome \in Results \ {"updated"},
           End(p, outcome), UNCHANGED <<upstream, began>>
    PROVE  Telling(p)'
<1>1. pc'[p] = "done" /\ result'[p] = outcome
  BY DEF End, TypeOK
<1>. QED BY <1>1 DEF Telling

LEMMA UnobtainedTells ==
    ASSUME UInv, NEW p \in Procs, Fetching(p), Telling(p), Unobtained(p)
    PROVE  Telling(p)'
<1>1. CASE Reg(p) = MAL
  BY <1>1, EndTells DEF UInv, Unobtained, UpdateFails, gvars
<1>2. CASE Reg(p) # MAL
  <2>1. Obtained(p, "dropped", {}, {})
    BY <1>2 DEF Unobtained
  <2>. QED BY <2>1, ObtainedTells
<1>. QED BY <1>1, <1>2

\* The copy kept of a registry is the previous one; after a 304 it is also what
\* the origin publishes, since the validator sent with the request came from a
\* coherent store.
LEMMA KeepCachedTells ==
    ASSUME UInv, NEW p \in Procs, Fetching(p), Telling(p), Cached(p),
           NEW way \in {"fallback", "unchanged"}, KeepCached(p, way),
           way = "unchanged" => Validates(p)
    PROVE  Telling(p)'
<1>1. /\ Obtained(p, way, HeldSources(p), EntriesOf(prev[p], Reg(p)))
      /\ prev[p] # None /\ Good(prev[p]) /\ base[p] \in Origins
  BY DEF KeepCached, Cached, HeldSources, SourcesOf, UInv, Fetching
<1>2. /\ \A s \in HeldSources(p) : s.reg = Reg(p)
      /\ \A e \in EntriesOf(prev[p], Reg(p)) : e.reg = Reg(p)
  BY DEF HeldSources, SourcesOf, EntriesOf, RowsIn
<1>3. ASSUME way = "unchanged"
      PROVE  \E v \in Version : /\ v >= began[p].upstream[base[p]][Reg(p)]
                                /\ EntriesOf(prev[p], Reg(p)) = RowsOf(Reg(p), base[p], v)
  <2>1. Published(p) \in Version /\ Published(p) # None
    <3>1. Published(p) \in Version /\ Version \subseteq Int
      BY <1>1, RegType DEF UInv, TypeOK, Published, Version
    <3>. QED BY <3>1, NoneAssumption
  <2>2. PICK s \in HeldSources(p) : s.tag = Published(p)
    BY <1>3 DEF Validates
  <2>3. s \in prev[p].sources /\ s.reg = Reg(p) /\ s.url = base[p]
    BY <1>1 DEF HeldSources, SourcesOf
  <2>4. EntriesOf(prev[p], Reg(p)) = RowsOf(Reg(p), base[p], Published(p))
    BY <1>1, <2>1, <2>2, <2>3 DEF Good, Coherent, EntriesOf
  <2>5. Published(p) >= began[p].upstream[base[p]][Reg(p)]
    BY <1>1, RegType, BoundsAssumption DEF Telling, Published, UInv, TypeOK, Version
  <2>. QED BY <2>1, <2>4, <2>5
<1>4. EntriesOf(prev[p], Reg(p)) # {}
  BY DEF Cached
<1>. QED BY <1>1, <1>2, <1>3, <1>4, ObtainedTells

LEMMA FetchTells ==
    ASSUME "bad304" \notin Faults, UInv, NEW p \in Procs, Telling(p),
           \/ FetchBody(p) \/ FetchBadBody(p) \/ FetchFails(p)
           \/ NotModified(p) \/ NotModifiedAgain(p)
    PROVE  Telling(p)'
<1>1. CASE FetchBody(p)
  <2>1. Fetching(p) /\ base[p] \in Origins
    BY <1>1 DEF FetchBody, UInv, Fetching
  <2>2. Published(p) \in Version /\ Published(p) >= began[p].upstream[base[p]][Reg(p)]
    BY <2>1, BodyTypes, RegType, BoundsAssumption DEF Telling, Published, UInv, TypeOK, Version
  <2>3. \A e \in RowsOf(Reg(p), base[p], Published(p)) : e.reg = Reg(p)
    BY DEF RowsOf
  <2>. QED BY <1>1, <2>1, <2>2, <2>3, ObtainedTells DEF FetchBody
<1>2. CASE FetchBadBody(p)
  BY <1>2, UnobtainedTells DEF FetchBadBody
<1>3. CASE FetchFails(p)
  BY <1>3, UnobtainedTells, KeepCachedTells DEF FetchFails
<1>4. CASE NotModified(p) /\ Cached(p)
  BY <1>4, KeepCachedTells DEF NotModified
<1>5. CASE NotModified(p) /\ ~Cached(p)
  <2>1. /\ pc'[p] = "refetch" /\ pc[p] = "fetch"
        /\ UNCHANGED <<result, idx, sources, entries, how, prev, base, began, db, asked, upstream>>
    BY <1>5 DEF NotModified, Goto, svars, gvars, UInv, TypeOK
  <2>. QED BY <2>1 DEF Telling, Tells, Gathers
<1>. QED BY <1>1, <1>2, <1>3, <1>4, <1>5 DEF NotModifiedAgain

\* Update starts: nothing is published yet that it could miss.
LEMMA LoadTells ==
    ASSUME UInv, NEW p \in Procs, Telling(p),
           \/ PlainLoad(p) \/ FreshEnough(p) \/ NeedsRefresh(p) \/ LoadCorrupt(p)
           \/ LoadPrev(p) \/ Reload(p)
    PROVE  Telling(p)'
<1>1. CASE PlainLoad(p) \/ LoadCorrupt(p) \/ Reload(p)
  BY <1>1, EndTells DEF PlainLoad, LoadCorrupt, Reload, UInv, gvars
<1>2. /\ \A o \in Origins, r \in Registries : upstream[o][r] <= upstream[o][r]
      /\ (LoadPrev(p) \/ FreshEnough(p)) => began'[p].upstream = upstream
  BY BoundsAssumption DEF LoadPrev, FreshEnough, UInv, TypeOK, Version
<1>3. CASE FreshEnough(p)
  <2>1. pc'[p] = "done" /\ result'[p] = "answered" /\ upstream' = upstream
    BY <1>3 DEF FreshEnough, End, UInv, TypeOK
  <2>. QED BY <1>2, <1>3, <2>1 DEF Telling
<1>4. CASE NeedsRefresh(p)
  <2>1. pc[p] = "ensure" /\ pc'[p] = "load" /\ UNCHANGED <<result, idx, began, upstream>>
    BY <1>4 DEF NeedsRefresh, Goto, gvars, UInv, TypeOK
  <2>. QED BY <2>1 DEF Telling
<1>5. CASE LoadPrev(p)
  <2>1. pc[p] = "load" /\ pc'[p] = "fetch" /\ UNCHANGED <<result, idx, upstream>>
    BY <1>5 DEF LoadPrev, Goto, UInv, TypeOK
  <2>. QED BY <1>2, <1>5, <2>1 DEF Telling
<1>. QED BY <1>1, <1>3, <1>4, <1>5

LEMMA SaveTells ==
    ASSUME UInv, NEW p \in Procs, Telling(p), Save(p) \/ SaveFails(p) \/ Saved(p)
    PROVE  Telling(p)'
<1>. USE DEF Goto, gvars, svars
<1>1. CASE Save(p)
  <2> DEFINE d == [gen |-> now, sources |-> sources[p], entries |-> entries[p]]
  <2>1. /\ pc[p] = "fetch" /\ pc'[p] = "write" /\ asked'[p] = d
        /\ idx[p] = Len(RegistryFiles) + 1
        /\ UNCHANGED <<result, idx, sources, entries, how, prev, base, began, db, upstream>>
    BY <1>1, RegistriesLemma DEF Save, S!Ask, UInv, TypeOK
  <2>2. d # None
    BY NoneAssumption DEF UInv, TypeOK, DB
  <2>. QED BY <2>1, <2>2 DEF Telling, Tells, Gathers
<1>2. CASE SaveFails(p)
  BY <1>2, EndTells DEF SaveFails, UpdateFails, UInv
<1>3. CASE Saved(p)
  <2>1. /\ pc[p] = "write"
        /\ UNCHANGED <<idx, sources, entries, how, prev, base, began, upstream>>
        /\ \/ pc'[p] = "done" /\ result'[p] = "updated" /\ db'[p] = asked[p]
           \/ pc'[p] = "reload" /\ UNCHANGED result
    BY <1>3 DEF Saved, End, UInv, TypeOK
  <2>. QED BY <2>1 DEF Telling, Tells, Gathers
<1>. QED BY <1>1, <1>2, <1>3

LEMMA StartTells ==
    ASSUME UInv, NEW p \in Procs, Telling(p),
           Starts(p) \/ Finish(p) \/ Kill(p)
    PROVE  Telling(p)'
<1>1. CASE Starts(p)
  <2>1. /\ pc[p] = "idle" /\ pc'[p] \in {"load", "ensure", "plain"}
        /\ UNCHANGED <<result, idx, began, upstream>>
    BY <1>1, SetsAssumption DEF Starts, Start, Goto, gvars, UInv, TypeOK
  <2>. QED BY <2>1 DEF Telling
<1>2. CASE Finish(p) \/ Kill(p)
  <2>1. /\ pc'[p] = "idle" /\ idx'[p] = 1 /\ result'[p] = "none"
        /\ began'[p] = NotBegun /\ upstream' = upstream
    BY <1>2 DEF Finish, Kill, Reset, UInv, TypeOK
  <2>2. \A o \in Origins, r \in Registries : 0 <= upstream[o][r]
    BY DEF UInv, TypeOK, Version
  <2>. QED BY <2>1, <2>2 DEF Telling, NotBegun
<1>. QED BY <1>1, <1>2

\* No step of a process is a step of another.
LEMMA OthersKept ==
    ASSUME TypeOK, NEW p \in Procs, Starts(p) \/ Step(p) \/ Finish(p) \/ Kill(p),
           NEW q \in Procs, q # p
    PROVE  Kept(q)
<1>. USE DEF Kept, TypeOK, gvars, svars, Goto, End
<1>1. CASE Starts(p)
  BY <1>1 DEF Starts, Start
<1>2. CASE Finish(p) \/ Kill(p)
  BY <1>2 DEF Finish, Kill, Reset, S!GiveUp
<1>3. CASE PlainLoad(p) \/ FreshEnough(p) \/ NeedsRefresh(p) \/ LoadCorrupt(p)
           \/ LoadPrev(p) \/ Reload(p)
  BY <1>3 DEF PlainLoad, FreshEnough, NeedsRefresh, LoadCorrupt, LoadPrev, Reload
<1>4. CASE Save(p) \/ SaveFails(p) \/ Saved(p)
  BY <1>4 DEF Save, SaveFails, Saved, UpdateFails, S!Ask, S!GiveUp, S!Put
<1>5. ASSUME NEW way, NEW src, NEW got, Obtained(p, way, src, got) PROVE Kept(q)
  BY <1>5 DEF Obtained
<1>6. CASE Unobtained(p)
  BY <1>5, <1>6 DEF Unobtained, UpdateFails
<1>7. CASE FetchBody(p) \/ FetchBadBody(p) \/ FetchFails(p)
  BY <1>5, <1>6, <1>7 DEF FetchBody, FetchBadBody, FetchFails, KeepCached
<1>8. CASE NotModified(p) \/ NotModifiedAgain(p)
  BY <1>5, <1>8 DEF NotModified, NotModifiedAgain, KeepCached
<1>. QED BY <1>1, <1>2, <1>3, <1>4, <1>7, <1>8 DEF Step

\* What `update' and update_db report of each registry is true, whatever other
\* processes save or fail to save meanwhile and whatever the origin publishes.
THEOREM ResultsTold == "bad304" \notin Faults => (Spec => []ResultTold)
<1>. SUFFICES ASSUME "bad304" \notin Faults PROVE Spec => []ResultTold
  OBVIOUS
<1> DEFINE AllTell == \A p \in Procs : Telling(p)
<1>1. Init => AllTell
  <2>. SUFFICES ASSUME Init, NEW p \in Procs PROVE Telling(p)
    OBVIOUS
  <2>1. /\ pc[p] = "idle" /\ idx[p] = 1 /\ result[p] = "none"
        /\ \A o \in Origins, r \in Registries :
              began[p].upstream[o][r] = 0 /\ upstream[o][r] = 0
    BY DEF Init, NotBegun
  <2>. QED BY <2>1 DEF Telling
<1>2. UInv /\ UInv' /\ AllTell /\ [Next]_vars => AllTell'
  <2>. SUFFICES ASSUME UInv, UInv', AllTell, [Next]_vars, NEW q \in Procs
                PROVE  Telling(q)'
    OBVIOUS
  <2>1. Rising /\ TypeOK /\ TypeOK'
    BY PublishedRises DEF UInv
  <2>2. CASE Kept(q)
    BY <2>1, <2>2, KeptTells
  <2>3. CASE \/ UNCHANGED vars \/ Tick \/ RemoveStore \/ DamageStore
             \/ \E o \in Origins, r \in Registries : Publish(o, r)
    BY <2>2, <2>3 DEF vars, Tick, RemoveStore, DamageStore, Publish, Kept, gvars, svars
  <2>4. ASSUME NEW p \in Procs, Starts(p) \/ Step(p) \/ Finish(p) \/ Kill(p)
        PROVE  Telling(q)'
    <3>1. CASE p # q
      BY <2>1, <2>2, <2>4, <3>1, OthersKept
    <3>2. CASE p = q
      BY <2>4, <3>2, StartTells, LoadTells, FetchTells, SaveTells DEF Step
    <3>. QED BY <3>1, <3>2
  <2>. QED BY <2>3, <2>4 DEF Next
<1>3. UInv /\ AllTell => ResultTold
  <2>. SUFFICES ASSUME UInv, NEW p \in Procs, Telling(p), result[p] = "updated",
                       NEW r \in Registries
                PROVE  /\ Tells(p, r) /\ db[p] # None
                       /\ EntriesOf(db[p], r) = RowsIn(entries[p], r)
                       /\ SourcesOf(db[p], r, base[p]) \subseteq {s \in sources[p] : s.reg = r}
    BY DEF ResultTold, Tells
  <2>1. Gathers(p, db[p]) /\ \A k \in 1 .. Len(RegistryFiles) : Tells(p, RegistryFiles[k])
    BY RegistriesLemma DEF Telling, Gathers
  <2>2. PICK k \in 1 .. Len(RegistryFiles) : RegistryFiles[k] = r
    BY DEF Registries
  <2>. QED BY <2>1, <2>2 DEF Gathers, EntriesOf, SourcesOf
<1>. QED BY <1>1, <1>2, <1>3, UInvariant, PTL DEF Spec
-----------------------------------------------------------------------------
\* A second request is under way, or has ended in a panic, for a registry that is
\* not cached: what Cached looks at stays as it was until the command is over.
Asking(p) ==
    /\ result[p] = "panic" => pc[p] = "done"
    /\ pc[p] = "refetch" \/ result[p] = "panic" => ~Cached(p)

LEMMA KeptAsks ==
    ASSUME NEW q \in Procs, Asking(q), Kept(q)
    PROVE  Asking(q)'
BY DEF Asking, Kept, Cached, HeldSources, SourcesOf, EntriesOf, RowsIn, Reg

\* A step that neither asks again nor panics.
LEMMA StepForgets ==
    ASSUME TypeOK, NEW p \in Procs, Asking(p),
           \/ Starts(p) \/ Finish(p) \/ Kill(p)
           \/ Step(p) /\ ~NotModified(p) /\ ~NotModifiedAgain(p)
    PROVE  pc'[p] # "refetch" /\ result'[p] # "panic"
<1>. USE DEF TypeOK, Asking
<1>1. ASSUME NEW outcome \in Results \ {"panic"}, End(p, outcome)
      PROVE  pc'[p] # "refetch" /\ result'[p] # "panic"
  BY <1>1 DEF End
<1>2. ASSUME NEW where \in PC \ {"refetch"}, Goto(p, where), pc[p] # "done"
      PROVE  pc'[p] # "refetch" /\ result'[p] # "panic"
  BY <1>2 DEF Goto
<1>3. CASE Starts(p)
  BY <1>2, <1>3, SetsAssumption DEF Starts, Start
<1>4. CASE Finish(p) \/ Kill(p)
  BY <1>4 DEF Finish, Kill, Reset
<1>5. ASSUME UpdateFails(p) PROVE pc'[p] # "refetch" /\ result'[p] # "panic"
  BY <1>1, <1>5 DEF UpdateFails
<1>6. CASE PlainLoad(p) \/ FreshEnough(p) \/ LoadCorrupt(p) \/ Reload(p)
  BY <1>1, <1>6 DEF PlainLoad, FreshEnough, LoadCorrupt, Reload
<1>7. CASE NeedsRefresh(p) \/ LoadPrev(p) \/ Save(p)
  BY <1>2, <1>7 DEF NeedsRefresh, LoadPrev, Save
<1>8. CASE SaveFails(p) \/ Saved(p)
  BY <1>1, <1>2, <1>5, <1>8 DEF SaveFails, Saved
<1>9. CASE FetchBody(p) \/ FetchBadBody(p) \/ FetchFails(p)
  BY <1>2, <1>5, <1>9 DEF FetchBody, FetchBadBody, FetchFails, KeepCached, Unobtained,
     Obtained, Fetching
<1>. QED BY <1>3, <1>4, <1>6, <1>7, <1>8, <1>9 DEF Step

LEMMA StepAsks ==
    ASSUME TypeOK, NEW p \in Procs, Asking(p), Starts(p) \/ Step(p) \/ Finish(p) \/ Kill(p)
    PROVE  Asking(p)'
<1>1. ASSUME UNCHANGED <<prev, idx, base>>, ~Cached(p) PROVE ~Cached(p)'
  BY <1>1 DEF Cached, HeldSources, SourcesOf, EntriesOf, RowsIn, Reg
<1>2. CASE NotModified(p) /\ Cached(p)
  <2>1. pc'[p] = "fetch" /\ result' = result /\ pc[p] = "fetch"
    BY <1>2 DEF NotModified, KeepCached, Obtained, Goto, TypeOK
  <2>. QED BY <2>1 DEF Asking
<1>3. CASE NotModified(p) /\ ~Cached(p)
  <2>1. /\ pc'[p] = "refetch" /\ result' = result /\ pc[p] = "fetch"
        /\ UNCHANGED <<prev, idx, base>>
    BY <1>3 DEF NotModified, Goto, gvars, TypeOK
  <2>. QED BY <1>1, <1>3, <2>1 DEF Asking
<1>4. CASE NotModifiedAgain(p)
  <2>1. /\ pc[p] = "refetch" /\ pc'[p] = "done"
        /\ UNCHANGED <<prev, idx, base>>
    BY <1>4 DEF NotModifiedAgain, End, gvars, TypeOK
  <2>. QED BY <1>1, <2>1 DEF Asking
<1>5. CASE ~NotModified(p) /\ ~NotModifiedAgain(p)
  BY <1>5, StepForgets DEF Asking
<1>. QED BY <1>2, <1>3, <1>4, <1>5

\* For any number of processes and every fault: if an update reads the body that
\* a second 304 does not have, the registry is one the previous store has no
\* source of this URL, or no row, for.  A cached registry is never the cause.
THEOREM PanicsUncached == Spec => []PanicOnlyUncached
<1> DEFINE AllAsk == \A p \in Procs : Asking(p)
<1>1. Init => AllAsk
  BY DEF Init, Asking
<1>2. TypeOK /\ AllAsk /\ [Next]_vars => AllAsk'
  <2>. SUFFICES ASSUME TypeOK, AllAsk, [Next]_vars, NEW q \in Procs PROVE Asking(q)'
    OBVIOUS
  <2>1. CASE \/ UNCHANGED vars \/ Tick \/ RemoveStore \/ DamageStore
             \/ \E o \in Origins, r \in Registries : Publish(o, r)
    <3>1. Kept(q)
      BY <2>1 DEF vars, Tick, RemoveStore, DamageStore, Publish, Kept, gvars, svars
    <3>. QED BY <3>1, KeptAsks
  <2>2. ASSUME NEW p \in Procs, Starts(p) \/ Step(p) \/ Finish(p) \/ Kill(p)
        PROVE  Asking(q)'
    BY <2>2, OthersKept, KeptAsks, StepAsks
  <2>. QED BY <2>1, <2>2 DEF Next
<1>3. AllAsk => PanicOnlyUncached
  BY DEF Asking, PanicOnlyUncached
<1>. QED BY <1>1, <1>2, <1>3, UTypeCorrect, PTL DEF Spec
-----------------------------------------------------------------------------
\* What p has saved, and what it answers, is no older than its last look at the
\* store allows.
Dated(p) ==
    /\ began[p].now <= now
    /\ pc[p] # "done" => result[p] # "answered"
    /\ pc[p] = "plain" => op[p] # "lookup"
    /\ pc[p] = "write" => asked[p] # None /\ asked[p].gen >= began[p].now
    /\ pc[p] = "reload" /\ Readable => content.gen >= began[p].now
    /\ op[p] = "lookup" /\ result[p] = "answered" => db[p].gen >= began[p].now - TTL

\* The fetch loop touches neither the store nor the clock.
LEMMA FetchDated ==
    ASSUME TypeOK, NEW p \in Procs, Dated(p),
           \/ FetchBody(p) \/ FetchBadBody(p) \/ FetchFails(p)
           \/ NotModified(p) \/ NotModifiedAgain(p)
    PROVE  Dated(p)'
<1>1. /\ UNCHANGED <<content, asked, now, op, db, began>>
      /\ \/ pc'[p] \in {"fetch", "refetch"} /\ UNCHANGED result
         \/ pc'[p] = "done" /\ result'[p] # "answered"
      /\ pc[p] \in {"fetch", "refetch"}
  <2>. USE DEF svars, gvars, End, Goto, TypeOK
  <2>1. ASSUME NEW way, NEW src, NEW got, Obtained(p, way, src, got)
        PROVE  /\ UNCHANGED <<content, asked, now, op, db, began, result>>
               /\ pc'[p] = "fetch"
    BY <2>1 DEF Obtained
  <2>2. CASE FetchBody(p) \/ FetchBadBody(p) \/ FetchFails(p)
    BY <2>1, <2>2 DEF FetchBody, FetchBadBody, FetchFails, KeepCached, Unobtained,
                      UpdateFails, Fetching
  <2>3. CASE NotModified(p) \/ NotModifiedAgain(p)
    BY <2>1, <2>3 DEF NotModified, NotModifiedAgain, KeepCached, Fetching
  <2>. QED BY <2>2, <2>3
<1>. QED BY <1>1 DEF Dated, Readable

LEMMA OtherDated ==
    ASSUME TypeOK, NEW p \in Procs, Dated(p),
           \/ PlainLoad(p) \/ NeedsRefresh(p) \/ LoadCorrupt(p) \/ LoadPrev(p)
           \/ FreshEnough(p) \/ Reload(p) \/ Save(p) \/ SaveFails(p) \/ Saved(p)
           \/ Starts(p) \/ Finish(p) \/ Kill(p)
    PROVE  Dated(p)'
<1>. USE DEF svars, gvars, End, Goto, TypeOK, Readable
<1>0. /\ TTL \in Nat /\ now \in Nat /\ began[p].now \in Nat
      /\ Readable => content \in DB /\ content.gen \in Nat
  BY BoundsAssumption DEF Time, DB
<1>1. CASE PlainLoad(p) \/ NeedsRefresh(p) \/ LoadCorrupt(p) \/ SaveFails(p)
  BY <1>1 DEF PlainLoad, NeedsRefresh, LoadCorrupt, SaveFails, UpdateFails, Dated
<1>2. CASE LoadPrev(p)
  BY <1>0, <1>2 DEF LoadPrev, Dated
<1>3. CASE FreshEnough(p)
  <2>1. /\ now - content.gen <= TTL /\ content \in DB /\ content.gen \in Nat
        /\ db'[p] = content /\ began'[p].now = now /\ now' = now
        /\ pc'[p] = "done"
    BY <1>0, <1>3 DEF FreshEnough
  <2>. QED BY <1>0, <2>1 DEF Dated
<1>4. CASE Reload(p)
  <2>1. /\ pc[p] = "reload" /\ pc'[p] = "done" /\ UNCHANGED <<began, now>>
        /\ \/ Readable /\ db'[p] = content
           \/ result'[p] = "error"
    BY <1>4 DEF Reload
  <2>. QED BY <1>0, <2>1 DEF Dated
<1>5. CASE Save(p)
  <2>1. /\ pc'[p] = "write" /\ UNCHANGED <<began, now, op, result, db>>
        /\ asked'[p] = [gen |-> now, sources |-> sources[p], entries |-> entries[p]]
        /\ pc[p] = "fetch"
    BY <1>5 DEF Save, S!Ask
  <2>2. asked'[p] # None
    BY <2>1, NoneAssumption DEF DB
  <2>. QED BY <1>0, <2>1, <2>2 DEF Dated
<1>6. CASE Saved(p)
  <2>1. /\ UNCHANGED <<began, now, op>> /\ content' = asked[p] /\ pc[p] = "write"
        /\ \/ pc'[p] = "done" /\ result'[p] = "updated"
           \/ pc'[p] = "reload" /\ UNCHANGED <<result, db>>
    BY <1>6 DEF Saved, S!Put
  <2>. QED BY <2>1 DEF Dated
<1>7. CASE Starts(p)
  BY <1>7, SetsAssumption DEF Starts, Start, Dated
<1>8. CASE Finish(p) \/ Kill(p)
  <2>1. /\ pc'[p] = "idle" /\ result'[p] = "none" /\ began'[p].now = 0 /\ now' = now
    BY <1>8 DEF Finish, Kill, Reset, NotBegun
  <2>. QED BY <1>0, <2>1 DEF Dated
<1>. QED BY <1>1, <1>2, <1>3, <1>4, <1>5, <1>6, <1>7, <1>8

\* A process alone with its store never answers a lookup, without a warning,
\* from a database older than the TTL when it last decided not to refetch.
THEOREM AnswersFresh ==
    (\A p, q \in Procs : p = q) => (Spec => []AnswerWithinTTL)
<1>. SUFFICES ASSUME \A p, q \in Procs : p = q PROVE Spec => []AnswerWithinTTL
  OBVIOUS
<1> DEFINE AllDated == \A p \in Procs : Dated(p)
<1>1. Init => AllDated
  <2>. SUFFICES ASSUME Init, NEW p \in Procs PROVE Dated(p)
    OBVIOUS
  <2>1. /\ pc[p] = "idle" /\ result[p] = "none" /\ op[p] = None
        /\ began[p].now = 0 /\ now = 0
    BY DEF Init, NotBegun
  <2>. QED BY <2>1 DEF Dated
<1>2. TypeOK /\ TypeOK' /\ AllDated /\ [Next]_vars => AllDated'
  <2>. SUFFICES ASSUME TypeOK, TypeOK', AllDated, [Next]_vars, NEW p \in Procs
                PROVE  Dated(p)'
    OBVIOUS
  <2>1. Rising
    BY PublishedRises
  <2>2. CASE \/ UNCHANGED vars \/ Tick \/ RemoveStore \/ DamageStore
             \/ \E o \in Origins, r \in Registries : Publish(o, r)
    <3>1. /\ UNCHANGED <<asked, pc, op, db, result, began>>
          /\ content' \in {content, None, Torn}
      BY <2>2 DEF vars, Tick, RemoveStore, DamageStore, Publish, gvars, svars
    <3>2. began[p].now <= now'
      BY <2>1, BoundsAssumption DEF Rising, Dated, TypeOK, Time
    <3>. QED BY <3>1, <3>2 DEF Dated, Readable
  <2>3. ASSUME NEW q \in Procs, Starts(q) \/ Step(q) \/ Finish(q) \/ Kill(q)
        PROVE  Dated(p)'
    <3>1. p = q
      OBVIOUS
    <3>. QED BY <2>3, <3>1, FetchDated, OtherDated DEF Step
  <2>. QED BY <2>2, <2>3 DEF Next
<1>3. AllDated => AnswerWithinTTL
  BY DEF Dated, AnswerWithinTTL
<1>. QED BY <1>1, <1>2, <1>3, UTypeCorrect, PTL DEF Spec
-----------------------------------------------------------------------------
\* No lookup fails while it has a database to answer from.
Answerable ==
    /\ content # Torn
    /\ \A p \in Procs :
          /\ pc[p] = "reload" => Readable
          /\ pc[p] = "plain" => op[p] # "lookup"
          /\ result[p] = "error" => pc[p] = "done"
          /\ op[p] = "lookup" /\ result[p] = "error" => db[p] = None

\* A step of p, as the other processes and the answers see it.
LEMMA LookupStep ==
    ASSUME TypeOK, NEW p \in Procs, Step(p), Answerable
    PROVE  /\ \/ content' = content /\ pc'[p] # "reload"
              \/ content' \in DB
           /\ pc'[p] # "plain" /\ UNCHANGED op
           /\ \/ result' = result /\ result[p] # "error"
              \/ /\ pc'[p] = "done"
                 /\ op[p] = "lookup" /\ result'[p] = "error" =>
                       db[p] = None /\ db'[p] = None /\ pc[p] # "ensure"
<1>. USE DEF svars, gvars, End, Goto, TypeOK, Readable, Answerable
<1>1. CASE PlainLoad(p) \/ FreshEnough(p) \/ NeedsRefresh(p) \/ LoadPrev(p)
  BY <1>1 DEF PlainLoad, FreshEnough, NeedsRefresh, LoadPrev
<1>2. CASE LoadCorrupt(p) \/ Reload(p)
  BY <1>2 DEF LoadCorrupt, Reload, Corrupt
<1>3. ASSUME NEW way, NEW src, NEW got, Fetching(p), Obtained(p, way, src, got)
      PROVE  /\ UNCHANGED <<content, op, result>> /\ result[p] # "error"
             /\ pc'[p] = "fetch"
  BY <1>3 DEF Obtained, Fetching
<1>4. ASSUME UpdateFails(p), pc[p] \notin {"ensure", "reload"},
             UNCHANGED <<content, op, db>>
      PROVE  /\ pc'[p] = "done"
             /\ op[p] = "lookup" /\ result'[p] = "error" =>
                   db[p] = None /\ db'[p] = None
  BY <1>4 DEF UpdateFails
<1>5. CASE FetchBody(p) \/ FetchBadBody(p) \/ FetchFails(p)
  BY <1>3, <1>4, <1>5 DEF FetchBody, FetchBadBody, FetchFails, KeepCached, Unobtained,
                          Fetching
<1>6. CASE NotModified(p) \/ NotModifiedAgain(p)
  BY <1>3, <1>6 DEF NotModified, NotModifiedAgain, KeepCached, Fetching
<1>7. CASE Save(p) \/ SaveFails(p)
  BY <1>4, <1>7 DEF Save, SaveFails, S!Ask, S!GiveUp
<1>8. CASE Saved(p)
  BY <1>8 DEF Saved, S!Put
<1>. QED BY <1>1, <1>2, <1>5, <1>6, <1>7, <1>8 DEF Step

\* As long as nobody removes or damages the store, a lookup that may refetch
\* fails only if there was none.
THEOREM FatalOnlyWithoutStore ==
    Faults \cap {"remove", "damage"} = {} => (Spec => OnlyAbsenceIsFatal)
<1>. SUFFICES ASSUME Faults \cap {"remove", "damage"} = {}
              PROVE  Spec => OnlyAbsenceIsFatal
  OBVIOUS
<1> DEFINE A == \A p \in Procs : op[p] = "lookup" /\ result'[p] = "error" =>
                   db[p] = None /\ (pc[p] = "ensure" => Missing)
<1>1. Init => Answerable
  BY NoneAssumption DEF Init, Answerable
<1>2. TypeOK /\ TypeOK' /\ Answerable /\ [Next]_vars => Answerable' /\ [A]_result
  <2>. SUFFICES ASSUME TypeOK, TypeOK', Answerable, [Next]_vars
                PROVE  Answerable' /\ [A]_result
    OBVIOUS
  <2>1. CASE \/ UNCHANGED vars \/ Tick
             \/ \E o \in Origins, r \in Registries : Publish(o, r)
    <3>1. UNCHANGED <<content, pc, op, db, result>>
      BY <2>1 DEF vars, Tick, Publish, svars
    <3>. QED BY <3>1 DEF Answerable, Readable
  <2>2. CASE RemoveStore \/ DamageStore
    BY <2>2 DEF RemoveStore, DamageStore
  <2>3. ASSUME NEW p \in Procs, Step(p) PROVE Answerable' /\ A
    <3>1. \A q \in Procs \ {p} : Kept(q)
      BY <2>3, OthersKept
    <3>2. content' # Torn /\ (Readable => Readable')
      BY <2>3, LookupStep, NoneAssumption DEF Readable, Answerable
    <3>3. content' \in DB => Readable'
      BY NoneAssumption DEF Readable
    <3>4. /\ pc'[p] = "reload" => Readable'
          /\ pc'[p] = "plain" => op'[p] # "lookup"
          /\ result'[p] = "error" => pc'[p] = "done"
          /\ op[p] = "lookup" /\ result'[p] = "error" =>
                db[p] = None /\ db'[p] = None /\ pc[p] # "ensure"
      BY <2>3, <3>3, LookupStep
    <3>5. op' = op
      BY <2>3, LookupStep
    <3>. QED BY <3>1, <3>2, <3>4, <3>5 DEF Kept, Answerable
  <2>4. ASSUME NEW p \in Procs, Starts(p) PROVE Answerable' /\ result' = result
    BY <2>4, SetsAssumption DEF Starts, Start, Goto, svars, gvars, Answerable, Readable, TypeOK
  <2>5. ASSUME NEW p \in Procs, Finish(p) \/ Kill(p) PROVE Answerable' /\ A
    <3>1. /\ content' = content /\ pc' = [pc EXCEPT ![p] = "idle"]
          /\ result' = [result EXCEPT ![p] = "none"] /\ op' = [op EXCEPT ![p] = None]
          /\ db' = [db EXCEPT ![p] = None]
      BY <2>5 DEF Finish, Kill, Reset, S!GiveUp, svars
    <3>. QED BY <3>1 DEF Answerable, Readable, TypeOK
  <2>. QED BY <2>1, <2>2, <2>3, <2>4, <2>5 DEF Next
<1>. QED BY <1>1, <1>2, UTypeCorrect, PTL DEF Spec, OnlyAbsenceIsFatal
-----------------------------------------------------------------------------
\* Rows as a download leaves them: one of a registry, of a version published by
\* now and that has rows.
Sound(es) == \A e \in es :
    /\ e \in Row
    /\ \A f \in es : e.reg = f.reg => e = f
    /\ e.version <= upstream[e.url][e.reg]
    /\ e.version = 0 => e.reg \notin Blank

\* Rows `es' of registry r are no worse than `ds'.
NoWorse(es, ds, r) ==
    RowsIn(ds, r) # {} =>
        /\ RowsIn(es, r) # {}
        /\ \A e \in RowsIn(es, r), f \in RowsIn(ds, r) : e.version >= f.version

\* What Update has gathered is no worse than the store it started from, for the
\* registries it is past.
Growing(p) ==
    /\ Readable => Sound(content.entries)
    /\ prev[p] # None => Sound(prev[p].entries)
    /\ asked[p] # None => Sound(asked[p].entries)
    /\ Sound(entries[p])
    /\ pc[p] \in {"idle", "ensure", "load"} => idx[p] = 1
    /\ pc[p] = "refetch" => ~Cached(p)
    /\ pc[p] \in {"fetch", "refetch", "write"} /\ prev[p] # None =>
          \A k \in 1 .. idx[p] - 1 : NoWorse(entries[p], prev[p].entries, RegistryFiles[k])
    /\ pc[p] = "write" => Gathers(p, asked[p])

\* The store Update started from is the one it will replace: so it is where no
\* other process saves.
Alone(p) == pc[p] \in {"fetch", "refetch", "write"} /\ Readable => prev[p] = content

LEMMA HeldGrows ==
    ASSUME NEW d \in DB, NEW c \in DB, Sound(c.entries), NEW r,
           Sound(d.entries), NoWorse(d.entries, c.entries, r)
    PROVE  Held(d, r) >= Held(c, r)
<1>1. /\ EntriesOf(d, r) = RowsIn(d.entries, r) /\ EntriesOf(c, r) = RowsIn(c.entries, r)
  BY NoneAssumption DEF EntriesOf
<1>2. \A e \in RowsIn(d.entries, r) \cup RowsIn(c.entries, r) : e.version \in Nat
  BY BoundsAssumption DEF Sound, Row, Version, RowsIn
<1>3. CASE RowsIn(c.entries, r) = {}
  <2>1. CASE RowsIn(d.entries, r) = {}
    BY <1>1, <1>3, <2>1 DEF Held
  <2>2. CASE RowsIn(d.entries, r) # {}
    <3>1. (CHOOSE e \in RowsIn(d.entries, r) : TRUE) \in RowsIn(d.entries, r)
      BY <2>2
    <3>2. (CHOOSE e \in RowsIn(d.entries, r) : TRUE).version \in Nat
      BY <1>2, <3>1
    <3>. QED BY <1>1, <1>3, <2>2, <3>2 DEF Held
  <2>. QED BY <2>1, <2>2
<1>4. CASE RowsIn(c.entries, r) # {}
  <2>1. RowsIn(d.entries, r) # {}
    BY <1>4 DEF NoWorse
  <2>2. /\ (CHOOSE e \in RowsIn(d.entries, r) : TRUE) \in RowsIn(d.entries, r)
        /\ (CHOOSE e \in RowsIn(c.entries, r) : TRUE) \in RowsIn(c.entries, r)
    BY <1>4, <2>1
  <2>3. (CHOOSE e \in RowsIn(d.entries, r) : TRUE).version
           >= (CHOOSE e \in RowsIn(c.entries, r) : TRUE).version
    BY <1>4, <2>2 DEF NoWorse
  <2>. QED BY <1>1, <1>4, <2>1, <2>3 DEF Held
<1>. QED BY <1>3, <1>4

\* The loop's step, for one registry.
LEMMA ObtainedGrows ==
    ASSUME UInv, NEW p \in Procs, Fetching(p), Growing(p),
           NEW way \in How, NEW src, NEW got, Obtained(p, way, src, got),
           Sound(got), \A e \in got : e.reg = Reg(p),
           prev[p] # None => NoWorse(got, prev[p].entries, Reg(p))
    PROVE  Growing(p)'
<1>1. /\ Reg(p) \in Registries /\ idx[p] \in 1 .. Len(RegistryFiles)
      /\ Reg(p) = RegistryFiles[idx[p]] /\ Len(RegistryFiles) \in Nat
  BY RegType, RegistriesLemma DEF UInv, Reg
<1>2. /\ entries'[p] = entries[p] \cup got /\ idx'[p] = idx[p] + 1 /\ pc'[p] = "fetch"
      /\ UNCHANGED <<content, asked, upstream, prev>>
  BY <1>1 DEF Obtained, Goto, UInv, TypeOK, svars
<1>3. \A e \in entries[p] : e.reg # Reg(p)
  <2>1. Gathered(sources[p], entries[p], idx[p])
    BY DEF UInv
  <2>2. SUFFICES ASSUME NEW e \in entries[p], e.reg = Reg(p) PROVE FALSE
    OBVIOUS
  <2>3. PICK k \in 1 .. idx[p] - 1 : e.reg = RegistryFiles[k]
    BY <2>1 DEF Gathered, Coherent
  <2>4. k \in 1 .. Len(RegistryFiles) /\ k # idx[p]
    BY <1>1
  <2>. QED BY <1>1, <2>2, <2>3, <2>4, RegistriesAssumption
<1>4. /\ RowsIn(entries'[p], Reg(p)) = RowsIn(got, Reg(p))
      /\ \A r : r # Reg(p) => RowsIn(entries'[p], r) = RowsIn(entries[p], r)
  BY <1>2, <1>3 DEF RowsIn
<1>5. Sound(entries'[p])
  BY <1>2, <1>3 DEF Growing, Sound
<1>6. \A es : Sound(es) => Sound(es)'
  BY <1>2 DEF Sound
<1>7. ASSUME prev[p] # None, NEW k \in 1 .. idx'[p] - 1
      PROVE  NoWorse(entries'[p], prev[p].entries, RegistryFiles[k])
  <2>1. CASE k = idx[p]
    BY <1>1, <1>4, <1>7, <2>1 DEF NoWorse
  <2>2. CASE k # idx[p]
    <3>1. k \in 1 .. idx[p] - 1 /\ k \in 1 .. Len(RegistryFiles)
      BY <1>1, <1>2, <2>2
    <3>2. RegistryFiles[k] # Reg(p)
      BY <1>1, <2>2, <3>1, RegistriesAssumption
    <3>3. NoWorse(entries[p], prev[p].entries, RegistryFiles[k])
      BY <1>7, <3>1 DEF Growing, Fetching
    <3>. QED BY <1>4, <3>2, <3>3 DEF NoWorse
  <2>. QED BY <2>1, <2>2
<1>8. Sound(entries[p])'
  BY <1>2, <1>5 DEF Sound
<1>9. /\ (Readable => Sound(content.entries))'
      /\ (prev[p] # None => Sound(prev[p].entries))'
      /\ (asked[p] # None => Sound(asked[p].entries))'
  BY <1>2, <1>6 DEF Growing, Readable
<1>10. (prev[p] # None => \A k \in 1 .. idx[p] - 1 :
           NoWorse(entries[p], prev[p].entries, RegistryFiles[k]))'
  BY <1>2, <1>7 DEF NoWorse, RowsIn
<1>. QED BY <1>2, <1>8, <1>9, <1>10 DEF Growing

\* With one origin, rows in the previous copy mean that the registry is cached.
LEMMA RowsCached ==
    ASSUME UInv, \A a, b \in Origins : a = b, NEW p \in Procs, Fetching(p),
           prev[p] # None, RowsIn(prev[p].entries, Reg(p)) # {}
    PROVE  Cached(p)
<1>1. Coherent(prev[p].sources, prev[p].entries) /\ prev[p] \in DB /\ base[p] \in Origins
  BY DEF UInv, Good, TypeOK, Fetching
<1>2. PICK e \in prev[p].entries : e.reg = Reg(p)
  BY DEF RowsIn
<1>3. PICK s \in prev[p].sources : s.reg = e.reg /\ s.url = e.url
  BY <1>1 DEF Coherent
<1>4. s.url \in Origins
  BY <1>1 DEF DB, Source
<1>5. s \in HeldSources(p)
  BY <1>1, <1>2, <1>3, <1>4 DEF HeldSources, SourcesOf
<1>. QED BY <1>5 DEF Cached, EntriesOf

LEMMA FetchGrows ==
    ASSUME "body" \notin Faults, UInv, \A a, b \in Origins : a = b,
           NEW p \in Procs, Growing(p),
           \/ FetchBody(p) \/ FetchBadBody(p) \/ FetchFails(p)
           \/ NotModified(p) \/ NotModifiedAgain(p)
    PROVE  Growing(p)'
<1>1. Fetching(p) /\ base[p] \in Origins
  BY DEF FetchBody, FetchBadBody, FetchFails, NotModified, NotModifiedAgain, Fetching, UInv
<1>2. ASSUME UNCHANGED <<content, asked, upstream, prev, entries>>,
             pc'[p] = "done" \/ (pc'[p] = "refetch" /\ ~Cached(p) /\ UNCHANGED <<sources, idx, base>>)
      PROVE  Growing(p)'
  <2>1. \A es : Sound(es) => Sound(es)'
    BY <1>2 DEF Sound
  <2>2. Sound(entries[p])'
    BY <1>2 DEF Growing, Sound
  <2>3. pc'[p] = "refetch" => ~Cached(p)'
    BY <1>2 DEF Cached, HeldSources, SourcesOf, EntriesOf, RowsIn, Reg
  <2>4. (pc[p] \in {"fetch", "refetch", "write"} =>
            (prev[p] # None => \A k \in 1 .. idx[p] - 1 :
                NoWorse(entries[p], prev[p].entries, RegistryFiles[k])))'
    BY <1>1, <1>2 DEF Growing, Fetching, NoWorse, RowsIn
  <2>5. /\ (Readable => Sound(content.entries))'
        /\ (prev[p] # None => Sound(prev[p].entries))'
        /\ (asked[p] # None => Sound(asked[p].entries))'
    BY <1>2, <2>1 DEF Growing, Readable
  <2>. QED BY <1>2, <2>2, <2>3, <2>4, <2>5 DEF Growing
<1>3. ASSUME KeepCached(p, "fallback") \/ KeepCached(p, "unchanged"), Cached(p) PROVE Growing(p)'
  <2>1. prev[p] # None /\ Sound(prev[p].entries) /\ prev[p] \in DB
    BY <1>3 DEF Growing, Cached, HeldSources, SourcesOf, UInv, TypeOK
  <2>2. /\ Sound(EntriesOf(prev[p], Reg(p)))
        /\ \A e \in EntriesOf(prev[p], Reg(p)) : e.reg = Reg(p)
    BY <2>1 DEF Sound, EntriesOf, RowsIn
  <2>3. \A e \in EntriesOf(prev[p], Reg(p)) : e.version >= e.version
    BY <2>1, BoundsAssumption DEF EntriesOf, RowsIn, DB, Row, Version
  <2>4. NoWorse(EntriesOf(prev[p], Reg(p)), prev[p].entries, Reg(p))
    BY <2>1, <2>3 DEF NoWorse, EntriesOf, RowsIn, Sound
  <2>. QED BY <1>1, <1>3, <2>2, <2>4, ObtainedGrows DEF KeepCached
<1>4. ASSUME Unobtained(p), ~Cached(p) PROVE Growing(p)'
  <2>1. CASE Reg(p) = MAL
    BY <1>2, <1>4, <2>1 DEF Unobtained, UpdateFails, End, UInv, TypeOK, gvars, svars
  <2>2. CASE Reg(p) # MAL
    <3>1. Obtained(p, "dropped", {}, {})
      BY <1>4, <2>2 DEF Unobtained
    <3>2. prev[p] # None => NoWorse({}, prev[p].entries, Reg(p))
      BY <1>1, <1>4, RowsCached DEF NoWorse
    <3>3. Sound({})
      BY DEF Sound
    <3>. QED BY <1>1, <3>1, <3>2, <3>3, ObtainedGrows
  <2>. QED BY <2>1, <2>2
<1>5. CASE FetchBody(p)
  <2> DEFINE got == RowsOf(Reg(p), base[p], Published(p))
  <2>1. /\ Published(p) \in Version /\ Published(p) = upstream[base[p]][Reg(p)]
        /\ Reg(p) \in Registries /\ got \in SUBSET Row /\ Published(p) \in Nat
    <3>1. TypeOK
      BY DEF UInv
    <3>2. Published(p) \in Version /\ got \in SUBSET Row
      BY <1>1, <3>1, BodyTypes
    <3>3. Published(p) \in Nat
      BY <3>2, BoundsAssumption DEF Version
    <3>. QED BY <1>1, <3>1, <3>2, <3>3, RegType DEF Published
  <2>2. \A e \in got : e = [reg |-> Reg(p), url |-> base[p], version |-> Published(p)]
    BY DEF RowsOf
  <2>3. Sound(got) /\ \A e \in got : e.reg = Reg(p)
    <3>1. Published(p) = 0 /\ Reg(p) \in Blank => got = {}
      BY DEF RowsOf
    <3>2. Published(p) <= upstream[base[p]][Reg(p)]
      BY <2>1
    <3>. HIDE DEF got
    <3>. QED BY <2>1, <2>2, <3>1, <3>2 DEF Sound
  <2>4. ASSUME prev[p] # None PROVE NoWorse(got, prev[p].entries, Reg(p))
    <3>1. SUFFICES ASSUME NEW f \in RowsIn(prev[p].entries, Reg(p))
                   PROVE  /\ got # {}
                          /\ \A e \in got : e.version >= f.version
      BY <2>3 DEF NoWorse, RowsIn
    <3>2. /\ f.reg = Reg(p) /\ f \in Row /\ f.version <= upstream[f.url][f.reg]
          /\ f.version = 0 => f.reg \notin Blank
      BY <2>4 DEF Growing, Sound, RowsIn
    <3>3. f.url = base[p] /\ f.version \in Nat
      BY <1>1, <3>2, BoundsAssumption DEF Row, Version
    <3>4. f.version <= Published(p)
      BY <2>1, <3>2, <3>3
    <3>5. Published(p) = 0 => Reg(p) \notin Blank
      BY <2>1, <3>2, <3>3, <3>4
    <3>6. got # {}
      BY <3>5 DEF RowsOf
    <3>. QED BY <2>2, <3>4, <3>6
  <2>. QED BY <1>1, <1>5, <2>3, <2>4, ObtainedGrows DEF FetchBody
<1>6. CASE FetchFails(p)
  <2>1. pc[p] = "refetch" => ~Cached(p)
    BY DEF Growing
  <2>. QED BY <1>3, <1>4, <1>6, <2>1 DEF FetchFails, Fetching
<1>7. CASE NotModified(p)
  <2>1. CASE Cached(p)
    BY <1>3, <1>7, <2>1 DEF NotModified
  <2>2. CASE ~Cached(p)
    BY <1>2, <1>7, <2>2 DEF NotModified, Goto, UInv, TypeOK, gvars, svars
  <2>. QED BY <2>1, <2>2
<1>8. CASE NotModifiedAgain(p)
  BY <1>2, <1>8 DEF NotModifiedAgain, End, UInv, TypeOK, gvars, svars
<1>. QED BY <1>5, <1>6, <1>7, <1>8 DEF FetchBadBody

LEMMA OtherGrows ==
    ASSUME UInv, TypeOK', NEW p \in Procs, Growing(p),
           \/ PlainLoad(p) \/ NeedsRefresh(p) \/ LoadCorrupt(p) \/ LoadPrev(p)
           \/ FreshEnough(p) \/ Reload(p) \/ Save(p) \/ SaveFails(p) \/ Saved(p)
           \/ Starts(p) \/ Finish(p) \/ Kill(p)
    PROVE  Growing(p)'
<1>. USE DEF svars, gvars, End, Goto, Readable
<1>0. TypeOK /\ Len(RegistryFiles) \in Nat /\ \A es : upstream' = upstream /\ Sound(es) => Sound(es)'
  BY RegistriesLemma DEF UInv, Sound
<1>. USE <1>0 DEF TypeOK
<1>1. ASSUME UNCHANGED <<content, upstream, entries, idx>>,
             asked'[p] # None => asked'[p] = asked[p],
             prev'[p] # None => prev'[p] = prev[p] \/ (content # Torn /\ prev'[p] = content),
             pc'[p] \notin {"fetch", "refetch", "write"},
             pc'[p] \in {"idle", "ensure", "load"} => idx[p] = 1
      PROVE  Growing(p)'
  <2>1. Sound(entries[p])'
    BY <1>1 DEF Growing, Sound
  <2>2. /\ (Readable => Sound(content.entries))'
        /\ (asked[p] # None => Sound(asked[p].entries))'
    BY <1>1 DEF Growing
  <2>3. prev'[p] # None => Sound(prev'[p].entries)
    BY <1>1 DEF Growing
  <2>. QED BY <1>1, <2>1, <2>2, <2>3 DEF Growing
<1>2. CASE PlainLoad(p) \/ FreshEnough(p) \/ NeedsRefresh(p) \/ LoadCorrupt(p)
           \/ SaveFails(p) \/ Reload(p) \/ Starts(p)
  <2>1. /\ UNCHANGED <<content, upstream, entries, idx, prev>>
        /\ asked'[p] # None => asked'[p] = asked[p]
        /\ pc'[p] \in {"done", "load", "plain", "ensure"}
        /\ pc'[p] \in {"ensure", "load"} => pc[p] \in {"ensure", "idle"}
    BY <1>2, SetsAssumption DEF PlainLoad, FreshEnough, NeedsRefresh, LoadCorrupt, SaveFails,
       UpdateFails, S!GiveUp, Reload, Starts, Start
  <2>. QED BY <1>1, <2>1 DEF Growing
<1>3. CASE LoadPrev(p)
  <2>1. /\ pc[p] = "load" /\ pc'[p] = "fetch" /\ idx[p] = 1
        /\ prev'[p] = IF Readable THEN content ELSE None
        /\ UNCHANGED <<content, upstream, entries, idx, asked>>
    BY <1>3 DEF LoadPrev, Growing
  <2>2. Sound(entries[p])'
    BY <2>1 DEF Growing, Sound
  <2>3. /\ (Readable => Sound(content.entries))'
        /\ (prev[p] # None => Sound(prev[p].entries))'
        /\ (asked[p] # None => Sound(asked[p].entries))'
    BY <2>1 DEF Growing
  <2>. QED BY <2>1, <2>2, <2>3 DEF Growing
<1>4. CASE Save(p)
  <2>1. /\ pc[p] = "fetch" /\ pc'[p] = "write" /\ idx[p] = Len(RegistryFiles) + 1
        /\ asked'[p] = [gen |-> now, sources |-> sources[p], entries |-> entries[p]]
        /\ UNCHANGED <<content, upstream, sources, entries, idx, prev>>
    BY <1>4 DEF Save, S!Ask
  <2>2. asked'[p] # None
    BY <2>1, NoneAssumption DEF DB
  <2>3. Sound(entries[p])'
    BY <2>1 DEF Growing, Sound
  <2>4. /\ (Readable => Sound(content.entries))'
        /\ (prev[p] # None => Sound(prev[p].entries))'
    BY <2>1 DEF Growing
  <2>7. (asked[p] # None => Sound(asked[p].entries))'
    BY <2>1, <2>3 DEF Sound
  <2>5. (prev[p] # None => \A k \in 1 .. idx[p] - 1 :
           NoWorse(entries[p], prev[p].entries, RegistryFiles[k]))'
    BY <2>1 DEF Growing, NoWorse, RowsIn
  <2>6. Gathers(p, asked[p])'
    BY <2>1, <2>2 DEF Gathers
  <2>. QED BY <2>1, <2>3, <2>4, <2>5, <2>6, <2>7 DEF Growing
<1>5. CASE Saved(p)
  <2>1. /\ pc[p] = "write" /\ pc'[p] \in {"done", "reload"}
        /\ content' = asked[p] /\ asked[p] # None /\ asked'[p] = None
        /\ UNCHANGED <<upstream, entries, prev>>
    BY <1>5 DEF Saved, S!Put
  <2>2. Sound(entries[p])'
    BY <2>1 DEF Growing, Sound
  <2>3. /\ (Readable => Sound(content.entries))'
        /\ (prev[p] # None => Sound(prev[p].entries))'
    BY <2>1 DEF Growing
  <2>. QED BY <2>1, <2>2, <2>3 DEF Growing
<1>6. CASE Finish(p) \/ Kill(p)
  <2>1. /\ pc'[p] = "idle" /\ idx'[p] = 1 /\ entries'[p] = {} /\ prev'[p] = None
        /\ asked'[p] # None => asked'[p] = asked[p]
        /\ UNCHANGED <<content, upstream>>
    BY <1>6 DEF Finish, Kill, Reset, S!GiveUp
  <2>2. Sound(entries[p])'
    BY <2>1 DEF Sound
  <2>3. /\ (Readable => Sound(content.entries))'
        /\ (asked[p] # None => Sound(asked[p].entries))'
    BY <2>1 DEF Growing
  <2>. QED BY <2>1, <2>2, <2>3 DEF Growing
<1>. QED BY <1>2, <1>3, <1>4, <1>5, <1>6

\* The world publishes newer versions only, and never replaces the store by
\* another one.
LEMMA WorldGrows ==
    ASSUME TypeOK, TypeOK', NEW p \in Procs, Growing(p), Rising,
           UNCHANGED <<asked, prev, pc, sources, entries, idx, base>>,
           content' \in {content, None, Torn}
    PROVE  Growing(p)'
<1>1. ASSUME NEW es, Sound(es) PROVE Sound(es)'
  <2>1. ASSUME NEW e \in es PROVE e.version <= upstream'[e.url][e.reg]
    <3>1. /\ e \in Row /\ e.version <= upstream[e.url][e.reg]
      BY <1>1 DEF Sound
    <3>2. /\ upstream'[e.url][e.reg] >= upstream[e.url][e.reg]
      BY <3>1 DEF Rising, Row
    <3>3. upstream[e.url][e.reg] \in Int /\ e.version \in Int
      BY <3>1, BoundsAssumption DEF Row, TypeOK, Version
    <3>4. upstream'[e.url][e.reg] \in Int
      BY <3>1 DEF Row, TypeOK, Version
    <3>. QED BY <3>1, <3>2, <3>3, <3>4
  <2>. QED BY <1>1, <2>1 DEF Sound
<1>2. Sound(entries[p])'
  BY <1>1 DEF Growing, Sound
<1>3. /\ (Readable => Sound(content.entries))'
      /\ (prev[p] # None => Sound(prev[p].entries))'
      /\ (asked[p] # None => Sound(asked[p].entries))'
  BY <1>1 DEF Growing, Readable
<1>4. (pc[p] = "refetch" => ~Cached(p))'
  BY DEF Growing, Cached, HeldSources, SourcesOf, EntriesOf, RowsIn, Reg
<1>5. (pc[p] \in {"fetch", "refetch", "write"} =>
          (prev[p] # None => \A k \in 1 .. idx[p] - 1 :
              NoWorse(entries[p], prev[p].entries, RegistryFiles[k])))'
  BY DEF Growing, NoWorse, RowsIn
<1>6. (pc[p] = "write" => Gathers(p, asked[p]))'
  BY DEF Growing, Gathers
<1>. QED BY <1>2, <1>3, <1>4, <1>5, <1>6 DEF Growing

\* A step of another process: it may replace the store, by a database that is
\* sound too.
LEMMA OthersGrow ==
    ASSUME NEW q \in Procs, Growing(q), Kept(q), UNCHANGED upstream,
           (Readable => Sound(content.entries))'
    PROVE  Growing(q)'
<1>1. \A es : Sound(es) => Sound(es)'
  BY DEF Sound
<1>2. Sound(entries[q])'
  BY DEF Growing, Kept, Sound
<1>3. /\ (prev[q] # None => Sound(prev[q].entries))'
      /\ (asked[q] # None => Sound(asked[q].entries))'
  BY <1>1 DEF Growing, Kept
<1>4. (pc[q] = "refetch" => ~Cached(q))'
  BY DEF Growing, Kept, Cached, HeldSources, SourcesOf, EntriesOf, RowsIn, Reg
<1>5. (pc[q] \in {"fetch", "refetch", "write"} /\ prev[q] # None =>
          \A k \in 1 .. idx[q] - 1 :
              NoWorse(entries[q], prev[q].entries, RegistryFiles[k]))'
  BY DEF Growing, Kept, NoWorse, RowsIn
<1>6. (pc[q] = "write" => Gathers(q, asked[q]))'
  BY DEF Growing, Kept, Gathers
<1>. QED BY <1>2, <1>3, <1>4, <1>5, <1>6 DEF Growing, Kept

AllGrow == \A p \in Procs : Growing(p)

LEMMA InitGrows == Init => AllGrow
<1>. SUFFICES ASSUME Init, NEW p \in Procs PROVE Growing(p)
  BY DEF AllGrow
<1>1. /\ content = None /\ asked[p] = None /\ prev[p] = None /\ entries[p] = {}
      /\ pc[p] = "idle" /\ idx[p] = 1
  BY DEF Init
<1>2. Sound(entries[p])
  BY <1>1 DEF Sound
<1>. QED BY <1>1, <1>2 DEF Growing, Readable

LEMMA StepGrows ==
    ASSUME "body" \notin Faults, \A a, b \in Origins : a = b,
           UInv, UInv', AllGrow, [Next]_vars
    PROVE  AllGrow'
<1>. SUFFICES ASSUME NEW q \in Procs PROVE Growing(q)'
  BY DEF AllGrow
<1>. USE DEF UInv, AllGrow
<1>1. Rising
  BY PublishedRises
<1>2. CASE \/ UNCHANGED vars \/ Tick \/ RemoveStore \/ DamageStore
           \/ \E o \in Origins, r \in Registries : Publish(o, r)
  <2>1. /\ UNCHANGED <<asked, prev, pc, sources, entries, idx, base>>
        /\ content' \in {content, None, Torn}
    BY <1>2 DEF vars, Tick, RemoveStore, DamageStore, Publish, gvars, svars
  <2>. QED BY <1>1, <2>1, WorldGrows
<1>3. ASSUME NEW p \in Procs, Starts(p) \/ Step(p) \/ Finish(p) \/ Kill(p)
      PROVE  Growing(q)'
  <2>1. Growing(p)'
    BY <1>3, FetchGrows, OtherGrows DEF Step
  <2>2. CASE q # p
    <3>1. Kept(q)
      BY <1>3, <2>2, OthersKept
    <3>2. UNCHANGED upstream
      BY <1>3 DEF Starts, Start, Step, Finish, Kill, PlainLoad, FreshEnough, NeedsRefresh,
         LoadCorrupt, LoadPrev, FetchBody, FetchBadBody, FetchFails, NotModified,
         NotModifiedAgain, Save, SaveFails, Saved, Reload, KeepCached, Unobtained, Obtained
    <3>3. (Readable => Sound(content.entries))'
      BY <2>1 DEF Growing
    <3>. QED BY <3>1, <3>2, <3>3, OthersGrow
  <2>. QED BY <2>1, <2>2
<1>. QED BY <1>2, <1>3 DEF Next

\* Only a save touches the store, the world apart.
LEMMA OnlySavesReplace ==
    ASSUME [Next]_vars
    PROVE  \/ content' \in {content, None, Torn}
           \/ \E p \in Procs : Saved(p)
<1>1. ASSUME NEW p \in Procs, Starts(p) \/ Step(p) \/ Finish(p) \/ Kill(p), ~Saved(p)
      PROVE  content' = content
  BY <1>1 DEF Starts, Start, Step, Finish, Kill, PlainLoad, FreshEnough, NeedsRefresh,
     LoadCorrupt, LoadPrev, FetchBody, FetchBadBody, FetchFails, NotModified,
     NotModifiedAgain, Save, SaveFails, Reload, KeepCached, Unobtained, Obtained,
     S!Ask, S!GiveUp, svars
<1>. QED BY <1>1 DEF Next, vars, Tick, RemoveStore, DamageStore, Publish, gvars, svars

\* What a save puts in place, compared with the store its Update started from.
LEMMA SavedGrows ==
    ASSUME UInv, NEW p \in Procs, Growing(p), Saved(p), prev[p] # None, NEW r \in Registries
    PROVE  Held(content', r) >= Held(prev[p], r)
<1>. USE DEF UInv
<1>1. /\ content' = asked[p] /\ pc[p] = "write" /\ asked[p] \in DB /\ asked[p] # None
      /\ prev[p] \in DB
  BY NoneAssumption DEF Saved, S!Put, TypeOK
<1>2. Sound(prev[p].entries) /\ Sound(asked[p].entries) /\ Gathers(p, asked[p])
  BY <1>1 DEF Growing
<1>3. PICK k \in 1 .. Len(RegistryFiles) : RegistryFiles[k] = r
  BY DEF Registries
<1>4. k \in 1 .. idx[p] - 1
  BY <1>2, RegistriesLemma DEF Gathers
<1>5. NoWorse(entries[p], prev[p].entries, RegistryFiles[k])
  BY <1>1, <1>4 DEF Growing
<1>. QED BY <1>1, <1>2, <1>3, <1>5, HeldGrows DEF Gathers

\* No save holds less of a registry, or an older version of it, than the store
\* its Update started from.
NoSaveLoses ==
    [][\A p \in Procs : Saved(p) /\ prev[p] # None =>
          \A r \in Registries : Held(content', r) >= Held(prev[p], r)]_vars

\* With one origin, for any number of processes and whatever fails but the body
\* of a response: all an update can take from the store is what another process
\* saved since it started (engine.go, Update reads the previous copy at line 101
\* and replaces the store without looking at it again).
THEOREM OnlyRacesLose ==
    "body" \notin Faults /\ (\A a, b \in Origins : a = b) => (Spec => NoSaveLoses)
<1>. SUFFICES ASSUME "body" \notin Faults, \A a, b \in Origins : a = b
              PROVE  Spec => NoSaveLoses
  OBVIOUS
<1> DEFINE A == \A p \in Procs : Saved(p) /\ prev[p] # None =>
                   \A r \in Registries : Held(content', r) >= Held(prev[p], r)
<1>1. UInv /\ AllGrow => A
  BY SavedGrows DEF AllGrow
<1>2. UInv /\ UInv' /\ AllGrow /\ [Next]_vars => AllGrow' /\ [A]_vars
  <2>. HIDE DEF A
  <2>. QED BY <1>1, StepGrows
<1>. HIDE DEF A
<1>3. Spec => [][A]_vars
  BY <1>2, InitGrows, UInvariant, PTL DEF Spec
<1>. QED BY <1>3 DEF A, NoSaveLoses

\* A process alone with its store and one origin never makes the store worse,
\* whatever fails in its updates but the body of a response.
THEOREM StoreNeverWorse ==
    /\ "body" \notin Faults
    /\ \A p, q \in Procs : p = q
    /\ \A a, b \in Origins : a = b
    => (Spec => CachedRegistriesSurvive)
<1>. SUFFICES ASSUME "body" \notin Faults, \A p, q \in Procs : p = q,
                     \A a, b \in Origins : a = b
              PROVE  Spec => CachedRegistriesSurvive
  OBVIOUS
<1> DEFINE AllAlone == \A p \in Procs : Alone(p)
           A == Readable /\ Readable' /\ OneOrigin(content, content') =>
                   \A r \in Registries : Held(content', r) >= Held(content, r)
<1>1. Init => AllAlone
  BY DEF Init, Alone
<1>2. TypeOK /\ AllAlone /\ [Next]_vars => AllAlone'
  <2>. SUFFICES ASSUME TypeOK, AllAlone, [Next]_vars, NEW p \in Procs PROVE Alone(p)'
    OBVIOUS
  <2>. USE DEF Alone, Readable
  <2>1. CASE /\ content' \in {content, None, Torn}
             /\ UNCHANGED prev
             /\ pc'[p] \in {"fetch", "refetch", "write"} =>
                   pc[p] \in {"fetch", "refetch", "write"}
    BY <2>1
  <2>2. CASE \/ UNCHANGED vars \/ Tick \/ RemoveStore \/ DamageStore
             \/ \E o \in Origins, r \in Registries : Publish(o, r)
    BY <2>1, <2>2 DEF vars, Tick, RemoveStore, DamageStore, Publish, gvars, svars
  <2>3. CASE LoadPrev(p)
    BY <2>3 DEF LoadPrev, svars, Goto, TypeOK
  <2>4. CASE Saved(p) \/ Starts(p) \/ Finish(p) \/ Kill(p)
    BY <2>4, SetsAssumption DEF Saved, Starts, Start, Finish, Kill, Reset, Goto, End, TypeOK,
       AllCommands
  <2>5. CASE Step(p) /\ ~LoadPrev(p) /\ ~Saved(p)
    <3>1. CASE \/ PlainLoad(p) \/ FreshEnough(p) \/ NeedsRefresh(p) \/ LoadCorrupt(p)
               \/ Reload(p) \/ Save(p) \/ SaveFails(p)
      BY <2>1, <3>1 DEF PlainLoad, FreshEnough, NeedsRefresh, LoadCorrupt, Reload, Save,
         SaveFails, UpdateFails, S!Ask, S!GiveUp, End, Goto, gvars, svars, TypeOK
    <3>2. CASE \/ FetchBody(p) \/ FetchBadBody(p) \/ FetchFails(p)
               \/ NotModified(p) \/ NotModifiedAgain(p)
      <4>1. pc[p] \in {"fetch", "refetch"}
        BY <3>2 DEF FetchBody, FetchBadBody, FetchFails, NotModified, NotModifiedAgain, Fetching
      <4>2. UNCHANGED <<content, prev>>
        BY <3>2 DEF FetchBody, FetchBadBody, FetchFails, NotModified, NotModifiedAgain,
           KeepCached, Unobtained, Obtained, gvars, svars
      <4>. QED BY <2>1, <4>1, <4>2
    <3>. QED BY <2>5, <3>1, <3>2 DEF Step
  <2>. QED BY <2>2, <2>3, <2>4, <2>5 DEF Next
<1>3. UInv /\ AllGrow /\ AllAlone /\ [Next]_vars => [A]_content
  <2>. SUFFICES ASSUME UInv, AllGrow, AllAlone, [Next]_vars, Readable, Readable',
                       content' # content, NEW r \in Registries
                PROVE  Held(content', r) >= Held(content, r)
    OBVIOUS
  <2>1. PICK p \in Procs : Saved(p)
    BY OnlySavesReplace DEF Readable
  <2>2. prev[p] = content /\ prev[p] # None /\ Growing(p)
    BY <2>1 DEF Saved, Alone, Readable, AllGrow
  <2>. QED BY <2>1, <2>2, SavedGrows
<1>4. UInv /\ UInv' /\ AllGrow /\ [Next]_vars => AllGrow'
  BY StepGrows
<1>5. UInv => TypeOK
  BY DEF UInv
<1>. QED BY <1>1, <1>2, <1>3, <1>4, <1>5, InitGrows, UInvariant, PTL
         DEF Spec, CachedRegistriesSurvive
=============================================================================
