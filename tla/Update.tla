------------------------------- MODULE Update -------------------------------
(***************************************************************************)
(* engine.Update and engine.EnsureFresh, as run by several processes       *)
(* (mac-lookup commands and the update_db tool of MCP servers) that share  *)
(* one store and the IEEE origin, with no lock between them.               *)
(*                                                                         *)
(* The store is AtomicStore, which WriteStore (writeStore's files and      *)
(* renames) is proved to implement: `content' is what a reader gets and    *)
(* `asked' the databases about to be renamed into place.  One action is    *)
(* one exchange of a process with the world: a read of the store, a        *)
(* request to the origin, the save.  Everything a handler does with the    *)
(* answer, up to its next exchange, belongs to the action.                 *)
(*                                                                         *)
(* A registry file is abstracted to its published version, its rows to one *)
(* representative row of that version, and its validator (ETag and         *)
(* Last-Modified, which travel together) to the version it validates.      *)
(***************************************************************************)
EXTENDS Integers, Sequences

CONSTANTS Procs,          \* processes
          Commands,       \* the commands they run, among AllCommands
          RegistryFiles,  \* ieee.RegistryFiles: the registries in fetch order
          MAL,            \* the indispensable one
          Origins,        \* base URLs a process may be configured with
          Untagged,       \* registries served without a validator
          Blank,          \* registries first published with a header only
          MaxVersion,     \* bound: last version published of a registry
          MaxTime,        \* bound: the clock stops there
          TTL,            \* config.TTL, in ticks of that clock
          Faults,         \* what can go wrong in this instance, in AllFaults
          Torn,           \* store bytes that ouidb.Open rejects
          None            \* no database, no validator

Registries == {RegistryFiles[i] : i \in 1 .. Len(RegistryFiles)}
AllCommands == {"update",   \* `update', update_db: Update
                "lookup",   \* `lookup' with auto_update: EnsureFresh first
                "read"}     \* `lookup --no-update', `search', `status': LoadDB
AllFaults == {"fetch",   \* a request fails (transport, HTTP status, timeout)
              "body",    \* the body after a 200 is cut short or malformed
              "bad304",  \* the origin answers 304 to a request with no validator
              "write",   \* writeStore returns an error
              "crash",   \* a process is killed
              "remove",  \* someone deletes the store
              "damage"}  \* someone damages the store

ASSUME RegistriesAssumption ==
    /\ RegistryFiles \in Seq(Registries)
    /\ \A i, j \in 1 .. Len(RegistryFiles) :
          RegistryFiles[i] = RegistryFiles[j] => i = j
    /\ MAL \in Registries
ASSUME BoundsAssumption ==
    MaxVersion \in Nat /\ MaxTime \in Nat /\ TTL \in Nat
ASSUME SetsAssumption ==
    /\ Commands \subseteq AllCommands /\ Faults \subseteq AllFaults
    /\ Untagged \subseteq Registries /\ Blank \subseteq Registries

Version == 0 .. MaxVersion
Time == 0 .. MaxTime
Tag == Version \cup {None}
Row == [reg : Registries, url : Origins, version : Version]
Source == [reg : Registries, url : Origins, tag : Tag]
DB == [gen : Time, sources : SUBSET Source, entries : SUBSET Row]

ASSUME NoneAssumption ==
    /\ None # Torn /\ None \notin Int
    /\ None \notin DB /\ Torn \notin DB

\* ouidb.ParseCSV of version v of registry r, as origin o serves it.
RowsOf(r, o, v) == IF v = 0 /\ r \in Blank THEN {}
                   ELSE {[reg |-> r, url |-> o, version |-> v]}
TagOf(r, v) == IF r \in Untagged THEN None ELSE v

VARIABLES
    content,   \* the store: None (missing), Torn (corrupt), or a database
    asked,     \* asked[p]: the database p is in writeStore with, or None
    upstream,  \* upstream[o][r]: the version origin o publishes
    now,       \* the clock
    pc,        \* pc[p]: what p does next
    op,        \* op[p]: its command
    base,      \* base[p]: its Cfg.BaseURL
    db,        \* db[p]: what EnsureFresh or LoadDB holds for the answer, or None
    prev,      \* prev[p]: the store Update started from, or None
    idx,       \* idx[p]: Update's place in RegistryFiles
    sources,   \* sources[p], entries[p]: what Update gathered so far
    entries,
    how,       \* how[p][r]: UpdateResult, how registry r was obtained
    result,    \* result[p]: how the command ended
    began      \* history: upstream and the clock when Update began, or when
               \* EnsureFresh found the store fresh enough

svars == <<content, asked>>
gvars == <<prev, idx, sources, entries, how, began>>
vars == <<content, asked, upstream, now, pc, op, base, db, prev, idx, sources,
          entries, how, result, began>>

S == INSTANCE AtomicStore WITH Writers <- Procs, Contents <- DB

PC == {"idle", "ensure", "load", "fetch", "refetch", "write", "reload",
       "plain", "done"}
How == {"pending", "downloaded", "unchanged", "fallback", "dropped"}
Results == {"none", "updated", "answered", "warned", "error", "panic"}
NotBegun == [upstream |-> [o \in Origins |-> [r \in Registries |-> 0]],
             now |-> 0]

TypeOK ==
    /\ content \in DB \cup {None, Torn}
    /\ asked \in [Procs -> DB \cup {None}]
    /\ upstream \in [Origins -> [Registries -> Version]]
    /\ now \in Time
    /\ pc \in [Procs -> PC]
    /\ op \in [Procs -> AllCommands \cup {None}]
    /\ base \in [Procs -> Origins \cup {None}]
    /\ db \in [Procs -> DB \cup {None}]
    /\ prev \in [Procs -> DB \cup {None}]
    /\ idx \in [Procs -> 1 .. Len(RegistryFiles) + 1]
    /\ sources \in [Procs -> SUBSET Source]
    /\ entries \in [Procs -> SUBSET Row]
    /\ how \in [Procs -> [Registries -> How]]
    /\ result \in [Procs -> Results]
    /\ began \in [Procs -> [upstream : [Origins -> [Registries -> Version]],
                            now : Time]]

Init ==
    /\ content = None
    /\ asked = [p \in Procs |-> None]
    /\ upstream = [o \in Origins |-> [r \in Registries |-> 0]]
    /\ now = 0
    /\ pc = [p \in Procs |-> "idle"]
    /\ op = [p \in Procs |-> None]
    /\ base = [p \in Procs |-> None]
    /\ db = [p \in Procs |-> None]
    /\ prev = [p \in Procs |-> None]
    /\ idx = [p \in Procs |-> 1]
    /\ sources = [p \in Procs |-> {}]
    /\ entries = [p \in Procs |-> {}]
    /\ how = [p \in Procs |-> [r \in Registries |-> "pending"]]
    /\ result = [p \in Procs |-> "none"]
    /\ began = [p \in Procs |-> NotBegun]
-----------------------------------------------------------------------------
\* Engine.LoadDB: ErrNoDB, another error, or the database.
Missing == content = None
Corrupt == content = Torn
Readable == content \notin {None, Torn}

\* The sources of database d for registry r as fetched from origin o (there is
\* at most one), and d's rows of registry r, whatever origin they came from.
RowsIn(es, r) == {e \in es : e.reg = r}
SourcesOf_AnyURL(d, r, o) == IF d = None THEN {}  \* seeded bug: no s.URL == url
                             ELSE {s \in d.sources : s.reg = r}
SourcesOf(d, r, o) == IF d = None THEN {}
                      ELSE {s \in d.sources : s.reg = r /\ s.url = o}
EntriesOf(d, r) == IF d = None THEN {} ELSE RowsIn(d.entries, r)

\* The command ends; what it prints is told by result and db.
End(p, outcome) == /\ pc' = [pc EXCEPT ![p] = "done"]
                   /\ result' = [result EXCEPT ![p] = outcome]

Goto(p, where) == pc' = [pc EXCEPT ![p] = where] /\ UNCHANGED result

Start(p, c, o) ==
    /\ pc[p] = "idle"
    /\ op' = [op EXCEPT ![p] = c]
    /\ base' = [base EXCEPT ![p] = o]
    /\ Goto(p, CASE c = "update" -> "load"
                 [] c = "lookup" -> "ensure"
                 [] c = "read"   -> "plain")
    /\ UNCHANGED <<svars, gvars, upstream, now, db>>

Reset(p) ==
    /\ pc' = [pc EXCEPT ![p] = "idle"]
    /\ op' = [op EXCEPT ![p] = None]
    /\ base' = [base EXCEPT ![p] = None]
    /\ db' = [db EXCEPT ![p] = None]
    /\ prev' = [prev EXCEPT ![p] = None]
    /\ idx' = [idx EXCEPT ![p] = 1]
    /\ sources' = [sources EXCEPT ![p] = {}]
    /\ entries' = [entries EXCEPT ![p] = {}]
    /\ how' = [how EXCEPT ![p] = [r \in Registries |-> "pending"]]
    /\ result' = [result EXCEPT ![p] = "none"]
    /\ began' = [began EXCEPT ![p] = NotBegun]

\* The command has ended and its output was read; the process may run another.
Finish(p) == pc[p] = "done" /\ Reset(p) /\ UNCHANGED <<svars, upstream, now>>

-----------------------------------------------------------------------------
\* loadDBOrHint: the commands that never refetch answer from the store.
PlainLoad(p) ==
    /\ pc[p] = "plain"
    /\ IF Readable
       THEN db' = [db EXCEPT ![p] = content] /\ End(p, "answered")
       ELSE UNCHANGED db /\ End(p, "error")
    /\ UNCHANGED <<svars, gvars, upstream, now, op, base>>

\* Seeded bug: any store will do, whatever its age.
FreshEnough_AnyAge(p) ==
    /\ pc[p] = "ensure"
    /\ Readable
    /\ db' = [db EXCEPT ![p] = content]
    /\ began' = [began EXCEPT ![p] = [upstream |-> upstream, now |-> now]]
    /\ End(p, "answered")
    /\ UNCHANGED <<svars, upstream, now, op, base, prev, idx, sources, entries, how>>

\* EnsureFresh's own LoadDB finds a store no older than the TTL ...
FreshEnough(p) ==
    /\ pc[p] = "ensure"
    /\ Readable /\ now - content.gen <= TTL
    /\ db' = [db EXCEPT ![p] = content]
    /\ began' = [began EXCEPT ![p] = [upstream |-> upstream, now |-> now]]
    /\ End(p, "answered")
    /\ UNCHANGED <<svars, upstream, now, op, base, prev, idx, sources, entries, how>>

\* ... or an older one, kept in case Update fails, or none: Update is called ...
NeedsRefresh(p) ==
    /\ pc[p] = "ensure"
    /\ ~Corrupt /\ (Readable => now - content.gen > TTL)
    /\ db' = [db EXCEPT ![p] = content]
    /\ Goto(p, "load")
    /\ UNCHANGED <<svars, gvars, upstream, now, op, base>>

\* ... or a store that does not parse, which ends the lookup.
LoadCorrupt(p) ==
    /\ pc[p] = "ensure"
    /\ Corrupt
    /\ End(p, "error")
    /\ UNCHANGED <<svars, gvars, upstream, now, op, base, db>>

\* Update's LoadDB: a missing or corrupt store is no previous copy.
LoadPrev(p) ==
    /\ pc[p] = "load"
    /\ prev' = [prev EXCEPT ![p] = IF Readable THEN content ELSE None]
    /\ began' = [began EXCEPT ![p] = [upstream |-> upstream, now |-> now]]
    /\ Goto(p, "fetch")
    /\ UNCHANGED <<svars, upstream, now, op, base, db, idx, sources, entries, how>>
-----------------------------------------------------------------------------
\* Update's loop over RegistryFiles: the registry it is at, its URL's origin,
\* and what fetchRegistry finds in the previous store.
Fetching(p) == pc[p] \in {"fetch", "refetch"} /\ idx[p] <= Len(RegistryFiles)
Reg(p) == RegistryFiles[idx[p]]
Published(p) == upstream[base[p]][Reg(p)]
HeldSources(p) == SourcesOf(prev[p], Reg(p), base[p])

\* cachedRegistry's ok: a source of this URL, and rows of this registry.
Cached(p) == HeldSources(p) # {} /\ EntriesOf(prev[p], Reg(p)) # {}

\* The request carries a validator, and it is the published version's.
Validates(p) == /\ Published(p) = TagOf(Reg(p), Published(p))
                /\ \E s \in HeldSources(p) : s.tag = Published(p)

Unconditional(p) == pc[p] = "refetch" \/ \A s \in HeldSources(p) : s.tag = None

\* The loop's bookkeeping for a registry obtained with these sources and rows.
Obtained(p, way, src, got) ==
    /\ sources' = [sources EXCEPT ![p] = @ \cup src]
    /\ entries' = [entries EXCEPT ![p] = @ \cup got]
    /\ how' = [how EXCEPT ![p][Reg(p)] = way]
    /\ idx' = [idx EXCEPT ![p] = @ + 1]
    /\ Goto(p, "fetch")
    /\ UNCHANGED <<svars, upstream, now, op, base, db, prev, began>>

\* Seeded bug: the validator of the response on the rows of the cache.
KeepCached_NewTag(p, way) ==
    Obtained(p, way,
             {[reg |-> Reg(p), url |-> base[p], tag |-> TagOf(Reg(p), Published(p))]},
             EntriesOf(prev[p], Reg(p)))
KeepCached(p, way) ==
    Obtained(p, way, HeldSources(p), EntriesOf(prev[p], Reg(p)))

\* Update returns an error: `update' reports it, a lookup answers from the copy
\* EnsureFresh holds, with a warning, or has nothing to answer from.
UpdateFails_NoCopy(p) == End(p, "error")  \* seeded bug: the stale copy is ignored
UpdateFails(p) ==
    End(p, IF op[p] = "update" \/ db[p] = None THEN "error" ELSE "warned")

\* Seeded bug: MA-L is as dispensable as the others.
Unobtained_NeverFatal(p) == Obtained(p, "dropped", {}, {})

\* fetchRegistry returns an error: fatal for MA-L, a warning for the others.
Unobtained(p) ==
    IF Reg(p) = MAL
    THEN /\ UpdateFails(p)
         /\ UNCHANGED <<svars, gvars, upstream, now, op, base, db>>
    ELSE Obtained(p, "dropped", {}, {})

\* Seeded bug: the new rows are added to the previous ones.
FetchBody_Appends(p) ==
    /\ Fetching(p)
    /\ Obtained(p, "downloaded",
                {[reg |-> Reg(p), url |-> base[p],
                  tag |-> TagOf(Reg(p), Published(p))]},
                RowsOf(Reg(p), base[p], Published(p)) \cup EntriesOf(prev[p], Reg(p)))

\* The body of a 200 parses: its rows, and the validators the response has.  The
\* origin may send the file whatever validator the request carried.
FetchBody(p) ==
    /\ Fetching(p)
    /\ Obtained(p, "downloaded",
                {[reg |-> Reg(p), url |-> base[p],
                  tag |-> TagOf(Reg(p), Published(p))]},
                RowsOf(Reg(p), base[p], Published(p)))

\* The body of a 200 breaks off or does not parse: ParseCSV's error is
\* returned as it is, with no look at the previous copy.
FetchBadBody(p) ==
    /\ "body" \in Faults
    /\ Fetching(p)
    /\ Unobtained(p)

\* Seeded bugs: a failed fetch drops the registry, cached or not; or is told as
\* an unchanged registry.
FetchFails_Drops(p) == "fetch" \in Faults /\ Fetching(p) /\ Unobtained(p)
FetchFails_Untold(p) ==
    /\ "fetch" \in Faults
    /\ Fetching(p)
    /\ IF pc[p] = "fetch" /\ Cached(p) THEN KeepCached(p, "unchanged")
                                       ELSE Unobtained(p)

FetchFails(p) ==
    /\ "fetch" \in Faults
    /\ Fetching(p)
    /\ IF pc[p] = "fetch" /\ Cached(p) THEN KeepCached(p, "fallback")
                                       ELSE Unobtained(p)

\* Seeded bugs: the second request is conditional again, as often as it takes;
\* or the rows are asked for again, cached or not.
NotModified_RetriesSame(p) ==
    /\ Fetching(p)
    /\ Validates(p)
    /\ IF Cached(p)
       THEN KeepCached(p, "unchanged")
       ELSE /\ Goto(p, IF pc[p] = "fetch" THEN "refetch" ELSE "fetch")
            /\ UNCHANGED <<svars, gvars, upstream, now, op, base, db>>
NotModified_AsksAgain(p) ==
    /\ Fetching(p) /\ pc[p] = "fetch"
    /\ \/ Validates(p)
       \/ Unconditional(p) /\ "bad304" \in Faults
    /\ Goto(p, "refetch")
    /\ UNCHANGED <<svars, gvars, upstream, now, op, base, db>>

\* A 304 to the conditional request: the cached rows if there are any, else an
\* unconditional request follows.
NotModified(p) ==
    /\ Fetching(p) /\ pc[p] = "fetch"
    /\ \/ Validates(p)
       \/ Unconditional(p) /\ "bad304" \in Faults
    /\ IF Cached(p)
       THEN KeepCached(p, "unchanged")
       ELSE /\ Goto(p, "refetch")
            /\ UNCHANGED <<svars, gvars, upstream, now, op, base, db>>

\* A 304 to the unconditional request: NotModified is not looked at again, and
\* the Response has no Body to parse.
NotModifiedAgain(p) ==
    /\ "bad304" \in Faults
    /\ Fetching(p) /\ pc[p] = "refetch"
    /\ End(p, "panic")
    /\ UNCHANGED <<svars, gvars, upstream, now, op, base, db>>

-----------------------------------------------------------------------------
\* Seeded bug: stamped ahead of the clock.
Save_Ahead(p) ==
    /\ pc[p] = "fetch" /\ idx[p] > Len(RegistryFiles)
    /\ S!Ask(p, [gen |-> now + 1, sources |-> sources[p], entries |-> entries[p]])
    /\ Goto(p, "write")
    /\ UNCHANGED <<gvars, upstream, now, op, base, db>>

\* The loop is over: stamp the database and hand it to writeStore.
Save(p) ==
    /\ pc[p] = "fetch" /\ idx[p] > Len(RegistryFiles)
    /\ S!Ask(p, [gen |-> now, sources |-> sources[p], entries |-> entries[p]])
    /\ Goto(p, "write")
    /\ UNCHANGED <<gvars, upstream, now, op, base, db>>

SaveFails(p) ==
    /\ "write" \in Faults
    /\ pc[p] = "write"
    /\ S!GiveUp(p)
    /\ UpdateFails(p)
    /\ UNCHANGED <<gvars, upstream, now, op, base, db>>

\* writeStore has renamed the database into place: Update returns its result.
Saved(p) ==
    /\ pc[p] = "write"
    /\ S!Put(p)
    /\ IF op[p] = "update"
       THEN End(p, "updated") /\ db' = [db EXCEPT ![p] = asked[p]]
       ELSE Goto(p, "reload") /\ UNCHANGED db
    /\ UNCHANGED <<gvars, upstream, now, op, base>>

\* EnsureFresh reads back the store, whoever wrote it last.
Reload(p) ==
    /\ pc[p] = "reload"
    /\ IF Readable
       THEN db' = [db EXCEPT ![p] = content] /\ End(p, "answered")
       ELSE db' = [db EXCEPT ![p] = None] /\ End(p, "error")
    /\ UNCHANGED <<svars, gvars, upstream, now, op, base>>

\* The process is killed; a database it had not renamed yet is lost.
Kill(p) ==
    /\ "crash" \in Faults
    /\ pc[p] \notin {"idle", "done"}
    /\ IF asked[p] = None THEN UNCHANGED svars ELSE S!GiveUp(p)
    /\ Reset(p)
    /\ UNCHANGED <<upstream, now>>
-----------------------------------------------------------------------------
\* The world: the origin publishes, time passes, the store file is touched.
Publish(o, r) ==
    /\ upstream[o][r] < MaxVersion
    /\ upstream' = [upstream EXCEPT ![o][r] = @ + 1]
    /\ UNCHANGED <<svars, gvars, now, pc, op, base, db, result>>

Tick == /\ now < MaxTime
        /\ now' = now + 1
        /\ UNCHANGED <<svars, gvars, upstream, pc, op, base, db, result>>

RemoveStore == /\ "remove" \in Faults
               /\ content' = None
               /\ UNCHANGED <<asked, gvars, upstream, now, pc, op, base, db, result>>

DamageStore == /\ "damage" \in Faults
               /\ content # None
               /\ content' = Torn
               /\ UNCHANGED <<asked, gvars, upstream, now, pc, op, base, db, result>>

Step(p) == \/ PlainLoad(p) \/ FreshEnough(p) \/ NeedsRefresh(p) \/ LoadCorrupt(p)
           \/ LoadPrev(p) \/ FetchBody(p) \/ FetchBadBody(p) \/ FetchFails(p)
           \/ NotModified(p) \/ NotModifiedAgain(p) \/ Save(p) \/ SaveFails(p)
           \/ Saved(p) \/ Reload(p)

Starts(p) == \E c \in Commands, o \in Origins : Start(p, c, o)

Next == \/ \E p \in Procs : Starts(p) \/ Step(p) \/ Finish(p) \/ Kill(p)
        \/ \E o \in Origins, r \in Registries : Publish(o, r)
        \/ Tick
        \/ RemoveStore
        \/ DamageStore

Spec == Init /\ [][Next]_vars

\* A command in progress goes on: every request ends by HTTPFetcher's client
\* timeout at the latest, and no step waits for another process.
FairSpec == Spec /\ \A p \in Procs : WF_vars(Step(p)) /\ WF_vars(Finish(p))
-----------------------------------------------------------------------------
(***************************************************************************)
(* Properties.                                                             *)
(***************************************************************************)
\* A database whose validators can be trusted: every source that carries one
\* comes with exactly the rows it validates, a registry has one source, and no
\* row is without a source.  If it failed, the 304s that follow would certify
\* the wrong rows for ever.
Coherent(ss, es) ==
    /\ \A s \in ss : s.tag # None => RowsIn(es, s.reg) = RowsOf(s.reg, s.url, s.tag)
    /\ \A s, t \in ss : s.reg = t.reg => s = t
    /\ \A e \in es : \E s \in ss : s.reg = e.reg /\ s.url = e.url

\* The store is coherent, through any interleaving of updates, fallbacks, dropped
\* registries and changes of base URL, and holds MA-L: "without it there is no
\* database at all" (engine.go, Update).
StoreCoherent == Readable => Coherent(content.sources, content.entries)
RequiredPresent == Readable => \E s \in content.sources : s.reg = MAL

\* The version of registry r that database d holds; -1 if it has no row of it.
Held(d, r) == IF EntriesOf(d, r) = {} THEN -1
              ELSE (CHOOSE e \in EntriesOf(d, r) : TRUE).version

\* UpdateResult tells the truth: what it calls downloaded or unchanged is no
\* older than what its origin published when Update began, what it calls a
\* fallback is the previous copy, and what it warned it could not get is not
\* in the database.  "Unchanged and unreachable are kept apart deliberately"
\* (engine.go, UpdateResult).
ResultTold ==
    \A p \in Procs : result[p] = "updated" => \A r \in Registries :
        /\ how[p][r] # "pending"
        /\ how[p][r] \in {"downloaded", "unchanged"} =>
              \E v \in Version :
                 /\ v >= began[p].upstream[base[p]][r]
                 /\ EntriesOf(db[p], r) = RowsOf(r, base[p], v)
        /\ how[p][r] = "fallback" =>
              EntriesOf(db[p], r) = EntriesOf(prev[p], r) /\ EntriesOf(db[p], r) # {}
        /\ how[p][r] = "dropped" =>
              EntriesOf(db[p], r) = {} /\ SourcesOf(db[p], r, base[p]) = {}

\* A lookup that warns of nothing answers from a database that was within the
\* TTL when it last read the store before answering or refetching.  (For one
\* process: the slower update of another may come in between.)
AnswerWithinTTL ==
    \A p \in Procs : op[p] = "lookup" /\ result[p] = "answered" =>
        db[p].gen >= began[p].now - TTL

\* An update from the origin the store came from never makes the store worse: no
\* registry of it loses its rows or goes back to an older version.  "A registry
\* that 304s, or that fails to fetch when a previous copy exists, keeps its
\* cached entries" (engine.go, Update).
OneOrigin(d, e) == \A s \in d.sources, t \in e.sources : s.url = t.url
CachedRegistriesSurvive ==
    [][Readable /\ Readable' /\ OneOrigin(content, content') =>
          \A r \in Registries : Held(content', r) >= Held(content, r)]_content

\* "Only a total absence of data is a hard error" (engine.go, EnsureFresh): a
\* lookup that may refetch fails only if no store existed when it started.
OnlyAbsenceIsFatal ==
    [][\A p \in Procs : op[p] = "lookup" /\ result'[p] = "error" =>
          db[p] = None /\ (pc[p] = "ensure" => Missing)]_result

\* "A 304 with nothing cached should not happen ..., but refetching
\* unconditionally is the safe recovery" (engine.go:184, fetchRegistry): no
\* update reads the body of a response that has none.
NoPanic == \A p \in Procs : result[p] # "panic"

\* A registry that is cached is never asked for twice: even an origin that
\* answers 304 to everything makes no update read a missing body for a registry
\* whose rows and source of this URL the previous store holds, whatever other
\* processes do to the store meanwhile (engine.go:180-186).
PanicOnlyUncached == \A p \in Procs : result[p] = "panic" => ~Cached(p)

\* Every command ends.
CommandsEnd == \A p \in Procs : pc[p] # "idle" ~> pc[p] = "idle"

\* The store holds what the origins publish.
Current == /\ Readable
           /\ \A r \in Registries : \E o \in Origins :
                 EntriesOf(content, r) = RowsOf(r, o, upstream[o][r])

\* If updates keep being run and faults do not recur, the store ends up current
\* and stays so: neither a kept validator nor a slower process holds it back.
Refreshes == (\A p \in Procs : []<>(result[p] = "updated")) => <>[]Current
=============================================================================
