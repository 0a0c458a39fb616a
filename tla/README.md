# mac-lookup in TLA+

`mac-lookup` resolves MAC addresses offline, from a cached copy of five public
IEEE registries (MA-L, MA-M, MA-S, IAB, CID). It is a command line (`lookup`,
`search`, `update`, `status`) and an MCP server on stdio (`lookup_mac`,
`search_vendor`, `update_db`, `db_status`). There is no daemon and no lock: any
number of processes read and replace one store file.

This directory holds a model of its logic: modules checked on small instances
by TLC, theorems about them checked by TLAPS, and this text. Source lines are
given as `file:line` within `internal/`.

## 1. The system

| component | state | operations | interacts with |
|---|---|---|---|
| `engine`: the store | the file at `Config.StorePath` | `LoadDB`, `writeStore` | every process, by rename |
| `engine`: refreshing | none of its own (a call's previous database, sources, rows) | `Update`, `fetchRegistry`, `cachedRegistry`, `EnsureFresh`, `IsStale` | `ieee`, the store |
| `ieee` | none | `URLFor`, `Conditional`, `HTTPFetcher.Fetch` | the origin, over HTTP |
| `ouidb` | a `DB`: rows, sources, two indexes | `ParseCSV`, `New`, `Serialize`, `Open`, `Lookup`, `LookupCID`, `Search` | — |
| `macaddr` | none | `Parse`, `Canonical`, `VendorLookupApplicable`, `WellKnown` | — |
| `engine.Resolve`, `app/output` | none | classification, note, text line | `macaddr`, `ouidb` |
| `mcp` server | `db`, `dbMod`: the parsed store and the time of its file | `Serve`, `handle`, the five tools, `database` | store, `Update` |
| `app` | none | one command per process, exit codes | all of the above |
| `config` | none | `Load` (file, environment, flags, TTL floor) | — |

What is hard here, and what makes each part correct:

* **The store.** A reader at any moment, and after any crash, finds nothing or
  one whole database; no error path leaves a temporary file behind.
* **Refreshing.** Five requests, each of which may be answered in full, with a
  304 or not at all, and a previous copy to fall back on. The rows saved must be
  those the saved validators validate, or each later 304 certifies the wrong
  rows. A failed registry keeps its rows, MA-L excepted nothing is fatal, and
  the result says how each registry was obtained. Updates of other processes
  interleave with all of it.
* **The cache of the MCP server.** It is keyed by a modification time and filled
  in two steps, while others rename: it must not answer from a superseded
  database.
* **Resolution.** Five registries with nested blocks, reissued assignments,
  withheld names and legacy rows: the most specific row of the right registry
  wins; a group or a randomized address gets no manufacturer.
* **The MCP session.** One message is decoded, handled and answered at a time;
  notifications are neither run nor answered, a call that is refused touches
  nothing, and what a session is told of the store never goes back in time.
* **Configuration.** Three layers of settings, any of which may hold nonsense; the
  threshold that results spaces the automatic fetches.
* **Paging.** A client walks matches by offset, over a store that may change,
  with integers from JSON.
* **Exit codes.** One address and a batch follow different rules.

`PROJECT.json` lists the hazards line by line, with the properties that cover
each, or the reason why none does.

## 2. Modules

```
AtomicStore <-- implemented by -- WriteStore        Resolve
     ^                                ^                ^
     | INSTANCE                       | INSTANCE       | EXTENDS
   Update                        McpDatabase     LookupCommand      SearchPaging
                                      ^
                                      | EXTENDS
                                 McpSession                         Config
```

Each `X_proofs` holds the theorems of `X` (those of Update fill two modules,
`Update_proofs` and `UpdateResult_proofs`); each `MCX` gives the constants of the
`.cfg` files that start with its name. Definitions marked "Seeded bug" are no
part of a specification: they are mutated forms of the definition that follows
them, and `PROJECT.json` says which property each one breaks.

**AtomicStore.** What `writeStore` promises, with no file in sight: a writer asks
to save a database, later puts it in one step or gives up without a trace.

**WriteStore** (engine.go:236-263). A file is the database it holds (`Torn` while
partly written) and its mtime. One action per system call of `writeStore`:
`CreateTemp`, `Serialize`, `Install` (the rename), `WriteFails`, `Return` with
the deferred removal, `ReturnUnremoved` when that fails too, and `Crash` between
any two. Any number of calls interleave. It refines AtomicStore, `content` being
what a reader makes of the file and `asked` the databases not yet renamed.

**Update** (engine.go:92-290, fetch.go). Several processes run `update`, a
`lookup` that may refetch (`EnsureFresh`), or a plain read. One action is one
exchange with the world (a read of the store, a request, the save), with all the
handler does until its next one: `LoadPrev`; per registry `FetchBody`,
`FetchBadBody`, `FetchFails`, `NotModified`, `NotModifiedAgain`; `Save`, `SaveFails`,
`Saved`; `Reload`. `Publish`, `Tick`, `Kill`, `RemoveStore` and `DamageStore` are
the world. The store is AtomicStore, as WriteStore is proved to implement it. A
registry file is its published version; a row stands for the rows of one version
of one registry from one origin; ETag and Last-Modified travel together as one
validator. `how` is the lists of `UpdateResult`.

**McpDatabase** (server.go:55-158). `database()` step by step: the stat
(`StatMissing`, `CacheHit`, `CacheMiss`), the load, the reply, over WriteStore's
files; the server's own `update_db` writes never overlap its lookups (`Serve`
handles one request at a time), other processes' do. `Restart` loses the cache.

**McpSession** (server.go:65-117, tools.go:58-83, 129-161, 339-368). The loop of
`Serve` around McpDatabase: `Decode` takes the next message, which is chosen when it
is decoded because a client may send ahead; `DecodeFails` and `EndOfInput` end the
loop; `Direct`, `ReadStep`/`ReadEnds` and `UpdateFails`/`UpdateStep`/`UpdateEnds` handle the
request in hand, with the steps of `database()` and of `writeStore` in them, so that
another process acts between any two; each ends in `Encode`, the reply or a standard
output that fails. A message is an id or none, one of three kinds of call, and
whether its arguments are accepted. Every database `Update` builds is a new one
(`Unbuilt`): `generated_at` is in it. `heard`, `installs` and `born` are history.

**Config** (config.go:50-247, commands.go:39-45, 156-158, engine.go:270-290). A line
of the file is a section header, a key with a value, or neither; a value is what it
parses to, a number of minutes an integer of ticks, NaN or an infinity. `ParseTOML`
folds the lines; `Over` puts one layer on another; `LoadFails` and `Load` are the
function. `Start`, `Answer`, `Refetch` and `Update` are a command, and between two of
them the user edits file and environment (`AppendLine`, `Replace`, `Export`) and time
passes. `Update` is one step here: the module Update has its steps.

**Resolve** (macaddr.go, ouidb.go:201-311, engine.go:299-361, output.go:50-151).
Pure operators: an address is a sequence of hex digits; `New` gives the databases
a set of rows may yield, more than one where a sort that is not stable decides;
`Lookup`, `LookupCID`, `Match`, `NoteFor`, `TextFor` follow the functions of these
names.

**LookupCommand** (commands.go:80-151, tools.go:217-271). A batch resolved one
address per step against the database loaded at the start, while `Rebuild`
replaces the store; `Exit` gives the exit code and `WriteFails` is the JSON
writer's early return.

**SearchPaging** (tools.go:278-337, commands.go:175-226, ouidb.go:313-335). One
query is fixed; a store is the sequence of its matches. `Call` is any call of
the tool; `StartWalk` and `NextPage` are the client usage.md describes;
`SearchCommand` is the command. `Wrap` is Go's addition of two ints.

## 3. What is checked

Runs that pass:

| run | instance | what it shows |
|---|---|---|
| `MCWriteStore` | 3 writers, 4 names, 2 databases, 2 leaks | `StoreWhole`, `OnlyLeaksRemain`, and `Atomic`: the refinement of AtomicStore |
| `MCUpdateAlone` | 1 process, 3 registries (one without validators, one first published empty), 2 origins, 2 versions, 2 instants, failing requests and saves, kills | `StoreCoherent`, `ResultTold`: rows, validators and what is told of them never mix two origins; `AnswerWithinTTL`, `CachedRegistriesSurvive`, `OnlyAbsenceIsFatal`: what engine.go's comments promise holds for a lone process when bodies that arrive parse |
| `MCUpdateShared` | 2 processes, 2 registries, every fault | `StoreCoherent`, `RequiredPresent`, `ResultTold` survive any interleaving; `PanicOnlyUncached`: a registry with a cached copy is never asked for twice, whatever the origin answers |
| `MCUpdateRecurring` | 2 processes, fairness, no fault | `CommandsEnd`; `Refreshes`: the store becomes current and stays so |
| `MCMcpDatabase` | server, 2 writers, 4 mtimes, deletions and damage | `AnswerWasOnDisk`: every answer was in the store at some time of its call |
| `MCMcpSession` | 1 session of 3 messages out of 5, another writer, 3 databases (the first on disk is `d1`: they are interchangeable), deletion and damage of the file, restarts, a failing output, fairness | `RepliesMatch`, `RejectedTouchesNothing`, `SessionMonotonic`, `RequestsEnd` |
| `MCConfig` | files of 3 lines out of 11, 7 environments, 4 command lines, a year of 3 ticks | `TTLInRange`, `Precedence`, `FetchesSpaced` |
| `MCLookup` | 4 row sets, one empty, 14 inputs, batches of 2 | `MostSpecific`, `RightRegistry`, `MorePrecise`, `NotesTrue`, `ExitTells` |
| `MCSearchPaging` | 4 sets of matches, ints of 5 bits, 8 limits, 9 offsets, fairness of the client | `PageExact`, `OverflowHarmless`, `WalkExact`, `WalkEnds`, `TruncationTold` |

Runs that end in a violation, each a disagreement of the code with a comment, a
document or a test of the repository (the quotes are under `findings`):

| run | property | what happens |
|---|---|---|
| `MCUpdateBadBody` | `CachedRegistriesSurvive` | a 200 with a broken body drops a registry that was cached (engine.go:193) |
| `MCUpdateSecond304` | `NoPanic` | an origin that answers the unconditional request with a 304 too: the update reads a body that is not there (engine.go:186) |
| `MCLookupNameless` | `NamelessExplained` | three ways in which a result without a vendor name is not explained; the table below |

TLC stops at the first counterexample it meets. `MCLookup.tla` names the input behind
each one; with `Inputs` narrowed to any of them, the run is violated in its own way:

| inputs | what is told | against |
|---|---|---|
| `GroupInputs` | text: "(no assignment found)" of a multicast address in no reserved range (output.go:148) | "a distinct answer from not found" (engine.go:37-40) |
| `PrefixInputs` | text: "(OUI subdivided — no assignment covers this address)" of a bare 24-bit prefix (output.go:143) | "Supplying more of the address ... may resolve it" (ouidb.go:96-98) |
| `BlankInputs` | no note, and the text "(no assignment found)", for a row with a blank organization (output.go:75) | "Every result also carries a `note`" (usage.md:20) |

Limits of the passing runs that are the code's own, each outside what a run
assumes and easily shown by widening its constants or its property:

* Two updates at once (engine.go:101): the one that started from the older store
  may rename last and take back a registry the other had cached, so
  `CachedRegistriesSurvive` is a property of one process. `OnlyRacesLose` proves for
  any number that nothing else is lost.
* After a change of base URL the cached rows are of another origin and are not kept
  (engine.go:214): `CachedRegistriesSurvive` compares two databases of one origin.
* A store that does not parse ends a lookup that may refetch (engine.go:278),
  although an update would rebuild it: `OnlyAbsenceIsFatal` is checked where nobody
  damages or removes the store.
* A refetch whose registries all fell back to their cached rows counts as a
  success (engine.go:282): `EnsureFresh` discards the `UpdateResult`, the store gets a
  new `generated_at`, and the lookup answers without a warning. `AnswerWithinTTL`
  speaks of `generated_at`.
* A refetch that fails leaves the age of the store as it was, so the next lookup
  tries again at once (config.go:29): `FetchesSpaced` is about the fetches that
  replace a store.
* A number of minutes that is out of range ends every command, also where a later
  layer overrides it (config.go:62-89); a file named with `--config` that does not
  exist is read as an empty one (config.go:62).
* A message that is JSON but not a request, such as a number, ends the session as
  malformed JSON does (server.go:73).
* Two store files with one modification time (server.go:149): see the assumptions.
* A 36-bit prefix in a subdivided block without an assignment there is told to "supply
  the full address" (output.go:68), although no registry is finer than 36 bits: `NotesTrue`
  asks only that an address that gets this note is not a full one.
* Two rows of one registry with one assignment (ouidb.go:206): the sort is not
  stable, so either is indexed; `New` keeps both possibilities. The registrant told
  depends on it; registry and assignment do not (`RebuiltAlike`).
* A store replaced between two pages (tools.go:311) shifts the offsets:
  `WalkExact` speaks of walks over one store.
* A limit no page can be allocated for (tools.go:309) ends the process:
  `OverflowHarmless` says nothing else does.

### Bounds

* Versions: the properties compare two versions, what is cached and what is
  published; 0 and 1 are enough for a validator to be current or outdated.
* Registries: MA-L and another tell fatal from dispensable; a third lets one
  update treat two dispensable registries differently.
* Processes: the races are between a reader or an update and one other rename;
  two processes (three calls of `writeStore`) show them.
* Time: two instants around a TTL of 0 put a store on both sides of the limit.
* Origins: a base URL that changes is one that is not the store's; two do, and being
  interchangeable they are checked under symmetry, as processes are.
* `MaxLeaks`, `MaxClock`: crashes leave files behind and each file needs a
  modification time; the guards of the actions that use them up stop there.
* Rows in MCLookup: a 24-bit block held by IEEE with 28- and 36-bit assignments
  in it, an assignment both IAB and MA-S, withheld and blank names, a legacy MA-L
  row with the local bit, a CID row, a row under a well-known range.
* Ints of MCSearchPaging: `MaxInt` 15 and `MaxCap` 10 leave room for the longest
  set of matches, as in the code, and both can be exceeded by a sum.
* The calls and walks of SearchPaging take turns: a stdio server has one client.

* MCMcpSession: three messages are two requests whose answers are compared and one
  between them that must change neither; three databases are the one at the start
  and one each of the session and of the other process.
* MCConfig: three lines are a header, a key and the same key again; the floor is 1, the
  default 2 and the year 3 ticks, so that a number can lie below, between and above.

### Fairness

`FairSpec` of Update gives weak fairness to each process's own steps and nothing
to the world. A step waits for the origin or the disk, never for another
process: a request ends by the HTTP client's time limit at the latest
(fetch.go, `HTTPFetcher`), and there is no lock. `Refreshes` also assumes, in its
premise, that updates keep succeeding. `SFairSpec` of SearchPaging is fairness
of the client's next request: usage.md's client asks as long as `has_more` is
set; the server answers each request in one step of its loop. `FairSSpec` of
McpSession lets a server go on with the request in hand: nothing it does waits for
another process, a fetch ends by the time limit, and the client that asked reads the
pipe. Nothing makes a client send.

### Assumptions

* `os.CreateTemp` does not draw a name again that a call in progress still holds
  between its rename and its deferred removal (`FreshName`); its names are random.
* In MCMcpDatabase, MCMcpSession and four theorems (`NeverSuperseded`, `MtimeVouches`,
  `SessionAnswersOnDisk`, `SessionInOrder`), no two store files share a modification
  time (`Coarse = FALSE`); with `Coarse = TRUE` the older one may be answered. The other
  theorems on the server hold either way.
* A crash is that of a process. A power failure could lose a rename's content,
  as there is no fsync; that is not modelled.
* The clock does not go back.

## 4. What is proved

The theorems hold for all values of the constants, under the `ASSUME`s of the
modules: distinct "none" values, no registry listed twice, rows as wide as their
registry, the matches and a page fitting in memory together, MinTTL <= DefaultTTL <=
MaxTTL, no flag for the threshold. A theorem that needs more of the world than that has
it as a premise: one process, one origin, no broken bodies, no tampering.

The four levels of the store form one chain: whatever a session, an `update_db` or a
command does to the file is a step of AtomicStore.

```
AtomicStore <--StoreIsAtomic-- WriteStore <--DatabaseUsesWriteStore-- McpDatabase
     ^                                                                    ^
     | UpdateUsesAtomicStore                                              | SessionUsesDatabase
   Update                                                             McpSession
```

The arrows from Update and McpDatabase have the premise that nobody removes or damages
the store from outside, which AtomicStore has no step for; `DatabaseIsAtomic` and
`SessionStoreIsAtomic` are the chain's ends.

* `WriteStore_proofs`. `StoreNeverTorn`, `TempFilesRemoved`, `WTypeCorrect` from
  one invariant: a call past `CreateTemp` holds a name no other call holds, a
  file that is ready to be renamed is whole, and a temporary file without a call
  is a leak. `StoreIsAtomic` shows each step to be one of AtomicStore's or a
  stutter.
* `Update_proofs`. `UTypeCorrect`, `StoreAlwaysCoherent`, `MALAlwaysPresent`. For
  coherence the store alone is not inductive: the invariant also says it of every
  previous database a process works from, of the sources and rows gathered so
  far (with the registries still to come absent), and of every database handed
  to `writeStore`. `UpdateUsesAtomicStore`: only `Save`, `SaveFails`, `Saved` and `Kill`
  touch its variables. `CommandsBounded`: a measure of the work a command has left
  (`Work`) falls with each of its steps and never rises with another's.
* `UpdateResult_proofs`. `ResultsTold`: the loop tells the truth of each registry
  it is past (`Telling`), relative to what was published when it began, since the
  origin only publishes newer versions (`PublishedRises`) and a 304 to a validator of a
  coherent store vouches for its rows (`KeepCachedTells`). `PanicsUncached`, with an origin
  that may answer a 304 to anything: a second request is made only for a registry the
  previous store had no rows or source of (`KeptAsks`, `StepAsks`). `AnswersFresh` for one
  process. `FatalOnlyWithoutStore` for any number, while nobody removes or damages the
  store. `OnlyRacesLose` for any number of processes and one origin, without broken
  bodies: what Update has gathered is no worse than the store it started from
  (`Growing`), so what it saves is not. `StoreNeverWorse` adds that a lone process
  replaces the very store it started from (`Alone`).
* `McpDatabase_proofs`. `NeverSuperseded`, `MtimeVouches`, `MTypeCorrect`. The
  invariant adds that files with one mtime hold one database, that an mtime the
  server knows is never given again, and that the store's present content
  belongs to what the call was shown. It reuses WriteStore's invariant. The types need
  none of this and hold for coarse clocks too (`DBTypesInvariant`).
* `McpSession_proofs`. `SessionUsesDatabase`: every session is a behaviour of McpDatabase,
  so that `SessionAnswersOnDisk`, `SessionStoreIsAtomic` and the rest of its invariant
  carry over. `SessionRepliesMatch` and `SessionRejects` hold of sessions of any length.
  `SessionInOrder`, if no two files share a modification time: a file installed later
  has a later time, so what the cache holds, what the reply will tell and the store
  are in the order of their installation. `RequestsBounded`: at most four steps are left
  of the request in hand, and each one leaves fewer. `SessionTypeCorrect`.
* `LookupCommand_proofs`. `LongestPrefixWins`, `ClassifiedFirst`, `MoreDigitsRefine`,
  `NotesAreTrue`, `ExitCodesTell`, `LTypeCorrect`. The invariant is small (every
  line printed is an input resolved against the command's database); the weight is in
  the lemmas about `Resolve`: an index has one row per assignment, that of the last
  registry (`IndexFacts`); the first width hit is the longest (`FirstHit`,
  `LookupLongest`), so that "not found" means that no row covers the address (`ClosestFacts`,
  `CidFacts`); prefixes of one address nest (`PrefixesNest`, `MatchRefines`).
  `NewDetermined`: `New` always gives a database, and one only where no registry lists an
  assignment twice. `RebuiltAlike`: where it gives several, they answer the same block
  of the same registry, because the later registry wins in each of them.
* `SearchPaging_proofs`. `PagesAreExact`, `NoOverflowCrash`, `STypeCorrect`, from
  `EndInRange` (a page that can be allocated does not wrap before the last match)
  and `PageFacts`. `WalksAreExact`: what a walk over one store was told is the matches
  before its offset. `ListsTellTruncation`: the list of the command is the first
  matches, as many as the limit allows, with a notice exactly if one was left out.
  `WalksBounded`: a page with more after it has
  a match of its own, so the offsets a client asks for rise.
* `Config_proofs`. `ConfigTTLInRange`, `ConfigFetchesSpaced`: whatever the lines of the
  file parse to, a number that is not refused is an integer in range, NaN included.
  `ConfigTypeCorrect` and `ConfigPrecedence` need what the fold of `ParseTOML` gives each
  key, for files of any length. An induction theorem with an operator parameter
  cannot be instantiated here; `LeastElement` and `SetInduction` state the principle of
  sets of numbers, and `ParsesLineByLine` turns the fold into a sequence of readings, one
  for each line, of which `ReadOneMore` is the step.

Only model-checked: that something happens at all under fairness (`CommandsEnd`,
`Refreshes`, `WalkEnds`, `RequestsEnd`), which is beyond the prover. For `CommandsEnd`,
`WalkEnds` and `RequestsEnd` it is proved that what happens is bounded
(`CommandsBounded`, `WalksBounded`, `RequestsBounded`); that the next step can be
taken, and is, rests on TLC. `Refreshes` has no such half. Every other property of a run
is a theorem.

## 5. What is not modelled

* CSV parsing beyond "a set of rows, or an error", and the label in a row's registry
  column, by which `cachedRegistry` selects (engine.go:225): a file that labels rows
  with another registry's name is outside the model. `ParseCSV` does not compare the
  length of an assignment with its registry either (ouidb.go:140-189); `Row` assumes that
  they agree, as in the files of the IEEE.
* Which of two equal assignments an unstable sort leaves (ouidb.go:206): the model
  keeps both, so the registrant answered for such an assignment is left open.
* Input on standard input beyond the scanner's buffer (app.go:113), which is dropped
  without an error.
* A power failure (engine.go:259) and clocks that go back.
* The layout of output, usage texts, parsing of flags, `version` and what `status`
  prints, tool schemas, HTTP headers, redirects and the user agent; release scripts and
  build files. These change no state.

## 6. What could come next

The core is modelled: the store, refreshing, the server and its session, resolution,
search and configuration. Left are refinements of single parts:

1. `Update` over rows labelled with another registry, and a clock that goes back.
2. The composition of McpSession with Update's requests to the origin (here an
   `update_db` fails or saves a database; which one is Update's affair).
3. `ParseCSV`'s columns and its checks of a row, as a fold over abstract lines.
4. `IsStale` and what `status` and `db_status` say of the age of a store.
