---------------------------- MODULE McpDatabase ----------------------------
(***************************************************************************)
(* server.database of the MCP server: a parsed copy of the store, kept for *)
(* as long as the store file's modification time stays what it was.  The   *)
(* server looks at the file twice, os.Stat first and the read second, and  *)
(* meanwhile any process may rename a new store into place.  The server's  *)
(* own update_db calls write the store the same way, but never during one  *)
(* of its lookups: Serve handles one request at a time.                    *)
(*                                                                         *)
(* Files, their mtimes and the calls of writeStore are WriteStore's.  The  *)
(* clock is the file system's: with Coarse = FALSE every file written gets *)
(* an mtime of its own; with Coarse = TRUE two files may share one.        *)
(***************************************************************************)
EXTENDS Naturals

CONSTANTS Servers,    \* MCP servers
          Writers,    \* all processes that write the store, servers included
          TempNames,  \* as in WriteStore
          Contents,
          MaxClock,   \* bound: files written
          MaxLeaks,
          Coarse,     \* may two files written get the same mtime?
          Tampering,  \* does anyone else delete or overwrite the store?
          Torn,
          None

ASSUME NoneAssumption == /\ None \notin TempNames
                         /\ None \notin Contents
                         /\ None \notin [data : Contents \cup {Torn}, mtime : Nat]
                         /\ None \notin Nat
ASSUME TornAssumption == Torn \notin Contents /\ Torn # None
ASSUME ServersAssumption == Servers \subseteq Writers
ASSUME ClockAssumption == /\ MaxClock \in Nat
                          /\ Coarse \in BOOLEAN /\ Tampering \in BOOLEAN

VARIABLES store, temp, stage, held, saving, leaked,  \* as in WriteStore
          clock,   \* the last mtime given to a file
          db,      \* s.db
          dbMod,   \* s.dbMod
          pc,      \* pc[s]: where s is in a call of database()
          seen,    \* seen[s]: fi.ModTime()
          answer,  \* answer[s]: what database() returned: a database, None for
                   \* "no store" or Torn for "parse store"
          shown    \* history: what the store held at some time in the call

wvars == <<store, temp, stage, held, saving, leaked>>
cvars == <<db, dbMod, pc, seen, answer>>
vars == <<wvars, clock, cvars, shown>>

Stamps == 0 .. MaxClock

W == INSTANCE WriteStore

\* What a reader gets from a store file f.
Read(f) == IF f = None THEN None ELSE f.data

PC == {"idle", "missing", "load", "reply"}
CTypeOK == /\ clock \in Stamps
           /\ db \in [Servers -> Contents \cup {None}]
           /\ dbMod \in [Servers -> Stamps \cup {None}]
           /\ pc \in [Servers -> PC]
           /\ seen \in [Servers -> Stamps \cup {None}]
           /\ answer \in [Servers -> Contents \cup {None, Torn}]
           /\ shown \in [Servers -> SUBSET (Contents \cup {None, Torn})]
MTypeOK == W!WTypeOK /\ CTypeOK

MInit == /\ store \in {None} \cup [data : Contents, mtime : {0}]
         /\ temp = [n \in TempNames |-> None]
         /\ stage = [w \in Writers |-> "idle"]
         /\ held = [w \in Writers |-> None]
         /\ saving = [w \in Writers |-> None]
         /\ leaked = {}
         /\ clock = 0
         /\ db = [s \in Servers |-> None]
         /\ dbMod = [s \in Servers |-> None]
         /\ pc = [s \in Servers |-> "idle"]
         /\ seen = [s \in Servers |-> None]
         /\ answer = [s \in Servers |-> None]
         /\ shown = [s \in Servers |-> {}]
-----------------------------------------------------------------------------
Reply(s, x) == /\ pc' = [pc EXCEPT ![s] = "reply"]
               /\ answer' = [answer EXCEPT ![s] = x]

\* database() begins, between two requests of s: os.Stat finds no store ...
StatMissing(s) ==
    /\ pc[s] = "idle" /\ stage[s] = "idle"
    /\ store = None
    /\ pc' = [pc EXCEPT ![s] = "missing"]
    /\ shown' = [shown EXCEPT ![s] = {Read(store)}]
    /\ UNCHANGED <<wvars, clock, db, dbMod, seen, answer>>

\* Seeded bug: the cache is good as long as there is a store.
CacheHit_AnyMtime(s) ==
    /\ pc[s] = "idle" /\ stage[s] = "idle"
    /\ store # None
    /\ db[s] # None
    /\ Reply(s, db[s])
    /\ shown' = [shown EXCEPT ![s] = {Read(store)}]
    /\ UNCHANGED <<wvars, clock, db, dbMod, seen>>

\* ... or the file the cached database was filed under: answer from the cache ...
CacheHit(s) ==
    /\ pc[s] = "idle" /\ stage[s] = "idle"
    /\ store # None
    /\ db[s] # None /\ store.mtime = dbMod[s]
    /\ Reply(s, db[s])
    /\ shown' = [shown EXCEPT ![s] = {Read(store)}]
    /\ UNCHANGED <<wvars, clock, db, dbMod, seen>>

\* Seeded bug: dbMod is set before LoadDB has succeeded.
CacheMiss_Early(s) ==
    /\ pc[s] = "idle" /\ stage[s] = "idle"
    /\ store # None
    /\ db[s] = None \/ store.mtime # dbMod[s]
    /\ seen' = [seen EXCEPT ![s] = store.mtime]
    /\ dbMod' = [dbMod EXCEPT ![s] = store.mtime]
    /\ pc' = [pc EXCEPT ![s] = "load"]
    /\ shown' = [shown EXCEPT ![s] = {Read(store)}]
    /\ UNCHANGED <<wvars, clock, db, answer>>

\* ... or another: remember its mtime and go on to read it.
CacheMiss(s) ==
    /\ pc[s] = "idle" /\ stage[s] = "idle"
    /\ store # None
    /\ db[s] = None \/ store.mtime # dbMod[s]
    /\ seen' = [seen EXCEPT ![s] = store.mtime]
    /\ pc' = [pc EXCEPT ![s] = "load"]
    /\ shown' = [shown EXCEPT ![s] = {Read(store)}]
    /\ UNCHANGED <<wvars, clock, db, dbMod, answer>>

\* LoadDB after a failed Stat: returned as it is, never cached.
LoadMissing(s) ==
    /\ pc[s] = "missing"
    /\ Reply(s, Read(store))
    /\ UNCHANGED <<wvars, clock, db, dbMod, seen, shown>>

\* Seeded bug: an unreadable store is cached like any other.
Load_AnyResult(s) ==
    /\ pc[s] = "load"
    /\ Reply(s, Read(store))
    /\ db' = [db EXCEPT ![s] = Read(store)]
    /\ dbMod' = [dbMod EXCEPT ![s] = seen[s]]
    /\ UNCHANGED <<wvars, clock, seen, shown>>

\* LoadDB after a miss: what it reads now is filed under the mtime Stat saw.
Load(s) ==
    /\ pc[s] = "load"
    /\ Reply(s, Read(store))
    /\ IF W!Readable
       THEN /\ db' = [db EXCEPT ![s] = Read(store)]
            /\ dbMod' = [dbMod EXCEPT ![s] = seen[s]]
       ELSE UNCHANGED <<db, dbMod>>
    /\ UNCHANGED <<wvars, clock, seen, shown>>

\* The request is answered; the cache is all that stays.
Answered(s) ==
    /\ pc[s] = "reply"
    /\ pc' = [pc EXCEPT ![s] = "idle"]
    /\ seen' = [seen EXCEPT ![s] = None]
    /\ answer' = [answer EXCEPT ![s] = None]
    /\ shown' = [shown EXCEPT ![s] = {}]
    /\ UNCHANGED <<wvars, clock, db, dbMod>>

\* The server is killed and started again, with an empty cache.
Restart(s) ==
    /\ IF stage[s] = "idle" THEN UNCHANGED wvars ELSE W!Crash(s)
    /\ db' = [db EXCEPT ![s] = None]
    /\ dbMod' = [dbMod EXCEPT ![s] = None]
    /\ pc' = [pc EXCEPT ![s] = "idle"]
    /\ seen' = [seen EXCEPT ![s] = None]
    /\ answer' = [answer EXCEPT ![s] = None]
    /\ shown' = [shown EXCEPT ![s] = {}]
    /\ UNCHANGED clock
-----------------------------------------------------------------------------
\* The mtimes the file system may give the next file that is written.
NextStamps == {m \in Stamps : m = clock + 1 \/ (Coarse /\ m = clock)}

\* Who is in a call of database() can have seen the store change.
Watch == shown' = [s \in Servers |-> IF pc[s] = "idle" THEN shown[s]
                                     ELSE shown[s] \cup {Read(store')}]

\* Any process saves a database: a command line at any time, a server while it
\* handles update_db and so no lookup.
BeginSave(w, n, d) == /\ w \in Servers => pc[w] = "idle"
                      /\ W!CreateTemp(w, n, d, clock)
                      /\ UNCHANGED <<clock, cvars, shown>>

WriteTemp(w) == /\ \E m \in NextStamps : W!Serialize(w, m) /\ clock' = m
                /\ UNCHANGED <<cvars, shown>>

Install(w) == W!Install(w) /\ Watch /\ UNCHANGED <<clock, cvars>>

EndSave(w) == /\ \/ W!WriteFails(w)
                 \/ W!Return(w)
                 \/ W!ReturnUnremoved(w)
                 \/ w \notin Servers /\ W!Crash(w)
              /\ UNCHANGED <<clock, cvars, shown>>

\* Someone deletes the store, or overwrites it with something else.
RemoveStore == /\ Tampering
               /\ store' = None
               /\ Watch
               /\ UNCHANGED <<temp, stage, held, saving, leaked, clock, cvars>>

DamageStore == /\ Tampering
               /\ \E m \in NextStamps : /\ store' = [data |-> Torn, mtime |-> m]
                                        /\ clock' = m
               /\ Watch
               /\ UNCHANGED <<temp, stage, held, saving, leaked, cvars>>

Database(s) == \/ StatMissing(s) \/ CacheHit(s) \/ CacheMiss(s)
               \/ LoadMissing(s) \/ Load(s) \/ Answered(s) \/ Restart(s)

Save(w) == \/ \E n \in TempNames, d \in Contents : BeginSave(w, n, d)
           \/ WriteTemp(w)
           \/ Install(w)
           \/ EndSave(w)

MNext == \/ \E s \in Servers : Database(s)
         \/ \E w \in Writers : Save(w)
         \/ RemoveStore
         \/ DamageStore

MSpec == MInit /\ [][MNext]_vars
-----------------------------------------------------------------------------
\* A lookup is answered from what the store held at some moment of the call,
\* never from a superseded copy: database "[reloads] it when the store changed
\* on disk" (server.go).  An error, too, is one the store did give cause for.
AnswerWasOnDisk == \A s \in Servers : pc[s] = "reply" => answer[s] \in shown[s]

\* The cached database is the store's whenever the mtimes agree.
CacheCoherent ==
    \A s \in Servers : db[s] # None /\ store # None =>
        (store.mtime = dbMod[s] => store.data = db[s])
\* What makes them inductive, when no two files share an mtime: an mtime that
\* the cache, Stat or the store has known is borne by no file yet to be
\* installed, and the mtimes of those files differ from each other.
Stamp(w) == temp[held[w]].mtime
Retired(m) == /\ m \in Nat /\ m <= clock
              /\ \A w \in Writers : stage[w] = "ready" => Stamp(w) # m
StampsApart ==
    /\ store # None => Retired(store.mtime)
    /\ \A w \in Writers : stage[w] = "ready" => Stamp(w) <= clock
    /\ \A v, w \in Writers :
          v # w /\ stage[v] = "ready" /\ stage[w] = "ready" => Stamp(v) # Stamp(w)
KnownRetired ==
    \A s \in Servers : /\ db[s] # None => Retired(dbMod[s])
                       /\ pc[s] = "load" => Retired(seen[s])
NowShown == \A s \in Servers : pc[s] # "idle" => Read(store) \in shown[s]
=============================================================================
