----------------------------- MODULE WriteStore -----------------------------
(***************************************************************************)
(* engine.writeStore: how a database reaches the store file.  Each call    *)
(* creates a temporary file of its own beside the store, serializes the    *)
(* database into it, renames it over the store, and on the way out removes *)
(* the temporary name (a no-op once the rename has happened).  The calls   *)
(* of several processes (command lines, MCP servers) interleave system     *)
(* call by system call; any call can fail; a process can be killed         *)
(* between any two of them.                                                *)
(*                                                                         *)
(* A file is what a reader can tell of it: the database it holds (Torn     *)
(* while only part of one has been written) and its modification time.     *)
(* The actions take the writer, the database and the mtime as parameters,  *)
(* so that Update and McpDatabase compose them with the code that calls    *)
(* writeStore; Next here lets every writer save every database.            *)
(***************************************************************************)
EXTENDS FiniteSets, Naturals

CONSTANTS Writers,    \* processes that may call writeStore
          TempNames,  \* names os.CreateTemp may draw
          Contents,   \* databases
          Stamps,     \* modification times
          MaxLeaks,   \* bound: temporary files left behind for good
          Torn,       \* the data of a file that was not written to its end
          None        \* no file, no name, no database

ASSUME NoneAssumption ==
    /\ None \notin TempNames
    /\ None \notin Contents
    /\ None \notin [data : Contents \cup {Torn}, mtime : Stamps]
ASSUME TornAssumption == Torn \notin Contents /\ Torn # None

VARIABLES store,   \* the file at Config.StorePath, or None
          temp,    \* temp[n]: the temporary file of that name, or None
          stage,   \* stage[w]: where w is in its call of writeStore
          held,    \* held[w]: tmpName, or None outside a call
          saving,  \* saving[w]: the db argument, or None outside a call
          leaked   \* history: names whose deferred Remove never took effect

wvars == <<store, temp, stage, held, saving, leaked>>

File == [data : Contents \cup {Torn}, mtime : Stamps]
Stage == {"idle", "created", "ready", "installed", "failed"}

WTypeOK == /\ store \in File \cup {None}
           /\ temp \in [TempNames -> File \cup {None}]
           /\ stage \in [Writers -> Stage]
           /\ held \in [Writers -> TempNames \cup {None}]
           /\ saving \in [Writers -> Contents \cup {None}]
           /\ leaked \subseteq TempNames

WInit == /\ store \in {None} \cup [data : Contents, mtime : Stamps]
         /\ temp = [n \in TempNames |-> None]
         /\ stage = [w \in Writers |-> "idle"]
         /\ held = [w \in Writers |-> None]
         /\ saving = [w \in Writers |-> None]
         /\ leaked = {}
-----------------------------------------------------------------------------
\* What os.ReadFile and ouidb.Open make of the store.  One step: the file is
\* opened once, and a rename does not touch the file already open.
Missing == store = None
Corrupt == store # None /\ store.data = Torn
Readable == store # None /\ store.data # Torn

\* Seeded bug: a temporary file opened whether or not a call holds its name.
FreshName_Shared(n) == n \in TempNames

\* os.CreateTemp opens with O_EXCL, so no file has the name.  That no call in
\* progress holds it either is the assumption on its random suffix: a name
\* is not drawn again between the rename of its file and the deferred Remove.
FreshName(n) == /\ temp[n] = None
                /\ \A w \in Writers : held[w] # n

\* Seeded bug: the db argument is not passed on.
CreateTemp_NoDatabase(w, n, d, m) ==
    /\ stage[w] = "idle"
    /\ FreshName(n)
    /\ temp' = [temp EXCEPT ![n] = [data |-> Torn, mtime |-> m]]
    /\ held' = [held EXCEPT ![w] = n]
    /\ stage' = [stage EXCEPT ![w] = "created"]
    /\ UNCHANGED <<store, saving, leaked>>

CreateTemp(w, n, d, m) ==
    /\ stage[w] = "idle"
    /\ FreshName(n)
    /\ temp' = [temp EXCEPT ![n] = [data |-> Torn, mtime |-> m]]
    /\ held' = [held EXCEPT ![w] = n]
    /\ saving' = [saving EXCEPT ![w] = d]
    /\ stage' = [stage EXCEPT ![w] = "created"]
    /\ UNCHANGED <<store, leaked>>

\* ouidb.Serialize and tmp.Close both succeed.
Serialize(w, m) ==
    /\ stage[w] = "created"
    /\ temp' = [temp EXCEPT ![held[w]] = [data |-> saving[w], mtime |-> m]]
    /\ stage' = [stage EXCEPT ![w] = "ready"]
    /\ UNCHANGED <<store, held, saving, leaked>>

\* Seeded bug: the error of Serialize or Close is not looked at.
Install_Regardless(w) ==
    /\ stage[w] \in {"ready", "failed"} /\ temp[held[w]] # None
    /\ store' = temp[held[w]]
    /\ temp' = [temp EXCEPT ![held[w]] = None]
    /\ stage' = [stage EXCEPT ![w] = "installed"]
    /\ UNCHANGED <<held, saving, leaked>>

\* os.Rename: the store becomes the file that has w's temporary name.
Install(w) ==
    /\ stage[w] = "ready"
    /\ store' = temp[held[w]]
    /\ temp' = [temp EXCEPT ![held[w]] = None]
    /\ stage' = [stage EXCEPT ![w] = "installed"]
    /\ UNCHANGED <<held, saving, leaked>>

\* Serialize, Close or Rename returns an error.
WriteFails(w) ==
    /\ stage[w] \in {"created", "ready"}
    /\ stage' = [stage EXCEPT ![w] = "failed"]
    /\ UNCHANGED <<store, temp, held, saving, leaked>>

\* Seeded bug: no deferred Remove.
Return_NoRemove(w) ==
    /\ stage[w] \in {"installed", "failed"}
    /\ held' = [held EXCEPT ![w] = None]
    /\ saving' = [saving EXCEPT ![w] = None]
    /\ stage' = [stage EXCEPT ![w] = "idle"]
    /\ UNCHANGED <<store, temp, leaked>>

\* The deferred os.Remove(tmpName), on success and on error, and the return.
Return(w) ==
    /\ stage[w] \in {"installed", "failed"}
    /\ temp' = [temp EXCEPT ![held[w]] = None]
    /\ held' = [held EXCEPT ![w] = None]
    /\ saving' = [saving EXCEPT ![w] = None]
    /\ stage' = [stage EXCEPT ![w] = "idle"]
    /\ UNCHANGED <<store, leaked>>

\* The call ends and leaves its temporary name alone: the deferred Remove
\* fails (its error is ignored), or the process is killed anywhere.
Leave(w) ==
    /\ leaked' = IF temp[held[w]] = None THEN leaked ELSE leaked \cup {held[w]}
    /\ held' = [held EXCEPT ![w] = None]
    /\ saving' = [saving EXCEPT ![w] = None]
    /\ stage' = [stage EXCEPT ![w] = "idle"]
    /\ UNCHANGED <<store, temp>>

MayLeak == Cardinality(leaked) < MaxLeaks

ReturnUnremoved(w) == stage[w] = "failed" /\ MayLeak /\ Leave(w)

Crash(w) == stage[w] # "idle" /\ MayLeak /\ Leave(w)
-----------------------------------------------------------------------------
WNext == \E w \in Writers :
            \/ \E n \in TempNames, d \in Contents, m \in Stamps :
                  CreateTemp(w, n, d, m)
            \/ \E m \in Stamps : Serialize(w, m)
            \/ Install(w)
            \/ WriteFails(w)
            \/ Return(w)
            \/ ReturnUnremoved(w)
            \/ Crash(w)

WSpec == WInit /\ [][WNext]_wvars
-----------------------------------------------------------------------------
\* A reader of the store never meets a partly written database, whatever
\* writers are doing or were doing when they were killed: "a crash mid-write
\* never leaves a truncated store to be read back" (engine.go, writeStore).
StoreWhole == ~Corrupt

\* No temporary file outlives its call except through a crash or a failed
\* Remove: on every return, error or not, the deferred Remove cleans up.
OnlyLeaksRemain ==
    \A n \in TempNames : temp[n] # None =>
        n \in leaked \/ \E w \in Writers : held[w] = n

\* What makes StoreWhole inductive: two calls never share a temporary name,
\* and a call about to rename holds a file with the whole of its database.
\* A name held by a call is never a leftover of another.
HeldApart == \A v, w \in Writers :
                v # w /\ held[v] # None => held[v] # held[w]
StageHeld == \A w \in Writers :
                /\ stage[w] = "idle" <=> held[w] = None
                /\ stage[w] = "idle" <=> saving[w] = None
ReadyWhole == \A w \in Writers : stage[w] = "ready" =>
                /\ temp[held[w]] # None
                /\ temp[held[w]].data = saving[w]

\* The store as its readers see it, and what each call is still to install.
\* Every step of writeStore is a step of AtomicStore or invisible to readers.
content == IF Missing THEN None ELSE store.data
asked == [w \in Writers |->
            IF stage[w] \in {"created", "ready"} THEN saving[w] ELSE None]
A == INSTANCE AtomicStore
Atomic == A!ASpec
=============================================================================
