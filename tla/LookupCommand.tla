--------------------------- MODULE LookupCommand ---------------------------
(***************************************************************************)
(* cmdLookup and the MCP tool lookup_mac: a batch of addresses resolved    *)
(* one after the other against the database loaded at the start, while     *)
(* other processes replace the store; and, for cmdLookup, the exit code.   *)
(***************************************************************************)
EXTENDS Resolve

CONSTANTS Catalogs,   \* row sets the registries may publish
          Inputs,     \* what users type
          MaxInputs   \* bound: addresses in a batch

ASSUME CatalogsAssumption == \A c \in Catalogs : c \subseteq Row
ASSUME InputsAssumption == /\ \A in \in Inputs : in \in Seq(0 .. 17)
                           /\ MaxInputs \in Nat

ASSUME ExitAssumption == None \notin 0 .. 2

VARIABLES store,     \* the store file: a database, or None
          db,        \* the database this command loaded, or None
          mode,      \* how it was called, or "idle"
          inputs,    \* the addresses it was given
          printed,   \* its output: one result per address so far
          lastCode,  \* as in cmdLookup
          failed,
          exit       \* the exit code (2 for a tool's isError), None before the end

vars == <<store, db, mode, inputs, printed, lastCode, failed, exit>>

Modes == {"args", "stdin", "json", "mcp"}
Databases == UNION {New(c) : c \in Catalogs}

ControlOK == /\ store \in Databases \cup {None}
             /\ db \in Databases \cup {None}
             /\ mode \in Modes \cup {"idle"}
             /\ lastCode \in 0 .. 2
             /\ failed \in BOOLEAN
             /\ exit \in (0 .. 2) \cup {None}
             /\ mode # "idle" /\ exit = None => db # None

BatchOK == /\ inputs \in Seq(Inputs) /\ Len(inputs) <= MaxInputs
           /\ Len(printed) <= Len(inputs)
           /\ \A i \in DOMAIN printed :
                 /\ Len(printed[i].hex) \in AcceptedWidths \cup {0}
                 /\ printed[i].entry = None \/ printed[i].entry \in db.rows

\* Every result printed is about rows of the one database of the command.
LTypeOK == ControlOK /\ BatchOK

LInit == /\ store = None /\ db = None
         /\ mode = "idle" /\ inputs = <<>> /\ printed = <<>>
         /\ lastCode = 0 /\ failed = FALSE /\ exit = None
-----------------------------------------------------------------------------
\* Some process runs an update: the rows of a catalog, indexed by New.
Rebuild == /\ \E c \in Catalogs : store' \in New(c)
           /\ UNCHANGED <<db, mode, inputs, printed, lastCode, failed, exit>>

\* A command starts and loads the database; without one it fails.
Begin(m, in) ==
    /\ mode = "idle"
    /\ mode' = m
    /\ inputs' = in
    /\ db' = store
    /\ exit' = IF store = None \/ in = <<>> THEN 2 ELSE None
    /\ UNCHANGED <<store, printed, lastCode, failed>>

\* What cmdLookup remembers of a result for its exit code; the tool needs none.
Noted(r) == /\ failed' = (failed \/ r = Invalid)
            /\ lastCode' = IF r = Invalid THEN 2
                           ELSE IF VendorName(r) = "" THEN 1 ELSE 0

\* One turn of the loop over the inputs.
Answer_FromStore ==  \* seeded bug: the store is read again for every address
    /\ mode # "idle" /\ exit = None /\ Len(printed) < Len(inputs)
    /\ LET r == Resolve(store, inputs[Len(printed) + 1])
       IN /\ printed' = Append(printed, r)
          /\ IF mode = "mcp" THEN UNCHANGED <<failed, lastCode>> ELSE Noted(r)
    /\ UNCHANGED <<store, db, mode, inputs, exit>>
Answer ==
    /\ mode # "idle" /\ exit = None /\ Len(printed) < Len(inputs)
    /\ LET r == Resolve(db, inputs[Len(printed) + 1])
       IN /\ printed' = Append(printed, r)
          /\ IF mode = "mcp" THEN UNCHANGED <<failed, lastCode>> ELSE Noted(r)
    /\ UNCHANGED <<store, db, mode, inputs, exit>>

Single == mode = "args" /\ Len(inputs) = 1

\* Seeded bug: the code of the last address, batch or not.
Code_Last == lastCode
Code == IF Single THEN lastCode ELSE IF failed THEN 2 ELSE 0

Exit == /\ mode # "idle" /\ exit = None /\ Len(printed) = Len(inputs)
        /\ exit' = Code
        /\ UNCHANGED <<store, db, mode, inputs, printed, lastCode, failed>>

\* Standard output is gone: only the JSON writer looks at the error, and not
\* for the line of an invalid address.
WriteFails == /\ mode = "json" /\ exit = None /\ Len(printed) < Len(inputs)
              /\ Parses(inputs[Len(printed) + 1])
              /\ exit' = 2
              /\ UNCHANGED <<store, db, mode, inputs, printed, lastCode, failed>>

Done == /\ exit # None
        /\ mode' = "idle" /\ db' = None /\ inputs' = <<>> /\ printed' = <<>>
        /\ lastCode' = 0 /\ failed' = FALSE /\ exit' = None
        /\ UNCHANGED store

Batches == UNION {[1 .. n -> Inputs] : n \in 0 .. MaxInputs}

LNext == \/ Rebuild
         \/ \E m \in Modes, in \in Batches : Begin(m, in)
         \/ Answer
         \/ Exit
         \/ WriteFails
         \/ Done

LSpec == LInit /\ [][LNext]_vars
-----------------------------------------------------------------------------
\* What makes the type invariant and the properties below inductive: what was
\* printed are inputs resolved against the database of the command.
PrintedResolved ==
    /\ printed \in Seq({Resolve(db, in) : in \in Inputs})
    /\ mode = "idle" => printed = <<>>
    /\ printed # <<>> => db # None

Told == {r \in {printed[i] : i \in DOMAIN printed} : r # Invalid}
Covers(row, hex) == HasPrefix(hex, row.assignment)

\* The longest assignment wins, whatever its registry: no row of the database
\* the command loaded covers the address more closely than the one answered,
\* MA-S before the IAB it superseded.  "Matching 24 bits first would return
\* the block holder instead of the vendor" (ouidb.go, lookupWidths).
MostSpecific ==
    \A r \in Told : VendorLookupApplicable(r.hex) =>
        /\ r.entry # None => r.entry \in Oui(db.rows) /\ Covers(r.entry, r.hex)
        /\ \A q \in Oui(db.rows) : Covers(q, r.hex) =>
              /\ r.entry # None
              /\ \/ Len(q.assignment) < Len(r.entry.assignment)
                 \/ /\ q.assignment = r.entry.assignment
                    /\ Rank[q.reg] <= Rank[r.entry.reg]

\* Classification comes first: a group address has no row, a local one no row
\* but CID's, although some MA-L assignments have the local bit set, and CID
\* names no universal address (engine.go, Resolve).
RightRegistry ==
    \A r \in Told : r.entry # None =>
        /\ Cast(r.hex) = "unicast"
        /\ r.entry.reg = "CID" <=> Local(r.hex)

\* Supplying more of an address never loses a match nor widens it ("Supplying
\* more of the address may resolve it", ouidb.go, MatchSubdivided).
MorePrecise ==
    \A r, s \in Told : HasPrefix(s.hex, r.hex) /\ r.entry # None =>
        s.entry # None /\ HasPrefix(s.entry.assignment, r.entry.assignment)

\* The exit code of a command line that printed all it was asked for: the
\* grep-like one for a single address in text mode, the one of an error if any
\* address of a batch was invalid, else 0 (app.go, exit codes).
ExitTells ==
    exit # None /\ mode # "mcp" /\ inputs # <<>> /\ Len(printed) = Len(inputs) =>
        /\ exit = 2 <=> \E i \in DOMAIN printed : printed[i] = Invalid
        /\ exit = 1 <=> /\ Single
                        /\ \A r \in Told : VendorName(r) = ""
                        /\ Told # {}

\* What a note says is so of the database the command loaded, and a universal
\* address without a note matched rows with a blank organization: "no name"
\* has "different reasons that call for different actions" (ouidb.go,
\* MatchStatus).  A subdivided block is one no longer assignment refines.
NotesTrue ==
    \A r \in Told :
        LET oui == {q \in Oui(db.rows) : Covers(q, r.hex)}
            cid == {q \in Cid(db.rows) : Covers(q, r.hex)}
            closest == {q \in oui : \A o \in oui : Len(o.assignment) <= Len(q.assignment)}
            note == NoteFor(r)
        IN /\ note = "not_found" <=> VendorLookupApplicable(r.hex) /\ oui = {}
           /\ note \in {"subdivided", "supply the full address"}
                 => \E q \in closest : RegistryHeld(q)
           /\ note = "subdivided" => Len(r.hex) = 12
           /\ note = "supply the full address" => Len(r.hex) < 12
           /\ note = "private" => \E q \in closest : Private(q)
           /\ note = "local" <=> Cast(r.hex) = "unicast" /\ Local(r.hex) /\ cid = {}
           /\ note = "local, in CID" <=> Cast(r.hex) = "unicast" /\ Local(r.hex) /\ cid # {}
           /\ note = "" /\ VendorName(r) = "" => \E q \in closest : q.org = ""

\* noteFor "explains a result that carries no vendor name, so the reader does
\* not have to infer the difference" (output.go); on the text line "every other
\* outcome is spelled out" (output.go, writeText): not applicable is "a distinct
\* answer from not found" (engine.go, StatusNotApplicable), and a subdivided
\* block leaves an address out only "if the full address was already supplied"
\* (ouidb.go, MatchSubdivided).
NamelessExplained ==
    \A r \in Told : VendorName(r) = "" =>
        /\ NoteFor(r) # ""
        /\ TextFor(r).says = "not_found" => r.status = "not_found"
        /\ TextFor(r).says = "subdivided" => Len(r.hex) = 12
=============================================================================
