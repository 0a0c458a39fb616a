------------------------------ MODULE Resolve ------------------------------
(***************************************************************************)
(* What one address resolves to: macaddr.Parse's classification, the       *)
(* indexes of an ouidb.DB and its two lookups, engine.Resolve, and the     *)
(* words noteFor and writeText put on the outcome.                         *)
(*                                                                         *)
(* A hexadecimal string is a sequence of digits 0 .. 15.  A database is    *)
(* its rows and the two indexes buildIndex makes of them.  When two rows   *)
(* share an assignment the one sorted last is indexed: the later registry, *)
(* or, in one registry, either row, since sort.Slice is not stable.        *)
(***************************************************************************)
EXTENDS Naturals, Sequences

CONSTANTS Organizations,      \* registrant names a row may carry
          WellKnownPrefixes,  \* wellKnownPrefixes, as digits
          None                \* no entry, no reserved range

Digit == 0 .. 15
Separator == 16   \* ':', '-', '.', a blank
Other == 17       \* any other character
AcceptedWidths == {6, 7, 9, 12}                     \* validBits, in digits
Address == {hex \in Seq(Digit) : Len(hex) \in AcceptedWidths}
Prefix(hex, n) == [i \in 1 .. n |-> hex[i]]
HasPrefix(hex, p) == Len(p) <= Len(hex) /\ Prefix(hex, Len(p)) = p

PrivateOrganization == "Private"
RegistryHeldOrganization == "IEEE Registration Authority"
Registry == {"MA-L", "MA-M", "MA-S", "IAB", "CID"}
Width == [r \in Registry |-> CASE r = "MA-M" -> 7               \* Bits, in digits
                               [] r \in {"MA-S", "IAB"} -> 9
                               [] OTHER -> 6]
\* The order of the registries' names, New's second sort key.
Rank == [r \in Registry |-> CASE r = "CID"  -> 1
                              [] r = "IAB"  -> 2
                              [] r = "MA-L" -> 3
                              [] r = "MA-M" -> 4
                              [] r = "MA-S" -> 5]

Row == {r \in [reg : Registry, assignment : Seq(Digit), org : Organizations] :
           Len(r.assignment) = Width[r.reg]}

ASSUME ResolveAssumption ==
    /\ \A p \in WellKnownPrefixes : p \in Seq(Digit)
    /\ None \notin Row
-----------------------------------------------------------------------------
\* macaddr.Parse: the digits of the input, if there are as many as an address
\* or a prefix has and nothing else but separators.
Digits(input) == SelectSeq(input, LAMBDA c : c \in Digit)
Parses(input) == /\ \A i \in DOMAIN input : input[i] # Other
                 /\ Len(Digits(input)) \in AcceptedWidths

\* The I/G and U/L bits of the first octet are in its second digit.
Broadcast(hex) == Len(hex) = 12 /\ \A i \in 1 .. 12 : hex[i] = 15
Group(hex) == hex[2] % 2 = 1
Local(hex) == (hex[2] \div 2) % 2 = 1

Cast(hex) == IF Broadcast(hex) THEN "broadcast"
             ELSE IF Group(hex) THEN "multicast" ELSE "unicast"

VendorLookupApplicable(hex) == Cast(hex) = "unicast" /\ ~Local(hex)

\* The most specific reserved range, or None.
WellKnown(hex) ==
    LET covering == {p \in WellKnownPrefixes : HasPrefix(hex, p)}
    IN IF Broadcast(hex) THEN hex
       ELSE IF covering = {} THEN None
       ELSE CHOOSE p \in covering : \A q \in covering : Len(q) <= Len(p)
-----------------------------------------------------------------------------
Oui(rows) == {r \in rows : r.reg # "CID"}
Cid(rows) == {r \in rows : r.reg = "CID"}
Assignments(rows) == {r.assignment : r \in rows}

\* buildIndex over rows as New may have sorted them: one row per assignment,
\* of its last registry.
Indexes(rows) ==
    {index \in SUBSET rows :
        /\ Assignments(index) = Assignments(rows)
        /\ \A r, q \in index : r.assignment = q.assignment => r = q
        /\ \A r \in index, q \in rows :
              q.assignment = r.assignment => Rank[q.reg] <= Rank[r.reg]}

\* Seeded bug: one index for all registries.
New_OneIndex(rows) ==
    {[rows |-> rows, oui |-> index, cid |-> index] : index \in Indexes(rows)}

\* New, and Open of what Serialize wrote: the databases these rows may give.
New(rows) == {[rows |-> rows, oui |-> o, cid |-> c] :
                 o \in Indexes(Oui(rows)), c \in Indexes(Cid(rows))}

\* Seeded bug: the shortest assignment first.
lookupWidths_Shortest == <<6, 7, 9>>
lookupWidths == <<9, 7, 6>>

Private(row) == row.org = PrivateOrganization
RegistryHeld(row) == row.org = RegistryHeldOrganization
Miss == [status |-> "not_found", entry |-> None]

\* The rows an index has for the first n digits of hex: one or none.
At(index, hex, n) == {r \in index : n <= Len(hex) /\ r.assignment = Prefix(hex, n)}
The(rows) == CHOOSE r \in rows : TRUE

Found(row) == [status |-> IF RegistryHeld(row) THEN "subdivided"
                          ELSE IF Private(row) THEN "private" ELSE "vendor",
               entry |-> row]

\* Seeded bug: 28 bits are tried for a 28-bit prefix only.
Hits_No28(db, hex) == {i \in 1 .. 3 : /\ lookupWidths[i] = 7 => Len(hex) = 7
                                     /\ At(db.oui, hex, lookupWidths[i]) # {}}
Hits(db, hex) == {i \in 1 .. 3 : At(db.oui, hex, lookupWidths[i]) # {}}

Lookup(db, hex) ==
    IF Hits(db, hex) = {} THEN Miss
    ELSE LET first == CHOOSE i \in Hits(db, hex) : \A j \in Hits(db, hex) : i <= j
         IN Found(The(At(db.oui, hex, lookupWidths[first])))

LookupCID(db, hex) ==
    IF At(db.cid, hex, 6) = {} THEN Miss
    ELSE LET row == The(At(db.cid, hex, 6))
         IN [status |-> IF Private(row) THEN "private" ELSE "vendor", entry |-> row]
-----------------------------------------------------------------------------
NotApplicable == [status |-> "not_applicable", entry |-> None]

\* engine.Resolve's order: no vendor for a group, CID for a local address, the
\* OUI registries for a universal one.
Match(db, hex) ==
    IF Cast(hex) # "unicast" THEN NotApplicable
    ELSE IF ~Local(hex) THEN Lookup(db, hex)
    ELSE IF LookupCID(db, hex) = Miss THEN NotApplicable ELSE LookupCID(db, hex)

Invalid == [hex |-> <<>>, status |-> "invalid", entry |-> None, reserved |-> None]

ResolveHex(db, hex) == [hex |-> hex,
                        status |-> Match(db, hex).status,
                        entry |-> Match(db, hex).entry,
                        reserved |-> WellKnown(hex)]
Resolve(db, input) == IF Parses(input) THEN ResolveHex(db, Digits(input)) ELSE Invalid

VendorName(r) == IF r.entry = None THEN ""
                 ELSE IF Private(r.entry) \/ RegistryHeld(r.entry) THEN ""
                 ELSE r.entry.org

\* Seeded bug: private rows of CID are left to the vendor's name.
NoteFor_NoCid(r) ==
    IF Cast(r.hex) # "unicast" THEN Cast(r.hex)
    ELSE IF Local(r.hex) THEN IF r.status = "not_applicable" THEN "local" ELSE ""
    ELSE IF r.status = "subdivided" /\ Len(r.hex) < 12 THEN "supply the full address"
    ELSE IF r.status \in {"private", "subdivided", "not_found"} THEN r.status
    ELSE ""
\* noteFor, and the MCP server's note: what it explains, "" for no note.
NoteFor(r) ==
    IF Cast(r.hex) # "unicast" THEN Cast(r.hex)
    ELSE IF Local(r.hex) /\ r.status = "not_applicable" THEN "local"
    ELSE IF Local(r.hex) /\ r.entry # None THEN "local, in CID"
    ELSE IF r.status = "subdivided" /\ Len(r.hex) < 12 THEN "supply the full address"
    ELSE IF r.status \in {"private", "subdivided", "not_found"} THEN r.status
    ELSE ""

\* writeText: what the line says, and the reserved range it names.
TextFor(r) ==
    IF VendorName(r) # "" THEN [says |-> "vendor", range |-> r.reserved]
    ELSE IF r.reserved # None THEN [says |-> "reserved", range |-> r.reserved]
    ELSE IF r.status \in {"private", "subdivided"} THEN [says |-> r.status, range |-> None]
    ELSE IF Local(r.hex) THEN [says |-> "local", range |-> None]
    ELSE [says |-> "not_found", range |-> None]
=============================================================================
