------------------------ MODULE LookupCommand_proofs ------------------------
(***************************************************************************)
(* For every catalog, organization, table of reserved ranges and input:    *)
(* what the lookup of an address may answer (lemmas about Resolve's        *)
(* operators), and that a command line or an MCP call answers nothing else *)
(* while the store is replaced under it.                                   *)
(***************************************************************************)
EXTENDS LookupCommand, TLAPS

\* An index has a row of the last registry for every assignment of its rows,
\* and no two rows for one.
LEMMA IndexFacts ==
    ASSUME NEW rows, NEW index \in Indexes(rows)
    PROVE  /\ index \subseteq rows
           /\ \A r, q \in index : r.assignment = q.assignment => r = q
           /\ \A q \in rows : \E r \in index : /\ r.assignment = q.assignment
                                               /\ Rank[q.reg] <= Rank[r.reg]
<1>1. index \subseteq rows
  BY DEF Indexes
<1>2. \A r, q \in index : r.assignment = q.assignment => r = q
  BY DEF Indexes
<1>3. ASSUME NEW q \in rows
      PROVE  \E r \in index : r.assignment = q.assignment /\ Rank[q.reg] <= Rank[r.reg]
  <2>1. q.assignment \in Assignments(index)
    BY DEF Indexes, Assignments
  <2>2. PICK r \in index : r.assignment = q.assignment
    BY <2>1 DEF Assignments
  <2>. QED BY <2>2 DEF Indexes
<1>. QED BY <1>1, <1>2, <1>3

\* The assignments of the rows of the OUI registries are as long as one of the
\* widths Lookup tries, and the widths it tries are in descending order.
LEMMA WidthFacts ==
    ASSUME NEW row \in Row
    PROVE  \E i \in 1 .. 3 : Len(row.assignment) = lookupWidths[i]
<1>1. row.reg \in Registry /\ Len(row.assignment) = Width[row.reg]
  BY DEF Row
<1>2. Width[row.reg] \in {6, 7, 9}
  BY <1>1 DEF Width, Registry
<1>3. lookupWidths[1] = 9 /\ lookupWidths[2] = 7 /\ lookupWidths[3] = 6
  BY DEF lookupWidths
<1>. QED BY <1>1, <1>2, <1>3

LEMMA Descending == \A i, j \in 1 .. 3 : i <= j => lookupWidths[j] <= lookupWidths[i]
BY DEF lookupWidths

\* A row found at n digits has exactly these n digits for assignment.
LEMMA AtFacts ==
    ASSUME NEW index, NEW hex, NEW n \in Nat, NEW r \in At(index, hex, n)
    PROVE  /\ r \in index
           /\ r.assignment = Prefix(hex, n)
           /\ Len(r.assignment) = n
           /\ HasPrefix(hex, r.assignment)
<1>1. r \in index /\ r.assignment = Prefix(hex, n) /\ n <= Len(hex)
  BY DEF At
<1>2. Len(Prefix(hex, n)) = n
  BY DEF Prefix
<1>. QED BY <1>1, <1>2 DEF HasPrefix

\* Lookup takes the first of the widths that hit.
LEMMA FirstHit ==
    ASSUME NEW d, NEW hex, Hits(d, hex) # {}
    PROVE  \E i \in Hits(d, hex) : /\ \A j \in Hits(d, hex) : i <= j
                                    /\ Lookup(d, hex).entry \in
                                          At(d.oui, hex, lookupWidths[i])
<1>1. Hits(d, hex) \subseteq 1 .. 3
  BY DEF Hits
<1>2. \E i \in Hits(d, hex) : \A j \in Hits(d, hex) : i <= j
  <2>1. CASE 1 \in Hits(d, hex)
    BY <1>1, <2>1
  <2>2. CASE 1 \notin Hits(d, hex) /\ 2 \in Hits(d, hex)
    BY <1>1, <2>2
  <2>3. CASE 1 \notin Hits(d, hex) /\ 2 \notin Hits(d, hex)
    BY <1>1, <2>3
  <2>. QED BY <2>1, <2>2, <2>3
<1> DEFINE first == CHOOSE i \in Hits(d, hex) : \A j \in Hits(d, hex) : i <= j
<1>3. first \in Hits(d, hex) /\ \A j \in Hits(d, hex) : first <= j
  BY <1>2
<1>4. Lookup(d, hex).entry = The(At(d.oui, hex, lookupWidths[first]))
  BY DEF Lookup, Found
<1>5. The(At(d.oui, hex, lookupWidths[first])) \in At(d.oui, hex, lookupWidths[first])
  BY <1>3 DEF Hits, The
<1>. QED BY <1>3, <1>4, <1>5

\* No row of the OUI registries covers the address more closely than the one
\* Lookup answers: the longest prefix, and of equal ones the last registry.
LEMMA LookupLongest ==
    ASSUME NEW rows \in SUBSET Row, NEW d \in New(rows), NEW hex,
           NEW q \in Oui(rows), HasPrefix(hex, q.assignment)
    PROVE  /\ Lookup(d, hex).entry # None
           /\ \/ Len(q.assignment) < Len(Lookup(d, hex).entry.assignment)
              \/ /\ q.assignment = Lookup(d, hex).entry.assignment
                 /\ Rank[q.reg] <= Rank[Lookup(d, hex).entry.reg]
<1>0. q \in Row /\ d.oui \in Indexes(Oui(rows))
  BY DEF Oui, New
<1>1. PICK k \in 1 .. 3 : Len(q.assignment) = lookupWidths[k]
  BY <1>0, WidthFacts
<1>2. PICK r \in d.oui : r.assignment = q.assignment /\ Rank[q.reg] <= Rank[r.reg]
  BY <1>0, IndexFacts
<1>3. r \in At(d.oui, hex, lookupWidths[k])
  BY <1>1, <1>2 DEF At, HasPrefix
<1>4. k \in Hits(d, hex)
  BY <1>3 DEF Hits
<1> DEFINE e == Lookup(d, hex).entry
<1>5. PICK i \in Hits(d, hex) : /\ \A j \in Hits(d, hex) : i <= j
                                 /\ e \in At(d.oui, hex, lookupWidths[i])
  BY <1>4, FirstHit
<1>6. i \in 1 .. 3 /\ lookupWidths[i] \in Nat
  BY DEF Hits, lookupWidths
<1>7. e \in d.oui /\ e.assignment = Prefix(hex, lookupWidths[i])
      /\ Len(e.assignment) = lookupWidths[i]
  BY <1>5, <1>6, AtFacts
<1>8. e # None
  BY <1>0, <1>7, IndexFacts, ResolveAssumption DEF Oui
<1>9. lookupWidths[k] <= lookupWidths[i]
  BY <1>4, <1>5, <1>6, Descending
<1>10. CASE lookupWidths[k] = lookupWidths[i]
  <2>1. e.assignment = q.assignment
    BY <1>1, <1>7, <1>10 DEF HasPrefix
  <2>2. e = r
    BY <1>0, <1>2, <1>7, <2>1, IndexFacts
  <2>. QED BY <1>2, <1>8, <2>1, <2>2
<1>11. CASE lookupWidths[k] # lookupWidths[i]
  <2>1. lookupWidths[k] \in Nat
    BY DEF lookupWidths
  <2>. QED BY <1>1, <1>8, <1>6, <1>7, <1>9, <1>11, <2>1
<1>. QED BY <1>10, <1>11

\* The row Match answers is one of the registries for the kind of address, it
\* covers the address, and only a unicast address has one.
LEMMA MatchFacts ==
    ASSUME NEW rows \in SUBSET Row, NEW d \in New(rows), NEW hex,
           Match(d, hex).entry # None
    PROVE  /\ Cast(hex) = "unicast"
           /\ HasPrefix(hex, Match(d, hex).entry.assignment)
           /\ Match(d, hex).entry \in IF Local(hex) THEN Cid(rows) ELSE Oui(rows)
<1> DEFINE e == Match(d, hex).entry
<1>1. Cast(hex) = "unicast"
  BY DEF Match, NotApplicable
<1>2. CASE Local(hex)
  <2>1. LookupCID(d, hex) # Miss /\ e = LookupCID(d, hex).entry
    BY <1>1, <1>2 DEF Match, NotApplicable
  <2>2. At(d.cid, hex, 6) # {} /\ e = The(At(d.cid, hex, 6))
    BY <2>1 DEF LookupCID
  <2>3. e \in At(d.cid, hex, 6)
    BY <2>2 DEF The
  <2>4. e \in d.cid /\ HasPrefix(hex, e.assignment)
    BY <2>3, AtFacts
  <2>5. d.cid \in Indexes(Cid(rows))
    BY DEF New
  <2>. QED BY <1>1, <1>2, <2>4, <2>5, IndexFacts
<1>3. CASE ~Local(hex)
  <2>1. e = Lookup(d, hex).entry
    BY <1>1, <1>3 DEF Match
  <2>2. Hits(d, hex) # {}
    BY <2>1 DEF Lookup, Miss
  <2>3. PICK i \in Hits(d, hex) : e \in At(d.oui, hex, lookupWidths[i])
    BY <2>1, <2>2, FirstHit
  <2>4. lookupWidths[i] \in Nat
    BY DEF Hits, lookupWidths
  <2>5. e \in d.oui /\ HasPrefix(hex, e.assignment)
    BY <2>3, <2>4, AtFacts
  <2>6. d.oui \in Indexes(Oui(rows))
    BY DEF New
  <2>. QED BY <1>1, <1>3, <2>5, <2>6, IndexFacts
<1>. QED BY <1>2, <1>3

\* A prefix and a longer string that starts with it are classified alike.
LEMMA SameKind ==
    ASSUME NEW hex, NEW more, Len(hex) \in AcceptedWidths, Len(more) \in AcceptedWidths,
           HasPrefix(more, hex), Cast(hex) = "unicast"
    PROVE  Cast(more) = "unicast" /\ (Local(more) <=> Local(hex))
<1>1. 2 \in 1 .. Len(hex)
  BY DEF AcceptedWidths
<1>2. more[2] = hex[2]
  BY <1>1 DEF HasPrefix, Prefix
<1>3. ~Group(hex)
  BY DEF Cast
<1>4. ~Broadcast(more)
  <2>1. SUFFICES ASSUME Broadcast(more) PROVE FALSE
    OBVIOUS
  <2>2. more[2] = 15
    BY <2>1 DEF Broadcast
  <2>3. 15 % 2 = 1
    OBVIOUS
  <2>. QED BY <1>2, <1>3, <2>2, <2>3 DEF Group
<1>. QED BY <1>2, <1>3, <1>4 DEF Cast, Group, Local

\* Prefixes of a string are prefixes of each other.
LEMMA PrefixesNest ==
    ASSUME NEW hex, NEW m \in Nat, NEW n \in Nat, m <= n
    PROVE  HasPrefix(Prefix(hex, n), Prefix(hex, m))
<1>1. Len(Prefix(hex, n)) = n /\ Len(Prefix(hex, m)) = m
  BY DEF Prefix
<1>2. \A i \in 1 .. m : Prefix(hex, n)[i] = hex[i]
  BY DEF Prefix
<1>3. Prefix(Prefix(hex, n), m) = Prefix(hex, m)
  BY <1>2 DEF Prefix
<1>. QED BY <1>1, <1>3 DEF HasPrefix

\* A match for a prefix is a match for any address that starts with it, unless
\* the address has a longer one.
LEMMA MatchRefines ==
    ASSUME NEW rows \in SUBSET Row, NEW d \in New(rows), NEW hex, NEW more,
           Len(hex) \in AcceptedWidths, Len(more) \in AcceptedWidths,
           HasPrefix(more, hex), Match(d, hex).entry # None
    PROVE  /\ Match(d, more).entry # None
           /\ HasPrefix(Match(d, more).entry.assignment, Match(d, hex).entry.assignment)
<1> DEFINE e == Match(d, hex).entry
           f == Match(d, more).entry
<1>1. Cast(hex) = "unicast" /\ HasPrefix(hex, e.assignment)
  BY MatchFacts
<1>2. Cast(more) = "unicast" /\ (Local(more) <=> Local(hex))
  BY <1>1, SameKind
<1>3. e \in Row
  BY MatchFacts DEF Oui, Cid
<1>4. Len(e.assignment) \in Nat /\ Len(e.assignment) <= Len(hex)
  BY <1>1, <1>3, WidthFacts DEF HasPrefix, lookupWidths
<1>5. e.assignment = Prefix(more, Len(e.assignment)) /\ HasPrefix(more, e.assignment)
  <2>1. Len(hex) \in Nat /\ Len(more) \in Nat
    BY DEF AcceptedWidths
  <2>2. e.assignment = Prefix(hex, Len(e.assignment))
    BY <1>1 DEF HasPrefix
  <2>3. hex = Prefix(more, Len(hex)) /\ Len(hex) <= Len(more)
    BY DEF HasPrefix
  <2>4. \A i \in 1 .. Len(e.assignment) : hex[i] = more[i]
    BY <1>4, <2>1, <2>3 DEF Prefix
  <2>5. Prefix(hex, Len(e.assignment)) = Prefix(more, Len(e.assignment))
    BY <2>4 DEF Prefix
  <2>. QED BY <1>4, <2>1, <2>2, <2>3, <2>5 DEF HasPrefix
<1>6. CASE Local(hex)
  <2>1. LookupCID(d, hex) # Miss /\ e = LookupCID(d, hex).entry
    BY <1>1, <1>6 DEF Match, NotApplicable
  <2>2. At(d.cid, hex, 6) # {} /\ e = The(At(d.cid, hex, 6))
    BY <2>1 DEF LookupCID
  <2>3. At(d.cid, more, 6) = At(d.cid, hex, 6)
    <3>1. \A i \in 1 .. 6 : hex[i] = more[i]
      BY DEF HasPrefix, Prefix, AcceptedWidths
    <3>2. Prefix(hex, 6) = Prefix(more, 6)
      BY <3>1 DEF Prefix
    <3>3. 6 <= Len(hex) /\ 6 <= Len(more)
      <4>1. \A n \in AcceptedWidths : 6 <= n
        BY DEF AcceptedWidths
      <4>. QED BY <4>1
    <3>. QED BY <3>2, <3>3 DEF At
  <2>4. LookupCID(d, more) = LookupCID(d, hex)
    BY <2>3 DEF LookupCID
  <2>5. f = e
    BY <1>1, <1>2, <1>6, <2>1, <2>4 DEF Match
  <2>6. HasPrefix(e.assignment, e.assignment)
    BY <1>4, <1>5, PrefixesNest
  <2>. QED BY <2>5, <2>6
<1>7. CASE ~Local(hex)
  <2>1. f = Lookup(d, more).entry
    BY <1>2, <1>7 DEF Match
  <2>2. e \in Oui(rows)
    BY <1>7, MatchFacts
  <2>3. f # None /\ (Len(e.assignment) < Len(f.assignment) \/ e.assignment = f.assignment)
    BY <1>5, <2>1, <2>2, LookupLongest
  <2>4. f \in Row /\ HasPrefix(more, f.assignment)
    BY <2>3, MatchFacts DEF Oui, Cid
  <2>5. Len(f.assignment) \in Nat /\ Len(e.assignment) <= Len(f.assignment)
    BY <1>4, <2>3, <2>4, WidthFacts DEF lookupWidths
  <2>6. f.assignment = Prefix(more, Len(f.assignment))
    BY <2>4 DEF HasPrefix
  <2>. QED BY <1>4, <1>5, <2>3, <2>5, <2>6, PrefixesNest
<1>. QED BY <1>6, <1>7
-----------------------------------------------------------------------------
\* The inductive invariant: no more than the type invariant and that the lines
\* printed are the inputs resolved against the database loaded at the start.
LInv == LTypeOK /\ PrintedResolved

LEMMA DatabaseFacts ==
    ASSUME NEW d \in Databases
    PROVE  \E rows \in SUBSET Row : d \in New(rows) /\ d.rows = rows
BY CatalogsAssumption DEF Databases, New

LEMMA BatchFacts ==
    ASSUME NEW in \in Batches
    PROVE  in \in Seq(Inputs) /\ Len(in) \in Nat /\ Len(in) <= MaxInputs
<1>1. PICK n \in 0 .. MaxInputs : in \in [1 .. n -> Inputs]
  BY DEF Batches
<1>2. n \in Nat
  BY <1>1, InputsAssumption
<1>3. in \in Seq(Inputs) /\ Len(in) = n
  BY <1>1, <1>2
<1>. QED BY <1>1, <1>2, <1>3, InputsAssumption

\* A result is Invalid or what Match says of an address of an accepted width.
LEMMA ResolveFacts ==
    ASSUME NEW d \in Databases, NEW in \in Inputs
    PROVE  LET r == Resolve(d, in)
           IN /\ r = Invalid \/ (r = ResolveHex(d, r.hex) /\ Len(r.hex) \in AcceptedWidths)
              /\ Len(r.hex) \in AcceptedWidths \cup {0}
              /\ r.entry = None \/ r.entry \in d.rows
<1>1. CASE Parses(in)
  <2>1. Resolve(d, in) = ResolveHex(d, Digits(in)) /\ Len(Digits(in)) \in AcceptedWidths
    BY <1>1 DEF Resolve, Parses
  <2>2. ResolveHex(d, Digits(in)).hex = Digits(in)
        /\ ResolveHex(d, Digits(in)).entry = Match(d, Digits(in)).entry
    BY DEF ResolveHex
  <2>3. PICK rows \in SUBSET Row : d \in New(rows) /\ d.rows = rows
    BY DatabaseFacts
  <2>4. Match(d, Digits(in)).entry = None \/ Match(d, Digits(in)).entry \in rows
    BY <2>3, MatchFacts DEF Oui, Cid
  <2>. QED BY <2>1, <2>2, <2>3, <2>4
<1>2. CASE ~Parses(in)
  BY <1>2 DEF Resolve, Invalid
<1>. QED BY <1>1, <1>2

\* Nothing has been printed when the store is still missing.
THEOREM LInitInv == LInit => LInv
<1>. SUFFICES ASSUME LInit PROVE LInv
  OBVIOUS
<1>1. ControlOK
  <2>1. lastCode \in 0 .. 2
    BY DEF LInit
  <2>2. failed \in BOOLEAN
    BY DEF LInit
  <2>. QED BY <2>1, <2>2 DEF LInit, ControlOK
<1>2. inputs \in Seq(Inputs) /\ Len(inputs) = 0 /\ Len(printed) = 0 /\ DOMAIN printed = {}
  BY DEF LInit
<1>3. BatchOK
  BY <1>2, InputsAssumption DEF BatchOK
<1>4. PrintedResolved
  BY DEF LInit, PrintedResolved
<1>. QED BY <1>1, <1>3, <1>4 DEF LInv, LTypeOK

\* No command, and no rebuild of the store under it, prints anything but what
\* its own database resolves the inputs to.
THEOREM LNextInv == LInv /\ [LNext]_vars => LInv'
<1>. SUFFICES ASSUME LInv, [LNext]_vars PROVE LInv'
  OBVIOUS
<1>. USE DEF LInv, LTypeOK
<1>1. CASE Rebuild
  <2>1. store' \in Databases
    BY <1>1 DEF Rebuild, Databases
  <2>2. ControlOK'
    BY <1>1, <2>1 DEF Rebuild, ControlOK
  <2>. QED BY <1>1, <2>2 DEF Rebuild, BatchOK, PrintedResolved
<1>2. ASSUME NEW m \in Modes, NEW in \in Batches, Begin(m, in)
      PROVE  LInv'
  <2>1. printed = <<>> /\ printed' = <<>>
    BY <1>2 DEF Begin, PrintedResolved
  <2>2. mode' # "idle"
    BY <1>2 DEF Begin, Modes
  <2>3. PrintedResolved'
    <3>1. printed' \in Seq({Resolve(db', i) : i \in Inputs})
      BY <2>1
    <3>. QED BY <2>1, <2>2, <3>1 DEF PrintedResolved
  <2>4. inputs' \in Seq(Inputs) /\ Len(inputs') \in Nat /\ Len(inputs') <= MaxInputs
    BY <1>2, BatchFacts DEF Begin
  <2>5. Len(printed') = 0 /\ DOMAIN printed' = {}
    BY <2>1
  <2>6. BatchOK'
    BY <2>4, <2>5 DEF BatchOK
  <2>7. exit' \in (0 .. 2) \cup {None} /\ (exit' = None => db' # None)
    BY <1>2, ExitAssumption DEF Begin
  <2>8. ControlOK'
    BY <1>2, <2>7 DEF Begin, ControlOK
  <2>. QED BY <2>3, <2>6, <2>8
<1>3. CASE Answer
  <2> DEFINE r == Resolve(db, inputs[Len(printed) + 1])
             S == {Resolve(db, in) : in \in Inputs}
  <2>1. printed \in Seq(S)
    BY DEF PrintedResolved
  <2>2. db # None /\ db \in Databases
    BY <1>3 DEF Answer, ControlOK
  <2>3. /\ inputs \in Seq(Inputs) /\ Len(printed) \in Nat /\ Len(inputs) \in Nat
        /\ Len(printed) + 1 <= Len(inputs)
    <3>1. Len(printed) < Len(inputs) /\ inputs \in Seq(Inputs)
      BY <1>3 DEF Answer, BatchOK
    <3>2. Len(printed) \in Nat /\ Len(inputs) \in Nat
      BY <2>1, <3>1
    <3>. QED BY <3>1, <3>2
  <2>4. inputs[Len(printed) + 1] \in Inputs
    BY <2>3
  <2>5. printed' = Append(printed, r) /\ r \in S
    BY <1>3, <2>4 DEF Answer
  <2>. HIDE DEF r, S
  <2>6. /\ printed' \in Seq(S) /\ Len(printed') = Len(printed) + 1
        /\ DOMAIN printed = 1 .. Len(printed)
        /\ DOMAIN printed' = 1 .. Len(printed) + 1
        /\ \A i \in 1 .. Len(printed) : printed'[i] = printed[i]
        /\ printed'[Len(printed) + 1] = r
    BY <2>1, <2>5
  <2>7. /\ db' = db /\ mode' = mode /\ inputs' = inputs /\ store' = store /\ exit' = exit
        /\ mode # "idle"
    BY <1>3 DEF Answer
  <2>8. printed' \in Seq({Resolve(db', in) : in \in Inputs})
    BY <2>6, <2>7 DEF S
  <2>9. PrintedResolved'
    BY <2>2, <2>7, <2>8 DEF PrintedResolved
  <2>10. Len(r.hex) \in AcceptedWidths \cup {0} /\ (r.entry = None \/ r.entry \in db.rows)
    BY <2>2, <2>4, ResolveFacts DEF r
  <2>11. \A i \in DOMAIN printed' : /\ Len(printed'[i].hex) \in AcceptedWidths \cup {0}
                                    /\ printed'[i].entry = None \/ printed'[i].entry \in db.rows
    <3>1. TAKE i \in DOMAIN printed'
    <3>2. i \in 1 .. Len(printed) \/ i = Len(printed) + 1
      BY <2>3, <2>6
    <3>3. CASE i \in 1 .. Len(printed)
      BY <2>6, <3>3 DEF BatchOK
    <3>4. CASE i = Len(printed) + 1
      BY <2>6, <2>10, <3>4
    <3>. QED BY <3>2, <3>3, <3>4
  <2>12. BatchOK'
    <3>1. Len(inputs') <= MaxInputs
      BY <2>7 DEF BatchOK
    <3>2. inputs' \in Seq(Inputs) /\ Len(printed') <= Len(inputs')
      <4>1. inputs' = inputs /\ Len(printed') = Len(printed) + 1
        BY <2>6, <2>7
      <4>. QED BY <2>3, <4>1
    <3>3. db' = db
      BY <2>7
    <3>. QED BY <2>11, <3>1, <3>2, <3>3 DEF BatchOK
  <2>13. lastCode' \in 0 .. 2 /\ failed' \in BOOLEAN
    <3>1. CASE mode = "mcp"
      BY <1>3, <3>1 DEF Answer, ControlOK
    <3>2. CASE mode # "mcp"
      <4>1. Noted(Resolve(db, inputs[Len(printed) + 1]))
        BY <1>3, <3>2 DEF Answer
      <4>2. lastCode' = 0 \/ lastCode' = 1 \/ lastCode' = 2
        BY <4>1 DEF Noted
      <4>3. failed' \in BOOLEAN
        BY <4>1 DEF Noted
      <4>. QED BY <4>2, <4>3
    <3>. QED BY <3>1, <3>2
  <2>14. ControlOK'
    BY <2>7, <2>13 DEF ControlOK
  <2>. QED BY <2>9, <2>12, <2>14
<1>4. CASE Exit
  <2>1. exit' \in 0 .. 2
    BY <1>4 DEF Exit, Code, ControlOK
  <2>2. exit' # None
    BY <2>1, ExitAssumption
  <2>3. ControlOK'
    BY <1>4, <2>1, <2>2 DEF Exit, ControlOK
  <2>. QED BY <1>4, <2>3 DEF Exit, BatchOK, PrintedResolved
<1>5. CASE WriteFails
  <2>1. exit' \in 0 .. 2 /\ exit' # None
    BY <1>5, ExitAssumption DEF WriteFails
  <2>2. ControlOK'
    BY <1>5, <2>1 DEF WriteFails, ControlOK
  <2>. QED BY <1>5, <2>2 DEF WriteFails, BatchOK, PrintedResolved
<1>6. CASE Done
  <2>1. printed' = <<>> /\ inputs' = <<>>
    BY <1>6 DEF Done
  <2>2. PrintedResolved'
    BY <2>1 DEF PrintedResolved
  <2>3. /\ inputs' \in Seq(Inputs) /\ Len(inputs') = 0 /\ Len(printed') = 0
        /\ DOMAIN printed' = {}
    BY <2>1
  <2>4. BatchOK'
    BY <2>3, InputsAssumption DEF BatchOK
  <2>5. ControlOK'
    <3>1. lastCode' \in 0 .. 2
      BY <1>6 DEF Done
    <3>2. failed' \in BOOLEAN
      BY <1>6 DEF Done
    <3>. QED BY <1>6, <3>1, <3>2 DEF Done, ControlOK
  <2>. QED BY <2>2, <2>4, <2>5
<1>7. CASE UNCHANGED vars
  BY <1>7 DEF vars, ControlOK, BatchOK, PrintedResolved
<1>. QED BY <1>1, <1>2, <1>3, <1>4, <1>5, <1>6, <1>7 DEF LNext

\* So whatever a command has printed so far, its own database says.
THEOREM LInvariant == LSpec => []LInv
BY LInitInv, LNextInv, PTL DEF LSpec

\* The type invariant of LookupCommand, and that no answer of a batch is about
\* rows of a database other than the one the command loaded.
THEOREM LTypeCorrect == LSpec => []LTypeOK
<1>1. LInv => LTypeOK
  BY DEF LInv
<1>. QED BY <1>1, LInvariant, PTL

\* Every answer told is what Match says against the command's database.
LEMMA ToldFacts ==
    ASSUME LInv, NEW r \in Told
    PROVE  /\ db \in Databases
           /\ r = ResolveHex(db, r.hex)
           /\ Len(r.hex) \in AcceptedWidths
<1>1. PICK i \in DOMAIN printed : r = printed[i] /\ r # Invalid
  BY DEF Told
<1>2. printed \in Seq({Resolve(db, in) : in \in Inputs})
  BY DEF LInv, PrintedResolved
<1>3. PICK in \in Inputs : r = Resolve(db, in)
  BY <1>1, <1>2
<1>4. printed # <<>>
  BY <1>1
<1>5. db \in Databases
  BY <1>4 DEF LInv, PrintedResolved, LTypeOK, ControlOK
<1>. QED BY <1>1, <1>3, <1>5, ResolveFacts

\* No row of the database a command loaded covers an address more closely than
\* the row the command answered it with, and of rows equally close none is of a
\* later registry.
THEOREM LongestPrefixWins == LSpec => []MostSpecific
<1>1. ASSUME LInv PROVE MostSpecific
  <2>1. SUFFICES ASSUME NEW r \in Told, VendorLookupApplicable(r.hex)
        PROVE  /\ r.entry # None => r.entry \in Oui(db.rows) /\ Covers(r.entry, r.hex)
               /\ \A q \in Oui(db.rows) : Covers(q, r.hex) =>
                     /\ r.entry # None
                     /\ \/ Len(q.assignment) < Len(r.entry.assignment)
                        \/ /\ q.assignment = r.entry.assignment
                           /\ Rank[q.reg] <= Rank[r.entry.reg]
    BY DEF MostSpecific
  <2>2. db \in Databases /\ r = ResolveHex(db, r.hex)
    BY <1>1, ToldFacts
  <2>3. PICK rows \in SUBSET Row : db \in New(rows) /\ db.rows = rows
    BY <2>2, DatabaseFacts
  <2>4. r.entry = Match(db, r.hex).entry
    BY <2>2 DEF ResolveHex
  <2>5. Cast(r.hex) = "unicast" /\ ~Local(r.hex)
    BY <2>1 DEF VendorLookupApplicable
  <2>6. r.entry # None => r.entry \in Oui(rows) /\ HasPrefix(r.hex, r.entry.assignment)
    BY <2>3, <2>4, <2>5, MatchFacts
  <2>7. Match(db, r.hex) = Lookup(db, r.hex)
    BY <2>5 DEF Match
  <2>. QED BY <2>3, <2>4, <2>6, <2>7, LookupLongest DEF Covers
<1>. QED BY <1>1, LInvariant, PTL

\* Classification comes before the registries: only a unicast address has a
\* row, and CID's rows go with local addresses, the others with universal ones.
THEOREM ClassifiedFirst == LSpec => []RightRegistry
<1>1. ASSUME LInv PROVE RightRegistry
  <2>1. SUFFICES ASSUME NEW r \in Told, r.entry # None
        PROVE  Cast(r.hex) = "unicast" /\ (r.entry.reg = "CID" <=> Local(r.hex))
    BY DEF RightRegistry
  <2>2. db \in Databases /\ r = ResolveHex(db, r.hex)
    BY <1>1, ToldFacts
  <2>3. PICK rows \in SUBSET Row : db \in New(rows)
    BY <2>2, DatabaseFacts
  <2>4. r.entry = Match(db, r.hex).entry
    BY <2>2 DEF ResolveHex
  <2>5. /\ Cast(r.hex) = "unicast"
        /\ r.entry \in IF Local(r.hex) THEN Cid(rows) ELSE Oui(rows)
    BY <2>1, <2>3, <2>4, MatchFacts
  <2>. QED BY <2>5 DEF Cid, Oui
<1>. QED BY <1>1, LInvariant, PTL

\* Typing more of an address keeps the match of its prefix or finds a longer
\* one inside it.
THEOREM MoreDigitsRefine == LSpec => []MorePrecise
<1>1. ASSUME LInv PROVE MorePrecise
  <2>1. SUFFICES ASSUME NEW r \in Told, NEW s \in Told,
                        HasPrefix(s.hex, r.hex), r.entry # None
        PROVE  s.entry # None /\ HasPrefix(s.entry.assignment, r.entry.assignment)
    BY DEF MorePrecise
  <2>2. /\ db \in Databases
        /\ r = ResolveHex(db, r.hex) /\ Len(r.hex) \in AcceptedWidths
        /\ s = ResolveHex(db, s.hex) /\ Len(s.hex) \in AcceptedWidths
    BY <1>1, ToldFacts
  <2>3. PICK rows \in SUBSET Row : db \in New(rows)
    BY <2>2, DatabaseFacts
  <2>4. r.entry = Match(db, r.hex).entry /\ s.entry = Match(db, s.hex).entry
    BY <2>2 DEF ResolveHex
  <2>. QED BY <2>1, <2>2, <2>3, <2>4, MatchRefines
<1>. QED BY <1>1, LInvariant, PTL

-----------------------------------------------------------------------------
\* The order of the registries' names tells any two of them apart.
LEMMA RankFacts ==
    /\ \A g \in Registry : Rank[g] \in 1 .. 5
    /\ \A g, h \in Registry : Rank[g] <= Rank[h] /\ Rank[h] <= Rank[g] => g = h
<1>1. /\ Rank["CID"] = 1 /\ Rank["IAB"] = 2 /\ Rank["MA-L"] = 3
      /\ Rank["MA-M"] = 4 /\ Rank["MA-S"] = 5
  BY DEF Rank, Registry
<1>. QED BY <1>1 DEF Registry

\* Of some ranks one is the last.
LEMMA LastOf ==
    ASSUME NEW S, S \subseteq 1 .. 5, S # {}
    PROVE  \E m \in S : \A n \in S : n <= m
<1>1. CASE 5 \in S
  BY <1>1
<1>2. CASE 5 \notin S /\ 4 \in S
  BY <1>2
<1>3. CASE 5 \notin S /\ 4 \notin S /\ 3 \in S
  BY <1>3
<1>4. CASE 5 \notin S /\ 4 \notin S /\ 3 \notin S /\ 2 \in S
  BY <1>4
<1>5. CASE S \subseteq {1}
  <2>1. 1 \in S /\ \A n \in S : n = 1
    BY <1>5
  <2>. QED BY <2>1
<1>. QED BY <1>1, <1>2, <1>3, <1>4, <1>5

\* Any rows can be indexed: with the row of the last registry for each
\* assignment.
LEMMA IndexExists ==
    ASSUME NEW rows \in SUBSET Row
    PROVE  Indexes(rows) # {}
<1> DEFINE With(a) == {r \in rows : r.assignment = a}
           Last(r) == \A q \in With(r.assignment) : Rank[q.reg] <= Rank[r.reg]
           Best(a) == CHOOSE r \in With(a) : Last(r)
           index == {Best(a) : a \in Assignments(rows)}
<1>1. ASSUME NEW a \in Assignments(rows)
      PROVE  Best(a) \in With(a) /\ Last(Best(a))
  <2>1. PICK r \in rows : r.assignment = a
    BY DEF Assignments
  <2> DEFINE S == {Rank[q.reg] : q \in With(a)}
  <2>2. S \subseteq 1 .. 5 /\ S # {}
    BY <2>1, RankFacts DEF Row
  <2>3. PICK m \in S : \A n \in S : n <= m
    BY <2>2, LastOf
  <2>4. PICK q \in With(a) : m = Rank[q.reg]
    BY <2>3
  <2>5. Last(q)
    BY <2>3, <2>4
  <2>. QED BY <2>4, <2>5
<1>2. index \subseteq rows /\ Assignments(index) = Assignments(rows)
  <2>1. \A a \in Assignments(rows) : Best(a) \in rows /\ Best(a).assignment = a
    BY <1>1
  <2>2. index \subseteq rows
    BY <2>1
  <2>3. Assignments(index) \subseteq Assignments(rows)
    BY <2>2 DEF Assignments
  <2>4. ASSUME NEW a \in Assignments(rows) PROVE a \in Assignments(index)
    <3>1. Best(a) \in index /\ a = Best(a).assignment
      BY <2>1
    <3> HIDE DEF index, Best
    <3>. QED BY <3>1 DEF Assignments
  <2>. QED BY <2>2, <2>3, <2>4
<1>3. \A r \in index : r = Best(r.assignment) /\ Last(r)
  BY <1>1
<1>4. \A r, q \in index : r.assignment = q.assignment => r = q
  <2> HIDE DEF index, Best
  <2>. QED BY <1>3
<1>5. \A r \in index, q \in rows : q.assignment = r.assignment => Rank[q.reg] <= Rank[r.reg]
  BY <1>3
<1>6. index \in Indexes(rows)
  BY <1>2, <1>4, <1>5 DEF Indexes
<1>. QED BY <1>6

\* New always has a database to return, and one only when no registry lists an
\* assignment twice: the unstable sort has a say in nothing else.
THEOREM NewDetermined ==
    ASSUME NEW rows \in SUBSET Row
    PROVE  /\ New(rows) # {}
           /\ (\A r, q \in rows : r.reg = q.reg /\ r.assignment = q.assignment => r = q)
                 => \A d, e \in New(rows) : d = e
<1>1. New(rows) # {}
  <2>1. Oui(rows) \in SUBSET Row /\ Cid(rows) \in SUBSET Row
    BY DEF Oui, Cid
  <2>2. PICK o \in Indexes(Oui(rows)), c \in Indexes(Cid(rows)) : TRUE
    BY <2>1, IndexExists
  <2>3. [rows |-> rows, oui |-> o, cid |-> c] \in New(rows)
    BY DEF New
  <2>. QED BY <2>3
<1>2. ASSUME \A r, q \in rows : r.reg = q.reg /\ r.assignment = q.assignment => r = q,
             NEW some \in SUBSET rows, NEW i \in Indexes(some), NEW j \in Indexes(some)
      PROVE  i \subseteq j
  <2>1. SUFFICES ASSUME NEW r \in i PROVE r \in j
    OBVIOUS
  <2>2. r \in some
    BY IndexFacts
  <2>3. PICK q \in j : q.assignment = r.assignment /\ Rank[r.reg] <= Rank[q.reg]
    BY <2>2, IndexFacts
  <2>4. q \in some
    BY <2>3, IndexFacts
  <2>5. Rank[q.reg] <= Rank[r.reg]
    BY <2>3, <2>4 DEF Indexes
  <2>6. r.reg \in Registry /\ q.reg \in Registry
    BY <2>2, <2>4 DEF Row
  <2>7. r = q
    BY <1>2, <2>2, <2>3, <2>4, <2>5, <2>6, RankFacts
  <2>. QED BY <2>3, <2>7
<1>3. ASSUME \A r, q \in rows : r.reg = q.reg /\ r.assignment = q.assignment => r = q,
             NEW d \in New(rows), NEW e \in New(rows)
      PROVE  d = e
  <2>1. Oui(rows) \subseteq rows /\ Cid(rows) \subseteq rows
    BY DEF Oui, Cid
  <2>2. PICK o \in Indexes(Oui(rows)), c \in Indexes(Cid(rows)) :
          d = [rows |-> rows, oui |-> o, cid |-> c]
    BY DEF New
  <2>3. PICK p \in Indexes(Oui(rows)), k \in Indexes(Cid(rows)) :
          e = [rows |-> rows, oui |-> p, cid |-> k]
    BY DEF New
  <2>4. o \subseteq p /\ p \subseteq o /\ c \subseteq k /\ k \subseteq c
    BY <1>2, <1>3, <2>1
  <2>5. o = p /\ c = k
    BY <2>4
  <2>. QED BY <2>2, <2>3, <2>5
<1>. QED BY <1>1, <1>3

\* Whichever of two rows with one assignment a registry's index kept, the block
\* and the registry an address is found in are the same.
LEMMA SameMatch ==
    ASSUME NEW rows \in SUBSET Row, NEW d \in New(rows), NEW e \in New(rows), NEW hex,
           Match(d, hex).entry # None
    PROVE  /\ Match(e, hex).entry # None
           /\ Match(e, hex).entry.reg = Match(d, hex).entry.reg
           /\ Match(e, hex).entry.assignment = Match(d, hex).entry.assignment
<1> DEFINE r == Match(d, hex).entry
           q == Match(e, hex).entry
<1>1. /\ Cast(hex) = "unicast" /\ HasPrefix(hex, r.assignment)
      /\ r \in IF Local(hex) THEN Cid(rows) ELSE Oui(rows)
  BY MatchFacts
<1>2. CASE ~Local(hex)
  <2>1. r \in Oui(rows) /\ q = Lookup(e, hex).entry /\ r = Lookup(d, hex).entry
    BY <1>1, <1>2 DEF Match
  <2>2. /\ q # None
        /\ \/ Len(r.assignment) < Len(q.assignment)
           \/ r.assignment = q.assignment /\ Rank[r.reg] <= Rank[q.reg]
    BY <1>1, <2>1, LookupLongest
  <2>3. q \in Oui(rows) /\ HasPrefix(hex, q.assignment)
    BY <1>2, <2>2, MatchFacts
  <2>4. \/ Len(q.assignment) < Len(r.assignment)
        \/ q.assignment = r.assignment /\ Rank[q.reg] <= Rank[r.reg]
    BY <2>1, <2>3, LookupLongest
  <2>5. /\ r.reg \in Registry /\ q.reg \in Registry
        /\ r.assignment \in Seq(Digit) /\ q.assignment \in Seq(Digit)
    BY <2>1, <2>3 DEF Oui, Row
  <2>6. r.assignment = q.assignment /\ Rank[r.reg] <= Rank[q.reg] /\ Rank[q.reg] <= Rank[r.reg]
    BY <2>2, <2>4, <2>5, RankFacts
  <2>. QED BY <2>2, <2>5, <2>6, RankFacts
<1>3. CASE Local(hex)
  <2>1. d.cid \in Indexes(Cid(rows)) /\ e.cid \in Indexes(Cid(rows))
    BY DEF New
  <2>2. LookupCID(d, hex) # Miss /\ r = LookupCID(d, hex).entry
    BY <1>1, <1>3 DEF Match, NotApplicable
  <2>3. r \in At(d.cid, hex, 6)
    BY <2>2 DEF LookupCID, The
  <2>4. r \in Cid(rows) /\ r.assignment = Prefix(hex, 6) /\ 6 <= Len(hex)
    BY <1>1, <1>3, <2>3 DEF At
  <2>5. PICK k \in e.cid : k.assignment = r.assignment
    BY <2>1, <2>4, IndexFacts
  <2>6. At(e.cid, hex, 6) # {}
    BY <2>4, <2>5 DEF At
  <2>7. The(At(e.cid, hex, 6)) \in At(e.cid, hex, 6)
    BY <2>6 DEF The
  <2>8. LookupCID(e, hex).entry \in At(e.cid, hex, 6)
    BY <2>6, <2>7 DEF LookupCID
  <2>9. LookupCID(e, hex).entry \in Cid(rows) /\ LookupCID(e, hex).entry # None
    BY <2>1, <2>8, IndexFacts, ResolveAssumption DEF At, Cid
  <2>10. LookupCID(e, hex) # Miss
    BY <2>9 DEF Miss
  <2>11. q = LookupCID(e, hex).entry
    BY <1>1, <1>3, <2>10 DEF Match
  <2>. QED BY <2>4, <2>8, <2>9, <2>11 DEF At, Cid
<1>. QED BY <1>2, <1>3

\* An update that brings the same rows leaves every answer told in the same
\* block of the same registry.
SameBlock ==
    \A r \in Told : \A d \in New(db.rows) :
        LET again == ResolveHex(d, r.hex).entry
        IN /\ again = None <=> r.entry = None
           /\ r.entry # None => /\ again.reg = r.entry.reg
                                /\ again.assignment = r.entry.assignment

\* Whatever the unstable sort of New leaves in the index, an address is found
\* in the same block (New, buildIndex); its registrant is another matter when a
\* registry lists the block twice.
THEOREM RebuiltAlike == LSpec => []SameBlock
<1>1. ASSUME LInv, NEW r \in Told, NEW d \in New(db.rows)
      PROVE  LET again == ResolveHex(d, r.hex).entry
             IN /\ again = None <=> r.entry = None
                /\ r.entry # None => /\ again.reg = r.entry.reg
                                     /\ again.assignment = r.entry.assignment
  <2>1. db \in Databases /\ r = ResolveHex(db, r.hex)
    BY <1>1, ToldFacts
  <2>2. PICK rows \in SUBSET Row : db \in New(rows) /\ db.rows = rows
    BY <2>1, DatabaseFacts
  <2>3. r.entry = Match(db, r.hex).entry /\ ResolveHex(d, r.hex).entry = Match(d, r.hex).entry
    BY <2>1 DEF ResolveHex
  <2>. QED BY <2>2, <2>3, SameMatch
<1>2. LInv => SameBlock
  BY <1>1 DEF SameBlock
<1>. QED BY <1>2, LInvariant, PTL
-----------------------------------------------------------------------------
\* The row a universal address is answered with is one of those that cover it,
\* none of them longer, and there is one whenever any covers it.
LEMMA ClosestFacts ==
    ASSUME NEW rows \in SUBSET Row, NEW d \in New(rows), NEW hex, VendorLookupApplicable(hex)
    PROVE  LET oui == {q \in Oui(rows) : HasPrefix(hex, q.assignment)}
               m == Match(d, hex)
           IN \/ oui = {} /\ m = Miss
              \/ /\ m.entry \in oui
                 /\ \A o \in oui : Len(o.assignment) <= Len(m.entry.assignment)
                 /\ m = Found(m.entry)
<1> DEFINE oui == {q \in Oui(rows) : HasPrefix(hex, q.assignment)}
           e == Match(d, hex).entry
<1>1. Match(d, hex) = Lookup(d, hex) /\ ~Local(hex)
  BY DEF Match, VendorLookupApplicable
<1>2. CASE Hits(d, hex) = {}
  <2>1. Match(d, hex) = Miss /\ e = None
    BY <1>1, <1>2 DEF Lookup, Miss
  <2>2. oui = {}
    BY <1>1, <2>1, LookupLongest
  <2>. QED BY <2>1, <2>2
<1>3. CASE Hits(d, hex) # {}
  <2> DEFINE first == CHOOSE i \in Hits(d, hex) : \A j \in Hits(d, hex) : i <= j
             row == The(At(d.oui, hex, lookupWidths[first]))
  <2>1. Match(d, hex) = Found(row)
    BY <1>1, <1>3 DEF Lookup
  <2>2. e = row /\ Match(d, hex) = Found(e)
    BY <2>1 DEF Found
  <2>3. d.oui \in Indexes(Oui(rows)) /\ e \in d.oui
    BY <1>1, <1>3, FirstHit DEF New, At
  <2>4. e \in Row /\ e # None
    BY <2>3, IndexFacts, ResolveAssumption DEF Oui
  <2>5. e \in oui
    BY <1>1, <2>4, MatchFacts
  <2>6. ASSUME NEW o \in oui PROVE Len(o.assignment) <= Len(e.assignment)
    <3>1. \/ Len(o.assignment) < Len(e.assignment)
          \/ o.assignment = e.assignment
      BY <1>1, LookupLongest
    <3>2. Len(o.assignment) \in Nat /\ Len(e.assignment) \in Nat
      BY <2>4, WidthFacts DEF Oui, lookupWidths
    <3>. QED BY <3>1, <3>2
  <2>. QED BY <2>2, <2>5, <2>6
<1>. QED BY <1>2, <1>3

\* CID is asked at its one width, so a local address misses it only if none of
\* its rows covers the address.
LEMMA CidFacts ==
    ASSUME NEW rows \in SUBSET Row, NEW d \in New(rows), NEW hex,
           Cast(hex) = "unicast", Local(hex)
    PROVE  LET cid == {q \in Cid(rows) : HasPrefix(hex, q.assignment)}
               m == Match(d, hex)
           IN \/ cid = {} /\ m = NotApplicable
              \/ cid # {} /\ m.entry # None /\ m.status # "not_applicable"
<1> DEFINE cid == {q \in Cid(rows) : HasPrefix(hex, q.assignment)}
           at == At(d.cid, hex, 6)
<1>1. d.cid \in Indexes(Cid(rows))
  BY DEF New
<1>2. CASE at = {}
  <2>1. Match(d, hex) = NotApplicable
    BY <1>2 DEF Match, LookupCID
  <2>2. SUFFICES ASSUME NEW q \in cid PROVE FALSE
    BY <2>1
  <2>3. q \in Row /\ q.reg = "CID"
    BY DEF Cid
  <2>4. Len(q.assignment) = 6
    BY <2>3 DEF Row, Width, Registry
  <2>5. PICK k \in d.cid : k.assignment = q.assignment
    BY <1>1, IndexFacts
  <2>6. k \in at
    BY <2>4, <2>5 DEF At, HasPrefix
  <2>. QED BY <1>2, <2>6
<1>3. CASE at # {}
  <2>1. The(at) \in at
    BY <1>3 DEF The
  <2>2. The(at) \in Cid(rows) /\ HasPrefix(hex, The(at).assignment)
    BY <1>1, <2>1, IndexFacts, AtFacts
  <2>3. The(at) # None
    BY <2>2, ResolveAssumption DEF Cid
  <2>4. /\ LookupCID(d, hex).entry = The(at)
        /\ LookupCID(d, hex).status \in {"private", "vendor"}
    BY <1>3 DEF LookupCID
  <2>5. Match(d, hex) = LookupCID(d, hex)
    BY <2>3, <2>4 DEF Match, Miss
  <2>. QED BY <2>2, <2>3, <2>4, <2>5
<1>. QED BY <1>2, <1>3

\* For every database: a note says of the assignments that cover an address
\* what is so, and a universal address has none only when it has a vendor or a
\* closest row with a blank name.
THEOREM NotesAreTrue == LSpec => []NotesTrue
<1>1. ASSUME LInv, NEW r \in Told
      PROVE  LET oui == {q \in Oui(db.rows) : Covers(q, r.hex)}
                 cid == {q \in Cid(db.rows) : Covers(q, r.hex)}
                 closest == {q \in oui : \A o \in oui : Len(o.assignment) <= Len(q.assignment)}
                 note == NoteFor(r)
             IN /\ note = "not_found" <=> VendorLookupApplicable(r.hex) /\ oui = {}
                /\ note \in {"subdivided", "supply the full address"}
                      => \E q \in closest : RegistryHeld(q)
                /\ note = "subdivided" => Len(r.hex) = 12
                /\ note = "supply the full address" => Len(r.hex) < 12
                /\ note = "private" => \E q \in closest : Private(q)
                /\ note = "local" <=> Cast(r.hex) = "unicast" /\ Local(r.hex) /\ cid = {}
                /\ note = "local, in CID" <=> Cast(r.hex) = "unicast" /\ Local(r.hex) /\ cid # {}
                /\ note = "" /\ VendorName(r) = "" => \E q \in closest : q.org = ""
  <2> DEFINE oui == {q \in Oui(db.rows) : Covers(q, r.hex)}
             cid == {q \in Cid(db.rows) : Covers(q, r.hex)}
             closest == {q \in oui : \A o \in oui : Len(o.assignment) <= Len(q.assignment)}
             m == Match(db, r.hex)
  <2>1. r = ResolveHex(db, r.hex) /\ Len(r.hex) \in AcceptedWidths /\ db \in Databases
    BY <1>1, ToldFacts
  <2>2. r.status = m.status /\ r.entry = m.entry
    BY <2>1 DEF ResolveHex
  <2>3. PICK rows \in SUBSET Row : db \in New(rows) /\ db.rows = rows
    BY <2>1, DatabaseFacts
  <2>4. Cast(r.hex) \in {"broadcast", "multicast", "unicast"}
    BY DEF Cast
  <2>5. CASE Cast(r.hex) # "unicast"
    <3>1. NoteFor(r) \in {"broadcast", "multicast"}
      BY <2>4, <2>5 DEF NoteFor
    <3>. QED BY <2>5, <3>1 DEF VendorLookupApplicable
  <2>6. CASE Cast(r.hex) = "unicast" /\ Local(r.hex)
    <3>1. ~VendorLookupApplicable(r.hex)
      BY <2>6 DEF VendorLookupApplicable
    <3>2. \/ cid = {} /\ m = NotApplicable
          \/ cid # {} /\ m.entry # None /\ m.status # "not_applicable"
      BY <2>3, <2>6, CidFacts DEF Covers
    <3>3. CASE cid = {} /\ m = NotApplicable
      <4>1. NoteFor(r) = "local"
        BY <2>2, <2>6, <3>3 DEF NoteFor, NotApplicable
      <4>. QED BY <2>6, <3>1, <3>3, <4>1
    <3>4. CASE cid # {} /\ m.entry # None /\ m.status # "not_applicable"
      <4>1. NoteFor(r) = "local, in CID"
        BY <2>2, <2>6, <3>4 DEF NoteFor
      <4>. QED BY <2>6, <3>1, <3>4, <4>1
    <3>. QED BY <3>2, <3>3, <3>4
  <2>7. CASE Cast(r.hex) = "unicast" /\ ~Local(r.hex)
    <3>1. VendorLookupApplicable(r.hex)
      BY <2>7 DEF VendorLookupApplicable
    <3>2. /\ NoteFor(r) = IF m.status = "subdivided" /\ Len(r.hex) < 12
                          THEN "supply the full address"
                          ELSE IF m.status \in {"private", "subdivided", "not_found"}
                          THEN m.status ELSE ""
      BY <2>2, <2>7 DEF NoteFor
    <3>3. \A n \in AcceptedWidths : ~(n < 12) => n = 12
      BY DEF AcceptedWidths
    <3>4. \/ oui = {} /\ m = Miss
          \/ /\ m.entry \in oui
             /\ \A o \in oui : Len(o.assignment) <= Len(m.entry.assignment)
             /\ m = Found(m.entry)
      BY <2>3, <3>1, ClosestFacts DEF Covers
    <3>5. CASE oui = {} /\ m = Miss
      <4>1. NoteFor(r) = "not_found"
        BY <3>2, <3>5 DEF Miss
      <4>. QED BY <2>7, <3>1, <3>5, <4>1
    <3>6. CASE m.entry \in closest /\ m = Found(m.entry)
      <4> DEFINE e == m.entry
      <4>1. m.status = IF RegistryHeld(e) THEN "subdivided"
                       ELSE IF Private(e) THEN "private" ELSE "vendor"
        BY <3>6 DEF Found
      <4>2. e \in closest /\ oui # {} /\ r.entry = e
        BY <2>2, <3>6
      <4>3. e # None
        BY <2>3, <4>2, ResolveAssumption DEF Oui
      <4>. HIDE DEF e, oui, cid, closest, m
      <4>4. CASE RegistryHeld(e)
        <5>1. IF Len(r.hex) < 12 THEN NoteFor(r) = "supply the full address"
              ELSE NoteFor(r) = "subdivided" /\ Len(r.hex) = 12
          BY <2>1, <3>2, <3>3, <4>1, <4>4
        <5>. QED BY <2>7, <3>1, <4>2, <4>4, <5>1 DEF oui, closest
      <4>5. CASE ~RegistryHeld(e) /\ Private(e)
        <5>1. NoteFor(r) = "private"
          BY <3>2, <4>1, <4>5
        <5>. QED BY <2>7, <3>1, <4>2, <4>5, <5>1 DEF oui, closest
      <4>6. CASE ~RegistryHeld(e) /\ ~Private(e)
        <5>1. NoteFor(r) = "" /\ VendorName(r) = e.org
          BY <3>2, <4>1, <4>2, <4>3, <4>6 DEF VendorName
        <5>. QED BY <2>7, <3>1, <4>2, <5>1 DEF oui, closest
      <4>. QED BY <4>4, <4>5, <4>6
    <3>. QED BY <3>4, <3>5, <3>6
  <2>. QED BY <2>5, <2>6, <2>7
<1>2. LInv => NotesTrue
  BY <1>1 DEF NotesTrue
<1>. QED BY <1>2, LInvariant, PTL
-----------------------------------------------------------------------------
CodeOf(r) == IF r = Invalid THEN 2 ELSE IF VendorName(r) = "" THEN 1 ELSE 0

\* What a command line remembers for its exit code.
Counted == /\ mode = "idle" => printed = <<>> /\ failed = FALSE /\ exit = None
           /\ mode # "mcp" => (failed <=> \E i \in DOMAIN printed : printed[i] = Invalid)
           /\ mode # "mcp" /\ printed # <<>> => lastCode = CodeOf(printed[Len(printed)])

LEMMA ExitUnchanged ==
    ASSUME ExitTells, UNCHANGED <<exit, mode, inputs, printed>>
    PROVE  ExitTells'
BY DEF ExitTells, Told, Single

\* One more result and what is remembered of it.
LEMMA AnswerCounts == LInv /\ Counted /\ Answer => Counted'
<1>. SUFFICES ASSUME LInv, Counted, Answer PROVE Counted'
  OBVIOUS
<1> DEFINE r == Resolve(db, inputs[Len(printed) + 1])
<1>1. /\ printed' = Append(printed, r) /\ mode' = mode /\ mode # "idle"
      /\ mode # "mcp" => Noted(r)
  BY DEF Answer
<1>2. PICK S : printed \in Seq(S)
  BY DEF LInv, PrintedResolved
<1>. HIDE DEF r
<1>3. /\ Len(printed) \in Nat /\ Len(printed') = Len(printed) + 1
      /\ DOMAIN printed' = 1 .. Len(printed) + 1 /\ DOMAIN printed = 1 .. Len(printed)
      /\ \A i \in 1 .. Len(printed) : printed'[i] = printed[i]
      /\ printed'[Len(printed) + 1] = r
  <2>1. printed \in Seq(S \cup {r})
    BY <1>2
  <2>. QED BY <1>1, <2>1
<1>4. ASSUME mode # "mcp" PROVE failed' <=> \E i \in DOMAIN printed' : printed'[i] = Invalid
  <2>1. failed' <=> (failed \/ r = Invalid)
    BY <1>1, <1>4 DEF Noted
  <2>2. failed <=> \E i \in 1 .. Len(printed) : printed[i] = Invalid
    BY <1>3, <1>4 DEF Counted
  <2>3. \A i : i \in 1 .. Len(printed) + 1 <=> i \in 1 .. Len(printed) \/ i = Len(printed) + 1
    BY <1>3
  <2>. QED BY <1>3, <2>1, <2>2, <2>3
<1>5. ASSUME mode # "mcp" PROVE lastCode' = CodeOf(printed'[Len(printed')])
  BY <1>1, <1>3, <1>5 DEF Noted, CodeOf
<1>. QED BY <1>1, <1>4, <1>5 DEF Counted

\* The end of the loop: the exit code of what was printed.
LEMMA ExitCounts == LInv /\ Counted /\ Exit => ExitTells'
<1>. SUFFICES ASSUME LInv, Counted, Exit, mode # "mcp", inputs # <<>>
              PROVE  /\ exit' = 2 <=> \E i \in DOMAIN printed : printed[i] = Invalid
                     /\ exit' = 1 <=> /\ Single
                                      /\ \A r \in Told : VendorName(r) = ""
                                      /\ Told # {}
  BY DEF Exit, ExitTells, Told, Single
<1>1. /\ exit' = Code /\ Len(printed) = Len(inputs)
      /\ failed <=> \E i \in DOMAIN printed : printed[i] = Invalid
  BY DEF Exit, Counted
<1>2. CASE Single
  <2>1. PICK S : printed \in Seq(S)
    BY DEF LInv, PrintedResolved
  <2>2. /\ Len(printed) = 1 /\ DOMAIN printed = {1} /\ printed # <<>>
    BY <1>1, <1>2, <2>1 DEF Single
  <2>3. exit' = CodeOf(printed[1])
    BY <1>1, <1>2, <2>2 DEF Counted, Code
  <2>4. Told = {printed[1]} \ {Invalid}
    BY <2>2 DEF Told
  <2> DEFINE c == CodeOf(printed[1])
  <2>a. /\ c = 2 <=> printed[1] = Invalid
        /\ c = 1 <=> (printed[1] # Invalid /\ VendorName(printed[1]) = "")
    <3>1. CASE printed[1] = Invalid
      BY <3>1 DEF CodeOf
    <3>2. CASE printed[1] # Invalid /\ VendorName(printed[1]) = ""
      <4>1. c = 1
        BY <3>2 DEF CodeOf
      <4>2. c # 2
        BY <4>1
      <4>. QED BY <3>2, <4>1, <4>2
    <3>3. CASE printed[1] # Invalid /\ VendorName(printed[1]) # ""
      <4>1. c = 0
        BY <3>3 DEF CodeOf
      <4>2. c # 1 /\ c # 2
        BY <4>1
      <4>. QED BY <3>3, <4>2
    <3>. QED BY <3>1, <3>2, <3>3
  <2>. HIDE DEF c
  <2>5. exit' = 2 <=> printed[1] = Invalid
    BY <2>3, <2>a DEF c
  <2>6. exit' = 1 <=> (printed[1] # Invalid /\ VendorName(printed[1]) = "")
    BY <2>3, <2>a DEF c
  <2>7. (\E i \in DOMAIN printed : printed[i] = Invalid) <=> printed[1] = Invalid
    BY <2>2
  <2>8. (\A r \in Told : VendorName(r) = "") /\ Told # {}
           <=> printed[1] # Invalid /\ VendorName(printed[1]) = ""
    BY <2>4
  <2>. QED BY <1>2, <2>5, <2>6, <2>7, <2>8
<1>3. CASE ~Single
  <2>1. CASE failed
    <3>1. exit' = 2
      BY <1>1, <1>3, <2>1 DEF Code
    <3>2. exit' # 1
      BY <3>1
    <3>. QED BY <1>1, <1>3, <2>1, <3>1, <3>2
  <2>2. CASE ~failed
    <3>1. exit' = 0
      BY <1>1, <1>3, <2>2 DEF Code
    <3>2. exit' # 1 /\ exit' # 2
      BY <3>1
    <3>. QED BY <1>1, <1>3, <2>2, <3>2
  <2>. QED BY <2>1, <2>2
<1>. QED BY <1>2, <1>3

LEMMA CountedNext == LInv /\ LInv' /\ Counted /\ ExitTells /\ [LNext]_vars
                        => Counted' /\ ExitTells'
<1>. SUFFICES ASSUME LInv, LInv', Counted, ExitTells, [LNext]_vars
              PROVE  Counted' /\ ExitTells'
  OBVIOUS
<1>1. CASE Rebuild \/ UNCHANGED vars
  BY <1>1, ExitUnchanged DEF Rebuild, vars, Counted
<1>2. ASSUME NEW m \in Modes, NEW in \in Batches, Begin(m, in)
      PROVE  Counted' /\ ExitTells'
  <2>1. printed = <<>> /\ failed = FALSE /\ UNCHANGED <<printed, failed>> /\ inputs' = in
        /\ mode' = m /\ m # "idle"
    BY <1>2 DEF Begin, Counted, Modes
  <2>2. Counted'
    BY <2>1 DEF Counted
  <2>3. in # <<>> => Len(printed') # Len(inputs')
    <3>1. inputs' \in Seq(Inputs)
      BY DEF LInv, LTypeOK, BatchOK
    <3>2. \A t \in Seq(Inputs) : Len(t) = 0 => t = <<>>
      OBVIOUS
    <3>. QED BY <2>1, <3>1, <3>2
  <2>. QED BY <2>1, <2>2, <2>3 DEF ExitTells
<1>3. CASE Answer
  <2>1. exit' = None
    BY <1>3 DEF Answer
  <2>. QED BY <1>3, <2>1, AnswerCounts DEF ExitTells
<1>4. CASE Exit
  <2>1. Counted'
    BY <1>4 DEF Exit, Counted
  <2>. QED BY <1>4, <2>1, ExitCounts
<1>5. CASE WriteFails
  <2>1. Counted'
    BY <1>5 DEF WriteFails, Counted
  <2>2. Len(printed') # Len(inputs')
    <3>1. Len(printed) \in Nat /\ Len(inputs) \in Nat
      BY DEF LInv, LTypeOK, BatchOK, PrintedResolved
    <3>. QED BY <1>5, <3>1 DEF WriteFails
  <2>. QED BY <2>1, <2>2 DEF ExitTells
<1>6. CASE Done
  <2>1. mode' = "idle" /\ printed' = <<>> /\ failed' = FALSE /\ exit' = None
    BY <1>6 DEF Done
  <2>2. DOMAIN printed' = {}
    BY <2>1
  <2>. QED BY <2>1, <2>2 DEF Counted, ExitTells
<1>. QED BY <1>1, <1>2, <1>3, <1>4, <1>5, <1>6 DEF LNext

\* For every batch and every store: the exit code of a command line that printed
\* all it was asked for is the one of what it printed.
THEOREM ExitCodesTell == LSpec => []ExitTells
<1>1. LInit => Counted /\ ExitTells
  BY DEF LInit, Counted, ExitTells
<1>. QED BY <1>1, CountedNext, LInvariant, PTL DEF LSpec
=============================================================================
