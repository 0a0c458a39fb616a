---------------------------- MODULE Config_proofs ----------------------------
(***************************************************************************)
(* The theorems of Config.  What parseTOML reads from the lines of a file  *)
(* is a fold; its facts are proved by induction over the lines, and the    *)
(* induction is that of the natural numbers being well ordered.            *)
(***************************************************************************)
EXTENDS Config, WellFoundedInduction, TLAPS

\* A set of naturals has a least element.
LEMMA LeastElement ==
    ASSUME NEW T, T \subseteq Nat, T # {}
    PROVE  \E x \in T : \A y \in T : ~(y < x)
<1>1. PICK x \in T : \A y \in T : ~(<<y, x>> \in OpToRel(<, Nat))
  BY WFMin, NatLessThanWellFounded
<1>2. ASSUME NEW y \in T PROVE y < x => <<y, x>> \in OpToRel(<, Nat)
  BY DEF OpToRel
<1> QED BY <1>1, <1>2, Zenon

\* Induction, of the numbers that have a property as a set.
LEMMA SetInduction ==
    ASSUME NEW S, 0 \in S, \A n \in Nat : n \in S => n+1 \in S
    PROVE  Nat \subseteq S
<1> SUFFICES ASSUME Nat \ S # {} PROVE FALSE
  OBVIOUS
<1>1. PICK x \in Nat \ S : \A y \in Nat \ S : ~(y < x)
  BY LeastElement, Zenon
<1>2. x-1 \in Nat /\ x-1 < x /\ (x-1)+1 = x
  OBVIOUS
<1> QED BY <1>1, <1>2
-----------------------------------------------------------------------------
\* The fold of the first positions of a file, as FoldLeft defines it: over the
\* sets of positions, the last one of a set first.
FoldStep(f, lines, s) == IF s = {} THEN NothingRead
                         ELSE ParseLine(f[s \ {Max(s)}], lines[Max(s)])
IsFold(f, lines, n) == f = [s \in SUBSET (1..n) |-> FoldStep(f, lines, s)]

LEMMA MaxIsLast ==
    ASSUME NEW n \in Nat, NEW s \in SUBSET (1..n), n \in s
    PROVE  Max(s) = n
<1>1. n \in s /\ \A y \in s : n >= y
  OBVIOUS
<1>2. Max(s) \in s /\ \A y \in s : Max(s) >= y
  BY <1>1, Zenon DEF Max
<1>3. Max(s) >= n /\ n >= Max(s)
  BY <1>1, <1>2
<1>4. Max(s) \in 1..n
  BY <1>2
<1> QED BY <1>3, <1>4

LEMMA FoldExists ==
    ASSUME NEW lines, NEW n \in Nat
    PROVE  \E f : IsFold(f, lines, n)
<1> DEFINE S == {k \in Nat : \E f : IsFold(f, lines, k)}
<1>1. 0 \in S
  <2> DEFINE f == [s \in SUBSET (1..0) |-> NothingRead]
  <2>1. \A s \in SUBSET (1..0) : s = {}
    OBVIOUS
  <2>2. IsFold(f, lines, 0)
    BY <2>1 DEF IsFold, FoldStep
  <2> QED BY <2>2
<1>2. ASSUME NEW k \in Nat, k \in S PROVE k+1 \in S
  <2>1. PICK f : IsFold(f, lines, k)
    BY <1>2
  <2> DEFINE g == [s \in SUBSET (1..k+1) |->
                     IF k+1 \in s THEN ParseLine(f[s \ {k+1}], lines[k+1]) ELSE f[s]]
  <2>2. ASSUME NEW s \in SUBSET (1..k+1), k+1 \in s PROVE g[s] = FoldStep(g, lines, s)
    <3>1. Max(s) = k+1 /\ s # {}
      BY <2>2, MaxIsLast, k+1 \in Nat
    <3>2. s \ {k+1} \in SUBSET (1..k+1) /\ k+1 \notin s \ {k+1}
      OBVIOUS
    <3>3. g[s \ {k+1}] = f[s \ {k+1}]
      BY <3>2
    <3> HIDE DEF g
    <3>4. g[s] = ParseLine(f[s \ {k+1}], lines[k+1])
      BY <2>2 DEF g
    <3> QED BY <3>1, <3>3, <3>4 DEF FoldStep
  <2>3. ASSUME NEW s \in SUBSET (1..k+1), k+1 \notin s PROVE g[s] = FoldStep(g, lines, s)
    <3> DEFINE m == Max(s)
    <3> HIDE DEF m
    <3>1. s \in SUBSET (1..k)
      BY <2>3
    <3>2. g[s] = FoldStep(f, lines, s)
      BY <2>1, <2>3, <3>1 DEF IsFold
    <3>3. s \ {m} \in SUBSET (1..k+1) /\ k+1 \notin s \ {m}
      BY <2>3
    <3>4. g[s \ {m}] = f[s \ {m}]
      BY <3>3
    <3> HIDE DEF g
    <3> QED BY <3>2, <3>4 DEF FoldStep, m
  <2>4. IsFold(g, lines, k+1)
    <3> SUFFICES g = [s \in SUBSET (1..k+1) |-> FoldStep(g, lines, s)]
      BY DEF IsFold
    <3>1. \A s \in SUBSET (1..k+1) : g[s] = FoldStep(g, lines, s)
      BY <2>2, <2>3
    <3>2. g = [s \in SUBSET (1..k+1) |-> g[s]]
      OBVIOUS
    <3> HIDE DEF g
    <3> QED BY <3>1, <3>2, Zenon
  <2> QED BY <2>4
<1> HIDE DEF S
<1>3. Nat \subseteq S
  BY <1>1, <1>2, SetInduction
<1> QED BY <1>3 DEF S

\* parseTOML reads one line after the other: read[k] is what it has after k.
Reads(read, lines) ==
    /\ read[0] = NothingRead
    /\ \A k \in 1..Len(lines) : read[k] = ParseLine(read[k-1], lines[k])
    /\ ParseTOML(lines) = read[Len(lines)]

LEMMA ParsesLineByLine ==
    ASSUME NEW lines \in Seq(Lines)
    PROVE  \E read : Reads(read, lines)
<1> DEFINE n == Len(lines)
           it == CHOOSE f : IsFold(f, lines, n)
           read == [k \in 0..n |-> it[1..k]]
<1>1. n \in Nat /\ DOMAIN lines = 1..n
  OBVIOUS
<1>2. IsFold(it, lines, n)
  BY <1>1, FoldExists, Zenon
<1>3. ParseTOML(lines) = it[1..n]
  BY <1>1, Zenon DEF ParseTOML, FoldLeft, MapThenFoldSet, IsFold, FoldStep
<1> HIDE DEF n, it
<1>4. ASSUME NEW k \in 0..n PROVE it[1..k] = FoldStep(it, lines, 1..k)
  BY <1>1, <1>2 DEF IsFold
<1>5. read[0] = NothingRead
  <2>1. 1..0 = {} /\ 0 \in 0..n
    BY <1>1
  <2> QED BY <1>4, <2>1 DEF FoldStep
<1>6. ASSUME NEW k \in 1..n PROVE read[k] = ParseLine(read[k-1], lines[k])
  <2>1. Max(1..k) = k
    BY <1>1, MaxIsLast
  <2>2. k-1 \in 0..n /\ k \in 0..n /\ k \in 1..k
    BY <1>1
  <2>3. (1..k) \ {k} = 1..(k-1)
    BY <1>1
  <2>4. it[1..k] = ParseLine(it[1..(k-1)], lines[k])
    <3>1. 1..k # {}
      BY <2>2
    <3> QED BY <1>4, <2>1, <2>2, <2>3, <3>1, Zenon DEF FoldStep
  <2> QED BY <2>2, <2>4
<1>7. ParseTOML(lines) = read[n]
  BY <1>1, <1>3
<1> QED BY <1>5, <1>6, <1>7 DEF Reads, n
-----------------------------------------------------------------------------
\* What is in force after the first k lines: the section of the last header and
\* for every key the value of the last line that gives it.
GivesBy(k, key) == Gives(key[1], key[2]) \cap 1..k
LastValue(k, key, v) ==
    \/ GivesBy(k, key) = {} /\ v = None
    \/ \E i \in GivesBy(k, key) : v = file[i].value /\ \A j \in GivesBy(k, key) : j <= i
Sections == {"ieee", "store"}
ReadSoFar(r, k) ==
    /\ \A sec \in Sections : r.section = sec <=> InSection(k, sec)
    /\ DOMAIN r.values = Keys
    /\ \A key \in Keys : LastValue(k, key, r.values[key])
    /\ r = [section |-> r.section, values |-> r.values, ok |-> r.ok]

LEMMA KeysFacts == \A key \in Keys : key = <<key[1], key[2]>> /\ key[1] \in Sections
BY DEF Keys, Sections

LEMMA NothingReadSoFar ==
    ASSUME file \in Seq(Lines)
    PROVE  ReadSoFar(NothingRead, 0)
<1>1. 1..0 = {}
  OBVIOUS
<1>2. \A sec \in Sections : NothingRead.section # sec /\ ~InSection(0, sec)
  BY <1>1 DEF InSection, NothingRead, Sections
<1>3. \A key \in Keys : LastValue(0, key, NothingRead.values[key])
  BY <1>1 DEF LastValue, GivesBy, NothingRead
<1> QED BY <1>2, <1>3 DEF ReadSoFar, NothingRead

\* A header begins its section; no other line changes the section it is in.
LEMMA SectionAfter ==
    ASSUME NEW k \in Nat, NEW sec
    PROVE  InSection(k+1, sec) <=> IF file[k+1].kind = "header" THEN file[k+1].name = sec
                                   ELSE InSection(k, sec)
<1>1. CASE file[k+1].kind = "header"
  <2>1. ASSUME file[k+1].name = sec PROVE InSection(k+1, sec)
    BY <1>1, <2>1 DEF InSection
  <2>2. ASSUME InSection(k+1, sec) PROVE file[k+1].name = sec
    <3>1. PICK h \in 1..k+1 : /\ file[h].kind = "header" /\ file[h].name = sec
                              /\ \A i \in h+1..k+1 : file[i].kind # "header"
      BY <2>2 DEF InSection
    <3>2. h = k+1
      BY <1>1, <3>1
    <3> QED BY <3>1, <3>2
  <2> QED BY <1>1, <2>1, <2>2
<1>2. CASE file[k+1].kind # "header"
  <2>1. ASSUME InSection(k, sec) PROVE InSection(k+1, sec)
    <3>1. PICK h \in 1..k : /\ file[h].kind = "header" /\ file[h].name = sec
                            /\ \A i \in h+1..k : file[i].kind # "header"
      BY <2>1 DEF InSection
    <3>2. \A i \in h+1..k+1 : i \in h+1..k \/ i = k+1
      OBVIOUS
    <3> QED BY <1>2, <3>1, <3>2 DEF InSection
  <2>2. ASSUME InSection(k+1, sec) PROVE InSection(k, sec)
    <3>1. PICK h \in 1..k+1 : /\ file[h].kind = "header" /\ file[h].name = sec
                              /\ \A i \in h+1..k+1 : file[i].kind # "header"
      BY <2>2 DEF InSection
    <3>2. h \in 1..k
      BY <1>2, <3>1
    <3> QED BY <3>1, <3>2 DEF InSection
  <2> QED BY <1>2, <2>1, <2>2
<1> QED BY <1>1, <1>2

\* Only the line that gives a key changes who gave it last.
LEMMA GivesAfter ==
    ASSUME file \in Seq(Lines), NEW k \in 0..Len(file)-1, NEW key \in Keys
    PROVE  GivesBy(k+1, key) =
              IF file[k+1].kind = "set" /\ file[k+1].name = key[2] /\ InSection(k, key[1])
              THEN GivesBy(k, key) \cup {k+1} ELSE GivesBy(k, key)
<1>1. k \in Nat /\ k+1 \in DOMAIN file /\ 1..k+1 = (1..k) \cup {k+1}
  OBVIOUS
<1>2. k+1 \in Gives(key[1], key[2]) <=>
        file[k+1].kind = "set" /\ file[k+1].name = key[2] /\ InSection(k, key[1])
  BY <1>1, SectionAfter DEF Gives
<1> QED BY <1>1, <1>2 DEF GivesBy

\* One line more.
LEMMA ReadOneMore ==
    ASSUME file \in Seq(Lines), NEW k \in 0..Len(file)-1, NEW r, ReadSoFar(r, k)
    PROVE  ReadSoFar(ParseLine(r, file[k+1]), k+1)
<1> DEFINE line == file[k+1]
           q == ParseLine(r, line)
           here == <<r.section, line.name>>
<1>0. k \in Nat
  OBVIOUS
<1>a. r = [section |-> r.section, values |-> r.values, ok |-> r.ok] /\ DOMAIN r.values = Keys
  BY DEF ReadSoFar
<1>b. \A sec \in Sections : r.section = sec <=> InSection(k, sec)
  BY DEF ReadSoFar
<1>c. \A key \in Keys : LastValue(k, key, r.values[key])
  BY DEF ReadSoFar
<1>d. \A key \in Keys : key = here <=> key[2] = line.name /\ InSection(k, key[1])
  BY <1>b, KeysFacts
<1>1. CASE line.kind = "header"
  <2>1. q = [section |-> line.name, values |-> r.values, ok |-> r.ok]
    BY <1>1, <1>a DEF ParseLine
  <2>2. \A sec \in Sections : q.section = sec <=> InSection(k+1, sec)
    <3>1. \A sec \in Sections : InSection(k+1, sec) <=> line.name = sec
      BY <1>0, <1>1, SectionAfter, Zenon
    <3>2. q.section = line.name
      BY <2>1
    <3> HIDE DEF q
    <3> QED BY <3>1, <3>2
  <2>3. \A key \in Keys : GivesBy(k+1, key) = GivesBy(k, key)
    BY <1>1, GivesAfter
  <2> QED BY <1>a, <1>c, <2>1, <2>2, <2>3 DEF ReadSoFar, LastValue
<1>2. CASE line.kind = "set" /\ here \in Keys
  <2>1. q = [section |-> r.section, values |-> [r.values EXCEPT ![here] = line.value],
             ok |-> r.ok]
    BY <1>2, <1>a DEF ParseLine
  <2>2. \A sec \in Sections : q.section = sec <=> InSection(k+1, sec)
    BY <1>0, <1>2, <1>b, <2>1, SectionAfter
  <2>3. ASSUME NEW key \in Keys, key # here PROVE LastValue(k+1, key, q.values[key])
    <3>1. GivesBy(k+1, key) = GivesBy(k, key)
      BY <1>d, <2>3, GivesAfter
    <3>2. q.values[key] = r.values[key]
      BY <1>a, <2>1, <2>3
    <3> QED BY <1>c, <3>1, <3>2 DEF LastValue
  <2>4. LastValue(k+1, here, q.values[here])
    <3>1. GivesBy(k+1, here) = GivesBy(k, here) \cup {k+1}
      BY <1>2, <1>d, GivesAfter
    <3>2. q.values[here] = line.value
      BY <1>2, <1>a, <2>1
    <3>3. \A j \in GivesBy(k+1, here) : j <= k+1
      BY DEF GivesBy
    <3> QED BY <3>1, <3>2, <3>3 DEF LastValue
  <2>5. q = [section |-> q.section, values |-> q.values, ok |-> q.ok] /\ DOMAIN q.values = Keys
    BY <1>a, <2>1
  <2> HIDE DEF q, here
  <2>6. \A key \in Keys : LastValue(k+1, key, q.values[key])
    BY <2>3, <2>4
  <2>7. ReadSoFar(q, k+1)
    BY <2>2, <2>5, <2>6 DEF ReadSoFar
  <2> QED BY <2>7 DEF q
<1>3. CASE line.kind # "header" /\ ~(line.kind = "set" /\ here \in Keys)
  <2>1. q = [section |-> r.section, values |-> r.values, ok |-> q.ok]
    BY <1>3, <1>a DEF ParseLine
  <2>2. \A sec \in Sections : q.section = sec <=> InSection(k+1, sec)
    BY <1>0, <1>3, <1>b, <2>1, SectionAfter
  <2>3. \A key \in Keys : GivesBy(k+1, key) = GivesBy(k, key)
    BY <1>3, <1>d, GivesAfter
  <2> QED BY <1>a, <1>c, <2>1, <2>2, <2>3 DEF ReadSoFar, LastValue
<1> QED BY <1>1, <1>2, <1>3

\* What parseTOML gets from a file is what the documentation says of its lines.
LEMMA ParsedIsInFile ==
    ASSUME file \in Seq(Lines), NEW key \in Keys
    PROVE  ParseTOML(file).values[key] = InFile(key[1], key[2])
<1> DEFINE n == Len(file)
<1>0. n \in Nat /\ DOMAIN file = 1..n
  OBVIOUS
<1>1. PICK read : Reads(read, file)
  BY ParsesLineByLine
<1> DEFINE S == {k \in Nat : k <= n => ReadSoFar(read[k], k)}
<1>2. 0 \in S
  BY <1>1, NothingReadSoFar DEF Reads
<1>3. ASSUME NEW k \in Nat, k \in S PROVE k+1 \in S
  <2>1. SUFFICES ASSUME k+1 <= n PROVE ReadSoFar(read[k+1], k+1)
    OBVIOUS
  <2>2. ReadSoFar(read[k], k) /\ k \in 0..n-1 /\ k+1 \in 1..n /\ (k+1)-1 = k
    BY <1>0, <1>3, <2>1
  <2>3. read[k+1] = ParseLine(read[k], file[k+1])
    BY <1>1, <2>2 DEF Reads
  <2> QED BY <2>2, <2>3, ReadOneMore
<1> HIDE DEF S
<1>4. n \in S
  BY <1>0, <1>2, <1>3, SetInduction
<1>5. ReadSoFar(ParseTOML(file), n)
  BY <1>0, <1>1, <1>4 DEF S, Reads
<1>6. GivesBy(n, key) = Gives(key[1], key[2])
  BY <1>0 DEF GivesBy, Gives
<1>7. LastValue(n, key, ParseTOML(file).values[key])
  BY <1>5 DEF ReadSoFar
<1> HIDE DEF n
<1>8. CASE Gives(key[1], key[2]) = {}
  BY <1>6, <1>7, <1>8 DEF LastValue, InFile
<1>9. CASE Gives(key[1], key[2]) # {}
  <2> DEFINE g == Gives(key[1], key[2])
  <2>1. PICK i \in g : /\ ParseTOML(file).values[key] = file[i].value
                       /\ \A j \in g : j <= i
    BY <1>6, <1>7, <1>9 DEF LastValue
  <2>2. g \subseteq Nat
    BY <1>0 DEF Gives
  <2> HIDE DEF g
  <2>3. \A m \in g : (\A j \in g : j <= m) => m = i
    BY <2>1, <2>2
  <2>4. (CHOOSE m \in g : \A j \in g : j <= m) = i
    BY <2>1, <2>3, Zenon
  <2> QED BY <1>9, <2>1, <2>4 DEF InFile, g
<1> QED BY <1>8, <1>9
-----------------------------------------------------------------------------
\* A number that is not refused is an integer up to the ceiling.
LEMMA NotRefused ==
    ASSUME NEW m, ~Refused(m)
    PROVE  m \in 0..MaxTTL
BY TTLAssumption, NumberAssumption DEF Refused, AtLeast, AtMost, Number

\* A command that starts has a threshold between the floor and the ceiling.
LEMMA LoadInRange ==
    ASSUME NEW f \in Flags, ~LoadFails(f)
    PROVE  Load(f).ttl \in MinTTL..MaxTTL
<1> DEFINE t == FileLayer.ttl
           a == IF t = None THEN DefaultTTL ELSE t
           b == IF env.ttl = None THEN a ELSE env.ttl
<1>1. t = None \/ t \in 0..MaxTTL
  BY NotRefused DEF LoadFails
<1>2. env.ttl = None \/ env.ttl \in 0..MaxTTL
  BY NotRefused DEF LoadFails
<1>3. b \in 0..MaxTTL
  BY <1>1, <1>2, TTLAssumption
<1>4. Over(Over(Over(Default, FileLayer), env), f).ttl = b
  BY FlagsAssumption DEF Over, Default
<1>5. Load(f).ttl = Floored(b)
  BY <1>4 DEF Load, Over
<1> QED BY <1>3, <1>5, TTLAssumption DEF Floored, Number

\* The first of three values that is set, the last one being so; and of four.
LEMMA FirstOfThree ==
    ASSUME NEW a, NEW b, NEW c, c # None
    PROVE  First(<<a, b, c>>) = IF a # None THEN a ELSE IF b # None THEN b ELSE c
<1> DEFINE s == <<a, b, c>>
           Is(i) == s[i] # None /\ \A j \in 1..i-1 : s[j] = None
           i == IF a # None THEN 1 ELSE IF b # None THEN 2 ELSE 3
<1>1. DOMAIN s = {1, 2, 3} /\ s[1] = a /\ s[2] = b /\ s[3] = c
  OBVIOUS
<1>2. Is(i)
  <2>1. CASE a # None
    BY <2>1
  <2>2. CASE a = None /\ b # None
    BY <2>2
  <2>3. CASE a = None /\ b = None
    BY <2>3
  <2> QED BY <2>1, <2>2, <2>3
<1>3. ASSUME NEW m \in DOMAIN s, Is(m) PROVE m = i
  BY <1>1, <1>2, <1>3
<1>4. First(s) = s[CHOOSE k \in DOMAIN s : Is(k)]
  BY DEF First
<1> HIDE DEF s, Is
<1>5. (CHOOSE k \in DOMAIN s : Is(k)) = i
  BY <1>1, <1>2, <1>3
<1> QED BY <1>1, <1>4, <1>5 DEF s

LEMMA FirstOfFour ==
    ASSUME NEW a, NEW b, NEW c, NEW d, d # None
    PROVE  First(<<a, b, c, d>>) = IF a # None THEN a ELSE IF b # None THEN b
                                     ELSE IF c # None THEN c ELSE d
<1> DEFINE s == <<a, b, c, d>>
           Is(i) == s[i] # None /\ \A j \in 1..i-1 : s[j] = None
           i == IF a # None THEN 1 ELSE IF b # None THEN 2
                ELSE IF c # None THEN 3 ELSE 4
<1>1. DOMAIN s = {1, 2, 3, 4} /\ s[1] = a /\ s[2] = b /\ s[3] = c /\ s[4] = d
  OBVIOUS
<1>2. Is(i)
  <2>1. CASE a # None
    BY <2>1
  <2>2. CASE a = None /\ b # None
    BY <2>2
  <2>3. CASE a = None /\ b = None /\ c # None
    BY <2>3
  <2>4. CASE a = None /\ b = None /\ c = None
    BY <2>4
  <2> QED BY <2>1, <2>2, <2>3, <2>4
<1>3. ASSUME NEW m \in DOMAIN s, Is(m) PROVE m = i
  BY <1>1, <1>2, <1>3
<1>4. First(s) = s[CHOOSE k \in DOMAIN s : Is(k)]
  BY DEF First
<1> HIDE DEF s, Is
<1>5. (CHOOSE k \in DOMAIN s : Is(k)) = i
  BY <1>1, <1>2, <1>3
<1> QED BY <1>1, <1>4, <1>5 DEF s

\* The layer of the file, as the documentation has it.
LEMMA FileLayerIs ==
    ASSUME file \in Seq(Lines)
    PROVE  FileLayer = [url |-> InFile("ieee", "base_url"), store |-> InFile("store", "path"),
                        ttl |-> InFile("ieee", "ttl_minutes"),
                        auto |-> InFile("ieee", "auto_update")]
<1>1. \A key \in Keys : ParseTOML(file).values[key] = InFile(key[1], key[2])
  BY ParsedIsInFile
<1> QED BY <1>1 DEF FileLayer, Keys

\* The settings of a command that starts, by layers.
Given == First(<<env.ttl, InFile("ieee", "ttl_minutes"), DefaultTTL>>)
Layered(f) ==
    [url   |-> First(<<f.url, env.url, InFile("ieee", "base_url"), DefaultURL>>),
     store |-> First(<<Path(f.store), Path(env.store),
                       Path(InFile("store", "path")), DefaultStore>>),
     ttl   |-> IF Given < MinTTL THEN MinTTL ELSE Given,
     auto  |-> First(<<Answers(env.auto), Answers(InFile("ieee", "auto_update")),
                       "yes">>) = "yes"]

LEMMA LoadIs ==
    ASSUME file \in Seq(Lines), NEW f \in Flags, ~LoadFails(f)
    PROVE  Load(f) = Layered(f)
<1> DEFINE u == InFile("ieee", "base_url")
           p == InFile("store", "path")
           m == InFile("ieee", "ttl_minutes")
           a == InFile("ieee", "auto_update")
           c == Over(Over(Over(Default, FileLayer), env), f)
<1> HIDE DEF u, p, m, a
<1>1. FileLayer = [url |-> u, store |-> p, ttl |-> m, auto |-> a]
  BY FileLayerIs DEF u, p, m, a
<1>2. f.ttl = None /\ f.auto = None
  BY FlagsAssumption
<1>3. Load(f) = [url |-> c.url, store |-> c.store, ttl |-> Floored(c.ttl), auto |-> c.auto]
  BY DEF Load, Over
<1>4. c.url = First(<<f.url, env.url, u, DefaultURL>>)
  <2>1. c.url = IF f.url # None THEN f.url ELSE IF env.url # None THEN env.url
                ELSE IF u # None THEN u ELSE DefaultURL
    BY <1>1 DEF Over, Default
  <2> QED BY <2>1, FirstOfFour, SettingsAssumption
<1>5. c.store = First(<<Path(f.store), Path(env.store), Path(p), DefaultStore>>)
  <2>1. \A x : Path(x) # None <=> x # None
    BY SettingsAssumption DEF Path, ExpandHome
  <2>2. c.store = IF f.store # None THEN Path(f.store)
                  ELSE IF env.store # None THEN Path(env.store)
                  ELSE IF p # None THEN Path(p) ELSE DefaultStore
    BY <1>1 DEF Over, Default, Path
  <2> QED BY <2>1, <2>2, FirstOfFour, SettingsAssumption
<1>6. DefaultTTL # None /\ c.ttl = First(<<env.ttl, m, DefaultTTL>>)
  <2>1. c.ttl = IF env.ttl # None THEN env.ttl ELSE IF m # None THEN m ELSE DefaultTTL
    BY <1>1, <1>2 DEF Over, Default
  <2> QED BY <2>1, FirstOfThree, TTLAssumption
<1>7. Floored(c.ttl) = IF c.ttl < MinTTL THEN MinTTL ELSE c.ttl
  <2>1. m = None \/ m \in 0..MaxTTL
    BY <1>1, NotRefused DEF LoadFails
  <2>2. env.ttl = None \/ env.ttl \in 0..MaxTTL
    BY NotRefused DEF LoadFails
  <2>3. c.ttl \in Int
    BY <1>6, <2>1, <2>2, FirstOfThree, TTLAssumption
  <2> QED BY <2>3, TTLAssumption DEF Floored, Number
<1>8. c.auto = (First(<<Answers(env.auto), Answers(a), "yes">>) = "yes")
  <2>1. c.auto = IF Decides(env.auto) THEN env.auto = "yes"
                 ELSE IF Decides(a) THEN a = "yes" ELSE TRUE
    BY <1>1, <1>2, SettingsAssumption DEF Over, Default, Decides
  <2>2. First(<<Answers(env.auto), Answers(a), "yes">>) =
           IF Decides(env.auto) THEN env.auto ELSE IF Decides(a) THEN a ELSE "yes"
    BY FirstOfThree, SettingsAssumption DEF Answers, Decides
  <2> QED BY <2>1, <2>2
<1> HIDE DEF c
<1> QED BY <1>3, <1>4, <1>5, <1>6, <1>7, <1>8 DEF Layered, Given, u, p, m, a

\* What the threshold of a refetch and the age it is compared with are.
CfgInv == /\ TTLInRange
          /\ age \in [Stores -> 0..Old \cup {None}]

LEMMA CfgInvInit == Init => CfgInv
BY TTLAssumption DEF Init, CfgInv, TTLInRange, Old

LEMMA CfgInvStep == CfgInv /\ [Next]_vars => CfgInv'
<1> SUFFICES ASSUME CfgInv, [Next]_vars PROVE CfgInv'
  OBVIOUS
<1> USE TTLAssumption DEF CfgInv, TTLInRange, Old
<1>0. [age EXCEPT ![cfg.store] = 0] \in [Stores -> 0..Old \cup {None}]
  <2>1. 0 \in 0..Old
    OBVIOUS
  <2> QED BY <2>1
<1>1. ASSUME NEW l \in Lines, AppendLine(l) PROVE CfgInv'
  BY <1>1 DEF AppendLine
<1>2. ASSUME NEW f, Replace(f) PROVE CfgInv'
  BY <1>2 DEF Replace
<1>3. ASSUME NEW e \in Envs, Export(e) PROVE CfgInv'
  BY <1>3 DEF Export
<1>4. CASE Tick
  <2>1. ASSUME NEW p \in Stores, age[p] \notin {None, Old}
        PROVE  age[p] + 1 \in 0..Old
    <3>1. age[p] \in 0..MaxTTL
      BY <2>1
    <3> QED BY <3>1
  <2>2. age' \in [Stores -> 0..Old \cup {None}]
    BY <1>4, <2>1 DEF Tick
  <2> QED BY <1>4, <2>2 DEF Tick
<1>5. ASSUME NEW f \in Flags, Start(f) PROVE CfgInv'
  <2>1. Load(f).ttl \in MinTTL..MaxTTL
    BY <1>5, LoadInRange DEF Start
  <2>2. cfg' = Load(f) /\ age' = age
    BY <1>5 DEF Start
  <2> QED BY <2>1, <2>2
<1>6. CASE Answer
  BY <1>6 DEF Answer, End
<1>7. ASSUME NEW ok \in BOOLEAN, Refetch(ok) PROVE CfgInv'
  BY <1>0, <1>7 DEF Refetch, End
<1>8. ASSUME NEW ok \in BOOLEAN, Update(ok) PROVE CfgInv'
  BY <1>0, <1>8 DEF Update, End
<1>9. CASE UNCHANGED vars
  BY <1>9 DEF vars
<1> QED BY <1>1, <1>2, <1>3, <1>4, <1>5, <1>6, <1>7, <1>8, <1>9 DEF Next

\* No text of the file or of the environment gives a threshold out of range
\* (parseTTLMinutes, Load).
THEOREM ConfigTTLInRange == Spec => []TTLInRange
<1>1. CfgInv => TTLInRange
  BY DEF CfgInv
<1> QED BY CfgInvInit, CfgInvStep, <1>1, PTL DEF Spec

\* A refetch that replaces a store finds it older than the floor.
LEMMA FetchStep ==
    ASSUME CfgInv, [Next]_vars, NEW p \in Stores, flags # None, flags.command = "lookup",
           age[p] # None, age'[p] # age[p]
    PROVE  age[p] > MinTTL
<1> USE TTLAssumption DEF CfgInv, TTLInRange, Old
<1>1. ASSUME NEW ok \in BOOLEAN, Refetch(ok) PROVE age[p] > MinTTL
  <2>1. p = cfg.store
    BY <1>1 DEF Refetch
  <2>2. ~(age[p] <= cfg.ttl)
    BY <1>1, <2>1 DEF Refetch, Fresh
  <2>3. cfg.ttl \in MinTTL..MaxTTL /\ age[p] \in 0..MaxTTL+1
    BY <1>1 DEF Refetch
  <2> QED BY <2>2, <2>3
<1>2. ASSUME NEW ok \in BOOLEAN, Update(ok) PROVE FALSE
  BY <1>2 DEF Update
<1>3. ~Tick /\ ~UNCHANGED vars
  BY DEF Tick, vars
<1> QED BY <1>1, <1>2 DEF Next, AppendLine, Replace, Export, Tick, Start, Answer, vars

\* Two refetches of one store are further apart than the floor, whatever the
\* configuration becomes between them (EnsureFresh).
THEOREM ConfigFetchesSpaced == Spec => FetchesSpaced
<1>1. CfgInv /\ [Next]_vars =>
        [\A p \in Stores : /\ flags # None /\ flags.command = "lookup"
                           /\ age[p] # None /\ age'[p] # age[p]
                           => age[p] > MinTTL]_vars
  BY FetchStep
<1> QED BY CfgInvInit, CfgInvStep, <1>1, PTL DEF Spec, FetchesSpaced
-----------------------------------------------------------------------------
\* What a file gives a key, it gives in one of its lines.
LEMMA InFileValue ==
    ASSUME file \in Seq(Lines), NEW sec, NEW key
    PROVE  \/ InFile(sec, key) = None
           \/ \E l \in Lines : l.kind = "set" /\ l.name = key /\ InFile(sec, key) = l.value
<1> DEFINE g == Gives(sec, key)
           last == CHOOSE i \in g : \A j \in g : j <= i
<1>1. CASE g = {}
  BY <1>1 DEF InFile
<1>2. CASE g # {}
  <2> DEFINE n == Len(file)
  <2>1. n \in Nat /\ DOMAIN file = 1..n /\ g \subseteq 1..n
    BY DEF Gives
  <2> HIDE DEF g, n
  <2>2. \E i \in g : \A j \in g : j <= i
    <3> DEFINE T == {n - i : i \in g}
    <3>1. \A i \in g : n - i \in Nat
      BY <2>1
    <3>2. T \subseteq Nat /\ T # {}
      BY <1>2, <3>1
    <3>3. PICK x \in T : \A y \in T : ~(y < x)
      BY <3>2, LeastElement, Zenon
    <3>4. PICK i \in g : x = n - i
      BY <3>3
    <3>5. ASSUME NEW j \in g PROVE j <= i
      <4>1. ~(n - j < n - i)
        BY <3>3, <3>4
      <4>2. i \in 1..n /\ j \in 1..n
        BY <2>1
      <4> QED BY <2>1, <4>1, <4>2
    <3> QED BY <3>5
  <2>3. last \in g
    BY <2>2, Zenon
  <2> HIDE DEF last
  <2>4. last \in DOMAIN file /\ file[last] \in Lines
    <3>1. last \in DOMAIN file
      BY <2>1, <2>3
    <3> QED BY <3>1
  <2>5. InFile(sec, key) = file[last].value
    BY <1>2 DEF InFile, g, last
  <2>6. file[last].kind = "set" /\ file[last].name = key
    BY <2>3 DEF g, Gives
  <2> QED BY <2>4, <2>5, <2>6
<1> QED BY <1>1, <1>2

\* A command that starts has settings of the right kinds.
LEMMA LoadTyped ==
    ASSUME file \in Seq(Lines), env \in Envs, NEW f \in Flags, ~LoadFails(f)
    PROVE  Load(f) \in Settings
<1> DEFINE u == InFile("ieee", "base_url")
           p == InFile("store", "path")
<1> HIDE DEF u, p
<1>0. Load(f) = Layered(f)
  BY LoadIs, Zenon
<1>1. Load(f) = [url |-> Load(f).url, store |-> Load(f).store, ttl |-> Load(f).ttl,
                 auto |-> Load(f).auto]
  BY DEF Load, Over
<1>2. Load(f).url \in {DefaultURL} \cup Urls
  <2>1. Load(f).url = First(<<f.url, env.url, u, DefaultURL>>)
    BY <1>0 DEF Layered, u
  <2>2. u = None \/ u \in Urls
    BY InFileValue DEF Urls, u
  <2>3. f.url \in Urls /\ env.url \in Urls
    BY DEF Urls
  <2> QED BY <2>1, <2>2, <2>3, FirstOfFour, SettingsAssumption
<1>3. Load(f).store \in Stores
  <2>1. Load(f).store = First(<<Path(f.store), Path(env.store), Path(p), DefaultStore>>)
    BY <1>0 DEF Layered, p
  <2>2. p = None \/ p \in Paths
    BY InFileValue DEF Paths, p
  <2>3. f.store \in Paths /\ env.store \in Paths
    BY DEF Paths
  <2>4. \A x \in Paths \cup {None} : Path(x) = None \/ Path(x) \in Stores
    BY DEF Path, ExpandHome, Stores
  <2>5. DefaultStore \in Stores
    BY DEF Stores
  <2> HIDE DEF Stores
  <2> QED BY <2>1, <2>2, <2>3, <2>4, <2>5, FirstOfFour, SettingsAssumption
<1>4. Load(f).ttl \in Nat
  BY LoadInRange, TTLAssumption
<1>5. Load(f).auto \in BOOLEAN
  <2>1. Load(f).auto \in {f.auto = "yes", env.auto = "yes", FileLayer.auto = "yes", TRUE}
    BY DEF Load, Over, Default
  <2> QED BY <2>1
<1> QED BY <1>1, <1>2, <1>3, <1>4, <1>5 DEF Settings

\* The type invariant but for the ages.
SettingsOK == /\ file = Unreadable \/ file \in Seq(Lines)
              /\ env \in Envs
              /\ flags = None \/ (cfg \in Settings /\ flags \in Flags)

LEMMA TypesInit == Init => TypeOK
<1> SUFFICES ASSUME Init PROVE TypeOK
  OBVIOUS
<1>1. file = Unreadable \/ file \in Seq(Lines)
  <2>1. \A l \in Lines : <<l>> \in Seq(Lines)
    OBVIOUS
  <2>2. file \in {<<>>, Unreadable} \/ \E l \in Lines : file = <<l>>
    BY DEF Init
  <2>3. <<>> \in Seq(Lines)
    OBVIOUS
  <2> QED BY <2>1, <2>2, <2>3
<1>2. age \in [Stores -> 0..Old \cup {None}]
  BY CfgInvInit DEF CfgInv
<1> QED BY <1>1, <1>2 DEF Init, TypeOK

LEMMA TypesStep == CfgInv /\ TypeOK /\ [Next]_vars => TypeOK'
<1> SUFFICES ASSUME CfgInv, TypeOK, [Next]_vars PROVE TypeOK'
  OBVIOUS
<1>0. SettingsOK
  BY DEF TypeOK, SettingsOK
<1>1. ASSUME NEW l \in Lines, AppendLine(l) PROVE SettingsOK'
  <2>1. Append(file, l) \in Seq(Lines)
    BY <1>0, <1>1 DEF SettingsOK, AppendLine
  <2> QED BY <1>0, <1>1, <2>1 DEF SettingsOK, AppendLine
<1>2. ASSUME NEW f \in {<<>>, Unreadable}, Replace(f) PROVE SettingsOK'
  <2>1. <<>> \in Seq(Lines)
    OBVIOUS
  <2> QED BY <1>0, <1>2, <2>1 DEF SettingsOK, Replace
<1>3. ASSUME NEW e \in Envs, Export(e) PROVE SettingsOK'
  BY <1>0, <1>3 DEF SettingsOK, Export
<1>4. ASSUME NEW f \in Flags, Start(f) PROVE SettingsOK'
  <2>1. file \in Seq(Lines)
    BY <1>0, <1>4 DEF SettingsOK, Start, LoadFails
  <2>2. Load(f) \in Settings
    BY <1>0, <1>4, <2>1, LoadTyped DEF SettingsOK, Start
  <2> QED BY <1>0, <1>4, <2>2 DEF SettingsOK, Start
<1>5. ASSUME UNCHANGED <<file, env>>, flags' = None \/ UNCHANGED <<flags, cfg>>
      PROVE  SettingsOK'
  BY <1>0, <1>5 DEF SettingsOK
<1>6. ASSUME Tick \/ Answer \/ (\E ok \in BOOLEAN : Refetch(ok) \/ Update(ok))
             \/ UNCHANGED vars
      PROVE  UNCHANGED <<file, env>> /\ (flags' = None \/ UNCHANGED <<flags, cfg>>)
  BY <1>6, Zenon DEF Tick, Answer, Refetch, Update, End, vars
<1>7. SettingsOK'
  BY <1>1, <1>2, <1>3, <1>4, <1>5, <1>6, Zenon DEF Next
<1>8. age' \in [Stores -> 0..Old \cup {None}]
  BY CfgInvStep DEF CfgInv
<1> QED BY <1>7, <1>8 DEF TypeOK, SettingsOK

\* The invariant of both theorems below.
LEMMA ConfigInvariant == Spec => [](CfgInv /\ TypeOK)
<1>1. Init => CfgInv /\ TypeOK
  BY CfgInvInit, TypesInit
<1>2. (CfgInv /\ TypeOK) /\ [Next]_vars => (CfgInv /\ TypeOK)'
  BY CfgInvStep, TypesStep
<1> QED BY <1>1, <1>2, PTL DEF Spec

\* Whatever lines are in the file, a command has a URL, a path, a number of
\* ticks and a yes or no to work with (Load).
THEOREM ConfigTypeCorrect == Spec => []TypeOK
BY ConfigInvariant, PTL

\* A command's settings are the layers it started with: only between two
\* commands does anything of them change.
CfgIsLayered == \A f \in Flags : flags = f => cfg = Layered(f)

LEMMA SameLayers ==
    ASSUME file' = file, env' = env, NEW f
    PROVE  Layered(f)' = Layered(f)
<1>1. ASSUME NEW sec, NEW key PROVE InFile(sec, key)' = InFile(sec, key)
  <2>1. \A i : InSection(i, sec)' <=> InSection(i, sec)
    BY Zenon DEF InSection
  <2>2. Gives(sec, key)' = Gives(sec, key)
    BY <2>1 DEF Gives
  <2> QED BY <2>2 DEF InFile
<1>2. Given' = Given
  BY <1>1, Zenon DEF Given
<1> QED BY <1>1, <1>2, Zenon DEF Layered

LEMMA LayeredStep == TypeOK /\ CfgIsLayered /\ [Next]_vars => CfgIsLayered'
<1> SUFFICES ASSUME TypeOK, CfgIsLayered, [Next]_vars, NEW f \in Flags, flags' = f
             PROVE  cfg' = Layered(f)'
  BY DEF CfgIsLayered
<1>1. CASE Start(f)
  <2>1. file \in Seq(Lines) /\ ~LoadFails(f)
    BY <1>1 DEF TypeOK, Start, LoadFails
  <2>2. Load(f) = Layered(f)
    BY <2>1, LoadIs, Zenon
  <2>3. file' = file /\ env' = env /\ cfg' = Load(f)
    BY <1>1, Zenon DEF Start
  <2>4. Layered(f)' = Layered(f)
    BY <2>3, SameLayers, Zenon
  <2> QED BY <2>2, <2>3, <2>4, Zenon
<1>2. CASE UNCHANGED vars
  <2>1. file' = file /\ env' = env /\ flags = f /\ cfg' = cfg
    BY <1>2 DEF vars
  <2>2. Layered(f)' = Layered(f)
    BY <2>1, SameLayers, Zenon
  <2> QED BY <2>1, <2>2, Zenon DEF CfgIsLayered
<1>3. ASSUME NEW g \in Flags, Start(g) PROVE g = f
  BY <1>3 DEF Start
<1>4. ASSUME Next, ~\E g \in Flags : Start(g) PROVE flags' = None
  BY <1>4 DEF Next, AppendLine, Replace, Export, Tick, Answer, Refetch, Update, End
<1> QED BY <1>1, <1>2, <1>3, <1>4, FlagsAssumption

\* For files of any length: the last line that gives a key under its section,
\* over it the environment, over that the flag (Load, parseTOML).
THEOREM ConfigPrecedence == Spec => []Precedence
<1>1. Init => CfgIsLayered
  BY FlagsAssumption DEF Init, CfgIsLayered
<1>2. TypeOK /\ CfgIsLayered => Precedence
  <2>1. TypeOK /\ CfgIsLayered => (flags # None => cfg = Layered(flags))
    BY DEF TypeOK, CfgIsLayered
  <2> QED BY <2>1 DEF Precedence, Layered, Given
<1> QED BY <1>1, <1>2, ConfigInvariant, LayeredStep, PTL DEF Spec
=============================================================================
