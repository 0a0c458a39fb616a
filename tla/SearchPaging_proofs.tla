------------------------- MODULE SearchPaging_proofs -------------------------
(***************************************************************************)
(* The page of any search, with any limit and offset an int holds, and     *)
(* what an overflow of their sum can do.                                   *)
(***************************************************************************)
EXTENDS SearchPaging, FiniteSetTheorems, SequenceTheorems, TLAPS

LEMMA ArgumentsAreInts ==
    ASSUME NEW l \in Ints \cup {Absent}
    PROVE  LimitOf(l) \in 0 .. MaxInt /\ OffsetOf(l) \in 0 .. MaxInt
BY IntsAssumption DEF LimitOf, OffsetOf, Ints

LEMMA StoreFacts ==
    ASSUME NEW s \in Stores
    PROVE  /\ s \in Seq(Nat) /\ Len(s) \in Nat /\ Len(s) + MaxCap <= MaxInt
           /\ Matched(s, 0) = s /\ \A l : Matched(s, l) = s
BY StoresAssumption DEF Matched, Search

\* A page that make can allocate never wraps before the last match.
LEMMA EndInRange ==
    ASSUME NEW n \in Nat, NEW limit \in 0 .. MaxCap, NEW offset \in 0 .. MaxInt,
           n + MaxCap <= MaxInt, offset < n
    PROVE  /\ End(n, limit, offset) \in offset .. n
           /\ End(n, limit, offset) = IF limit > 0 /\ offset + limit < n
                                      THEN offset + limit ELSE n
<1>1. /\ MaxInt \in Nat /\ MaxCap \in Nat
      /\ limit \in Nat /\ limit <= MaxCap /\ offset \in Nat
  BY IntsAssumption
<1>2. Wrap(offset + limit) = offset + limit
  BY <1>1 DEF Wrap
<1>. QED BY <1>1, <1>2 DEF End

\* One page, for any matches, limit and offset.
LEMMA PageFacts ==
    ASSUME NEW db \in Stores, NEW limit \in 0 .. MaxCap, NEW offset \in 0 .. MaxInt,
           NEW p, p = Page(db, limit, offset)
    PROVE  /\ Exact(p)
           /\ p.matches \in Seq(Nat)
           /\ p.has_more => p.offset + p.limit \in 0 .. MaxInt
<1> DEFINE n == Len(db)
           end == IF offset < n THEN End(n, limit, offset) ELSE offset
           on == {i \in DOMAIN db : offset < i /\ (limit = 0 \/ i <= offset + limit)}
<1>1. /\ MaxInt \in Nat /\ MaxCap \in Nat /\ limit \in Nat /\ offset \in Nat
      /\ limit <= MaxCap /\ offset <= MaxInt
  BY IntsAssumption
<1>2. db \in Seq(Nat) /\ n \in Nat /\ n + MaxCap <= MaxInt /\ Matched(db, limit) = db
      /\ DOMAIN db = 1 .. n
  BY StoreFacts
<1>3. /\ p.db = db /\ p.limit = limit /\ p.offset = offset /\ p.total = n
      /\ p.has_more = (end < n)
      /\ p.matches = IF offset < n THEN SubSeq(db, offset + 1, end) ELSE <<>>
  BY <1>2 DEF Page
<1>4. CASE offset < n
  <2>1. end \in offset .. n /\ end = IF limit > 0 /\ offset + limit < n THEN offset + limit ELSE n
    <3>1. end = End(n, limit, offset)
      BY <1>4
    <3>. HIDE DEF n, end
    <3>2. End(n, limit, offset) \in offset .. n
          /\ End(n, limit, offset) = IF limit > 0 /\ offset + limit < n
                                     THEN offset + limit ELSE n
      BY <1>2, <1>4, EndInRange
    <3>. QED BY <3>1, <3>2
  <2>. HIDE DEF end, n
  <2>9. end \in Nat /\ offset <= end /\ end <= n /\ end - offset \in Nat
    BY <1>1, <1>2, <2>1
  <2>2. on = (offset + 1) .. end
    BY <1>1, <1>2, <2>1
  <2>3. p.matches = SubSeq(db, offset + 1, end)
    BY <1>3, <1>4
  <2>4. /\ p.matches \in Seq(Nat) /\ DOMAIN p.matches = 1 .. end - offset
        /\ \A k \in 1 .. end - offset : p.matches[k] = db[offset + k]
    <3>1. offset + 1 \in Nat \ {0} /\ end - (offset + 1) + 1 = end - offset
      BY <1>1, <2>9
    <3>2. \A i \in (offset + 1) .. end : db[i] \in Nat
      BY <1>1, <1>2, <2>9
    <3>3. p.matches = [k \in 1 .. end - offset |-> db[offset + k]]
      BY <1>1, <1>2, <2>3, <2>9, <3>1
    <3>4. \A k \in 1 .. end - offset : offset + k \in (offset + 1) .. end
      BY <1>1, <2>9
    <3>. QED BY <2>9, <3>2, <3>3, <3>4
  <2>5. DOMAIN p.matches = {i - offset : i \in on}
    <3>1. \A k \in 1 .. end - offset : offset + k \in (offset + 1) .. end /\ k = (offset + k) - offset
      BY <1>1, <2>9
    <3>2. \A i \in (offset + 1) .. end : i - offset \in 1 .. end - offset
      BY <1>1, <2>9
    <3>. QED BY <2>2, <2>4, <3>1, <3>2
  <2>6. \A i \in on : p.matches[i - offset] = db[i]
    <3>1. TAKE i \in on
    <3>2. i - offset \in 1 .. end - offset /\ offset + (i - offset) = i
      BY <1>1, <2>1, <2>2
    <3>. QED BY <2>4, <3>2
  <2>7. (end < n) <=> \E i \in DOMAIN db : limit # 0 /\ i > offset + limit
    <3>1. CASE limit = 0
      BY <1>1, <1>2, <2>1, <3>1
    <3>2. CASE limit # 0 /\ offset + limit < n
      <4>1. n \in DOMAIN db /\ n > offset + limit
        BY <1>1, <1>2, <3>2
      <4>2. \E i \in DOMAIN db : limit # 0 /\ i > offset + limit
        BY <3>2, <4>1
      <4>3. end < n
        BY <1>1, <1>2, <2>1, <3>2
      <4>. QED BY <4>2, <4>3
    <3>3. CASE limit # 0 /\ ~(offset + limit < n)
      BY <1>1, <1>2, <2>1, <3>3
    <3>. QED BY <1>1, <1>2, <3>1, <3>2, <3>3
  <2>8. end < n => offset + limit \in 0 .. MaxInt
    BY <1>1, <1>2, <2>1
  <2>10. Exact(p)
    <3>1. /\ p.db = db /\ p.limit = limit /\ p.offset = offset /\ p.total = Len(p.db)
          /\ p.has_more <=> end < n
      BY <1>3 DEF n
    <3>. HIDE DEF on
    <3>2. on = {i \in DOMAIN p.db : p.offset < i /\ (p.limit = 0 \/ i <= p.offset + p.limit)}
      BY <3>1 DEF on
    <3>3. /\ DOMAIN p.matches = {i - p.offset : i \in on}
          /\ \A i \in on : p.matches[i - p.offset] = p.db[i]
      BY <2>5, <2>6, <3>1
    <3>4. p.has_more <=> \E i \in DOMAIN p.db : p.limit # 0 /\ i > p.offset + p.limit
      BY <2>7, <3>1
    <3>. QED BY <3>1, <3>2, <3>3, <3>4 DEF Exact
  <2>11. p.has_more => p.offset + p.limit \in 0 .. MaxInt
    BY <1>3, <2>8
  <2>. QED BY <2>4, <2>10, <2>11
<1>5. CASE ~(offset < n)
  <2>1. end = offset /\ p.matches = <<>>
    BY <1>3, <1>5
  <2>2. on = {} /\ ~(end < n)
    BY <1>1, <1>2, <1>5, <2>1
  <2>3. ~ \E i \in DOMAIN db : limit # 0 /\ i > offset + limit
    BY <1>1, <1>2, <1>5
  <2>4. DOMAIN p.matches = {i - offset : i \in on} /\ p.matches \in Seq(Nat)
    BY <2>1, <2>2
  <2>. QED BY <1>3, <2>2, <2>3, <2>4 DEF Exact
<1>. QED BY <1>4, <1>5
-----------------------------------------------------------------------------
LEMMA AnswerFacts ==
    ASSUME store \in Stores \cup {Absent},
           NEW l \in Ints \cup {Absent}, NEW o \in Ints \cup {Absent}, NEW empty,
           NEW r, r = Answer(l, o, empty)
    PROVE  /\ r.kind \in {"error", "crash", "page"}
           /\ r.kind = "page" => /\ r.db \in Stores
                                 /\ r.offset \in 0 .. MaxInt /\ r.limit \in 0 .. MaxCap
                                 /\ r.matches \in Seq(Nat)
                                 /\ r.has_more => r.offset + r.limit \in 0 .. MaxInt
                                 /\ Exact(r)
           /\ r.kind = "crash" => r.limit > MaxCap
<1> DEFINE limit == LimitOf(l)
           offset == OffsetOf(o)
<1>1. limit \in 0 .. MaxInt /\ offset \in 0 .. MaxInt
  BY ArgumentsAreInts
<1>. HIDE DEF limit, offset
<1>2. CASE empty \/ store = Absent
  BY <1>2 DEF Answer
<1>3. CASE ~(empty \/ store = Absent) /\ OutOfRange(Len(store), limit, offset)
  <2>1. r = [kind |-> "crash", limit |-> limit] /\ store \in Stores
    BY <1>3 DEF Answer, limit, offset
  <2>2. ~(limit <= MaxCap)
    <3>1. SUFFICES ASSUME limit <= MaxCap PROVE FALSE
      OBVIOUS
    <3>2. limit \in 0 .. MaxCap
      BY <1>1, <3>1, IntsAssumption
    <3>3. offset < Len(store) /\ End(Len(store), limit, offset) < offset
      BY <1>1, <1>3, <3>1, IntsAssumption DEF OutOfRange
    <3>4. End(Len(store), limit, offset) \in offset .. Len(store)
      BY <1>1, <2>1, <3>2, <3>3, StoreFacts, EndInRange
    <3>. QED BY <1>1, <3>3, <3>4
  <2>. QED BY <1>1, <2>1, <2>2, IntsAssumption
<1>4. CASE ~(empty \/ store = Absent) /\ ~OutOfRange(Len(store), limit, offset)
  <2>1. r = Page(store, limit, offset) /\ store \in Stores
    BY <1>4 DEF Answer, limit, offset
  <2>2. limit \in 0 .. MaxCap
    BY <1>1, <1>4, IntsAssumption DEF OutOfRange
  <2>3. r.kind = "page" /\ r.db = store /\ r.offset = offset /\ r.limit = limit
    BY <2>1 DEF Page
  <2>4. /\ Exact(r) /\ r.matches \in Seq(Nat)
        /\ r.has_more => r.offset + r.limit \in 0 .. MaxInt
    BY <1>1, <2>1, <2>2, PageFacts
  <2>. QED BY <1>1, <2>1, <2>2, <2>3, <2>4
<1>. QED BY <1>2, <1>3, <1>4

\* The inductive invariant: the properties need the offset a client arrives at
\* to be an int, and that needs the pages before it to be exact.
SInv == STypeOK /\ PageExact /\ OverflowHarmless

\* There is no page before the first call.
THEOREM SInitInv == SInit => SInv
BY DEF SInit, SInv, STypeOK, ReplyOK, WalkOK, PageExact, OverflowHarmless, NoReply, Idle

\* No call, walk or replacement of the store gives a page that is not exact or
\* an offset that is no int (toolSearchVendor).
THEOREM SNextInv == SInv /\ [SNext]_vars => SInv'
<1>. SUFFICES ASSUME SInv, [SNext]_vars PROVE SInv'
  OBVIOUS
<1>. USE DEF SInv, STypeOK
<1>1. ASSUME NEW s \in Stores, Replace(s) PROVE SInv'
  <2>1. WalkOK'
    BY <1>1 DEF Replace, WalkOK
  <2>. QED BY <1>1, <2>1 DEF Replace, ReplyOK, PageExact, OverflowHarmless
<1>2. ASSUME NEW l \in Limits, StartWalk(l) PROVE SInv'
  <2>1. WalkOK'
    <3>1. {store} \ {Absent} \in SUBSET Stores
      OBVIOUS
    <3>2. walk' = [phase |-> "asking", limit |-> l, offset |-> Absent, got |-> <<>>,
                   over |-> {store} \ {Absent}]
      BY <1>2 DEF StartWalk, Idle
    <3>. QED BY <3>1, <3>2 DEF WalkOK
  <2>. QED BY <1>2, <2>1 DEF StartWalk, NoReply, ReplyOK, PageExact, OverflowHarmless
<1>3. ASSUME NEW l \in Ints \cup {Absent}, NEW o \in Ints \cup {Absent}, NEW empty,
             reply' = Answer(l, o, empty)
      PROVE  /\ ReplyOK' /\ PageExact' /\ OverflowHarmless'
             /\ reply'.kind = "page" /\ reply'.has_more
                  => reply'.offset + reply'.limit \in 0 .. MaxInt
  BY <1>3, AnswerFacts DEF ReplyOK, PageExact, OverflowHarmless
<1>4. CASE NextPage
  <2>1. walk.limit \in Ints \cup {Absent} /\ walk.offset \in Ints \cup {Absent}
    <3>1. 0 .. MaxInt \subseteq Ints
      BY IntsAssumption DEF Ints
    <3>. QED BY <3>1, ArgumentsAssumption DEF WalkOK
  <2>2. /\ ReplyOK' /\ PageExact' /\ OverflowHarmless'
        /\ reply'.kind = "page" /\ reply'.has_more
             => reply'.offset + reply'.limit \in 0 .. MaxInt
    BY <1>3, <1>4, <2>1 DEF NextPage
  <2>3. WalkOK'
    <3>1. CASE reply'.kind # "page"
      BY <1>4, <3>1 DEF NextPage, WalkOK
    <3>2. CASE reply'.kind = "page"
      <4>1. walk.got \o reply'.matches \in Seq(Nat)
        BY <2>2, <3>2 DEF ReplyOK, WalkOK
      <4> DEFINE offset == IF reply'.has_more THEN reply'.offset + reply'.limit
                           ELSE walk.offset
                 phase == IF reply'.has_more THEN "asking" ELSE "done"
      <4>2. walk' = [walk EXCEPT !.got = walk.got \o reply'.matches,
                                 !.offset = offset, !.phase = phase]
        BY <1>4, <3>2 DEF NextPage
      <4>3. offset \in (0 .. MaxInt) \cup {Absent}
        BY <2>2, <3>2 DEF WalkOK
      <4>4. phase \in {"asking", "done"}
        OBVIOUS
      <4>. HIDE DEF offset, phase
      <4>. QED BY <4>1, <4>2, <4>3, <4>4 DEF WalkOK
    <3>. QED BY <3>1, <3>2
  <2>. QED BY <1>4, <2>2, <2>3 DEF NextPage
<1>5. CASE EndWalk
  BY <1>5 DEF EndWalk, Idle, ReplyOK, WalkOK, PageExact, OverflowHarmless
<1>6. ASSUME NEW l \in Limits, NEW o \in Offsets, NEW empty \in BOOLEAN, Call(l, o, empty)
      PROVE  SInv'
  <2>1. l \in Ints \cup {Absent} /\ o \in Ints \cup {Absent}
    BY ArgumentsAssumption
  <2>. QED BY <1>3, <1>6, <2>1 DEF Call, WalkOK
<1>7. ASSUME NEW l \in Limits, NEW empty \in BOOLEAN, SearchCommand(l, empty) PROVE SInv'
  BY <1>7 DEF SearchCommand, ReplyOK, WalkOK, PageExact, OverflowHarmless
<1>8. CASE UNCHANGED vars
  BY <1>8 DEF vars, ReplyOK, WalkOK, PageExact, OverflowHarmless
<1>. QED BY <1>1, <1>2, <1>4, <1>5, <1>6, <1>7, <1>8 DEF SNext

\* So every page is exact.
THEOREM SInvariant == SSpec => []SInv
BY SInitInv, SNextInv, PTL DEF SSpec

\* The type invariant: no client is led to an offset an int cannot hold.
THEOREM STypeCorrect == SSpec => []STypeOK
<1>1. SInv => STypeOK
  BY DEF SInv
<1>. QED BY <1>1, SInvariant, PTL

\* Whatever the ints asked for and however the store changes, every page holds
\* exactly its matches, and has_more and total are true of its store.
THEOREM PagesAreExact == SSpec => []PageExact
<1>1. SInv => PageExact
  BY DEF SInv
<1>. QED BY <1>1, SInvariant, PTL

\* Only a limit that make cannot allocate ends the server: no offset does, and
\* no sum of the two.
THEOREM NoOverflowCrash == SSpec => []OverflowHarmless
<1>1. SInv => OverflowHarmless
  BY DEF SInv
<1>. QED BY <1>1, SInvariant, PTL
-----------------------------------------------------------------------------
\* The command prints all its matches, or the first of them up to its limit.
LEMMA SearchFacts ==
    ASSUME NEW db \in Stores, NEW limit \in Ints
    PROVE  LET printed == Search(db, limit)
               told == Len(printed)
           IN /\ told \in Nat /\ Len(db) \in Nat /\ told <= Len(db)
              /\ \A i \in 1 .. told : printed[i] = db[i]
              /\ limit > 0 => told <= limit
              /\ told < Len(db) => told = limit /\ printed # <<>>
              /\ printed = <<>> <=> db = <<>>
<1>1. db \in Seq(Nat) /\ Len(db) \in Nat /\ limit \in Int
  BY StoreFacts, IntsAssumption DEF Ints
<1>2. CASE limit > 0 /\ limit < Len(db)
  <2>1. Search(db, limit) = SubSeq(db, 1, limit)
    BY <1>2 DEF Search
  <2>2. /\ Len(SubSeq(db, 1, limit)) = limit
        /\ \A i \in 1 .. limit : SubSeq(db, 1, limit)[i] = db[i]
    BY <1>1, <1>2
  <2>3. db # <<>> /\ SubSeq(db, 1, limit) # <<>>
    BY <1>1, <1>2, <2>2
  <2> DEFINE first == SubSeq(db, 1, limit)
  <2>4. /\ Len(first) \in Nat /\ Len(db) \in Nat /\ Len(first) <= Len(db)
        /\ \A i \in 1 .. Len(first) : first[i] = db[i]
        /\ Len(first) = limit /\ first # <<>> /\ db # <<>>
    BY <1>1, <1>2, <2>2, <2>3
  <2>. HIDE DEF first
  <2>5. Search(db, limit) = first
    BY <2>1 DEF first
  <2>6. limit > 0 => Len(first) <= limit
    BY <1>1, <2>4
  <2>. QED BY <2>4, <2>5, <2>6
<1>3. CASE ~(limit > 0 /\ limit < Len(db))
  <2>1. Search(db, limit) = db
    BY <1>3 DEF Search
  <2>. QED BY <1>1, <1>3, <2>1
<1>. QED BY <1>2, <1>3

\* Whatever limit the user gives, the list is the first matches, as many as the
\* limit allows, it comes with a notice exactly if one was left out, and the
\* exit code says whether anything matched.
THEOREM ListsTellTruncation == SSpec => []TruncationTold
<1>1. SInit => TruncationTold
  <2>1. SInit => reply.kind # "list"
    BY DEF SInit, NoReply
  <2>. QED BY <2>1 DEF TruncationTold
<1>2. STypeOK /\ TruncationTold /\ [SNext]_vars => TruncationTold'
  <2>. SUFFICES ASSUME STypeOK, TruncationTold, [SNext]_vars PROVE TruncationTold'
    OBVIOUS
  <2>1. ASSUME NEW l, NEW o, NEW empty, reply' = Answer(l, o, empty)
        PROVE  TruncationTold'
    <3>1. reply'.kind # "list"
      BY <2>1 DEF Answer, Page
    <3>. QED BY <3>1 DEF TruncationTold
  <2>2. ASSUME NEW l \in Limits, NEW empty \in BOOLEAN, SearchCommand(l, empty)
        PROVE  TruncationTold'
    <3>1. CASE reply' = [kind |-> "error"]
      <4>1. reply'.kind # "list"
        BY <3>1
      <4>. QED BY <4>1 DEF TruncationTold
    <3>2. CASE reply' # [kind |-> "error"]
      <4>1. store \in Stores /\ l \in Ints
        BY <2>2, <3>2, ArgumentsAssumption DEF SearchCommand, STypeOK
      <4> DEFINE printed == Search(store, l)
      <4>2. reply' = [kind |-> "list", db |-> store, limit |-> l, printed |-> printed,
                      notice |-> printed # <<>> /\ Notice(store, printed),
                      exit |-> IF printed = <<>> THEN 1 ELSE 0]
        BY <2>2, <3>2 DEF SearchCommand
      <4> DEFINE told == Len(printed)
      <4>3. /\ told \in Nat /\ Len(store) \in Nat /\ told <= Len(store)
            /\ \A i \in 1 .. told : printed[i] = store[i]
            /\ l > 0 => told <= l
            /\ told < Len(store) => told = l /\ printed # <<>>
            /\ printed = <<>> <=> store = <<>>
        BY <4>1, SearchFacts
      <4>. HIDE DEF printed
      <4>4. /\ reply'.printed = printed /\ reply'.db = store /\ reply'.limit = l
            /\ reply'.notice = (printed # <<>> /\ Len(store) > told)
            /\ reply'.exit = IF printed = <<>> THEN 1 ELSE 0
        BY <4>2 DEF Notice
      <4>5. reply'.exit = 1 <=> reply'.db = <<>>
        BY <4>3, <4>4
      <4>6. reply'.notice <=> Len(reply'.printed) < Len(reply'.db)
        BY <4>3, <4>4
      <4>7. \A i \in 1 .. Len(reply'.printed) :
                i <= Len(reply'.db) /\ reply'.printed[i] = reply'.db[i]
        BY <4>3, <4>4
      <4>8. /\ reply'.limit > 0 => Len(reply'.printed) <= reply'.limit
            /\ Len(reply'.printed) < Len(reply'.db) => Len(reply'.printed) = reply'.limit
        BY <4>3, <4>4
      <4>. QED BY <4>5, <4>6, <4>7, <4>8 DEF TruncationTold
    <3>. QED BY <3>1, <3>2
  <2>3. CASE reply' = reply
    BY <2>3 DEF TruncationTold
  <2>4. CASE reply' = NoReply
    <3>1. reply'.kind # "list"
      BY <2>4 DEF NoReply
    <3>. QED BY <3>1 DEF TruncationTold
  <2>5. CASE NextPage
    BY <2>1, <2>5 DEF NextPage
  <2>6. ASSUME NEW l \in Limits, NEW o \in Offsets, NEW empty \in BOOLEAN, Call(l, o, empty)
        PROVE  TruncationTold'
    BY <2>1, <2>6 DEF Call
  <2>7. CASE \/ \E s \in Stores : Replace(s)
             \/ \E l \in Limits : StartWalk(l)
             \/ EndWalk
             \/ UNCHANGED vars
    BY <2>3, <2>4, <2>7 DEF Replace, StartWalk, EndWalk, vars
  <2>. QED BY <2>2, <2>5, <2>6, <2>7 DEF SNext
<1>. QED BY <1>1, <1>2, STypeCorrect, PTL DEF SSpec
-----------------------------------------------------------------------------
Prefix(s, k) == [i \in 1 .. k |-> s[i]]

\* What a walk has got: the store is one of those it was over, and while there
\* was only one, the matches before the offset it has arrived at.
Walked == /\ IsFiniteSet(walk.over)
          /\ walk.phase = "asking" =>
                /\ store # Absent => store \in walk.over
                /\ \A s \in Stores : walk.over \subseteq {s} =>
                      /\ OffsetOf(walk.offset) <= Len(s)
                      /\ walk.got = Prefix(s, OffsetOf(walk.offset))
          /\ walk.phase = "done" => \A s \in Stores : walk.over = {s} => walk.got = s

\* A page appended to the matches before it.
LEMMA PageAppends ==
    ASSUME NEW s \in Stores, NEW limit \in 0 .. MaxCap, NEW k \in 0 .. MaxInt,
           k <= Len(s), NEW page, page = Page(s, limit, k)
    PROVE  /\ page.has_more => /\ k + limit <= Len(s)
                              /\ Prefix(s, k) \o page.matches = Prefix(s, k + limit)
           /\ ~page.has_more => Prefix(s, k) \o page.matches = s
<1>1. MaxCap \in Nat /\ k \in Nat /\ limit \in Nat
  BY IntsAssumption
<1>2. s \in Seq(Nat) /\ Len(s) \in Nat /\ DOMAIN s = 1 .. Len(s)
  BY StoreFacts
<1>3. Exact(page) /\ page.matches \in Seq(Nat)
  BY PageFacts
<1>4. page.db = s /\ page.limit = limit /\ page.offset = k
  BY DEF Page
<1> DEFINE e == IF page.has_more THEN k + limit ELSE Len(s)
           on == {i \in DOMAIN s : k < i /\ (limit = 0 \/ i <= k + limit)}
<1>5. /\ DOMAIN page.matches = {i - k : i \in on}
      /\ \A i \in on : page.matches[i - k] = s[i]
      /\ page.has_more <=> \E i \in DOMAIN s : limit # 0 /\ i > k + limit
  BY <1>3, <1>4 DEF Exact
<1>6. e \in Nat /\ k <= e /\ e <= Len(s)
  BY <1>1, <1>2, <1>5
<1>7. on = (k + 1) .. e
  BY <1>1, <1>2, <1>5
<1>. HIDE DEF e, on
<1>8. DOMAIN page.matches = 1 .. e - k
  <2>1. \A j \in 1 .. e - k : k + j \in (k + 1) .. e /\ j = (k + j) - k
    BY <1>1, <1>6
  <2>2. \A i \in (k + 1) .. e : i - k \in 1 .. e - k
    BY <1>1, <1>6
  <2>. QED BY <1>5, <1>7, <2>1, <2>2
<1>9. Len(page.matches) = e - k
  BY <1>1, <1>3, <1>6, <1>8
<1>10. \A j \in 1 .. e - k : page.matches[j] = s[k + j]
  <2>1. TAKE j \in 1 .. e - k
  <2>2. k + j \in on /\ (k + j) - k = j
    BY <1>1, <1>6, <1>7
  <2>. QED BY <1>5, <2>2
<1>11. Prefix(s, k) \in Seq(Nat) /\ Len(Prefix(s, k)) = k
  BY <1>1, <1>2 DEF Prefix
<1>12. Prefix(s, k) \o page.matches = Prefix(s, e)
  <2> DEFINE start == Prefix(s, k)
             rest == page.matches
             both == start \o rest
  <2>0. /\ both \in Seq(Nat) /\ Len(both) = Len(start) + Len(rest)
        /\ \A i \in 1 .. Len(start) + Len(rest) :
              both[i] = IF i <= Len(start) THEN start[i] ELSE rest[i - Len(start)]
    <3>. HIDE DEF start, rest, both
    <3>1. start \in Seq(Nat) /\ rest \in Seq(Nat)
      BY <1>3, <1>11 DEF start, rest
    <3>. QED BY <3>1, ConcatProperties DEF both
  <2>1. both \in Seq(Nat) /\ Len(both) = e
    BY <1>1, <1>6, <1>9, <1>11, <2>0
  <2>2. Prefix(s, e) \in Seq(Nat) /\ Len(Prefix(s, e)) = e
    BY <1>2, <1>6 DEF Prefix
  <2>3. \A i \in 1 .. e : both[i] = Prefix(s, e)[i]
    <3>1. SUFFICES ASSUME NEW i \in 1 .. e PROVE both[i] = s[i]
      BY <1>6 DEF Prefix
    <3>2. CASE i <= k
      BY <1>1, <1>3, <1>6, <1>11, <3>2 DEF Prefix
    <3>3. CASE i > k
      <4>1. i - k \in 1 .. e - k /\ k + (i - k) = i
        BY <1>1, <1>6, <3>3
      <4>2. both[i] = page.matches[i - k]
        <5>1. Len(start) = k /\ Len(rest) = e - k
          BY <1>9, <1>11
        <5>2. i \in 1 .. k + (e - k) /\ ~(i <= k)
          BY <1>1, <1>6, <3>3
        <5>. HIDE DEF start, both, rest
        <5>3. both[i] = rest[i - k]
          BY <2>0, <5>1, <5>2
        <5>. QED BY <5>3 DEF rest
      <4>. QED BY <1>10, <4>1, <4>2
    <3>4. i \in Int /\ k \in Int
      BY <1>1, <1>6
    <3>. HIDE DEF both
    <3>. QED BY <3>2, <3>3, <3>4
  <2>. HIDE DEF both
  <2> DEFINE whole == Prefix(s, e)
  <2>4. both \in Seq(Nat) /\ whole \in Seq(Nat) /\ Len(both) = Len(whole)
        /\ \A i \in 1 .. Len(both) : both[i] = whole[i]
    BY <2>1, <2>2, <2>3
  <2>. HIDE DEF whole
  <2>5. both = whole
    BY <2>4, SeqEqual
  <2>. QED BY <2>5 DEF both, whole
<1>13. Prefix(s, Len(s)) = s
  BY <1>2 DEF Prefix
<1>. QED BY <1>6, <1>12, <1>13 DEF e
LEMMA WalkedInit == SInit => Walked
BY FS_EmptySet DEF SInit, Idle, Walked

\* One answer continues what a walk over one store has got.
LEMMA NextPageWalks ==
    ASSUME STypeOK, Walked, NextPage, reply'.kind = "page",
           NEW s \in Stores, walk.over \subseteq {s}
    PROVE  /\ walk'.phase = "asking" => /\ OffsetOf(walk'.offset) <= Len(s)
                                        /\ walk'.got = Prefix(s, OffsetOf(walk'.offset))
           /\ walk'.phase = "done" => walk'.got = s
<1>0. PICK limit, k : limit = LimitOf(walk.limit) /\ k = OffsetOf(walk.offset)
  OBVIOUS
<1>1. /\ walk.phase = "asking" /\ reply' = Answer(walk.limit, walk.offset, FALSE)
      /\ walk' = [walk EXCEPT !.got = @ \o reply'.matches,
                              !.offset = IF reply'.has_more
                                         THEN reply'.offset + reply'.limit ELSE @,
                              !.phase = IF reply'.has_more THEN "asking" ELSE "done"]
  BY DEF NextPage
<1>2. store = s /\ reply' = Page(s, limit, k) /\ ~OutOfRange(Len(s), limit, k)
  <2>1. store # Absent
    BY <1>1 DEF Answer
  <2>2. store = s
    BY <1>1, <2>1 DEF Walked
  <2>. QED BY <1>0, <1>1, <2>1, <2>2 DEF Answer
<1>3. /\ k <= Len(s) /\ walk.got = Prefix(s, k)
  BY <1>0, <1>1 DEF Walked
<1>4. limit \in 0 .. MaxCap /\ k \in 0 .. MaxInt
  <2>1. walk.limit \in Ints \cup {Absent} /\ walk.offset \in Ints \cup {Absent}
    <3>1. 0 .. MaxInt \subseteq Ints
      BY IntsAssumption DEF Ints
    <3>. QED BY <3>1, ArgumentsAssumption DEF STypeOK, WalkOK
  <2>2. limit \in 0 .. MaxInt /\ k \in 0 .. MaxInt
    BY <1>0, <2>1, ArgumentsAreInts
  <2>. QED BY <1>2, <2>2, IntsAssumption DEF OutOfRange
<1>5. /\ reply'.offset = k /\ reply'.limit = limit
  BY <1>2 DEF Page
<1>6. /\ reply'.has_more => /\ k + limit <= Len(s)
                            /\ Prefix(s, k) \o reply'.matches = Prefix(s, k + limit)
      /\ ~reply'.has_more => Prefix(s, k) \o reply'.matches = s
  <2>1. PICK page : page = Page(s, limit, k)
    OBVIOUS
  <2>2. /\ page.has_more => /\ k + limit <= Len(s)
                            /\ Prefix(s, k) \o page.matches = Prefix(s, k + limit)
        /\ ~page.has_more => Prefix(s, k) \o page.matches = s
    BY <1>3, <1>4, <2>1, PageAppends, SMTT(60)
  <2>. QED BY <1>2, <2>1, <2>2
<1>7. CASE reply'.has_more
  <2>1. /\ walk'.phase = "asking" /\ walk'.offset = k + limit
        /\ walk'.got = Prefix(s, k) \o reply'.matches
    BY <1>1, <1>3, <1>5, <1>7 DEF STypeOK, WalkOK
  <2>2. k + limit \in Nat
    BY <1>4, IntsAssumption
  <2>3. OffsetOf(k + limit) = k + limit
    BY <2>2, IntsAssumption DEF OffsetOf
  <2>. QED BY <1>6, <1>7, <2>1, <2>3
<1>8. CASE ~reply'.has_more
  <2>1. walk'.phase = "done" /\ walk'.got = Prefix(s, k) \o reply'.matches
    BY <1>1, <1>3, <1>8 DEF STypeOK, WalkOK
  <2>. QED BY <1>6, <1>8, <2>1
<1>. QED BY <1>7, <1>8

LEMMA WalkedNext == STypeOK /\ Walked /\ [SNext]_vars => Walked'
<1>. SUFFICES ASSUME STypeOK, Walked, [SNext]_vars PROVE Walked'
  OBVIOUS
<1>1. ASSUME NEW s \in Stores, Replace(s) PROVE Walked'
  <2>1. CASE walk.phase = "asking"
    <3>1. store' = s /\ walk' = [walk EXCEPT !.over = walk.over \cup {s}]
      BY <1>1, <2>1 DEF Replace
    <3>2. /\ walk'.over = walk.over \cup {s} /\ walk'.phase = "asking"
          /\ walk'.offset = walk.offset /\ walk'.got = walk.got
      BY <2>1, <3>1 DEF STypeOK, WalkOK
    <3>3. IsFiniteSet(walk'.over)
      BY <3>2, FS_AddElement DEF Walked
    <3>. QED BY <2>1, <3>1, <3>2, <3>3 DEF Walked
  <2>2. CASE walk.phase # "asking"
    BY <1>1, <2>2 DEF Replace, Walked
  <2>. QED BY <2>1, <2>2
<1>2. ASSUME NEW l \in Limits, StartWalk(l) PROVE Walked'
  <2>1. /\ walk'.phase = "asking" /\ walk'.offset = Absent /\ walk'.got = <<>>
        /\ walk'.over = {store} \ {Absent} /\ store' = store
    BY <1>2 DEF StartWalk, Idle
  <2>2. IsFiniteSet(walk'.over)
    <3>1. walk'.over = {} \/ walk'.over = {store}
      BY <2>1
    <3>. QED BY <3>1, FS_EmptySet, FS_Singleton
  <2>3. OffsetOf(Absent) = 0 /\ \A s : Prefix(s, 0) = <<>>
    <3>1. 1 .. 0 = {}
      OBVIOUS
    <3>2. \A s : Prefix(s, 0) = <<>>
      BY <3>1 DEF Prefix
    <3>. QED BY <3>2 DEF OffsetOf
  <2>4. \A s \in Stores : 0 <= Len(s)
    BY StoreFacts
  <2>. QED BY <2>1, <2>2, <2>3, <2>4 DEF Walked
<1>3. CASE NextPage
  <2>1. store' = store /\ walk.phase = "asking"
    BY <1>3 DEF NextPage
  <2>2. CASE reply'.kind # "page"
    <3>1. walk'.phase = "failed" /\ walk'.over = walk.over
      BY <1>3, <2>2 DEF NextPage, STypeOK, WalkOK
    <3>. QED BY <3>1 DEF Walked
  <2>3. CASE reply'.kind = "page"
    <3>1. walk'.over = walk.over
      BY <1>3, <2>3 DEF NextPage, STypeOK, WalkOK
    <3>. QED BY <1>3, <2>1, <2>3, <3>1, NextPageWalks DEF Walked
  <2>. QED BY <2>2, <2>3
<1>4. CASE EndWalk
  <2>1. walk'.phase = "idle" /\ walk'.over = {}
    BY <1>4 DEF EndWalk, Idle
  <2>. QED BY <2>1, FS_EmptySet DEF Walked
<1>5. CASE UNCHANGED <<store, walk>>
  BY <1>5 DEF Walked
<1>. QED BY <1>1, <1>2, <1>3, <1>4, <1>5 DEF SNext, Call, SearchCommand, vars

\* For any store and page size a client that walks has_more over one store ends
\* up with every match once, in order.
THEOREM WalksAreExact == SSpec => []WalkExact
<1>1. STypeOK /\ Walked => WalkExact
  <2>. SUFFICES ASSUME STypeOK, Walked, walk.phase = "done", Cardinality(walk.over) = 1
                PROVE  walk.over = {walk.got}
    BY DEF WalkExact
  <2>1. PICK s : walk.over = {s}
    BY FS_Singleton DEF Walked
  <2>. QED BY <2>1 DEF Walked, STypeOK, WalkOK
<1>. QED BY <1>1, WalkedInit, WalkedNext, STypeCorrect, PTL DEF SSpec
-----------------------------------------------------------------------------
\* How far from the largest int a walk is: what is left of it to ask for.
Remaining == IF walk.phase = "asking" THEN MaxInt + 1 - OffsetOf(walk.offset) ELSE 0

\* Every answer leaves less of a walk, and no update in between gives it more.
WalkDwindles == [][/\ NextPage => Remaining' < Remaining
                   /\ walk.phase = "asking" => Remaining' <= Remaining]_vars

LEMMA RemainingType ==
    ASSUME WalkOK
    PROVE  Remaining \in 0 .. MaxInt + 1 /\ (walk.phase = "asking" => Remaining > 0)
<1>1. OffsetOf(walk.offset) \in 0 .. MaxInt
  BY IntsAssumption DEF WalkOK, OffsetOf
<1>. QED BY <1>1, IntsAssumption DEF Remaining

\* A page with more after it has matches of its own: its limit is not 0, and the
\* offset the client advances to does not wrap.
LEMMA PageAdvances ==
    ASSUME STypeOK, STypeOK', NextPage
    PROVE  Remaining' < Remaining
<1>1. walk.phase = "asking" /\ Remaining > 0 /\ Remaining \in Nat
  BY RemainingType, IntsAssumption DEF NextPage, STypeOK
<1>2. CASE walk'.phase # "asking"
  BY <1>1, <1>2 DEF Remaining
<1>3. CASE walk'.phase = "asking"
  <2>1. reply'.kind = "page" /\ reply'.has_more
    BY <1>3 DEF NextPage, STypeOK, WalkOK
  <2>2. walk'.offset = reply'.offset + reply'.limit
    BY <2>1 DEF NextPage, STypeOK, WalkOK
  <2>3. walk.limit \in Ints \cup {Absent} /\ walk.offset \in Ints \cup {Absent}
    <3>1. 0 .. MaxInt \subseteq Ints
      BY IntsAssumption DEF Ints
    <3>. QED BY <3>1, ArgumentsAssumption DEF STypeOK, WalkOK
  <2>4. /\ Exact(reply')
        /\ reply'.offset \in 0 .. MaxInt /\ reply'.limit \in 0 .. MaxCap
        /\ reply'.offset + reply'.limit \in 0 .. MaxInt
    BY <2>1, <2>3, AnswerFacts DEF NextPage, STypeOK
  <2>5. reply'.offset = OffsetOf(walk.offset)
    BY <2>1 DEF NextPage, Answer, Page
  <2>6. reply'.limit # 0
    BY <2>1, <2>4 DEF Exact
  <2>7. OffsetOf(walk'.offset) = OffsetOf(walk.offset) + reply'.limit
    BY <2>2, <2>4, <2>5, IntsAssumption DEF OffsetOf
  <2>8. Remaining = MaxInt + 1 - reply'.offset
        /\ Remaining' = MaxInt + 1 - (reply'.offset + reply'.limit)
    BY <1>1, <1>3, <2>5, <2>7 DEF Remaining
  <2>. QED BY <2>4, <2>6, <2>8, IntsAssumption
<1>. QED BY <1>2, <1>3

\* The core of WalkEnds: for any limit, zero and negative ones and those close to
\* the largest int included, and however the store is replaced meanwhile, a
\* client that walks has_more asks for ever larger offsets, which ends.
THEOREM WalksBounded ==
  SSpec => /\ WalkDwindles
           /\ [](Remaining \in 0 .. MaxInt + 1 /\ (walk.phase = "asking" => Remaining > 0))
<1>1. STypeOK /\ STypeOK' /\ [SNext]_vars
        => /\ NextPage => Remaining' < Remaining
           /\ walk.phase = "asking" => Remaining' <= Remaining
  <2>. SUFFICES ASSUME STypeOK, STypeOK', [SNext]_vars
                PROVE  /\ NextPage => Remaining' < Remaining
                       /\ walk.phase = "asking" => Remaining' <= Remaining
    OBVIOUS
  <2>1. Remaining \in Int /\ Remaining' \in Int
    BY RemainingType, IntsAssumption DEF STypeOK, Remaining, WalkOK, OffsetOf
  <2>2. NextPage => Remaining' < Remaining
    BY PageAdvances
  <2>3. ASSUME NEW s \in Stores, Replace(s) PROVE Remaining' = Remaining
    BY <2>3 DEF Replace, Remaining, STypeOK, WalkOK
  <2>4. walk.phase = "asking" => NextPage \/ (\E s \in Stores : Replace(s)) \/ UNCHANGED walk
    BY DEF SNext, StartWalk, EndWalk, Call, SearchCommand, vars
  <2>5. UNCHANGED walk => Remaining' = Remaining
    BY DEF Remaining
  <2>. QED BY <2>1, <2>2, <2>3, <2>4, <2>5
<1>2. STypeOK => Remaining \in 0 .. MaxInt + 1 /\ (walk.phase = "asking" => Remaining > 0)
  BY RemainingType DEF STypeOK
<1>. QED BY <1>1, <1>2, STypeCorrect, PTL DEF SSpec, WalkDwindles
=============================================================================
