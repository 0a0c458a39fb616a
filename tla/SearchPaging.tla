---------------------------- MODULE SearchPaging ----------------------------
(***************************************************************************)
(* The vendor search of the MCP server, a page of matches at a time, with  *)
(* the client its manual describes: it asks again with offset advanced by  *)
(* limit while has_more is set (usage.md, search_vendor).  Meanwhile       *)
(* update_db, here or in another process, replaces the store.  Also the    *)
(* command `search`, which prints the first matches and a notice.          *)
(*                                                                         *)
(* One query is fixed: a store is the sequence of the entries it selects,  *)
(* in the order of the entries.  Integers wrap as Go's int does.           *)
(***************************************************************************)
EXTENDS Integers, Sequences, FiniteSets

CONSTANTS Stores,   \* what the query may match, in any version of the registries
          Limits,   \* limits a caller sends, or Absent
          Offsets,  \* offsets a caller sends, or Absent
          Absent,   \* an argument left out; a store not downloaded yet
          MaxInt,   \* the largest int
          MaxCap,   \* the largest capacity make can allocate
          DefaultPageSize

ASSUME IntsAssumption == /\ MaxInt \in Nat /\ MaxCap \in 1 .. MaxInt
                         /\ DefaultPageSize \in 1 .. MaxCap
                         /\ Absent \notin Int
Ints == -MaxInt - 1 .. MaxInt
ASSUME ArgumentsAssumption == /\ Limits \subseteq Ints \cup {Absent}
                              /\ Offsets \subseteq Ints \cup {Absent}
\* The matches are in memory, next to the page.
ASSUME StoresAssumption == \A s \in Stores : /\ s \in Seq(Nat)
                                             /\ Len(s) + MaxCap <= MaxInt

VARIABLES store,  \* the matches in the store, or Absent
          reply,  \* the last answer of the tool or the command
          walk    \* the client that pages through the matches

vars == <<store, reply, walk>>

NoReply == [kind |-> "none"]
Idle == [phase |-> "idle", limit |-> Absent, offset |-> Absent, got |-> <<>>, over |-> {}]

ReplyOK == /\ reply.kind \in {"none", "error", "crash", "page", "list"}
           /\ reply.kind \in {"page", "list"} => reply.db \in Stores
           /\ reply.kind = "page" => /\ reply.offset \in 0 .. MaxInt
                                     /\ reply.limit \in 0 .. MaxCap
                                     /\ reply.matches \in Seq(Nat)

\* The offset a client has arrived at is one it can ask for.
WalkOK == walk \in [phase : {"idle", "asking", "done", "failed"},
                    limit : Limits \cup {Absent},
                    offset : (0 .. MaxInt) \cup {Absent},
                    got : Seq(Nat),
                    over : SUBSET Stores]

STypeOK == store \in Stores \cup {Absent} /\ ReplyOK /\ WalkOK

SInit == store = Absent /\ reply = NoReply /\ walk = Idle
-----------------------------------------------------------------------------
\* What int makes of the sum of two ints, neither of them negative.
Wrap(n) == IF n > MaxInt THEN n - 2 * (MaxInt + 1) ELSE n

\* DB.Search: the first limit matches, all of them for 0 or less.
Search(all, limit) == IF limit > 0 /\ limit < Len(all) THEN SubSeq(all, 1, limit) ELSE all

\* Seeded bug: a negative limit is not the default one.
LimitOf_Unchecked(l) == IF l # Absent THEN l ELSE DefaultPageSize
LimitOf(l) == IF l # Absent THEN IF l >= 0 THEN l ELSE DefaultPageSize
              ELSE DefaultPageSize
OffsetOf(o) == IF o # Absent THEN IF o > 0 THEN o ELSE 0 ELSE 0

\* Seeded bug: the page ends one match late.
End_Late(n, limit, offset) ==
    IF limit > 0 /\ Wrap(offset + limit) < n THEN offset + limit + 1 ELSE n
\* Seeded bug: limit 0 is taken for a page of no match.
End_Zero(n, limit, offset) == IF Wrap(offset + limit) < n THEN Wrap(offset + limit) ELSE n
\* Where the page ends, before its offset is looked at.
End(n, limit, offset) ==
    IF limit > 0 /\ Wrap(offset + limit) < n THEN Wrap(offset + limit) ELSE n

\* Seeded bug: the page is sliced without comparing offset and len(all).
OutOfRange_Unguarded(n, limit, offset) ==
    limit > MaxCap \/ End(n, limit, offset) < offset
\* make and the slice expression, when their arguments are out of range.
OutOfRange(n, limit, offset) ==
    limit > MaxCap \/ (offset < n /\ End(n, limit, offset) < offset)

\* Seeded bug: the search is asked for no more than the page.
Matched_Limited(db, limit) == Search(db, limit)
\* toolSearchVendor searches unbounded, to know the total.
Matched(db, limit) == Search(db, 0)

Page(db, limit, offset) ==
    LET all == Matched(db, limit)
        end == IF offset < Len(all) THEN End(Len(all), limit, offset) ELSE offset
    IN [kind |-> "page", db |-> db, limit |-> limit, offset |-> offset,
        matches |-> IF offset < Len(all) THEN SubSeq(all, offset + 1, end) ELSE <<>>,
        total |-> Len(all), has_more |-> end < Len(all)]

\* What search_vendor answers; an empty query is refused before the store is read.
Answer(l, o, empty) ==
    IF empty \/ store = Absent THEN [kind |-> "error"]
    ELSE IF OutOfRange(Len(store), LimitOf(l), OffsetOf(o))
         THEN [kind |-> "crash", limit |-> LimitOf(l)]
    ELSE Page(store, LimitOf(l), OffsetOf(o))
-----------------------------------------------------------------------------
\* An update replaces the store: other entries match.
Replace(s) == /\ s # store
              /\ store' = s
              /\ walk' = IF walk.phase = "asking" THEN [walk EXCEPT !.over = @ \cup {s}]
                         ELSE walk
              /\ UNCHANGED reply

StartWalk(l) == /\ walk.phase = "idle"
                /\ walk' = [Idle EXCEPT !.phase = "asking", !.limit = l,
                                         !.over = {store} \ {Absent}]
                /\ reply' = NoReply
                /\ UNCHANGED store

\* One call of the walk, and what its client makes of the answer.
NextPage ==
    /\ walk.phase = "asking"
    /\ reply' = Answer(walk.limit, walk.offset, FALSE)
    /\ walk' = IF reply'.kind # "page" THEN [walk EXCEPT !.phase = "failed"]
               ELSE [walk EXCEPT !.got = @ \o reply'.matches,
                                 !.offset = IF reply'.has_more
                                            THEN reply'.offset + reply'.limit ELSE @,
                                 !.phase = IF reply'.has_more THEN "asking" ELSE "done"]
    /\ UNCHANGED store

EndWalk == /\ walk.phase \in {"done", "failed"}
           /\ walk' = Idle
           /\ UNCHANGED <<store, reply>>

\* Any other call of the tool, by the one client the server has on its stdin.
Call(l, o, empty) == /\ walk.phase = "idle"
                     /\ reply' = Answer(l, o, empty)
                     /\ UNCHANGED <<store, walk>>

\* Seeded bug: no notice for the limit a user gave himself.
Notice_Default(all, printed) == Len(printed) = DefaultPageSize /\ Len(all) > Len(printed)
Notice(all, printed) == Len(all) > Len(printed)

\* The command: what it prints, the notice that there is more, its exit code.
SearchCommand(limit, empty) ==
    /\ walk.phase = "idle" /\ limit # Absent
    /\ IF empty \/ store = Absent THEN reply' = [kind |-> "error"]
       ELSE LET printed == Search(store, limit)
            IN \/ reply' = [kind |-> "list", db |-> store, limit |-> limit, printed |-> printed,
                            notice |-> printed # <<>> /\ Notice(store, printed),
                            exit |-> IF printed = <<>> THEN 1 ELSE 0]
               \/ printed # <<>> /\ reply' = [kind |-> "error"]  \* JSON, stdout gone
    /\ UNCHANGED <<store, walk>>

SNext == \/ \E s \in Stores : Replace(s)
         \/ \E l \in Limits : StartWalk(l)
         \/ NextPage
         \/ EndWalk
         \/ \E l \in Limits, o \in Offsets, empty \in BOOLEAN : Call(l, o, empty)
         \/ \E l \in Limits, empty \in BOOLEAN : SearchCommand(l, empty)

SSpec == SInit /\ [][SNext]_vars
\* The client asks again as long as it is told that there is more.
SFairSpec == SSpec /\ WF_vars(NextPage)
-----------------------------------------------------------------------------
Exact(page) ==
    LET last == page.offset + page.limit
        on == {i \in DOMAIN page.db : page.offset < i /\ (page.limit = 0 \/ i <= last)}
    IN /\ DOMAIN page.matches = {i - page.offset : i \in on}
       /\ \A i \in on : page.matches[i - page.offset] = page.db[i]
       /\ page.total = Len(page.db)
       /\ page.has_more <=> \E i \in DOMAIN page.db : page.limit # 0 /\ i > last

\* A page holds the matches numbered offset + 1 to offset + limit, in order and
\* counted without overflow, and has_more says whether any come after them
\* (tools.go, toolSearchVendor: "total has to be the true count for has_more to
\* mean anything").
PageExact == reply.kind = "page" => Exact(reply)

\* offset + limit may wrap to a negative end, but never one the slice
\* expression meets: an offset that large is past the last match.
OverflowHarmless == reply.kind = "crash" => reply.limit > MaxCap

\* A walk over a store nobody replaces tells every match once, in order
\* (usage.md, has_more: "re-request with offset advanced by limit").
WalkExact == walk.phase = "done" /\ Cardinality(walk.over) = 1 => walk.over = {walk.got}

\* Every walk ends, even if the store is replaced between any two of its pages
\* (CHANGELOG.md: "a loop that walks has_more repeats page one forever").
WalkEnds == walk.phase = "asking" ~> walk.phase # "asking"

\* `search` prints the first matches, as many as the limit allows; its notice
\* says when any is left out, and only then, "never let a truncated list read as
\* the whole answer" (commands.go, cmdSearch); its exit code, whether any matched.
TruncationTold == reply.kind = "list" =>
    LET told == Len(reply.printed)
    IN /\ \A i \in 1 .. told : i <= Len(reply.db) /\ reply.printed[i] = reply.db[i]
       /\ reply.limit > 0 => told <= reply.limit
       /\ told < Len(reply.db) => told = reply.limit
       /\ reply.notice <=> told < Len(reply.db)
       /\ reply.exit = 1 <=> reply.db = <<>>
=============================================================================
