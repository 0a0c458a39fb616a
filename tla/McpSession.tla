----------------------------- MODULE McpSession -----------------------------
(***************************************************************************)
(* mcp.Serve: the loop that decodes one message of standard input, handles *)
(* it and encodes the reply before it decodes the next, around the cache   *)
(* of McpDatabase and the writeStore calls of update_db.  The client may   *)
(* send messages ahead of the replies, so a message is chosen when it is   *)
(* decoded.  Other processes write the store meanwhile.                    *)
(*                                                                         *)
(* A call is "direct" (initialize, ping, tools/list, get_usage, a method   *)
(* or a tool that does not exist), "read" (lookup_mac, search_vendor,      *)
(* db_status) or "update" (update_db); its arguments are refused by        *)
(* decodeArgs, or by the tool before it asks for the database, or not.     *)
(***************************************************************************)
EXTENDS McpDatabase, Sequences

CONSTANTS Messages,     \* requests and notifications a client may send
          MaxMessages,  \* bound: messages of a session
          Garbage       \* a message that does not decode as a request

Ids == {m.id : m \in Messages} \ {None}
Calls == {"direct", "read", "update"}
Request == [id : Ids, call : Calls, args : {"ok", "refused"}]

ASSUME SessionAssumption ==
    /\ Messages \subseteq [id : Ids \cup {None}, call : Calls, args : {"ok", "refused"}]
    /\ Garbage \notin Messages \cup Request
    /\ None \notin Request \cup {Garbage}

VARIABLES heard,     \* heard[s]: history, the messages decoded
          cur,       \* cur[s]: the request that is handled, or None
          replies,   \* replies[s]: what has been encoded
          status,    \* status[s]: what has become of the loop
          installs,  \* history: databases installed so far
          born       \* history, born[d]: which of them d was, 0 for none

svars == <<heard, cur, replies, status>>
bvars == <<installs, born>>
allvars == <<vars, svars, bvars>>

\* A reply: the id it carries, whether it is an error, for a read the database
\* it tells of and for an update_db the one it installed, and (history) which
\* message it answers.
Encoded == [id : Ids \cup {None}, error : BOOLEAN, db : Contents \cup {None}, of : Nat]

STypeOK == /\ MTypeOK
           /\ heard \in [Servers -> Seq(Messages \cup {Garbage})]
           /\ cur \in [Servers -> Request \cup {None}]
           /\ replies \in [Servers -> Seq(Encoded)]
           /\ status \in [Servers -> {"serving", "ended", "failed"}]
           /\ installs \in Nat
           /\ born \in [Contents -> Nat]

SInit == /\ MInit
         /\ heard = [s \in Servers |-> <<>>]
         /\ cur = [s \in Servers |-> None]
         /\ replies = [s \in Servers |-> <<>>]
         /\ status = [s \in Servers |-> "serving"]
         /\ installs = 1
         /\ born = [d \in Contents |-> IF Read(store) = d THEN 1 ELSE 0]
-----------------------------------------------------------------------------
Hears(s, m) == /\ status[s] = "serving" /\ cur[s] = None
               /\ Len(heard[s]) < MaxMessages
               /\ heard' = [heard EXCEPT ![s] = Append(@, m)]
               /\ UNCHANGED <<vars, bvars>>

\* Seeded bug: req is declared outside the loop, so that a message without an
\* id keeps the one of the message before it.
Decode_IntoOldRequest(s, m) ==
    /\ Hears(s, m)
    /\ LET last == IF heard[s] = <<>> THEN None ELSE heard[s][Len(heard[s])].id
           id == IF m.id = None THEN last ELSE m.id
       IN cur' = [cur EXCEPT ![s] = IF id = None THEN None ELSE [m EXCEPT !.id = id]]
    /\ UNCHANGED <<replies, status>>
\* Seeded bug: a notification is handled like a request.
Decode_EveryMessage(s, m) ==
    /\ Hears(s, m)
    /\ cur' = [cur EXCEPT ![s] = m]
    /\ UNCHANGED <<replies, status>>
\* The next message; without an id it is a notification, which is not handled.
Decode(s, m) ==
    /\ Hears(s, m)
    /\ cur' = [cur EXCEPT ![s] = IF m.id = None THEN None ELSE m]
    /\ UNCHANGED <<replies, status>>

Answer(s, id, error, d, n) ==
    replies' = [replies EXCEPT ![s] = Append(@, [id |-> id, error |-> error, db |-> d, of |-> n])]

\* A message that does not decode ends the loop; whether its error reply could
\* be written is not looked at.
DecodeFails(s) ==
    /\ Hears(s, Garbage)
    /\ Answer(s, None, TRUE, None, Len(heard[s]) + 1) \/ UNCHANGED replies
    /\ status' = [status EXCEPT ![s] = "ended"]
    /\ UNCHANGED cur

EndOfInput(s) == /\ status[s] = "serving" /\ cur[s] = None
                 /\ status' = [status EXCEPT ![s] = "ended"]
                 /\ UNCHANGED <<vars, bvars, heard, cur, replies>>

\* The reply to the request in hand is encoded, or standard output fails.
Encode(s, error, d) ==
    /\ cur' = [cur EXCEPT ![s] = None]
    /\ \/ Answer(s, cur[s].id, error, d, Len(heard[s])) /\ UNCHANGED status
       \/ status' = [status EXCEPT ![s] = "failed"] /\ UNCHANGED replies
    /\ UNCHANGED heard
-----------------------------------------------------------------------------
\* Seeded bug: the arguments of a tool are not decoded before it runs.
Runs_Undecoded(s, call) == cur[s] # None /\ cur[s].call = call
\* The request in hand is such a call and its arguments are accepted.
Runs(s, call) == cur[s] # None /\ cur[s].call = call /\ cur[s].args = "ok"

\* handle and toolsCall answer without the store.
Direct(s) == /\ cur[s] # None
             /\ cur[s].call = "direct" \/ cur[s].args = "refused"
             /\ Encode(s, cur[s].args = "refused", None)
             /\ UNCHANGED <<vars, bvars>>

\* A tool that reads asks database() ...
ReadStep(s) == /\ Runs(s, "read")
               /\ \/ StatMissing(s) \/ CacheHit(s) \/ CacheMiss(s)
                  \/ LoadMissing(s) \/ Load(s)
               /\ UNCHANGED <<svars, bvars>>

\* Seeded bug: the error of database() gets no reply.
ReadEnds_Found(s) ==
    /\ Runs(s, "read") /\ answer[s] \in Contents
    /\ Answered(s)
    /\ Encode(s, FALSE, answer[s])
    /\ UNCHANGED bvars
\* ... and replies with what it found there or with dbErrorResult.
ReadEnds(s) ==
    /\ Runs(s, "read")
    /\ Answered(s)
    /\ IF answer[s] \in Contents THEN Encode(s, FALSE, answer[s]) ELSE Encode(s, TRUE, None)
    /\ UNCHANGED bvars

\* toolUpdateDB: Update fails before it has a database to save ...
UpdateFails(s) == /\ Runs(s, "update") /\ stage[s] = "idle"
                  /\ Encode(s, TRUE, None)
                  /\ UNCHANGED <<vars, bvars>>

\* Every Update builds a database of its own: generated_at is in it.
Unbuilt(d) == born[d] = 0 /\ \A w \in Writers : saving[w] # d

SaveSteps(w) == \/ \E n \in TempNames, d \in Contents : Unbuilt(d) /\ BeginSave(w, n, d)
                \/ WriteTemp(w)

Installs(w) == /\ Install(w)
               /\ installs' = installs + 1
               /\ born' = [born EXCEPT ![saving[w]] = installs + 1]

\* ... or goes through writeStore ...
UpdateStep(s) == /\ Runs(s, "update")
                 /\ \/ SaveSteps(s) /\ UNCHANGED bvars
                    \/ W!WriteFails(s) /\ UNCHANGED <<clock, cvars, shown, bvars>>
                    \/ Installs(s)
                 /\ UNCHANGED svars

\* ... and tells whether its database was installed.
UpdateEnds(s) == /\ Runs(s, "update")
                 /\ stage[s] \in {"installed", "failed"} /\ EndSave(s)
                 /\ IF stage[s] = "installed" THEN Encode(s, FALSE, saving[s])
                                              ELSE Encode(s, TRUE, None)
                 /\ UNCHANGED bvars
-----------------------------------------------------------------------------
\* The client starts the server again, whatever it was doing.
RestartSession(s) == /\ Restart(s)
                     /\ heard' = [heard EXCEPT ![s] = <<>>]
                     /\ cur' = [cur EXCEPT ![s] = None]
                     /\ replies' = [replies EXCEPT ![s] = <<>>]
                     /\ status' = [status EXCEPT ![s] = "serving"]
                     /\ UNCHANGED bvars

Listen(s) == (\E m \in Messages : Decode(s, m)) \/ DecodeFails(s) \/ EndOfInput(s)
Handle(s) == \/ Direct(s) \/ ReadStep(s) \/ ReadEnds(s)
             \/ UpdateFails(s) \/ UpdateStep(s) \/ UpdateEnds(s)

\* Other processes save, delete and damage the store.
OthersStep == \/ /\ \E w \in Writers \ Servers : SaveSteps(w) \/ EndSave(w)
                 /\ UNCHANGED <<svars, bvars>>
              \/ (\E w \in Writers \ Servers : Installs(w)) /\ UNCHANGED svars
              \/ (RemoveStore \/ DamageStore) /\ UNCHANGED <<svars, bvars>>

SNext == \/ \E s \in Servers : Listen(s) \/ Handle(s) \/ RestartSession(s)
         \/ OthersStep

SSpec == SInit /\ [][SNext]_allvars
\* A server that has a request in hand goes on with it, and its client reads.
FairSSpec == SSpec /\ \A s \in Servers : WF_allvars(Handle(s))
-----------------------------------------------------------------------------
Number(m) == IF m = Garbage THEN None ELSE m.id
\* The message is a request and its handling is over without a failing output.
Dealt(s, i) == /\ i \in DOMAIN heard[s] /\ heard[s][i] # Garbage /\ heard[s][i].id # None
               /\ i = Len(heard[s]) => cur[s] = None /\ status[s] # "failed"

\* Every request dealt with has its reply, in the order of the requests, with
\* the id the client gave it; a notification has none (Serve, handle).
RepliesMatch ==
    \A s \in Servers :
       /\ \A k \in DOMAIN replies[s] :
             /\ replies[s][k].of \in DOMAIN heard[s]
             /\ replies[s][k].id = Number(heard[s][replies[s][k].of])
             /\ replies[s][k].id = None => heard[s][replies[s][k].of] = Garbage
       /\ \A j, k \in DOMAIN replies[s] : j < k => replies[s][j].of < replies[s][k].of
       /\ \A i \in DOMAIN heard[s] :
             Dealt(s, i) => \E k \in DOMAIN replies[s] : replies[s][k].of = i

\* "Nothing runs before the arguments decode, so a rejected call reads no
\* registry and downloads nothing" (usage.md), nor does a notification.
RejectedTouchesNothing ==
    \A s \in Servers :
       /\ pc[s] # "idle" => cur[s] \in [id : Ids, call : {"read"}, args : {"ok"}]
       /\ stage[s] # "idle" => cur[s] \in [id : Ids, call : {"update"}, args : {"ok"}]

\* The databases a session tells of never go back in time, whoever installed
\* them: what update_db reported installed is what the next read answers from,
\* or something newer ("picking up update_db changes", server.go).
SessionMonotonic ==
    \A s \in Servers : \A j, k \in DOMAIN replies[s] :
       j < k /\ replies[s][j].db # None /\ replies[s][k].db # None
          => born[replies[s][j].db] <= born[replies[s][k].db]

\* Every request is done with in the end, answered or its session over.
RequestsEnd == \A s \in Servers : cur[s] # None ~> cur[s] = None
=============================================================================
