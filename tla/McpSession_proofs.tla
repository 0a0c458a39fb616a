-------------------------- MODULE McpSession_proofs --------------------------
(***************************************************************************)
(* Proofs about McpSession, for any number of servers, writers, messages   *)
(* and databases: the loop around the cache and writeStore takes no step   *)
(* McpDatabase does not allow, its replies are those of its requests in    *)
(* their order, and the databases they tell of never go back in time.      *)
(***************************************************************************)
EXTENDS McpSession, McpDatabase_proofs

\* Every step of a session is one of McpDatabase, or leaves the database alone.
LEMMA StepAllowed == SNext => MNext \/ UNCHANGED vars
  <1> SUFFICES ASSUME SNext PROVE MNext \/ UNCHANGED vars
    OBVIOUS
  <1>1. ASSUME NEW s \in Servers, Listen(s) PROVE UNCHANGED vars
    BY <1>1 DEF Listen, Decode, DecodeFails, EndOfInput, Hears
  <1>2. ASSUME NEW w \in Writers, SaveSteps(w) \/ EndSave(w) \/ Installs(w) PROVE MNext
    BY <1>2 DEF SaveSteps, Installs, Save, MNext
  <1>3. ASSUME NEW s \in Servers, Handle(s) PROVE MNext \/ UNCHANGED vars
    <2>1. s \in Writers
      BY ServersAssumption
    <2>2. CASE Direct(s) \/ UpdateFails(s)
      BY <2>2 DEF Direct, UpdateFails
    <2>3. CASE ReadStep(s) \/ ReadEnds(s)
      BY <2>3 DEF ReadStep, ReadEnds, Database, MNext
    <2>4. CASE UpdateStep(s) \/ UpdateEnds(s)
      <3>1. SaveSteps(s) \/ EndSave(s) \/ Installs(s)
        BY <2>4 DEF UpdateStep, UpdateEnds, EndSave
      <3> QED BY <3>1, <2>1, <1>2
    <2> QED BY <1>3, <2>2, <2>3, <2>4 DEF Handle
  <1>4. ASSUME NEW s \in Servers, RestartSession(s) PROVE MNext
    BY <1>4 DEF RestartSession, Database, MNext
  <1>5. CASE OthersStep
    BY <1>5, <1>2 DEF OthersStep, MNext
  <1> QED BY <1>1, <1>3, <1>4, <1>5 DEF SNext

\* A server that serves sessions uses its cache and the store as McpDatabase
\* allows, so that whatever is proved of McpDatabase holds of it.
THEOREM SessionUsesDatabase == SSpec => MSpec
  <1>1. SInit => MInit
    BY DEF SInit
  <1>2. [SNext]_allvars => [MNext]_vars
    BY StepAllowed DEF allvars
  <1> QED BY <1>1, <1>2, PTL DEF SSpec, MSpec

\* Every answer of a session was on disk during its request.
THEOREM SessionAnswersOnDisk == ~Coarse => (SSpec => []AnswerWasOnDisk)
  BY SessionUsesDatabase, NeverSuperseded, PTL

\* And its store is AtomicStore's, update_db calls and restarts included.
THEOREM SessionStoreIsAtomic == ~Tampering => (SSpec => W!Atomic)
  BY SessionUsesDatabase, DatabaseIsAtomic, PTL
-----------------------------------------------------------------------------
\* The types of what the loop keeps.
SessTypes == /\ heard \in [Servers -> Seq(Messages \cup {Garbage})]
             /\ cur \in [Servers -> Request \cup {None}]
             /\ replies \in [Servers -> Seq(Encoded)]
             /\ status \in [Servers -> {"serving", "ended", "failed"}]
             /\ installs \in Nat
             /\ born \in [Contents -> Nat]

\* A message that is no notification is a request.
LEMMA IsRequest ==
  ASSUME NEW m \in Messages, m.id # None
  PROVE  m \in Request
  BY SessionAssumption DEF Request, Ids

\* What Encode leaves is typed, if the database it tells of is one.
LEMMA EncodeTypes ==
  ASSUME SessTypes, NEW s \in Servers, NEW error \in BOOLEAN, NEW d \in Contents \cup {None},
         cur[s] # None, Encode(s, error, d), UNCHANGED bvars
  PROVE  SessTypes'
  <1>1. cur[s].id \in Ids /\ Len(heard[s]) \in Nat
    BY DEF SessTypes, Request
  <1>2. [id |-> cur[s].id, error |-> error, db |-> d, of |-> Len(heard[s])] \in Encoded
    BY <1>1 DEF Encoded
  <1>3. replies' \in [Servers -> Seq(Encoded)]
    <2>1. Append(replies[s], [id |-> cur[s].id, error |-> error, db |-> d,
                              of |-> Len(heard[s])]) \in Seq(Encoded)
      BY <1>2 DEF SessTypes
    <2> QED BY <2>1 DEF Encode, Answer, SessTypes
  <1>4. cur' \in [Servers -> Request \cup {None}] /\ status' \in [Servers -> {"serving", "ended", "failed"}]
    BY DEF Encode, SessTypes
  <1> QED BY <1>3, <1>4 DEF SessTypes, Encode, bvars

\* What a message that is decoded leaves is typed.
LEMMA ListenTypes ==
  ASSUME SessTypes, NEW s \in Servers, Listen(s)
  PROVE  SessTypes'
  <1>1. ASSUME NEW m \in Messages, Decode(s, m) PROVE SessTypes'
    <2>1. heard' \in [Servers -> Seq(Messages \cup {Garbage})]
      BY <1>1 DEF Decode, Hears, SessTypes
    <2>2. cur' \in [Servers -> Request \cup {None}]
      BY <1>1, IsRequest DEF Decode, SessTypes
    <2> QED BY <1>1, <2>1, <2>2 DEF Decode, Hears, SessTypes, bvars
  <1>2. CASE DecodeFails(s)
    <2>1. heard' \in [Servers -> Seq(Messages \cup {Garbage})]
      BY <1>2 DEF DecodeFails, Hears, SessTypes
    <2>2. [id |-> None, error |-> TRUE, db |-> None, of |-> Len(heard[s]) + 1] \in Encoded
      BY DEF Encoded, SessTypes
    <2>3. Append(replies[s], [id |-> None, error |-> TRUE, db |-> None,
                              of |-> Len(heard[s]) + 1]) \in Seq(Encoded)
      BY <2>2 DEF SessTypes
    <2>4. replies' \in [Servers -> Seq(Encoded)]
      BY <1>2, <2>3 DEF DecodeFails, Answer, SessTypes
    <2> QED BY <1>2, <2>1, <2>4 DEF DecodeFails, Hears, SessTypes, bvars
  <1>3. CASE EndOfInput(s)
    BY <1>3 DEF EndOfInput, SessTypes, bvars
  <1> QED BY <1>1, <1>2, <1>3 DEF Listen

\* The types of what is saved and answered.
LEMMA SavedTypes ==
  ASSUME DBTypes
  PROVE  /\ pc \in [Servers -> PC]
         /\ answer \in [Servers -> Contents \cup {None, Torn}]
         /\ shown \in [Servers -> SUBSET (Contents \cup {None, Torn})]
         /\ stage \in [Writers -> {"idle", "created", "ready", "installed", "failed"}]
         /\ saving \in [Writers -> Contents \cup {None}]
         /\ \A w \in Writers : stage[w] = "idle" <=> saving[w] = None
  BY FilesTyped DEF DBTypes, CTypeOK, W!WTypeOK, W!Stage, W!StageHeld

LEMMA SessTypesStep == DBTypes /\ SessTypes /\ [SNext]_allvars => SessTypes'
  <1> SUFFICES ASSUME DBTypes, SessTypes, [SNext]_allvars PROVE SessTypes'
    OBVIOUS
  <1>1. ASSUME NEW w \in Writers, Installs(w), UNCHANGED svars PROVE SessTypes'
    <2>1. installs + 1 \in Nat
      BY DEF SessTypes
    <2>2. born' \in [Contents -> Nat] /\ installs' \in Nat
      BY <1>1, <2>1 DEF Installs, SessTypes
    <2> QED BY <1>1, <2>2 DEF SessTypes, svars
  <1>2. CASE UNCHANGED <<svars, bvars>>
    BY <1>2 DEF svars, bvars, SessTypes
  <1>3. ASSUME NEW s \in Servers, Handle(s) PROVE SessTypes'
    <2>1. s \in Writers
      BY ServersAssumption
    <2>2. CASE Direct(s)
      BY <2>2, EncodeTypes DEF Direct
    <2>3. CASE ReadStep(s)
      BY <2>3, <1>2 DEF ReadStep
    <2>4. CASE ReadEnds(s)
      BY <2>4, EncodeTypes DEF ReadEnds, Runs
    <2>5. CASE UpdateFails(s)
      BY <2>5, EncodeTypes DEF UpdateFails, Runs
    <2>6. CASE UpdateStep(s)
      BY <2>6, <1>1, <1>2, <2>1 DEF UpdateStep
    <2>7. CASE UpdateEnds(s)
      <3>1. saving[s] \in Contents \cup {None}
        BY <2>1, SavedTypes
      <3> QED BY <2>7, <3>1, EncodeTypes DEF UpdateEnds, Runs
    <2> QED BY <1>3, <2>2, <2>3, <2>4, <2>5, <2>6, <2>7 DEF Handle
  <1>4. ASSUME NEW s \in Servers, RestartSession(s) PROVE SessTypes'
    BY <1>4 DEF RestartSession, SessTypes, bvars
  <1>5. CASE OthersStep
    BY <1>5, <1>1, <1>2 DEF OthersStep
  <1> QED BY <1>2, <1>3, <1>4, <1>5, ListenTypes DEF SNext, allvars

\* What the loop keeps and what the database keeps, together.
BaseInv == DBTypes /\ SessTypes

\* Both hold of every session, for the database is used as McpDatabase allows.
THEOREM SessionBase == SSpec => []BaseInv
  <1>1. SInit => SessTypes
    BY DEF SInit, SessTypes
  <1> QED BY <1>1, SessionUsesDatabase, DBTypesInvariant, SessTypesStep, PTL DEF SSpec, BaseInv

\* The loop, its messages and its replies keep their types.
THEOREM SessionTypeCorrect == SSpec => []STypeOK
  <1>1. BaseInv => STypeOK
    BY FilesTyped DEF BaseInv, DBTypes, SessTypes, STypeOK, MTypeOK
  <1> QED BY <1>1, SessionBase, PTL
-----------------------------------------------------------------------------
\* A step that leaves the request in hand alone works for it.
LEMMA WorkingStep ==
  ASSUME RejectedTouchesNothing, NEW s \in Servers, UNCHANGED cur, BaseInv,
         \A t \in Servers \ {s} : pc'[t] = pc[t] /\ stage'[t] = stage[t],
         pc'[s] # "idle" => Runs(s, "read"),
         stage'[s] # "idle" => Runs(s, "update")
  PROVE  RejectedTouchesNothing'
  <1>1. cur[s] # None => cur[s] \in Request
    BY DEF BaseInv, SessTypes
  <1> QED BY <1>1 DEF RejectedTouchesNothing, Runs, Request

\* A step that ends a request, or brings one, finds the store left alone.
LEMMA IdleStep ==
  ASSUME RejectedTouchesNothing, NEW s \in Servers,
         \A t \in Servers \ {s} : pc'[t] = pc[t] /\ stage'[t] = stage[t] /\ cur'[t] = cur[t],
         pc'[s] = "idle", stage'[s] = "idle"
  PROVE  RejectedTouchesNothing'
  BY DEF RejectedTouchesNothing

\* Where a call of writeStore stands changes for its writer only.
LEMMA StagesOfOthers ==
  ASSUME NEW w \in Writers, DBTypes, SaveSteps(w) \/ EndSave(w) \/ Installs(w)
  PROVE  /\ \A t \in Servers \ {w} : stage'[t] = stage[t]
         /\ UNCHANGED pc
  <1>1. stage \in [Writers -> {"idle", "created", "ready", "installed", "failed"}]
    BY SavedTypes
  <1> QED
    BY <1>1, ServersAssumption
       DEF SaveSteps, BeginSave, WriteTemp, EndSave, Installs, Install, cvars,
           W!CreateTemp, W!Serialize, W!Install, W!WriteFails, W!Return,
           W!ReturnUnremoved, W!Crash, W!Leave

LEMMA RejectedStep ==
  BaseInv /\ RejectedTouchesNothing /\ [SNext]_allvars => RejectedTouchesNothing'
  <1> SUFFICES ASSUME BaseInv, RejectedTouchesNothing, [SNext]_allvars
               PROVE RejectedTouchesNothing'
    OBVIOUS
  <1>0. /\ pc \in [Servers -> PC] /\ cur \in [Servers -> Request \cup {None}]
        /\ stage \in [Writers -> {"idle", "created", "ready", "installed", "failed"}]
        /\ Servers \subseteq Writers
    BY SavedTypes, ServersAssumption DEF BaseInv, SessTypes
  <1>1. CASE UNCHANGED <<pc, stage, cur>>
    BY <1>1 DEF RejectedTouchesNothing
  <1>2. ASSUME NEW s \in Servers, Listen(s) PROVE RejectedTouchesNothing'
    <2>1. UNCHANGED vars /\ cur[s] = None
      BY <1>2 DEF Listen, Decode, DecodeFails, EndOfInput, Hears
    <2>. DEFINE Accepted(c) == [id : Ids, call : {c}, args : {"ok"}]
    <2>0. Accepted("read") \subseteq Request /\ Accepted("update") \subseteq Request
      BY DEF Request, Calls
    <2>2. pc'[s] = "idle" /\ stage'[s] = "idle"
      BY <2>0, <2>1, SessionAssumption DEF RejectedTouchesNothing, vars, wvars, cvars
    <2>3. \A t \in Servers \ {s} : cur'[t] = cur[t]
      BY <1>0, <1>2 DEF Listen, Decode, DecodeFails, EndOfInput
    <2> QED BY <2>1, <2>2, <2>3, IdleStep DEF vars, wvars, cvars
  <1>3. ASSUME NEW s \in Servers, Handle(s) PROVE RejectedTouchesNothing'
    <2>1. ASSUME Direct(s) \/ ReadEnds(s) \/ UpdateFails(s) \/ UpdateEnds(s)
          PROVE  \A t \in Servers \ {s} : cur'[t] = cur[t]
      BY <1>0, <2>1 DEF Direct, ReadEnds, UpdateFails, UpdateEnds, Encode
    <2>2. CASE Direct(s)
      <3>1. pc'[s] = "idle" /\ stage'[s] = "idle"
        BY <2>2 DEF Direct, RejectedTouchesNothing, vars, wvars, cvars
      <3> QED BY <2>1, <2>2, <3>1, IdleStep DEF Direct, vars, wvars, cvars
    <2>3. CASE ReadStep(s)
      <3>1. UNCHANGED <<cur, stage>> /\ \A t \in Servers \ {s} : pc'[t] = pc[t]
        BY <1>0, <2>3 DEF ReadStep, svars, wvars, StatMissing, CacheHit, CacheMiss,
                          LoadMissing, Load, Reply
      <3>2. stage[s] = "idle"
        BY <2>3 DEF ReadStep, Runs, RejectedTouchesNothing, StatMissing, CacheHit,
                    CacheMiss, LoadMissing, Load
      <3> QED BY <2>3, <3>1, <3>2, WorkingStep DEF ReadStep
    <2>4. CASE ReadEnds(s)
      <3>1. pc[s] # "idle" /\ pc'[s] = "idle" /\ UNCHANGED stage
            /\ \A t \in Servers \ {s} : pc'[t] = pc[t]
        BY <1>0, <2>4 DEF ReadEnds, Answered, wvars
      <3>2. stage[s] = "idle"
        BY <2>4, <3>1 DEF ReadEnds, Runs, RejectedTouchesNothing
      <3> QED BY <2>1, <2>4, <3>1, <3>2, IdleStep
    <2>5. CASE UpdateFails(s)
      <3>1. pc'[s] = "idle" /\ stage'[s] = "idle"
        BY <2>5 DEF UpdateFails, Runs, RejectedTouchesNothing, vars, wvars, cvars
      <3> QED BY <2>1, <2>5, <3>1, IdleStep DEF UpdateFails, vars, wvars, cvars
    <2>6. CASE UpdateStep(s)
      <3>1. UNCHANGED <<cur, pc>> /\ \A t \in Servers \ {s} : stage'[t] = stage[t]
        <4>1. UNCHANGED cur /\ (SaveSteps(s) \/ EndSave(s) \/ Installs(s))
          BY <2>6 DEF UpdateStep, EndSave, svars
        <4> QED BY <1>0, <4>1, StagesOfOthers DEF BaseInv
      <3>2. pc[s] = "idle"
        BY <2>6 DEF UpdateStep, Runs, RejectedTouchesNothing
      <3> QED BY <2>6, <3>1, <3>2, WorkingStep DEF UpdateStep
    <2>7. CASE UpdateEnds(s)
      <3>1. UNCHANGED pc /\ \A t \in Servers \ {s} : stage'[t] = stage[t]
        BY <1>0, <2>7, StagesOfOthers DEF UpdateEnds, BaseInv
      <3>2. pc[s] = "idle"
        BY <2>7 DEF UpdateEnds, Runs, RejectedTouchesNothing
      <3>3. stage'[s] = "idle"
        BY <1>0, <2>7 DEF UpdateEnds, EndSave, W!WriteFails, W!Return,
                          W!ReturnUnremoved, W!Leave
      <3> QED BY <2>1, <2>7, <3>1, <3>2, <3>3, IdleStep
    <2> QED BY <1>3, <2>2, <2>3, <2>4, <2>5, <2>6, <2>7 DEF Handle
  <1>4. ASSUME NEW s \in Servers, RestartSession(s) PROVE RejectedTouchesNothing'
    <2>1. \A t \in Servers \ {s} : pc'[t] = pc[t] /\ stage'[t] = stage[t] /\ cur'[t] = cur[t]
      BY <1>0, <1>4 DEF RestartSession, Restart, wvars, W!Crash, W!Leave
    <2>2. pc'[s] = "idle" /\ stage'[s] = "idle"
      BY <1>0, <1>4 DEF RestartSession, Restart, wvars, W!Crash, W!Leave
    <2> QED BY <2>1, <2>2, IdleStep
  <1>5. CASE OthersStep
    <2>1. CASE \E w \in Writers \ Servers : SaveSteps(w) \/ EndSave(w) \/ Installs(w)
      <3>1. UNCHANGED <<cur, pc>> /\ \A t \in Servers : stage'[t] = stage[t]
        BY <1>5, <2>1, StagesOfOthers
           DEF OthersStep, BaseInv, svars, RemoveStore, DamageStore, cvars
      <3> QED BY <3>1 DEF RejectedTouchesNothing
    <2>2. CASE (RemoveStore \/ DamageStore) /\ UNCHANGED <<svars, bvars>>
      BY <1>1, <2>2 DEF RemoveStore, DamageStore, cvars, svars
    <2> QED BY <1>5, <2>1, <2>2 DEF OthersStep
  <1> QED
    BY <1>1, <1>2, <1>3, <1>4, <1>5 DEF SNext, allvars, vars, wvars, cvars, svars

\* A call that is rejected reads no registry and saves none, nor does a
\* notification (decodeArgs, handle).
THEOREM SessionRejects == SSpec => []RejectedTouchesNothing
  <1>1. SInit => RejectedTouchesNothing
    BY ServersAssumption DEF SInit, MInit, RejectedTouchesNothing
  <1>2. SSpec => []BaseInv
    BY SessionBase
  <1> QED BY <1>1, <1>2, RejectedStep, PTL DEF SSpec
-----------------------------------------------------------------------------
\* How many steps its server can still take with the request in hand: those of
\* writeStore for an update_db, those of database() for a read.
StagesLeft == [idle |-> 4, created |-> 3, ready |-> 2, installed |-> 1, failed |-> 1]
LookupLeft == [idle |-> 3, missing |-> 2, load |-> 2, reply |-> 1]
StepsLeft(s) == IF cur[s] = None THEN 0
                ELSE IF cur[s].call = "update" THEN StagesLeft[stage[s]]
                ELSE LookupLeft[pc[s]]

\* What a server's own step does to its request, and to the others' nothing.
LEMMA HandleProgresses ==
  ASSUME BaseInv, RejectedTouchesNothing, NEW s \in Servers, Handle(s)
  PROVE  /\ StepsLeft(s)' < StepsLeft(s) /\ {StepsLeft(s), StepsLeft(s)'} \subseteq 0..4
         /\ \A t \in Servers \ {s} : cur'[t] = cur[t] /\ pc'[t] = pc[t] /\ stage'[t] = stage[t]
  <1>0. /\ pc \in [Servers -> PC] /\ cur \in [Servers -> Request \cup {None}]
        /\ stage \in [Writers -> {"idle", "created", "ready", "installed", "failed"}]
        /\ saving \in [Writers -> Contents \cup {None}]
        /\ Servers \subseteq Writers
    BY SavedTypes, ServersAssumption DEF BaseInv, SessTypes
  <1>1. /\ cur[s] # None => StepsLeft(s) \in 1..4
        /\ cur'[s] = None => StepsLeft(s)' = 0
    BY <1>0 DEF StepsLeft, StagesLeft, LookupLeft, PC
  <1>2. ASSUME Direct(s) \/ ReadEnds(s) \/ UpdateFails(s) \/ UpdateEnds(s)
        PROVE  /\ StepsLeft(s)' < StepsLeft(s) /\ {StepsLeft(s), StepsLeft(s)'} \subseteq 0..4
               /\ \A t \in Servers \ {s} : cur'[t] = cur[t]
    <2>1. /\ cur[s] # None /\ cur'[s] = None
          /\ \A t \in Servers \ {s} : cur'[t] = cur[t]
      BY <1>0, <1>2 DEF Direct, ReadEnds, UpdateFails, UpdateEnds, Runs, Encode
    <2>2. StepsLeft(s)' = 0 /\ StepsLeft(s) \in 1..4
      BY <1>1, <2>1
    <2>3. StepsLeft(s)' < StepsLeft(s) /\ {StepsLeft(s), StepsLeft(s)'} \subseteq 0..4
      BY <2>2
    <2> QED BY <2>1, <2>3
  <1>3. CASE Direct(s) \/ UpdateFails(s)
    BY <1>2, <1>3 DEF Direct, UpdateFails, vars, wvars, cvars
  <1>4. CASE ReadEnds(s)
    BY <1>0, <1>2, <1>4 DEF ReadEnds, Answered, wvars
  <1>5. CASE UpdateEnds(s)
    BY <1>0, <1>2, <1>5, StagesOfOthers DEF UpdateEnds, BaseInv
  <1>6. CASE ReadStep(s)
    <2>1. UNCHANGED <<cur, stage>> /\ cur[s] # None /\ cur[s].call = "read"
      BY <1>6 DEF ReadStep, Runs, svars, wvars, StatMissing, CacheHit, CacheMiss,
                  LoadMissing, Load
    <2>2. \/ pc[s] = "idle" /\ pc'[s] \in {"missing", "load", "reply"}
          \/ pc[s] \in {"missing", "load"} /\ pc'[s] = "reply"
      BY <1>0, <1>6 DEF ReadStep, StatMissing, CacheHit, CacheMiss, LoadMissing, Load, Reply
    <2>3. \A t \in Servers \ {s} : pc'[t] = pc[t]
      BY <1>0, <1>6 DEF ReadStep, StatMissing, CacheHit, CacheMiss, LoadMissing, Load, Reply
    <2> QED BY <2>1, <2>2, <2>3 DEF StepsLeft, LookupLeft
  <1>7. CASE UpdateStep(s)
    <2>1. /\ UNCHANGED cur /\ cur[s] # None /\ cur[s].call = "update"
          /\ SaveSteps(s) \/ EndSave(s) \/ Installs(s)
      BY <1>7 DEF UpdateStep, Runs, EndSave, svars
    <2>2. \/ stage[s] = "idle" /\ stage'[s] = "created"
          \/ stage[s] = "created" /\ stage'[s] \in {"ready", "failed"}
          \/ stage[s] = "ready" /\ stage'[s] \in {"installed", "failed"}
      BY <1>0, <1>7 DEF UpdateStep, SaveSteps, BeginSave, WriteTemp, Installs, Install,
                        W!CreateTemp, W!Serialize, W!Install, W!WriteFails
    <2>3. UNCHANGED pc /\ \A t \in Servers \ {s} : stage'[t] = stage[t]
      BY <1>0, <2>1, StagesOfOthers DEF BaseInv
    <2> QED BY <2>1, <2>2, <2>3 DEF StepsLeft, StagesLeft
  <1> QED BY <1>3, <1>4, <1>5, <1>6, <1>7 DEF Handle

\* A step of the server with the request in hand brings its end nearer, and no
\* step of anyone else - another session, a command line that saves, whoever
\* deletes the store - puts it off.
RequestDwindles ==
  [][\A s \in Servers : /\ Handle(s) => StepsLeft(s)' < StepsLeft(s)
                        /\ cur[s] # None => StepsLeft(s)' <= StepsLeft(s)]_allvars

LEMMA SessionProgresses ==
  ASSUME BaseInv, RejectedTouchesNothing, [SNext]_allvars
  PROVE  [\A s \in Servers : /\ Handle(s) => StepsLeft(s)' < StepsLeft(s)
                             /\ cur[s] # None => StepsLeft(s)' <= StepsLeft(s)]_allvars
  <1> SUFFICES ASSUME SNext, NEW s \in Servers
               PROVE  /\ Handle(s) => StepsLeft(s)' < StepsLeft(s)
                      /\ cur[s] # None => StepsLeft(s)' <= StepsLeft(s)
    OBVIOUS
  <1>a. Handle(s) => StepsLeft(s)' < StepsLeft(s)
    BY HandleProgresses
  <1>b. Handle(s) => StepsLeft(s)' <= StepsLeft(s)
    BY <1>a, HandleProgresses
  <1> SUFFICES ASSUME cur[s] # None, ~Handle(s)
               PROVE  StepsLeft(s)' <= StepsLeft(s)
    BY <1>a, <1>b
  <1>0. /\ pc \in [Servers -> PC] /\ cur \in [Servers -> Request \cup {None}]
        /\ stage \in [Writers -> {"idle", "created", "ready", "installed", "failed"}]
        /\ s \in Writers
    BY SavedTypes, ServersAssumption DEF BaseInv, SessTypes
  <1>1. StepsLeft(s) \in Nat
    BY <1>0 DEF StepsLeft, StagesLeft, LookupLeft, PC
  <1>2. ASSUME cur'[s] = cur[s], pc'[s] = pc[s], stage'[s] = stage[s]
        PROVE  StepsLeft(s)' <= StepsLeft(s)
    BY <1>1, <1>2 DEF StepsLeft
  <1>3. ASSUME NEW t \in Servers, Listen(t) PROVE StepsLeft(s)' <= StepsLeft(s)
    <2>1. UNCHANGED vars /\ cur[t] = None /\ t # s
      BY <1>3 DEF Listen, Decode, DecodeFails, EndOfInput, Hears
    <2>2. cur'[s] = cur[s]
      BY <1>0, <1>3, <2>1 DEF Listen, Decode, DecodeFails, EndOfInput
    <2> QED BY <1>2, <2>1, <2>2 DEF vars, wvars, cvars
  <1>4. ASSUME NEW t \in Servers, Handle(t) PROVE StepsLeft(s)' <= StepsLeft(s)
    BY <1>2, <1>4, HandleProgresses
  <1>5. ASSUME NEW t \in Servers, RestartSession(t) PROVE StepsLeft(s)' <= StepsLeft(s)
    <2>1. CASE t = s
      BY <1>0, <1>1, <1>5, <2>1 DEF RestartSession, StepsLeft
    <2>2. CASE t # s
      BY <1>0, <1>2, <1>5, <2>2 DEF RestartSession, Restart, wvars, W!Crash, W!Leave
    <2> QED BY <2>1, <2>2
  <1>6. CASE OthersStep
    <2>1. CASE \E w \in Writers \ Servers : SaveSteps(w) \/ EndSave(w) \/ Installs(w)
      <3>1. UNCHANGED <<cur, pc>> /\ stage'[s] = stage[s]
        BY <1>6, <2>1, StagesOfOthers
           DEF OthersStep, BaseInv, svars, RemoveStore, DamageStore, cvars
      <3> QED BY <1>2, <3>1
    <2>2. CASE (RemoveStore \/ DamageStore) /\ UNCHANGED <<svars, bvars>>
      BY <1>2, <2>2 DEF RemoveStore, DamageStore, cvars, svars
    <2> QED BY <1>6, <2>1, <2>2 DEF OthersStep
  <1> QED BY <1>3, <1>4, <1>5, <1>6 DEF SNext

\* A request takes its server at most four steps: what RequestsEnd needs beside
\* the fairness of the loop (Serve, database, writeStore).
THEOREM RequestsBounded ==
  SSpec => /\ RequestDwindles
           /\ [](\A s \in Servers : /\ StepsLeft(s) \in 0 .. 4
                                    /\ cur[s] # None => StepsLeft(s) # 0)
  <1>1. ASSUME BaseInv, NEW s \in Servers
        PROVE  StepsLeft(s) \in 0 .. 4 /\ (cur[s] # None => StepsLeft(s) # 0)
    <2>1. pc[s] \in PC /\ stage[s] \in {"idle", "created", "ready", "installed", "failed"}
      BY <1>1, SavedTypes, ServersAssumption DEF BaseInv
    <2> QED BY <2>1 DEF StepsLeft, StagesLeft, LookupLeft, PC
  <1>2. BaseInv => \A s \in Servers : /\ StepsLeft(s) \in 0 .. 4
                                      /\ cur[s] # None => StepsLeft(s) # 0
    BY <1>1
  <1> QED
    BY <1>2, SessionBase, SessionRejects, SessionProgresses, PTL DEF SSpec, RequestDwindles
-----------------------------------------------------------------------------
\* RepliesMatch for one server, over values: the messages h, the replies r, and
\* whether the last message is still without the reply it may be due.
Matched(h, r, due) ==
    /\ \A k \in DOMAIN r : /\ r[k].of \in DOMAIN h
                           /\ r[k].id = Number(h[r[k].of])
                           /\ r[k].id = None => h[r[k].of] = Garbage
    /\ \A j, k \in DOMAIN r : j < k => r[j].of < r[k].of
    /\ \A i \in DOMAIN h : h[i] # Garbage /\ h[i].id # None /\ (i = Len(h) => ~due)
                           => \E k \in DOMAIN r : r[k].of = i
Unanswered(h, r) == \A k \in DOMAIN r : r[k].of < Len(h)

\* What makes it inductive: the request in hand is the last message, and no
\* reply is to it yet.
Serves(s) ==
    /\ Matched(heard[s], replies[s], cur[s] # None \/ status[s] = "failed")
    /\ cur[s] # None => /\ heard[s] # <<>> /\ status[s] = "serving"
                        /\ cur[s] = heard[s][Len(heard[s])]
                        /\ Unanswered(heard[s], replies[s])

SessionsServe == \A s \in Servers : Serves(s)

LEMMA AppendFacts ==
  ASSUME NEW S, NEW q \in Seq(S), NEW e \in S
  PROVE  /\ DOMAIN q = 1..Len(q) /\ Len(q) \in Nat
         /\ Append(q, e) \in Seq(S) /\ Len(Append(q, e)) = Len(q) + 1
         /\ DOMAIN Append(q, e) = 1..Len(q) + 1
         /\ \A k \in DOMAIN q : Append(q, e)[k] = q[k]
         /\ Append(q, e)[Len(q) + 1] = e
  OBVIOUS

\* One more message: the replies there are stay where they were, it has none.
LEMMA OneMoreMessage ==
  ASSUME NEW h \in Seq(Messages \cup {Garbage}), NEW r \in Seq(Encoded),
         NEW m \in Messages \cup {Garbage}, Matched(h, r, FALSE),
         NEW due \in BOOLEAN, ~due => m = Garbage \/ m.id = None
  PROVE  Matched(Append(h, m), r, due) /\ Unanswered(Append(h, m), r)
  <1> DEFINE g == Append(h, m)
  <1> HIDE DEF g
  <1>1. /\ DOMAIN h = 1..Len(h) /\ Len(h) \in Nat /\ Len(g) = Len(h) + 1
        /\ DOMAIN g = 1..Len(h) + 1 /\ g[Len(h) + 1] = m
        /\ \A k \in DOMAIN h : g[k] = h[k]
    BY AppendFacts DEF g
  <1>2. \A k \in DOMAIN r : r[k].of \in 1..Len(h)
    BY <1>1 DEF Matched
  <1>3. Unanswered(g, r)
    BY <1>1, <1>2 DEF Unanswered
  <1>4. \A k \in DOMAIN r : /\ r[k].of \in DOMAIN g
                            /\ r[k].id = Number(g[r[k].of])
                            /\ r[k].id = None => g[r[k].of] = Garbage
    BY <1>1, <1>2 DEF Matched
  <1>5. ASSUME NEW i \in DOMAIN g, g[i] # Garbage, g[i].id # None, i = Len(g) => ~due
        PROVE  \E k \in DOMAIN r : r[k].of = i
    <2>1. i # Len(h) + 1
      BY <1>1, <1>5
    <2>2. i \in DOMAIN h /\ g[i] = h[i]
      BY <1>1, <2>1
    <2> QED BY <1>5, <2>2 DEF Matched
  <1> QED BY <1>3, <1>4, <1>5 DEF Matched, g

\* One more reply, to the last message.
LEMMA OneMoreReply ==
  ASSUME NEW h \in Seq(Messages \cup {Garbage}), h # <<>>, NEW r \in Seq(Encoded),
         NEW e \in Encoded, NEW due \in BOOLEAN, Matched(h, r, due), Unanswered(h, r),
         e.of = Len(h), e.id = Number(h[Len(h)]), e.id = None => h[Len(h)] = Garbage
  PROVE  Matched(h, Append(r, e), FALSE)
  <1> DEFINE q == Append(r, e)
  <1> HIDE DEF q
  <1>1. /\ DOMAIN r = 1..Len(r) /\ Len(r) \in Nat
        /\ DOMAIN q = 1..Len(r) + 1 /\ q[Len(r) + 1] = e
        /\ \A k \in DOMAIN r : q[k] = r[k]
    BY AppendFacts DEF q
  <1>2. DOMAIN h = 1..Len(h) /\ Len(h) \in Nat /\ Len(h) \in DOMAIN h
    OBVIOUS
  <1>3. ASSUME NEW k \in DOMAIN q
        PROVE  /\ q[k].of \in DOMAIN h
               /\ q[k].id = Number(h[q[k].of])
               /\ q[k].id = None => h[q[k].of] = Garbage
    <2>1. CASE k \in DOMAIN r
      BY <1>1, <2>1 DEF Matched
    <2>2. CASE k = Len(r) + 1
      BY <1>1, <1>2, <2>2
    <2> QED BY <1>1, <2>1, <2>2
  <1>4. ASSUME NEW j \in DOMAIN q, NEW k \in DOMAIN q, j < k
        PROVE  q[j].of < q[k].of
    <2>1. j \in DOMAIN r /\ q[j] = r[j]
      BY <1>1, <1>4
    <2>2. CASE k \in DOMAIN r
      BY <1>1, <1>4, <2>1, <2>2 DEF Matched
    <2>3. CASE k = Len(r) + 1
      BY <1>1, <2>1, <2>3 DEF Unanswered
    <2> QED BY <1>1, <2>2, <2>3
  <1>5. ASSUME NEW i \in DOMAIN h, h[i] # Garbage, h[i].id # None
        PROVE  \E k \in DOMAIN q : q[k].of = i
    <2>1. CASE i = Len(h)
      <3>1. Len(r) + 1 \in DOMAIN q /\ q[Len(r) + 1].of = i
        BY <1>1, <2>1
      <3> QED BY <3>1
    <2>2. CASE i # Len(h)
      <3>1. PICK k \in DOMAIN r : r[k].of = i
        BY <1>5, <2>2 DEF Matched
      <3>2. k \in DOMAIN q /\ q[k] = r[k]
        BY <1>1
      <3> QED BY <3>1, <3>2
    <2> QED BY <2>1, <2>2
  <1> QED BY <1>3, <1>4, <1>5 DEF Matched, q

\* The sessions of other servers are none of s's business.
LEMMA OtherSessions ==
  ASSUME \A t \in Servers : Serves(t), NEW s \in Servers, Serves(s)',
         \A t \in Servers \ {s} : /\ heard'[t] = heard[t] /\ cur'[t] = cur[t]
                                  /\ replies'[t] = replies[t] /\ status'[t] = status[t]
  PROVE  \A t \in Servers : Serves(t)'
  BY DEF Serves

LEMMA EncodeServes ==
  ASSUME SessTypes, \A t \in Servers : Serves(t), NEW s \in Servers, cur[s] # None,
         NEW error \in BOOLEAN, NEW d \in Contents \cup {None}, Encode(s, error, d)
  PROVE  \A t \in Servers : Serves(t)'
  <1> DEFINE h == heard[s]
             r == replies[s]
             e == [id |-> cur[s].id, error |-> error, db |-> d, of |-> Len(h)]
  <1>1. /\ h \in Seq(Messages \cup {Garbage}) /\ r \in Seq(Encoded)
        /\ cur[s] \in Request /\ Len(h) \in Nat
    BY DEF SessTypes
  <1>2. /\ h # <<>> /\ cur[s] = h[Len(h)] /\ Unanswered(h, r)
        /\ Matched(h, r, TRUE) /\ status[s] = "serving"
    BY DEF Serves
  <1>3. e \in Encoded /\ e.of = Len(h) /\ e.id = cur[s].id
    BY <1>1 DEF Encoded, Request
  <1>4. cur[s].id # None /\ cur[s] # Garbage
    <2>1. cur[s].id # None
      BY <1>1 DEF Request, Ids
    <2>2. Len(h) \in DOMAIN h /\ h[Len(h)] \in Messages \cup {Garbage}
      BY <1>1, <1>2
    <2> QED BY <2>1, <2>2, <1>1, <1>2, SessionAssumption
  <1>5. e.id = Number(h[Len(h)])
    BY <1>2, <1>3, <1>4 DEF Number
  <1>6. Matched(h, Append(r, e), FALSE)
    BY <1>1, <1>2, <1>3, <1>4, <1>5, OneMoreReply
  <1>7. cur'[s] = None /\ heard' = heard
    BY DEF Encode, SessTypes
  <1>8. CASE Answer(s, cur[s].id, error, d, Len(heard[s])) /\ UNCHANGED status
    <2>1. replies'[s] = Append(r, e)
      BY <1>8 DEF Answer, SessTypes
    <2> QED BY <1>2, <1>6, <1>7, <1>8, <2>1, OtherSessions DEF Serves, Encode, SessTypes, Answer
  <1>9. CASE status' = [status EXCEPT ![s] = "failed"] /\ UNCHANGED replies
    BY <1>2, <1>7, <1>9, OtherSessions DEF Serves, Encode, SessTypes
  <1> QED BY <1>8, <1>9 DEF Encode

LEMMA ListenServes ==
  ASSUME SessTypes, \A t \in Servers : Serves(t), NEW s \in Servers, Listen(s)
  PROVE  \A t \in Servers : Serves(t)'
  <1> DEFINE h == heard[s]
             r == replies[s]
  <1>1. h \in Seq(Messages \cup {Garbage}) /\ r \in Seq(Encoded) /\ Len(h) \in Nat
    BY DEF SessTypes
  <1>2. cur[s] = None /\ status[s] = "serving" /\ Matched(h, r, FALSE)
    BY DEF Listen, Decode, DecodeFails, EndOfInput, Hears, Serves
  <1>3. ASSUME NEW m \in Messages, Decode(s, m) PROVE \A t \in Servers : Serves(t)'
    <2>1. heard'[s] = Append(h, m) /\ replies' = replies /\ status' = status
          /\ cur'[s] = IF m.id = None THEN None ELSE m
      BY <1>3 DEF Decode, Hears, SessTypes
    <2>2. Unanswered(Append(h, m), r) /\ Matched(Append(h, m), r, m.id # None)
      BY <1>1, <1>2, OneMoreMessage
    <2>3. Append(h, m) # <<>> /\ Append(h, m)[Len(Append(h, m))] = m
      <3>1. Len(Append(h, m)) = Len(h) + 1 /\ Append(h, m)[Len(h) + 1] = m
        BY <1>1
      <3>2. Len(Append(h, m)) # 0
        BY <1>1, <3>1
      <3> QED BY <3>1, <3>2
    <2>4. m.id # None => m # None
      BY SessionAssumption, IsRequest
    <2>5. Serves(s)'
      BY <1>2, <2>1, <2>2, <2>3, <2>4 DEF Serves
    <2> QED BY <1>3, <2>1, <2>5, OtherSessions DEF Decode, Hears, SessTypes
  <1>4. CASE DecodeFails(s)
    <2> DEFINE g == Append(h, Garbage)
               e == [id |-> None, error |-> TRUE, db |-> None, of |-> Len(h) + 1]
    <2>1. heard'[s] = g /\ cur'[s] = None /\ status'[s] = "ended"
      BY <1>2, <1>4 DEF DecodeFails, Hears, SessTypes
    <2>2. Unanswered(g, r) /\ Matched(g, r, FALSE)
      BY <1>1, <1>2, OneMoreMessage
    <2>3. g # <<>> /\ Len(g) = Len(h) + 1 /\ g[Len(g)] = Garbage
          /\ g \in Seq(Messages \cup {Garbage})
      BY <1>1
    <2>4. e \in Encoded /\ e.of = Len(g) /\ e.id = Number(g[Len(g)])
      BY <1>1, <2>3 DEF Encoded, Number
    <2>5. Matched(g, Append(r, e), FALSE)
      BY <1>1, <2>2, <2>3, <2>4, OneMoreReply
    <2>6. replies'[s] = r \/ replies'[s] = Append(r, e)
      BY <1>4 DEF DecodeFails, Answer, SessTypes
    <2>7. Serves(s)'
      BY <2>1, <2>2, <2>5, <2>6 DEF Serves
    <2> QED BY <1>4, <2>7, OtherSessions DEF DecodeFails, Hears, Answer, SessTypes
  <1>5. CASE EndOfInput(s)
    <2>1. Serves(s)'
      BY <1>2, <1>5 DEF EndOfInput, Serves, SessTypes
    <2> QED BY <1>5, <2>1, OtherSessions DEF EndOfInput, SessTypes
  <1> QED BY <1>3, <1>4, <1>5 DEF Listen

LEMMA ServesStep ==
  BaseInv /\ SessionsServe /\ [SNext]_allvars => SessionsServe'
  <1> SUFFICES ASSUME BaseInv, \A t \in Servers : Serves(t), [SNext]_allvars
               PROVE \A t \in Servers : Serves(t)'
    BY DEF SessionsServe
  <1>0. SessTypes
    BY DEF BaseInv
  <1>1. CASE UNCHANGED svars
    BY <1>1 DEF Serves, svars
  <1>2. ASSUME NEW s \in Servers, Handle(s) PROVE \A t \in Servers : Serves(t)'
    <2>1. s \in Writers
      BY ServersAssumption
    <2>2. CASE ReadStep(s) \/ UpdateStep(s)
      BY <1>1, <2>2 DEF ReadStep, UpdateStep
    <2>3. CASE Direct(s)
      BY <1>0, <2>3, EncodeServes DEF Direct
    <2>4. CASE ReadEnds(s)
      BY <1>0, <2>4, EncodeServes DEF ReadEnds, Runs
    <2>5. CASE UpdateFails(s)
      BY <1>0, <2>5, EncodeServes DEF UpdateFails, Runs
    <2>6. CASE UpdateEnds(s)
      <3>1. saving[s] \in Contents \cup {None}
        BY <2>1, SavedTypes DEF BaseInv
      <3> QED BY <1>0, <2>6, <3>1, EncodeServes DEF UpdateEnds, Runs
    <2> QED BY <1>2, <2>2, <2>3, <2>4, <2>5, <2>6 DEF Handle
  <1>3. ASSUME NEW s \in Servers, RestartSession(s) PROVE \A t \in Servers : Serves(t)'
    <2>1. heard'[s] = <<>> /\ replies'[s] = <<>> /\ cur'[s] = None
      BY <1>0, <1>3 DEF RestartSession, SessTypes
    <2>2. Serves(s)'
      BY <2>1 DEF Serves, Matched
    <2> QED BY <1>0, <1>3, <2>2, OtherSessions DEF RestartSession, SessTypes
  <1> QED
    BY <1>0, <1>1, <1>2, <1>3, ListenServes DEF SNext, OthersStep, allvars

\* Each request that has been dealt with has one reply, with its id, in the
\* order of the requests; notifications have none (Serve).
THEOREM SessionRepliesMatch == SSpec => []RepliesMatch
  <1>1. SInit => SessionsServe
    <2>1. ASSUME SInit, NEW s \in Servers PROVE Serves(s)
      <3>1. heard[s] = <<>> /\ replies[s] = <<>> /\ cur[s] = None
        BY <2>1 DEF SInit
      <3> QED BY <3>1 DEF Serves, Matched
    <2> QED BY <2>1 DEF SessionsServe
  <1>2. SessionsServe => RepliesMatch
    BY DEF SessionsServe, Serves, Matched, RepliesMatch, Dealt
  <1>3. SSpec => []BaseInv
    BY SessionBase
  <1> QED BY <1>1, <1>2, <1>3, ServesStep, PTL DEF SSpec
-----------------------------------------------------------------------------
\* The databases in the order of their installation: the store holds the last
\* one, one that is still to be installed has no place yet, and no two writers
\* save the same.
History ==
    /\ installs > 0 /\ \A d \in Contents : born[d] <= installs
    /\ Read(store) \in Contents => born[Read(store)] = installs
    /\ \A w \in Writers : stage[w] \in {"created", "ready"} => born[saving[w]] = 0
    /\ \A v, w \in Writers : v # w /\ saving[v] # None => saving[v] # saving[w]

\* The database x is no older than any that s has told of.
NoOlder(s, x) ==
    /\ born[x] > 0
    /\ \A k \in DOMAIN replies[s] :
          replies[s][k].db # None => born[replies[s][k].db] <= born[x]

\* What the next reply of s may tell of is no older than what it has told of.
Ordered(s) ==
    /\ \A k \in DOMAIN replies[s] : replies[s][k].db # None => born[replies[s][k].db] > 0
    /\ \A j, k \in DOMAIN replies[s] :
          j < k /\ replies[s][j].db # None /\ replies[s][k].db # None
             => born[replies[s][j].db] <= born[replies[s][k].db]
    /\ pc[s] = "idle" => shown[s] = {}
    /\ \A x \in shown[s] \cap Contents : NoOlder(s, x)
    /\ stage[s] = "installed" => NoOlder(s, saving[s])

OrderInv == History /\ \A s \in Servers : Ordered(s)

\* A step by which s tells nothing and no database loses its place.
LEMMA OrderKept ==
  ASSUME SessTypes, NEW s \in Servers, Ordered(s), replies'[s] = replies[s],
         \A d \in Contents : born[d] > 0 => born'[d] = born[d],
         pc'[s] = "idle" => shown'[s] = {},
         \A x \in shown'[s] \cap Contents : x \in shown[s] \/ NoOlder(s, x)',
         stage'[s] = "installed" =>
            \/ stage[s] = "installed" /\ saving'[s] = saving[s] /\ saving[s] \in Contents
            \/ NoOlder(s, saving[s])'
  PROVE  Ordered(s)'
  <1>1. \A k \in DOMAIN replies[s] : replies[s][k].db \in Contents \cup {None}
    <2>1. replies[s] \in Seq(Encoded)
      BY DEF SessTypes
    <2>2. \A k \in DOMAIN replies[s] : replies[s][k] \in Encoded
      BY <2>1
    <2> QED BY <2>2 DEF Encoded
  <1>2. \A k \in DOMAIN replies[s] : replies[s][k].db # None =>
           born'[replies[s][k].db] = born[replies[s][k].db]
    BY <1>1 DEF Ordered
  <1>3. ASSUME NEW x \in Contents, NoOlder(s, x) PROVE NoOlder(s, x)'
    BY <1>2, <1>3 DEF NoOlder
  <1>4. \A x \in shown'[s] \cap Contents : NoOlder(s, x)'
    BY <1>3 DEF Ordered
  <1>5. ASSUME stage'[s] = "installed" PROVE NoOlder(s, saving[s])'
    <2>1. CASE stage[s] = "installed" /\ saving'[s] = saving[s] /\ saving[s] \in Contents
      <3>1. PICK x \in Contents : x = saving[s] /\ NoOlder(s, x)
        BY <2>1 DEF Ordered
      <3> QED BY <1>3, <2>1, <3>1 DEF NoOlder
    <2> QED BY <1>5, <2>1
  <1>6. \A k \in DOMAIN replies'[s] : replies'[s][k].db # None => born'[replies'[s][k].db] > 0
    BY <1>2 DEF Ordered
  <1>7. \A j, k \in DOMAIN replies'[s] :
          j < k /\ replies'[s][j].db # None /\ replies'[s][k].db # None
             => born'[replies'[s][j].db] <= born'[replies'[s][k].db]
    BY <1>2 DEF Ordered
  <1> QED BY <1>4, <1>5, <1>6, <1>7 DEF Ordered

\* What Encode appends, if anything.
LEMMA EncodeAppends ==
  ASSUME SessTypes, NEW s \in Servers, NEW error \in BOOLEAN, NEW d \in Contents \cup {None},
         Encode(s, error, d), cur[s] # None
  PROVE  /\ \E e \in Encoded : e.db = d /\ replies'[s] \in {replies[s], Append(replies[s], e)}
         /\ \A t \in Servers \ {s} : replies'[t] = replies[t]
  <1> DEFINE e == [id |-> cur[s].id, error |-> error, db |-> d, of |-> Len(heard[s])]
  <1>1. cur[s].id \in Ids /\ Len(heard[s]) \in Nat
    BY DEF SessTypes, Request
  <1>2. e \in Encoded /\ e.db = d
    BY <1>1 DEF Encoded
  <1>3. replies'[s] \in {replies[s], Append(replies[s], e)}
    BY DEF Encode, Answer, SessTypes
  <1>4. \A t \in Servers \ {s} : replies'[t] = replies[t]
    BY DEF Encode, Answer, SessTypes
  <1> HIDE DEF e
  <1> QED BY <1>2, <1>3, <1>4

\* A reply: what it tells of is no older than what was told of.
LEMMA OrderTold ==
  ASSUME SessTypes, NEW s \in Servers, Ordered(s), UNCHANGED born, NEW e \in Encoded,
         replies'[s] \in {replies[s], Append(replies[s], e)},
         e.db # None => NoOlder(s, e.db), shown'[s] = {}, stage'[s] # "installed"
  PROVE  Ordered(s)'
  <1> DEFINE r == replies[s]
  <1>3. CASE replies'[s] = r
    BY <1>3 DEF Ordered
  <1>4. CASE replies'[s] = Append(r, e)
    <2> DEFINE q == replies'[s]
    <2> HIDE DEF q
    <2>1. /\ DOMAIN r = 1..Len(r) /\ Len(r) \in Nat
          /\ DOMAIN q = 1..Len(r) + 1 /\ q[Len(r) + 1] = e
          /\ \A k \in DOMAIN r : q[k] = r[k]
      BY <1>4, AppendFacts DEF SessTypes, q
    <2>2. ASSUME NEW k \in DOMAIN q, q[k].db # None PROVE born[q[k].db] > 0
      <3>1. CASE k \in DOMAIN r
        BY <2>1, <2>2, <3>1 DEF Ordered
      <3>2. CASE k = Len(r) + 1
        BY <2>1, <2>2, <3>2 DEF NoOlder
      <3> QED BY <2>1, <3>1, <3>2
    <2>3. ASSUME NEW j \in DOMAIN q, NEW k \in DOMAIN q, j < k,
                 q[j].db # None, q[k].db # None
          PROVE  born[q[j].db] <= born[q[k].db]
      <3>1. j \in DOMAIN r /\ q[j] = r[j]
        BY <2>1, <2>3
      <3>2. CASE k \in DOMAIN r
        BY <2>1, <2>3, <3>1, <3>2 DEF Ordered
      <3>3. CASE k = Len(r) + 1
        BY <2>1, <2>3, <3>1, <3>3 DEF NoOlder
      <3> QED BY <2>1, <3>2, <3>3
    <2> QED BY <2>2, <2>3 DEF Ordered, q
  <1> QED BY <1>3, <1>4

\* What a step of writeStore does to the history of installations.
LEMMA SaveHistory ==
  ASSUME BaseInv, History, NEW w \in Writers,
         \/ (SaveSteps(w) \/ EndSave(w)) /\ UNCHANGED bvars
         \/ Installs(w)
  PROVE  /\ History'
         /\ \A d \in Contents : born[d] > 0 => born'[d] = born[d]
  <1>0. /\ stage \in [Writers -> {"idle", "created", "ready", "installed", "failed"}]
        /\ saving \in [Writers -> Contents \cup {None}]
        /\ \A v \in Writers : stage[v] = "idle" <=> saving[v] = None
        /\ installs \in Nat /\ born \in [Contents -> Nat]
        /\ None \notin Contents
    BY SavedTypes, NoneAssumption DEF BaseInv, SessTypes
  <1>1. ASSUME NEW n \in TempNames, NEW d \in Contents, Unbuilt(d), BeginSave(w, n, d),
               UNCHANGED bvars
        PROVE  History'
    BY <1>0, <1>1 DEF History, Unbuilt, BeginSave, W!CreateTemp, bvars, Read
  <1>2. CASE WriteTemp(w) /\ UNCHANGED bvars
    BY <1>0, <1>2 DEF History, WriteTemp, W!Serialize, bvars, Read
  <1>3. CASE EndSave(w) /\ UNCHANGED bvars
    BY <1>0, <1>3 DEF History, EndSave, W!WriteFails, W!Return, W!ReturnUnremoved,
                      W!Crash, W!Leave, bvars, Read
  <1>4. CASE Installs(w)
    <2>1. /\ stage[w] = "ready" /\ saving[w] \in Contents /\ born[saving[w]] = 0
          /\ Read(store') = saving[w]
      <3>1. temp[held[w]] # None /\ temp[held[w]].data = saving[w]
        BY <1>4, FilesTyped DEF BaseInv, DBTypes, Installs, Install, W!Install, W!ReadyWhole
      <3> QED BY <1>0, <1>4, <3>1 DEF Installs, Install, W!Install, History, Read
    <2>2. /\ born' = [born EXCEPT ![saving[w]] = installs + 1] /\ installs' = installs + 1
          /\ saving' = saving /\ stage' = [stage EXCEPT ![w] = "installed"]
      BY <1>4 DEF Installs, Install, W!Install
    <2>3. \A d \in Contents : born'[d] <= installs'
      BY <1>0, <2>1, <2>2 DEF History
    <2>4. \A v \in Writers : stage'[v] \in {"created", "ready"} => born'[saving'[v]] = 0
      BY <1>0, <2>1, <2>2 DEF History
    <2>5. Read(store')  = saving[w] /\ born'[saving[w]] = installs'
      BY <1>0, <2>1, <2>2
    <2>6. \A d \in Contents : born[d] > 0 => born'[d] = born[d]
      BY <1>0, <2>1, <2>2
    <2>7. Read(store)' = Read(store')
      BY DEF Read
    <2> QED BY <1>0, <2>2, <2>3, <2>4, <2>5, <2>6, <2>7 DEF History
  <1> QED BY <1>0, <1>1, <1>2, <1>3, <1>4 DEF SaveSteps, bvars

\* And to what the sessions may tell of: the database installed is the newest.
LEMMA SaveOrdered ==
  ASSUME BaseInv, OrderInv, NEW w \in Writers,
         \/ (SaveSteps(w) \/ EndSave(w)) /\ UNCHANGED bvars
         \/ Installs(w),
         NEW s \in Servers, replies'[s] = replies[s]
  PROVE  Ordered(s)'
  <1>0. /\ stage \in [Writers -> {"idle", "created", "ready", "installed", "failed"}]
        /\ saving \in [Writers -> Contents \cup {None}]
        /\ \A v \in Writers : stage[v] = "idle" <=> saving[v] = None
        /\ installs \in Nat /\ born \in [Contents -> Nat] /\ SessTypes
        /\ shown \in [Servers -> SUBSET (Contents \cup {None, Torn})]
        /\ s \in Writers /\ Ordered(s) /\ History
    BY SavedTypes, ServersAssumption DEF BaseInv, SessTypes, OrderInv
  <1>1. \A d \in Contents : born[d] > 0 => born'[d] = born[d]
    BY <1>0, SaveHistory
  <1>2. UNCHANGED pc
    BY StagesOfOthers DEF BaseInv
  <1>3. CASE (SaveSteps(w) \/ EndSave(w)) /\ UNCHANGED bvars
    <2>1. UNCHANGED shown
      BY <1>3 DEF SaveSteps, BeginSave, WriteTemp, EndSave
    <2>2. stage'[s] = "installed" => stage[s] = "installed" /\ saving'[s] = saving[s]
      BY <1>0, <1>3 DEF SaveSteps, BeginSave, WriteTemp, EndSave, W!CreateTemp, W!Serialize,
                        W!WriteFails, W!Return, W!ReturnUnremoved, W!Crash, W!Leave
    <2>3. stage[s] = "installed" => saving[s] \in Contents
      BY <1>0
    <2> QED BY <1>0, <1>1, <1>2, <2>1, <2>2, <2>3, OrderKept DEF Ordered
  <1>4. CASE Installs(w)
    <2>1. /\ stage[w] = "ready" /\ saving[w] \in Contents
          /\ Read(store') = saving[w]
      <3>1. temp[held[w]] # None /\ temp[held[w]].data = saving[w]
        BY <1>4, FilesTyped DEF BaseInv, DBTypes, Installs, Install, W!Install, W!ReadyWhole
      <3> QED BY <1>0, <1>4, <3>1 DEF Installs, Install, W!Install, Read
    <2>2. /\ born' = [born EXCEPT ![saving[w]] = installs + 1] /\ installs' = installs + 1
          /\ saving' = saving /\ stage' = [stage EXCEPT ![w] = "installed"]
      BY <1>4 DEF Installs, Install, W!Install
    <2>3. NoOlder(s, saving[w])'
      <3>1. \A d \in Contents : born'[d] <= installs + 1
        BY <1>0, <2>1, <2>2 DEF History
      <3>2. \A k \in DOMAIN replies[s] : replies[s][k].db \in Contents \cup {None}
        <4>1. replies[s] \in Seq(Encoded)
          BY <1>0 DEF SessTypes
        <4>2. \A k \in DOMAIN replies[s] : replies[s][k] \in Encoded
          BY <4>1
        <4> QED BY <4>2 DEF Encoded
      <3>3. born'[saving[w]] = installs + 1
        BY <1>0, <2>1, <2>2
      <3> QED BY <1>0, <2>2, <3>1, <3>2, <3>3 DEF NoOlder
    <2>4. shown'[s] = IF pc[s] = "idle" THEN shown[s] ELSE shown[s] \cup {saving[w]}
      BY <1>4, <2>1 DEF Installs, Install, Watch, Read
    <2>5. \A x \in shown'[s] \cap Contents : x \in shown[s] \/ NoOlder(s, x)'
      <3>1. ASSUME NEW x \in Contents, x = saving[w] PROVE NoOlder(s, x)'
        BY <2>2, <2>3, <3>1 DEF NoOlder
      <3> QED BY <2>4, <3>1
    <2>6. stage'[s] = "installed" => \/ /\ stage[s] = "installed" /\ saving'[s] = saving[s]
                                        /\ saving[s] \in Contents
                                     \/ NoOlder(s, saving[s])'
      <3>1. CASE s = w
        BY <2>3, <3>1
      <3>2. CASE s # w
        BY <1>0, <2>2, <3>2
      <3> QED BY <3>1, <3>2
    <2>7. pc'[s] = "idle" => shown'[s] = {}
      BY <1>0, <1>2, <2>4 DEF Ordered
    <2> QED BY <1>0, <1>1, <2>5, <2>6, <2>7, OrderKept
  <1> QED BY <1>3, <1>4

\* A step that installs nothing and tells nothing in other sessions than s's.
LEMMA OrderOfOthers ==
  ASSUME BaseInv, OrderInv, NEW s \in Servers, NEW t \in Servers \ {s}, UNCHANGED born,
         /\ replies'[t] = replies[t] /\ shown'[t] = shown[t] /\ pc'[t] = pc[t]
         /\ stage'[t] = stage[t] /\ saving'[t] = saving[t]
  PROVE  Ordered(t)'
  BY DEF OrderInv, Ordered, NoOlder

\* A reply from a server that leaves the store alone.
LEMMA TellStep ==
  ASSUME BaseInv, OrderInv, NEW s \in Servers, UNCHANGED <<wvars, bvars>>,
         NEW e \in Encoded, replies'[s] \in {replies[s], Append(replies[s], e)},
         e.db # None => NoOlder(s, e.db), shown'[s] = {}, stage[s] = "idle",
         \A t \in Servers \ {s} : /\ replies'[t] = replies[t] /\ shown'[t] = shown[t]
                                  /\ pc'[t] = pc[t]
  PROVE  OrderInv'
  <1>1. History'
    BY DEF OrderInv, History, wvars, bvars, Read
  <1>2. Ordered(s)'
    BY OrderTold DEF OrderInv, BaseInv, wvars, bvars
  <1>3. \A t \in Servers \ {s} : Ordered(t)'
    BY OrderOfOthers DEF wvars, bvars
  <1> QED BY <1>1, <1>2, <1>3 DEF OrderInv

LEMMA OrderStep ==
  BaseInv /\ AnswerWasOnDisk /\ RejectedTouchesNothing /\ OrderInv /\ [SNext]_allvars
     => OrderInv'
  <1> SUFFICES ASSUME BaseInv, AnswerWasOnDisk, RejectedTouchesNothing, OrderInv,
                      [SNext]_allvars
               PROVE OrderInv'
    OBVIOUS
  <1>0. /\ stage \in [Writers -> {"idle", "created", "ready", "installed", "failed"}]
        /\ saving \in [Writers -> Contents \cup {None}]
        /\ pc \in [Servers -> PC] /\ answer \in [Servers -> Contents \cup {None, Torn}]
        /\ shown \in [Servers -> SUBSET (Contents \cup {None, Torn})]
        /\ SessTypes /\ Servers \subseteq Writers /\ None \notin Contents
    BY SavedTypes, ServersAssumption, NoneAssumption DEF BaseInv
  <1>a. ASSUME NEW s \in Servers, cur[s] = None \/ cur[s].call = "direct" \/ cur[s].args = "refused"
        PROVE  pc[s] = "idle" /\ stage[s] = "idle" /\ shown[s] = {}
    <2> DEFINE Accepted(c) == [id : Ids, call : {c}, args : {"ok"}]
    <2>1. Accepted("read") \subseteq Request /\ Accepted("update") \subseteq Request
      BY DEF Request, Calls
    <2>2. pc[s] = "idle" /\ stage[s] = "idle"
      BY <1>a, <2>1, SessionAssumption DEF RejectedTouchesNothing
    <2> QED BY <2>2 DEF OrderInv, Ordered
  <1>1. CASE UNCHANGED allvars
    BY <1>1 DEF OrderInv, History, Ordered, NoOlder, Read, allvars, vars, wvars, cvars,
                svars, bvars
  <1>2. ASSUME NEW s \in Servers, Listen(s) PROVE OrderInv'
    <2>1. UNCHANGED <<vars, bvars>> /\ cur[s] = None
      BY <1>2 DEF Listen, Decode, DecodeFails, EndOfInput, Hears
    <2> DEFINE e == [id |-> None, error |-> TRUE, db |-> None, of |-> Len(heard[s]) + 1]
    <2>2. e \in Encoded /\ e.db = None
      BY <1>0 DEF Encoded, SessTypes
    <2>3. /\ replies'[s] \in {replies[s], Append(replies[s], e)}
          /\ \A t \in Servers \ {s} : replies'[t] = replies[t]
      BY <1>0, <1>2 DEF Listen, Decode, DecodeFails, EndOfInput, Answer, SessTypes
    <2> HIDE DEF e
    <2> QED BY <1>a, <2>1, <2>2, <2>3, TellStep DEF vars, cvars
  <1>3. ASSUME NEW s \in Servers, Direct(s) \/ UpdateFails(s) PROVE OrderInv'
    <2>1. UNCHANGED <<vars, bvars>> /\ cur[s] # None
      BY <1>3 DEF Direct, UpdateFails, Runs
    <2>2. pc[s] = "idle" /\ stage[s] = "idle" /\ shown[s] = {}
      BY <1>3, <1>a DEF Direct, UpdateFails, Runs, RejectedTouchesNothing, OrderInv, Ordered
    <2>3. \E error \in BOOLEAN : Encode(s, error, None)
      BY <1>3 DEF Direct, UpdateFails
    <2>4. PICK e \in Encoded : e.db = None /\ replies'[s] \in {replies[s], Append(replies[s], e)}
      BY <1>0, <2>1, <2>3, EncodeAppends
    <2>5. \A t \in Servers \ {s} : replies'[t] = replies[t]
      BY <1>0, <2>1, <2>3, EncodeAppends
    <2> QED BY <2>1, <2>2, <2>4, <2>5, TellStep DEF vars, cvars
  <1>4. ASSUME NEW s \in Servers, ReadEnds(s) PROVE OrderInv'
    <2>1. /\ UNCHANGED <<wvars, bvars>> /\ cur[s] # None /\ pc[s] = "reply" /\ shown'[s] = {}
          /\ \A t \in Servers \ {s} : shown'[t] = shown[t] /\ pc'[t] = pc[t]
      BY <1>0, <1>4 DEF ReadEnds, Runs, Answered
    <2>2. stage[s] = "idle"
      BY <1>4, <2>1 DEF RejectedTouchesNothing
    <2>3. PICK d \in Contents \cup {None} : /\ \E error \in BOOLEAN : Encode(s, error, d)
                                            /\ d # None => d = answer[s]
      BY <1>4 DEF ReadEnds
    <2>4. d # None => NoOlder(s, d)
      BY <1>0, <2>1, <2>3 DEF AnswerWasOnDisk, OrderInv, Ordered
    <2>5. PICK e \in Encoded : e.db = d /\ replies'[s] \in {replies[s], Append(replies[s], e)}
      BY <1>0, <2>1, <2>3, EncodeAppends
    <2>6. \A t \in Servers \ {s} : replies'[t] = replies[t]
      BY <1>0, <2>1, <2>3, EncodeAppends
    <2> QED BY <2>1, <2>2, <2>4, <2>5, <2>6, TellStep
  <1>5. ASSUME NEW s \in Servers, ReadStep(s) PROVE OrderInv'
    <2>1. UNCHANGED <<wvars, svars, bvars>>
      BY <1>5 DEF ReadStep, StatMissing, CacheHit, CacheMiss, LoadMissing, Load
    <2>2. History'
      BY <2>1 DEF OrderInv, History, wvars, bvars, Read
    <2>3. \A t \in Servers \ {s} : shown'[t] = shown[t] /\ pc'[t] = pc[t]
      BY <1>0, <1>5 DEF ReadStep, StatMissing, CacheHit, CacheMiss, LoadMissing, Load, Reply
    <2>4. pc'[s] # "idle" /\ (shown'[s] = shown[s] \/ shown'[s] = {Read(store)})
      BY <1>0, <1>5 DEF ReadStep, StatMissing, CacheHit, CacheMiss, LoadMissing, Load, Reply
    <2>5. ASSUME Read(store) \in Contents PROVE NoOlder(s, Read(store))'
      <3>1. replies[s] \in Seq(Encoded)
        BY <1>0 DEF SessTypes
      <3>2. \A k \in DOMAIN replies[s] : replies[s][k] \in Encoded
        BY <3>1
      <3>3. \A k \in DOMAIN replies[s] : replies[s][k].db \in Contents \cup {None}
        BY <3>2 DEF Encoded
      <3>4. NoOlder(s, Read(store))
        BY <2>5, <3>3 DEF OrderInv, History, NoOlder
      <3> QED BY <2>1, <3>4 DEF NoOlder, wvars, svars, bvars, Read
    <2>6. \A x \in shown'[s] \cap Contents : x \in shown[s] \/ NoOlder(s, x)'
      <3>1. ASSUME NEW x \in Contents, x = Read(store) PROVE NoOlder(s, x)'
        BY <2>1, <2>5, <3>1 DEF NoOlder, wvars, svars, bvars, Read
      <3> QED BY <2>4, <3>1
    <2>7. stage[s] # "installed"
      BY <1>5, <1>0 DEF ReadStep, Runs, RejectedTouchesNothing
    <2>8. Ordered(s)'
      BY <1>0, <2>1, <2>4, <2>6, <2>7, OrderKept DEF OrderInv, wvars, svars, bvars
    <2>9. \A t \in Servers \ {s} : Ordered(t)'
      BY <2>1, <2>3, OrderOfOthers DEF wvars, svars, bvars
    <2> QED BY <2>2, <2>8, <2>9 DEF OrderInv
  <1>6. ASSUME NEW w \in Writers, UNCHANGED svars,
               \/ (SaveSteps(w) \/ EndSave(w)) /\ UNCHANGED bvars
               \/ Installs(w)
        PROVE  OrderInv'
    <2>1. History'
      BY <1>6, SaveHistory DEF OrderInv
    <2>2. \A t \in Servers : Ordered(t)'
      BY <1>6, SaveOrdered DEF svars
    <2> QED BY <2>1, <2>2 DEF OrderInv
  <1>7. ASSUME NEW s \in Servers, UpdateStep(s) PROVE OrderInv'
    <2>1. s \in Writers
      BY <1>0
    <2>2. \/ (SaveSteps(s) \/ EndSave(s)) /\ UNCHANGED bvars
          \/ Installs(s)
      BY <1>7 DEF UpdateStep, EndSave
    <2> QED BY <1>6, <1>7, <2>1, <2>2 DEF UpdateStep
  <1>8. ASSUME NEW s \in Servers, UpdateEnds(s) PROVE OrderInv'
    <2>1. s \in Writers /\ EndSave(s) /\ UNCHANGED bvars /\ cur[s] # None
      BY <1>0, <1>8 DEF UpdateEnds, Runs
    <2>2. pc[s] = "idle" /\ shown'[s] = {}
      <3>1. pc[s] = "idle"
        BY <1>8 DEF UpdateEnds, Runs, RejectedTouchesNothing
      <3> QED BY <2>1, <3>1 DEF EndSave, OrderInv, Ordered
    <2>3. stage'[s] = "idle"
      BY <1>0, <1>8 DEF UpdateEnds, EndSave, W!WriteFails, W!Return, W!ReturnUnremoved, W!Leave
    <2>4. PICK d \in Contents \cup {None} : /\ \E error \in BOOLEAN : Encode(s, error, d)
                                            /\ d # None => stage[s] = "installed" /\ d = saving[s]
      BY <1>0, <1>8 DEF UpdateEnds
    <2>5. d # None => NoOlder(s, d)
      BY <2>4 DEF OrderInv, Ordered
    <2>6. PICK e \in Encoded : e.db = d /\ replies'[s] \in {replies[s], Append(replies[s], e)}
      BY <1>0, <2>1, <2>4, EncodeAppends
    <2>7. Ordered(s)'
      BY <1>0, <2>1, <2>2, <2>3, <2>5, <2>6, OrderTold DEF OrderInv, bvars
    <2>8. \A t \in Servers \ {s} : replies'[t] = replies[t]
      BY <1>0, <2>1, <2>4, EncodeAppends
    <2>9. \A t \in Servers \ {s} : Ordered(t)'
      BY <2>1, <2>8, SaveOrdered
    <2> QED BY <2>1, <2>7, <2>9, SaveHistory DEF OrderInv
  <1>9. ASSUME NEW s \in Servers, RestartSession(s) PROVE OrderInv'
    <2>1. UNCHANGED <<store, bvars>> /\ replies'[s] = <<>> /\ shown'[s] = {} /\ stage'[s] = "idle"
      BY <1>0, <1>9 DEF RestartSession, Restart, wvars, W!Crash, W!Leave, SessTypes
    <2>2. /\ \A v \in Writers \ {s} : stage'[v] = stage[v] /\ saving'[v] = saving[v]
          /\ saving'[s] = None \/ saving'[s] = saving[s]
      BY <1>0, <1>9 DEF RestartSession, Restart, wvars, W!Crash, W!Leave
    <2>3. \A t \in Servers \ {s} : /\ replies'[t] = replies[t] /\ shown'[t] = shown[t]
                                   /\ pc'[t] = pc[t]
      BY <1>0, <1>9 DEF RestartSession, Restart, SessTypes
    <2>4. History'
      BY <1>0, <2>1, <2>2 DEF OrderInv, History, bvars, Read
    <2>5. Ordered(s)'
      BY <2>1 DEF Ordered
    <2>6. \A t \in Servers \ {s} : Ordered(t)'
      BY <1>0, <2>1, <2>2, <2>3, OrderOfOthers DEF bvars
    <2> QED BY <2>4, <2>5, <2>6 DEF OrderInv
  <1>10. CASE (RemoveStore \/ DamageStore) /\ UNCHANGED <<svars, bvars>>
    <2>1. Read(store') \in {None, Torn} /\ Read(store') \notin Contents
      BY <1>10, NoneAssumption, TornAssumption DEF RemoveStore, DamageStore, Read
    <2>2. UNCHANGED <<stage, saving, pc, replies, bvars>>
      BY <1>10 DEF RemoveStore, DamageStore, cvars, svars
    <2>3. History'
      <3>1. Read(store)' = Read(store')
        BY DEF Read
      <3> QED BY <2>1, <2>2, <3>1 DEF OrderInv, History, bvars
    <2>4. ASSUME NEW t \in Servers PROVE Ordered(t)'
      <3>1. shown'[t] = IF pc[t] = "idle" THEN shown[t] ELSE shown[t] \cup {Read(store')}
        BY <1>10 DEF RemoveStore, DamageStore, Watch
      <3>2. \A x \in shown'[t] \cap Contents : x \in shown[t]
        BY <2>1, <3>1
      <3> QED BY <2>2, <3>1, <3>2 DEF OrderInv, Ordered, NoOlder, bvars
    <2> QED BY <2>3, <2>4 DEF OrderInv
  <1>11. CASE OthersStep
    BY <1>6, <1>10, <1>11 DEF OthersStep
  <1> QED
    BY <1>1, <1>2, <1>3, <1>4, <1>5, <1>7, <1>8, <1>9, <1>11 DEF SNext, Handle

\* The databases the replies of a session tell of never go back in time, and
\* a successful update_db is seen by every request after it (database,
\* toolUpdateDB).
THEOREM SessionInOrder == ~Coarse => (SSpec => []SessionMonotonic)
  <1> SUFFICES ASSUME ~Coarse PROVE SSpec => []SessionMonotonic
    OBVIOUS
  <1>1. SInit => OrderInv
    <2> SUFFICES ASSUME SInit PROVE OrderInv
      OBVIOUS
    <2>1. History
      BY DEF SInit, MInit, History
    <2>2. ASSUME NEW s \in Servers PROVE Ordered(s)
      <3>1. replies[s] = <<>> /\ shown[s] = {} /\ stage[s] = "idle"
        BY ServersAssumption DEF SInit, MInit
      <3> QED BY <3>1 DEF Ordered
    <2> QED BY <2>1, <2>2 DEF OrderInv
  <1>2. OrderInv => SessionMonotonic
    BY DEF OrderInv, Ordered, SessionMonotonic
  <1>3. SSpec => [](BaseInv /\ AnswerWasOnDisk /\ RejectedTouchesNothing)
    BY SessionBase, SessionRejects, SessionAnswersOnDisk, PTL
  <1> QED BY <1>1, <1>2, <1>3, OrderStep, PTL DEF SSpec
=============================================================================
