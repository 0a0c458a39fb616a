------------------------ MODULE McpDatabase_proofs ------------------------
(***************************************************************************)
(* Proofs about McpDatabase, for any number of servers, writers, files and *)
(* databases, on a file system that gives no two files the same mtime: a   *)
(* lookup is never answered from a superseded copy of the store.           *)
(***************************************************************************)
EXTENDS McpDatabase, TLAPS

P == INSTANCE WriteStore_proofs

\* About the temporary files, WriteStore_proofs' invariant; the store itself
\* may be damaged here.
MInv == /\ P!FilesInv
        /\ CTypeOK
        /\ StampsApart
        /\ KnownRetired
        /\ NowShown
        /\ CacheCoherent
        /\ AnswerWasOnDisk

\* What a lookup relies on, apart from the files.
CacheInv == StampsApart /\ KnownRetired /\ NowShown /\ CacheCoherent /\ AnswerWasOnDisk

\* The types alone, which do not depend on the mtimes the file system gives.
DBTypes == P!FilesInv /\ CTypeOK

USE DEF PC, Stamps, DBTypes

\* What WriteStore assumes of its constants.
LEMMA FilesAssumed ==
  /\ None \notin TempNames
  /\ None \notin Contents
  /\ None \notin [data : Contents \cup {Torn}, mtime : Stamps]
  /\ Torn \notin Contents /\ Torn # None
  BY NoneAssumption, TornAssumption, ClockAssumption

LEMMA FilesTyped == P!FilesInv <=> /\ W!WTypeOK /\ W!StageHeld /\ W!HeldApart
                                   /\ W!ReadyWhole /\ W!OnlyLeaksRemain
  BY DEF P!FilesInv, P!WTypeOK, P!StageHeld, P!HeldApart, P!ReadyWhole,
         P!OnlyLeaksRemain, P!File, P!Stage, W!WTypeOK, W!StageHeld, W!HeldApart,
         W!ReadyWhole, W!OnlyLeaksRemain, W!File, W!Stage

\* The steps of writeStore keep the invariant proved in WriteStore_proofs.
LEMMA FilesStep ==
  ASSUME P!FilesInv, NEW w \in Writers,
         \/ \E n \in TempNames, d \in Contents, m \in Stamps : W!CreateTemp(w, n, d, m)
         \/ \E m \in Stamps : W!Serialize(w, m)
         \/ W!Install(w)
         \/ W!WriteFails(w)
         \/ W!Return(w)
         \/ W!ReturnUnremoved(w)
         \/ W!Crash(w)
  PROVE  P!FilesInv'
  <1> USE FilesAssumed
  <1>1. ASSUME NEW n \in TempNames, NEW d \in Contents, NEW m \in Stamps,
               W!CreateTemp(w, n, d, m)
        PROVE  P!FilesInv'
    <2>1. P!CreateTemp(w, n, d, m)
      BY <1>1 DEF P!CreateTemp, P!FreshName, W!CreateTemp, W!FreshName
    <2> QED
      BY <2>1, P!CreateTempInv
  <1>2. ASSUME NEW m \in Stamps, W!Serialize(w, m) PROVE P!FilesInv'
    <2>1. P!Serialize(w, m)
      BY <1>2 DEF P!Serialize, W!Serialize
    <2> QED
      BY <2>1, P!SerializeInv
  <1>3. CASE W!Install(w)
    <2>1. P!Install(w)
      BY <1>3 DEF P!Install, W!Install
    <2> QED
      BY <2>1, P!InstallInv
  <1>4. CASE W!WriteFails(w)
    <2>1. P!WriteFails(w)
      BY <1>4 DEF P!WriteFails, W!WriteFails
    <2> QED
      BY <2>1, P!WriteFailsInv
  <1>5. CASE W!Return(w)
    <2>1. P!Return(w)
      BY <1>5 DEF P!Return, W!Return
    <2> QED
      BY <2>1, P!ReturnInv
  <1>6. CASE W!ReturnUnremoved(w) \/ W!Crash(w)
    <2>1. stage[w] # "idle" /\ P!Leave(w)
      BY <1>6 DEF P!Leave, W!ReturnUnremoved, W!Crash, W!Leave
    <2> QED
      BY <2>1, P!LeaveInv
  <1> QED
    BY <1>1, <1>2, <1>3, <1>4, <1>5, <1>6

\* A change of the store by someone else leaves the temporary files alone.
LEMMA FilesTampered ==
  ASSUME P!FilesInv, UNCHANGED <<temp, stage, held, saving, leaked>>,
         store' \in [data : Contents \cup {Torn}, mtime : Stamps] \cup {None}
  PROVE  P!FilesInv'
  BY DEF P!FilesInv, P!WTypeOK, P!StageHeld, P!HeldApart, P!ReadyWhole,
         P!OnlyLeaksRemain, P!File

\* At first no server knows an mtime and no file awaits its rename.
THEOREM MInitInv == MInit => MInv
  <1> SUFFICES ASSUME MInit PROVE MInv
    OBVIOUS
  <1> USE DEF MInit
  <1>1. P!FilesInv
    BY ClockAssumption, NoneAssumption
       DEF P!FilesInv, P!WTypeOK, P!StageHeld, P!HeldApart, P!ReadyWhole,
           P!OnlyLeaksRemain, P!File, P!Stage
  <1>2. CTypeOK
    BY ClockAssumption DEF CTypeOK
  <1>3. StampsApart /\ KnownRetired
    BY NoneAssumption DEF StampsApart, KnownRetired, Retired
  <1>4. NowShown /\ CacheCoherent /\ AnswerWasOnDisk
    BY DEF NowShown, CacheCoherent, AnswerWasOnDisk
  <1> QED
    BY <1>1, <1>2, <1>3, <1>4 DEF MInv

-----------------------------------------------------------------------------
\* The types of what Read returns and of the mtimes the invariant speaks of.
LEMMA Types ==
  ASSUME DBTypes
  PROVE  /\ clock \in Nat
         /\ Read(store) \in Contents \cup {None, Torn}
         /\ store # None => store.mtime \in Stamps
         /\ W!Readable => Read(store) \in Contents /\ Read(store) = store.data
         /\ \A w \in Writers : stage[w] = "ready" =>
               /\ held[w] \in TempNames
               /\ temp[held[w]] # None
               /\ Stamp(w) \in Nat
  BY FilesTyped, ClockAssumption
     DEF CTypeOK, Read, Stamp, W!WTypeOK, W!File, W!StageHeld, W!ReadyWhole, W!Readable

\* What a lookup or a restart leaves of the caches is typed.
LEMMA DatabaseCTypes ==
  ASSUME DBTypes, NEW s \in Servers, Database(s)
  PROVE  CTypeOK'
  <1> USE Types DEF CTypeOK
  <1>1. CASE StatMissing(s) BY <1>1 DEF StatMissing
  <1>2. CASE CacheHit(s) BY <1>2 DEF CacheHit, Reply
  <1>3. CASE CacheMiss(s) BY <1>3 DEF CacheMiss
  <1>4. CASE LoadMissing(s) BY <1>4 DEF LoadMissing, Reply
  <1>5. CASE Load(s) BY <1>5 DEF Load, Reply
  <1>6. CASE Answered(s) BY <1>6 DEF Answered
  <1>7. CASE Restart(s) BY <1>7 DEF Restart
  <1> QED
    BY <1>1, <1>2, <1>3, <1>4, <1>5, <1>6, <1>7 DEF Database

\* A restart may kill a call of writeStore.
LEMMA RestartFiles ==
  ASSUME P!FilesInv, NEW s \in Servers, Restart(s)
  PROVE  P!FilesInv'
  <1>1. CASE stage[s] = "idle"
    BY <1>1 DEF Restart, wvars, P!FilesInv, P!WTypeOK, P!StageHeld,
                P!HeldApart, P!ReadyWhole, P!OnlyLeaksRemain
  <1>2. CASE stage[s] # "idle"
    BY <1>2, FilesStep, ServersAssumption DEF Restart
  <1> QED
    BY <1>1, <1>2

\* The file a call renames into place is read as the database it saves.
LEMMA InstallReads ==
  ASSUME DBTypes, NEW w \in Writers, Install(w)
  PROVE  Read(store') \in Contents
  BY FilesTyped
     DEF Install, W!Install, Read, W!WTypeOK, W!StageHeld, W!ReadyWhole

LEMMA DBTypesStep == DBTypes /\ [MNext]_vars => DBTypes'
  <1> SUFFICES ASSUME DBTypes, [MNext]_vars PROVE DBTypes'
    OBVIOUS
  <1>1. ASSUME UNCHANGED wvars PROVE P!FilesInv'
    BY <1>1 DEF wvars, P!FilesInv, P!WTypeOK, P!StageHeld, P!HeldApart, P!ReadyWhole,
                P!OnlyLeaksRemain
  <1>2. CASE UNCHANGED vars
    BY <1>1, <1>2 DEF vars, cvars, CTypeOK
  <1>3. ASSUME NEW s \in Servers, Database(s) PROVE DBTypes'
    <2>1. CASE Restart(s)
      BY <2>1, <1>3, RestartFiles, DatabaseCTypes
    <2>2. CASE ~Restart(s)
      <3>1. UNCHANGED wvars
        BY <1>3, <2>2 DEF Database, StatMissing, CacheHit, CacheMiss, LoadMissing, Load, Answered
      <3> QED
        BY <1>1, <1>3, <3>1, DatabaseCTypes
    <2> QED
      BY <2>1, <2>2
  <1>4. ASSUME NEW w \in Writers, Save(w) PROVE DBTypes'
    <2>1. ASSUME NEW n \in TempNames, NEW d \in Contents, BeginSave(w, n, d) PROVE DBTypes'
      <3>1. P!FilesInv'
        BY <2>1, FilesStep DEF BeginSave, CTypeOK
      <3> QED
        BY <2>1, <3>1 DEF BeginSave, CTypeOK, cvars
    <2>2. CASE WriteTemp(w)
      <3>1. P!FilesInv'
        BY <2>2, FilesStep DEF WriteTemp, NextStamps
      <3> QED
        BY <2>2, <3>1 DEF WriteTemp, NextStamps, CTypeOK, cvars
    <2>3. CASE Install(w)
      <3>1. P!FilesInv'
        BY <2>3, FilesStep DEF Install
      <3>2. Read(store') \in Contents
        BY <2>3, InstallReads
      <3> QED
        BY <2>3, <3>1, <3>2 DEF Install, Watch, CTypeOK, cvars
    <2>4. CASE EndSave(w)
      <3>1. P!FilesInv'
        BY <2>4, FilesStep DEF EndSave
      <3> QED
        BY <2>4, <3>1 DEF EndSave, CTypeOK, cvars
    <2> QED
      BY <1>4, <2>1, <2>2, <2>3, <2>4 DEF Save
  <1>5. CASE RemoveStore \/ DamageStore
    <2>1. /\ UNCHANGED <<temp, stage, held, saving, leaked, cvars>>
          /\ Watch /\ clock' \in Stamps
          /\ store' \in [data : Contents \cup {Torn}, mtime : Stamps] \cup {None}
      BY <1>5 DEF RemoveStore, DamageStore, NextStamps, CTypeOK
    <2>2. Read(store') \in Contents \cup {None, Torn}
      BY <2>1 DEF Read
    <2>3. P!FilesInv'
      BY <2>1, FilesTampered
    <2> QED
      BY <2>1, <2>2, <2>3 DEF Watch, CTypeOK, cvars
  <1> QED
    BY <1>2, <1>3, <1>4, <1>5 DEF MNext

\* The files and the caches keep their types and the temporary files their
\* owners, also where two files may share an mtime and the store is damaged.
THEOREM DBTypesInvariant == MSpec => []DBTypes
  <1>1. MInit => DBTypes
    BY MInitInv DEF MInv
  <1> QED
    BY <1>1, DBTypesStep, PTL DEF MSpec

\* The variables of the files and of the servers keep their types.
THEOREM MTypeCorrect == MSpec => []MTypeOK
  <1>1. DBTypes => MTypeOK
    BY FilesTyped DEF MTypeOK
  <1> QED
    BY <1>1, DBTypesInvariant, PTL
-----------------------------------------------------------------------------
\* Lookups: no file changes, so mtimes stay retired; Load files what it reads
\* under an mtime no file yet to be installed bears.
LEMMA LookupInv ==
  ASSUME MInv, NEW s \in Servers, Database(s), ~Restart(s)
  PROVE  MInv'
  <1>0. UNCHANGED wvars /\ UNCHANGED clock
    BY DEF Database, StatMissing, CacheHit, CacheMiss, LoadMissing, Load, Answered
  <1>1. P!FilesInv'
    BY <1>0 DEF wvars, MInv, P!FilesInv, P!WTypeOK, P!StageHeld, P!HeldApart,
                P!ReadyWhole, P!OnlyLeaksRemain
  <1>2. CTypeOK'
    BY DatabaseCTypes DEF MInv
  <1>3. StampsApart' /\ \A m : Retired(m)' <=> Retired(m)
    BY <1>0 DEF wvars, MInv, StampsApart, Retired, Stamp
  <1>4. Read(store)' = Read(store) /\ store' = store
    BY <1>0 DEF wvars, Read
  <1> USE DEF MInv, CTypeOK
  <1>5. KnownRetired' /\ NowShown' /\ CacheCoherent' /\ AnswerWasOnDisk'
    <2> USE <1>3, <1>4 DEF KnownRetired, NowShown, CacheCoherent, AnswerWasOnDisk
    <2>1. CASE StatMissing(s)
      BY <2>1 DEF StatMissing
    <2>2. CASE CacheHit(s)
      <3>1. answer'[s] \in shown'[s]
        BY <2>2 DEF CacheHit, Reply, Read
      <3> QED
        BY <2>2, <3>1 DEF CacheHit, Reply
    <2>3. CASE CacheMiss(s)
      <3>1. Retired(seen'[s])
        BY <2>3 DEF CacheMiss, StampsApart
      <3> QED
        BY <2>3, <3>1 DEF CacheMiss
    <2>4. CASE LoadMissing(s)
      BY <2>4 DEF LoadMissing, Reply
    <2>5. CASE Load(s)
      <3>1. CASE W!Readable
        BY <2>5, <3>1, Types DEF Load, Reply
      <3>2. CASE ~W!Readable
        BY <2>5, <3>2 DEF Load, Reply
      <3> QED
        BY <3>1, <3>2
    <2>6. CASE Answered(s)
      BY <2>6 DEF Answered
    <2> QED
      BY <2>1, <2>2, <2>3, <2>4, <2>5, <2>6 DEF Database
  <1> QED
    BY <1>1, <1>2, <1>3, <1>5
-----------------------------------------------------------------------------
\* A step that installs nothing and readies no file keeps every mtime apart.
LEMMA NothingReadied ==
  ASSUME MInv, UNCHANGED <<store, clock>>,
         \A w \in Writers : stage'[w] = "ready" =>
            stage[w] = "ready" /\ temp'[held'[w]] = temp[held[w]]
  PROVE  StampsApart' /\ \A m : Retired(m) => Retired(m)'
  BY DEF MInv, StampsApart, Retired, Stamp

\* A step of writeStore that a lookup does not notice.
LEMMA Unnoticed ==
  ASSUME MInv, StampsApart', \A m : Retired(m) => Retired(m)',
         UNCHANGED <<store, cvars, shown>>
  PROVE  KnownRetired' /\ NowShown' /\ CacheCoherent' /\ AnswerWasOnDisk'
  BY DEF MInv, cvars, KnownRetired, NowShown, CacheCoherent, AnswerWasOnDisk, Read

\* A restarted server knows no mtime and owes no answer.
LEMMA RestartInv ==
  ASSUME MInv, NEW s \in Servers, Restart(s)
  PROVE  MInv'
  <1>1. P!FilesInv'
    BY RestartFiles DEF MInv
  <1>2. CTypeOK'
    BY DatabaseCTypes DEF Database, MInv
  <1>3. UNCHANGED <<store, clock>>
    BY DEF Restart, wvars, W!Crash, W!Leave
  <1>4. StampsApart' /\ \A m : Retired(m) => Retired(m)'
    <2>1. ASSUME NEW w \in Writers, stage'[w] = "ready"
          PROVE  stage[w] = "ready" /\ temp'[held'[w]] = temp[held[w]]
      BY <2>1, FilesTyped DEF MInv, Restart, wvars, W!Crash, W!Leave, W!WTypeOK
    <2> QED
      BY <1>3, <2>1, NothingReadied
  <1>5. KnownRetired' /\ NowShown' /\ CacheCoherent' /\ AnswerWasOnDisk'
    BY <1>3, <1>4 DEF MInv, CTypeOK, Restart, KnownRetired, NowShown, CacheCoherent,
                      AnswerWasOnDisk, Read
  <1> QED
    BY <1>1, <1>2, <1>4, <1>5 DEF MInv

\* Creating a temporary file, and giving up or returning, ready no file.
LEMMA BeginSaveInv ==
  ASSUME MInv, NEW w \in Writers, NEW n \in TempNames, NEW d \in Contents,
         BeginSave(w, n, d)
  PROVE  MInv'
  <1> USE DEF BeginSave
  <1>1. P!FilesInv'
    BY FilesStep DEF MInv, CTypeOK
  <1>2. CTypeOK'
    BY DEF MInv, CTypeOK, cvars
  <1>3. StampsApart' /\ \A m : Retired(m) => Retired(m)'
    <2>1. ASSUME NEW v \in Writers, stage'[v] = "ready"
          PROVE  stage[v] = "ready" /\ temp'[held'[v]] = temp[held[v]]
      <3>1. v # w /\ stage[v] = "ready" /\ held[v] # n /\ held'[v] = held[v]
        BY <2>1, FilesTyped DEF MInv, W!CreateTemp, W!FreshName, W!WTypeOK
      <3> QED
        BY <3>1, FilesTyped DEF MInv, W!CreateTemp, W!WTypeOK
    <2> QED
      BY <2>1, NothingReadied DEF W!CreateTemp
  <1>4. KnownRetired' /\ NowShown' /\ CacheCoherent' /\ AnswerWasOnDisk'
    BY <1>3, Unnoticed DEF W!CreateTemp
  <1> QED
    BY <1>1, <1>2, <1>3, <1>4 DEF MInv

LEMMA EndSaveInv ==
  ASSUME MInv, NEW w \in Writers, EndSave(w)
  PROVE  MInv'
  <1> USE DEF EndSave
  <1>1. P!FilesInv'
    BY FilesStep DEF MInv
  <1>2. CTypeOK'
    BY DEF MInv, CTypeOK, cvars
  <1>3. UNCHANGED store
    BY DEF W!WriteFails, W!Return, W!ReturnUnremoved, W!Crash, W!Leave
  <1>4. StampsApart' /\ \A m : Retired(m) => Retired(m)'
    <2>1. ASSUME NEW v \in Writers, stage'[v] = "ready"
          PROVE  stage[v] = "ready" /\ temp'[held'[v]] = temp[held[v]]
      <3>1. v # w /\ stage[v] = "ready" /\ held'[v] = held[v]
        BY <2>1, FilesTyped
           DEF MInv, W!WriteFails, W!Return, W!ReturnUnremoved, W!Crash, W!Leave,
               W!WTypeOK
      <3>2. CASE W!Return(w)
        <4>1. held[v] # held[w]
          BY <3>1, <3>2, FilesTyped
             DEF MInv, W!HeldApart, W!StageHeld, W!Return
        <4> QED
          BY <3>1, <3>2, <4>1, FilesTyped DEF MInv, W!Return, W!WTypeOK
      <3>3. CASE ~W!Return(w)
        BY <3>1, <3>3 DEF W!WriteFails, W!ReturnUnremoved, W!Crash, W!Leave
      <3> QED
        BY <3>2, <3>3
    <2> QED
      BY <1>3, <2>1, NothingReadied
  <1>5. KnownRetired' /\ NowShown' /\ CacheCoherent' /\ AnswerWasOnDisk'
    BY <1>3, <1>4, Unnoticed
  <1> QED
    BY <1>1, <1>2, <1>4, <1>5 DEF MInv

\* A file is readied under an mtime newer than any other: no one knows it.
LEMMA WriteTempInv ==
  ASSUME MInv, ~Coarse, NEW w \in Writers, WriteTemp(w)
  PROVE  MInv'
  <1>1. PICK m \in Stamps : W!Serialize(w, m) /\ m = clock + 1 /\ clock' = m
    BY DEF WriteTemp, NextStamps
  <1>2. UNCHANGED <<store, cvars, shown>>
    BY <1>1 DEF WriteTemp, W!Serialize
  <1>3. P!FilesInv'
    BY <1>1, FilesStep DEF MInv
  <1>4. CTypeOK'
    BY <1>1, <1>2 DEF MInv, CTypeOK, cvars
  <1>5. \A v \in Writers : stage'[v] = "ready" =>
           \/ v = w /\ Stamp(v)' = clock + 1
           \/ v # w /\ stage[v] = "ready" /\ Stamp(v)' = Stamp(v)
    <2> SUFFICES ASSUME NEW v \in Writers, stage'[v] = "ready"
                 PROVE  \/ v = w /\ Stamp(v)' = clock + 1
                        \/ v # w /\ stage[v] = "ready" /\ Stamp(v)' = Stamp(v)
      OBVIOUS
    <2>0. held[w] \in TempNames /\ temp \in [TempNames -> W!File \cup {None}]
      BY <1>1, FilesTyped DEF MInv, W!WTypeOK, W!StageHeld, W!Serialize
    <2>1. CASE v = w
      BY <1>1, <2>0, <2>1 DEF W!Serialize, Stamp
    <2>2. CASE v # w
      <3>1. stage[v] = "ready" /\ held[v] # held[w]
        BY <1>1, <2>0, <2>2, FilesTyped, FilesAssumed
           DEF MInv, W!WTypeOK, W!HeldApart, W!Serialize
      <3> QED
        BY <1>1, <2>0, <2>2, <3>1 DEF W!Serialize, Stamp
    <2> QED
      BY <2>1, <2>2
  <1>6. StampsApart' /\ \A k : Retired(k) => Retired(k)'
    BY <1>1, <1>2, <1>5, Types DEF MInv, StampsApart, Retired
  <1>7. KnownRetired' /\ NowShown' /\ CacheCoherent' /\ AnswerWasOnDisk'
    BY <1>2, <1>6, Unnoticed
  <1> QED
    BY <1>3, <1>4, <1>6, <1>7 DEF MInv
\* A store nobody knows the mtime of: a cached database cannot be taken for it,
\* and who is in a call has been shown it.
LEMMA StoreChanged ==
  ASSUME MInv, Watch, UNCHANGED cvars, StampsApart',
         \A m : Retired(m) => Retired(m)',
         \A m : Retired(m) /\ store' # None => store'.mtime # m
  PROVE  KnownRetired' /\ NowShown' /\ CacheCoherent' /\ AnswerWasOnDisk'
  <1>1. KnownRetired'
    BY DEF MInv, cvars, KnownRetired
  <1>2. NowShown' /\ AnswerWasOnDisk'
    BY DEF MInv, CTypeOK, cvars, Watch, NowShown, AnswerWasOnDisk, Read
  <1>3. CacheCoherent'
    BY DEF MInv, cvars, KnownRetired, CacheCoherent
  <1> QED
    BY <1>1, <1>2, <1>3

LEMMA MInstallInv ==
  ASSUME MInv, NEW w \in Writers, Install(w)
  PROVE  MInv'
  <1>1. W!Install(w) /\ Watch /\ UNCHANGED <<clock, cvars>>
    BY DEF Install
  <1>2. P!FilesInv'
    BY <1>1, FilesStep DEF MInv
  <1>3. /\ stage[w] = "ready" /\ held[w] \in TempNames /\ temp[held[w]] # None
        /\ store' = temp[held[w]] /\ store'.mtime = Stamp(w)
        /\ Stamp(w) \in Nat /\ Stamp(w) <= clock /\ Read(store') = saving[w]
        /\ saving[w] \in Contents
    BY <1>1, Types, FilesTyped
       DEF W!Install, MInv, StampsApart, Stamp, Read, W!WTypeOK, W!StageHeld,
           W!ReadyWhole
  <1>4. CTypeOK'
    BY <1>1, <1>3 DEF MInv, CTypeOK, cvars, Watch
  <1>5. \A v \in Writers : stage'[v] = "ready" =>
           v # w /\ stage[v] = "ready" /\ Stamp(v)' = Stamp(v)
    <2> SUFFICES ASSUME NEW v \in Writers, stage'[v] = "ready"
                 PROVE  v # w /\ stage[v] = "ready" /\ Stamp(v)' = Stamp(v)
      OBVIOUS
    <2>1. v # w /\ stage[v] = "ready" /\ held[v] # held[w]
      BY <1>1, <1>3, FilesTyped, FilesAssumed
         DEF MInv, W!WTypeOK, W!HeldApart, W!Install
    <2> QED
      BY <1>1, <1>3, <2>1, FilesTyped DEF MInv, W!WTypeOK, W!Install, Stamp
  <1>6. StampsApart' /\ \A m : Retired(m) => Retired(m)'
    BY <1>1, <1>3, <1>5 DEF MInv, StampsApart, Retired
  <1>7. \A m : Retired(m) => store'.mtime # m
    BY <1>3 DEF Retired
  <1>8. KnownRetired' /\ NowShown' /\ CacheCoherent' /\ AnswerWasOnDisk'
    BY <1>1, <1>6, <1>7, StoreChanged
  <1> QED
    BY <1>2, <1>4, <1>6, <1>8 DEF MInv

LEMMA TamperInv ==
  ASSUME MInv, ~Coarse, RemoveStore \/ DamageStore
  PROVE  MInv'
  <1>1. Watch /\ UNCHANGED <<temp, stage, held, saving, leaked, cvars>>
    BY DEF RemoveStore, DamageStore
  <1>2. \/ store' = None /\ clock' = clock
        \/ /\ clock' = clock + 1 /\ clock + 1 \in Stamps
           /\ store' = [data |-> Torn, mtime |-> clock + 1]
    BY DEF RemoveStore, DamageStore, NextStamps
  <1>3. P!FilesInv'
    BY <1>1, <1>2, FilesTampered DEF MInv
  <1>4. CTypeOK'
    BY <1>1, <1>2 DEF MInv, CTypeOK, cvars, Watch, Read
  <1>5. StampsApart' /\ \A m : Retired(m) => Retired(m)'
    BY <1>1, <1>2, Types DEF MInv, StampsApart, Retired, Stamp
  <1>6. \A m : Retired(m) /\ store' # None => store'.mtime # m
    BY <1>2, Types DEF MInv, Retired
  <1>7. KnownRetired' /\ NowShown' /\ CacheCoherent' /\ AnswerWasOnDisk'
    BY <1>1, <1>5, <1>6, StoreChanged
  <1> QED
    BY <1>3, <1>4, <1>5, <1>7 DEF MInv
-----------------------------------------------------------------------------
\* If no two files share an mtime, no stat, load, rename or restart lets a cache
\* vouch for a file it was not read from (database, writeStore).
THEOREM MNextInv == ~Coarse /\ MInv /\ [MNext]_vars => MInv'
  <1> SUFFICES ASSUME ~Coarse, MInv, [MNext]_vars PROVE MInv'
    OBVIOUS
  <1>1. CASE UNCHANGED vars
    BY <1>1 DEF vars, wvars, cvars, MInv, P!FilesInv, P!WTypeOK, P!StageHeld,
                P!HeldApart, P!ReadyWhole, P!OnlyLeaksRemain, CTypeOK, StampsApart,
                KnownRetired, Retired, Stamp, NowShown, Read, CacheCoherent,
                AnswerWasOnDisk
  <1>2. ASSUME NEW s \in Servers, Database(s) PROVE MInv'
    BY <1>2, LookupInv, RestartInv
  <1>3. ASSUME NEW w \in Writers, Save(w) PROVE MInv'
    BY <1>3, BeginSaveInv, WriteTempInv, MInstallInv, EndSaveInv DEF Save
  <1>4. CASE RemoveStore \/ DamageStore
    BY <1>4, TamperInv
  <1> QED
    BY <1>1, <1>2, <1>3, <1>4 DEF MNext

\* So it holds throughout, whoever writes the store.
THEOREM MInvariant == ~Coarse => (MSpec => []MInv)
  <1> SUFFICES ASSUME ~Coarse PROVE MSpec => []MInv
    OBVIOUS
  <1>1. MInv /\ [MNext]_vars => MInv'
    BY MNextInv
  <1> QED
    BY <1>1, MInitInv, PTL DEF MSpec

\* If no two files get the same mtime, a lookup of any server answers from what
\* the store held at some moment of the call, whoever updates it meanwhile.
THEOREM NeverSuperseded == ~Coarse => (MSpec => []AnswerWasOnDisk)
  <1>1. MInv => AnswerWasOnDisk
    BY DEF MInv
  <1> QED
    BY <1>1, MInvariant, PTL

\* And an mtime that agrees with the cache vouches for the cached database.
THEOREM MtimeVouches == ~Coarse => (MSpec => []CacheCoherent)
  <1>1. MInv => CacheCoherent
    BY DEF MInv
  <1> QED
    BY <1>1, MInvariant, PTL
-----------------------------------------------------------------------------
\* Where nobody tampers with the store, its files are touched by writeStore's
\* system calls alone.
LEMMA FilesOnlyWritten ==
  ASSUME ~Tampering, DBTypes, [MNext]_vars
  PROVE  [P!WNext]_(P!wvars)
  <1> DEFINE ByWriter(w) == \/ \E n \in TempNames, d \in Contents, m \in Stamps :
                                  P!CreateTemp(w, n, d, m)
                            \/ \E m \in Stamps : P!Serialize(w, m)
                            \/ P!Install(w) \/ P!WriteFails(w) \/ P!Return(w)
                            \/ P!ReturnUnremoved(w) \/ P!Crash(w)
  <1>1. CASE UNCHANGED wvars
    BY <1>1 DEF wvars, P!wvars
  <1>2. ASSUME NEW w \in Writers, Save(w) PROVE ByWriter(w)
    <2>1. ASSUME NEW n \in TempNames, NEW d \in Contents, BeginSave(w, n, d)
          PROVE  P!CreateTemp(w, n, d, clock)
      BY <2>1 DEF BeginSave, W!CreateTemp, W!FreshName, P!CreateTemp, P!FreshName
    <2>2. ASSUME WriteTemp(w) PROVE \E m \in Stamps : P!Serialize(w, m)
      BY <2>2 DEF WriteTemp, NextStamps, W!Serialize, P!Serialize
    <2>3. ASSUME Install(w) PROVE P!Install(w)
      BY <2>3 DEF Install, W!Install, P!Install
    <2>4. ASSUME EndSave(w)
          PROVE  P!WriteFails(w) \/ P!Return(w) \/ P!ReturnUnremoved(w) \/ P!Crash(w)
      BY <2>4 DEF EndSave, W!WriteFails, W!Return, W!ReturnUnremoved, W!Crash, W!Leave,
                  W!MayLeak, W!Cardinality, P!WriteFails, P!Return, P!ReturnUnremoved,
                  P!Crash, P!Leave, P!MayLeak, P!Cardinality
    <2> QED
      BY <1>2, <2>1, <2>2, <2>3, <2>4 DEF Save, CTypeOK
  <1>3. ASSUME NEW s \in Servers, Database(s) PROVE UNCHANGED wvars \/ P!Crash(s)
    BY <1>3 DEF Database, StatMissing, CacheHit, CacheMiss, LoadMissing, Load, Answered,
                Restart, W!Crash, W!Leave, W!MayLeak, W!Cardinality, P!Crash, P!Leave,
                P!MayLeak, P!Cardinality
  <1> QED
    BY <1>1, <1>2, <1>3, ServersAssumption DEF MNext, RemoveStore, DamageStore, vars, P!WNext

\* The system of servers and other processes, with their caches and restarts,
\* does to the files what WriteStore allows and nothing else, whatever mtimes
\* the file system gives them (P is WriteStore with its theorems).
THEOREM DatabaseUsesWriteStore == ~Tampering => (MSpec => P!WSpec)
  <1> SUFFICES ASSUME ~Tampering PROVE MSpec => P!WSpec
    OBVIOUS
  <1>1. MInit => P!WInit
    BY ClockAssumption DEF MInit, P!WInit
  <1>2. DBTypes /\ [MNext]_vars => [P!WNext]_(P!wvars)
    BY FilesOnlyWritten
  <1> QED
    BY <1>1, <1>2, DBTypesInvariant, PTL DEF MSpec, P!WSpec

\* AtomicStore is the same one for WriteStore and for its theorems.
LEMMA SameAtomic == P!Atomic => W!Atomic
  <1>1. P!A!AInit => W!A!AInit
    BY DEF P!A!AInit, W!A!AInit, P!content, W!content, P!asked, W!asked, P!Missing, W!Missing
  <1>2. [P!A!ANext]_(P!A!avars) => [W!A!ANext]_(W!A!avars)
    <2>1. P!content = W!content /\ P!asked = W!asked
      BY DEF P!content, W!content, P!asked, W!asked, P!Missing, W!Missing
    <2>2. (P!content)' = (W!content)' /\ (P!asked)' = (W!asked)'
      BY DEF P!content, W!content, P!asked, W!asked, P!Missing, W!Missing
    <2> QED
      BY <2>1, <2>2 DEF P!A!ANext, W!A!ANext, P!A!avars, W!A!avars, P!A!Ask, W!A!Ask,
                        P!A!Put, W!A!Put, P!A!GiveUp, W!A!GiveUp
  <1> QED
    BY <1>1, <1>2, PTL DEF P!Atomic, W!Atomic, P!A!ASpec, W!A!ASpec

\* So AtomicStore is what a server and everyone who saves see of the store: a
\* whole database, replaced in one step by one that somebody was asked to save.
THEOREM DatabaseIsAtomic == ~Tampering => (MSpec => W!Atomic)
  BY DatabaseUsesWriteStore, P!StoreIsAtomic, FilesAssumed, SameAtomic, PTL
=============================================================================
