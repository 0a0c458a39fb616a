------------------------- MODULE WriteStore_proofs -------------------------
(***************************************************************************)
(* Proofs about WriteStore, for any number of writers, temporary names and *)
(* databases: the store is never torn, a call cleans up after itself, and  *)
(* writeStore implements AtomicStore.                                      *)
(***************************************************************************)
EXTENDS WriteStore, TLAPS

\* The inductive invariant.  StoreWhole alone is not inductive: Install copies
\* a temporary file, so it takes ReadyWhole (the file about to be renamed is
\* whole), which in turn takes HeldApart (no other call writes that file).
\* FilesInv, the part about temporary files, holds whatever is done to the
\* store from outside; McpDatabase_proofs uses it on its own.
FilesInv == /\ WTypeOK
            /\ StageHeld
            /\ HeldApart
            /\ ReadyWhole
            /\ OnlyLeaksRemain
WInv == FilesInv /\ StoreWhole

USE DEF Stage, Corrupt, Missing

\* WInv holds before any call, whatever whole database the store starts with.
THEOREM WInitInv == WInit => WInv
  BY NoneAssumption, TornAssumption
     DEF WInit, WInv, FilesInv, WTypeOK, StageHeld, HeldApart, ReadyWhole,
         StoreWhole, OnlyLeaksRemain, File

\* A new temporary file disturbs no call in progress: its name is fresh.
LEMMA CreateTempInv ==
  ASSUME FilesInv, NEW w \in Writers, NEW n \in TempNames, NEW d \in Contents,
         NEW m \in Stamps, CreateTemp(w, n, d, m)
  PROVE  FilesInv'
  <1> USE NoneAssumption, TornAssumption
  <1> USE DEF FilesInv, CreateTemp, FreshName
  <1>1. WTypeOK'
    BY DEF WTypeOK, File
  <1>2. StageHeld' /\ HeldApart'
    BY DEF WTypeOK, StageHeld, HeldApart
  <1>3. ReadyWhole'
    <2> SUFFICES ASSUME NEW v \in Writers, stage'[v] = "ready"
                 PROVE  /\ temp'[held'[v]] # None
                        /\ temp'[held'[v]].data = saving'[v]
      BY DEF ReadyWhole
    <2>1. v # w /\ stage[v] = "ready" /\ held[v] # n
      BY DEF WTypeOK
    <2> QED
      BY <2>1 DEF WTypeOK, ReadyWhole, StageHeld
  <1>4. OnlyLeaksRemain'
    BY DEF OnlyLeaksRemain, WTypeOK, StageHeld
  <1> QED
    BY <1>1, <1>2, <1>3, <1>4

\* Serialize writes only the file its own call holds.
LEMMA SerializeInv ==
  ASSUME FilesInv, NEW w \in Writers, NEW m \in Stamps, Serialize(w, m)
  PROVE  FilesInv'
  <1> USE NoneAssumption, TornAssumption
  <1> USE DEF FilesInv, Serialize
  <1>0. held[w] \in TempNames /\ saving[w] \in Contents
    BY DEF WTypeOK, StageHeld
  <1>1. WTypeOK'
    BY <1>0 DEF WTypeOK, File
  <1>2. StageHeld' /\ HeldApart'
    BY DEF WTypeOK, StageHeld, HeldApart
  <1>3. ReadyWhole'
    <2> SUFFICES ASSUME NEW v \in Writers, stage'[v] = "ready"
                 PROVE  /\ temp'[held'[v]] # None
                        /\ temp'[held'[v]].data = saving'[v]
      BY DEF ReadyWhole
    <2>1. CASE v = w
      BY <1>0, <2>1 DEF WTypeOK
    <2>2. CASE v # w
      <3>1. stage[v] = "ready" /\ held[v] # held[w]
        BY <2>2, <1>0 DEF WTypeOK, HeldApart
      <3> QED
        BY <3>1, <1>0 DEF WTypeOK, ReadyWhole
    <2> QED
      BY <2>1, <2>2
  <1>4. OnlyLeaksRemain'
    BY <1>0 DEF OnlyLeaksRemain, WTypeOK
  <1> QED
    BY <1>1, <1>2, <1>3, <1>4

\* Install puts a whole file in the store: the one its call serialized.
LEMMA InstallInv ==
  ASSUME FilesInv, NEW w \in Writers, Install(w)
  PROVE  FilesInv'
  <1> USE NoneAssumption, TornAssumption
  <1> USE DEF FilesInv, Install
  <1>0. /\ held[w] \in TempNames /\ saving[w] \in Contents
        /\ temp[held[w]] # None /\ temp[held[w]].data = saving[w]
    BY DEF WTypeOK, StageHeld, ReadyWhole
  <1>1. WTypeOK'
    BY <1>0 DEF WTypeOK
  <1>2. StageHeld' /\ HeldApart'
    BY DEF WTypeOK, StageHeld, HeldApart
  <1>3. ReadyWhole'
    <2> SUFFICES ASSUME NEW v \in Writers, stage'[v] = "ready"
                 PROVE  /\ temp'[held'[v]] # None
                        /\ temp'[held'[v]].data = saving'[v]
      BY DEF ReadyWhole
    <2>1. v # w /\ stage[v] = "ready" /\ held[v] # held[w]
      BY <1>0 DEF WTypeOK, HeldApart
    <2> QED
      BY <2>1 DEF WTypeOK, ReadyWhole, StageHeld
  <1>4. OnlyLeaksRemain'
    BY <1>0 DEF OnlyLeaksRemain, WTypeOK
  <1> QED
    BY <1>1, <1>2, <1>3, <1>4

\* An error changes no file.
LEMMA WriteFailsInv ==
  ASSUME FilesInv, NEW w \in Writers, WriteFails(w)
  PROVE  FilesInv'
  BY DEF FilesInv, WriteFails, WTypeOK, StageHeld, HeldApart, ReadyWhole,
         OnlyLeaksRemain

\* The deferred Remove takes away the file of its own call and no other.
LEMMA ReturnInv ==
  ASSUME FilesInv, NEW w \in Writers, Return(w)
  PROVE  FilesInv'
  <1> USE NoneAssumption, TornAssumption
  <1> USE DEF FilesInv, Return
  <1>0. held[w] \in TempNames
    BY DEF WTypeOK, StageHeld
  <1>1. WTypeOK'
    BY <1>0 DEF WTypeOK
  <1>2. StageHeld' /\ HeldApart'
    BY DEF WTypeOK, StageHeld, HeldApart
  <1>3. ReadyWhole'
    <2> SUFFICES ASSUME NEW v \in Writers, stage'[v] = "ready"
                 PROVE  /\ temp'[held'[v]] # None
                        /\ temp'[held'[v]].data = saving'[v]
      BY DEF ReadyWhole
    <2>1. v # w /\ stage[v] = "ready" /\ held[v] # held[w]
      BY <1>0 DEF WTypeOK, HeldApart
    <2> QED
      BY <2>1 DEF WTypeOK, ReadyWhole, StageHeld
  <1>4. OnlyLeaksRemain'
    BY <1>0 DEF OnlyLeaksRemain, WTypeOK
  <1> QED
    BY <1>1, <1>2, <1>3, <1>4

\* A crash changes no file, and what it leaves behind is recorded.
LEMMA LeaveInv ==
  ASSUME FilesInv, NEW w \in Writers, stage[w] # "idle", Leave(w)
  PROVE  FilesInv'
  <1> USE NoneAssumption, TornAssumption
  <1> USE DEF FilesInv, Leave
  <1>0. held[w] \in TempNames
    BY DEF WTypeOK, StageHeld
  <1>1. WTypeOK'
    BY <1>0 DEF WTypeOK
  <1>2. StageHeld' /\ HeldApart'
    BY DEF WTypeOK, StageHeld, HeldApart
  <1>3. ReadyWhole'
    BY DEF WTypeOK, ReadyWhole
  <1>4. OnlyLeaksRemain'
    BY <1>0 DEF OnlyLeaksRemain, WTypeOK
  <1> QED
    BY <1>1, <1>2, <1>3, <1>4

\* Every step of writeStore, by any process, preserves the invariant.
LEMMA FilesNextInv == FilesInv /\ [WNext]_wvars => FilesInv'
  <1> SUFFICES ASSUME FilesInv, [WNext]_wvars PROVE FilesInv'
    OBVIOUS
  <1>1. CASE UNCHANGED wvars
    BY <1>1 DEF wvars, FilesInv, WTypeOK, StageHeld, HeldApart, ReadyWhole,
                OnlyLeaksRemain
  <1>2. ASSUME NEW w \in Writers, NEW n \in TempNames, NEW d \in Contents,
               NEW m \in Stamps, CreateTemp(w, n, d, m)
        PROVE  FilesInv'
    BY <1>2, CreateTempInv
  <1>3. ASSUME NEW w \in Writers, NEW m \in Stamps, Serialize(w, m)
        PROVE  FilesInv'
    BY <1>3, SerializeInv
  <1>4. ASSUME NEW w \in Writers, Install(w) PROVE FilesInv'
    BY <1>4, InstallInv
  <1>5. ASSUME NEW w \in Writers, WriteFails(w) PROVE FilesInv'
    BY <1>5, WriteFailsInv
  <1>6. ASSUME NEW w \in Writers, Return(w) PROVE FilesInv'
    BY <1>6, ReturnInv
  <1>7. ASSUME NEW w \in Writers, ReturnUnremoved(w) \/ Crash(w) PROVE FilesInv'
    BY <1>7, LeaveInv DEF ReturnUnremoved, Crash
  <1> QED
    BY <1>1, <1>2, <1>3, <1>4, <1>5, <1>6, <1>7 DEF WNext

\* The store changes only when Install puts a whole file in it.
THEOREM WNextInv == WInv /\ [WNext]_wvars => WInv'
  <1> SUFFICES ASSUME WInv, [WNext]_wvars PROVE StoreWhole'
    BY FilesNextInv DEF WInv
  <1>1. CASE store' = store
    BY <1>1 DEF WInv, StoreWhole
  <1>2. ASSUME NEW w \in Writers, Install(w) PROVE StoreWhole'
    <2>1. temp[held[w]].data \in Contents
      BY <1>2 DEF WInv, FilesInv, Install, ReadyWhole, WTypeOK, StageHeld
    <2> QED
      BY <1>2, <2>1, TornAssumption DEF Install, StoreWhole
  <1>3. CASE store' # store
    BY <1>2, <1>3 DEF WNext, wvars, CreateTemp, Serialize, WriteFails, Return,
                      ReturnUnremoved, Crash, Leave
  <1> QED
    BY <1>1, <1>3

\* Names, stages and files agree throughout any number of calls of writeStore.
THEOREM WInvariant == WSpec => []WInv
  BY WInitInv, WNextInv, PTL DEF WSpec

\* Every variable of writeStore keeps its type.
THEOREM WTypeCorrect == WSpec => []WTypeOK
  BY WInvariant, PTL DEF WInv, FilesInv

\* No interleaving of calls, errors and kills ever leaves a truncated store
\* to be read back: the comment of writeStore, for any number of processes.
THEOREM StoreNeverTorn == WSpec => []StoreWhole
  BY WInvariant, PTL DEF WInv, FilesInv

\* Temporary files are removed by the call that made them, errors included.
THEOREM TempFilesRemoved == WSpec => []OnlyLeaksRemain
  BY WInvariant, PTL DEF WInv, FilesInv
-----------------------------------------------------------------------------
\* The refinement: the store and the calls that may still install start as
\* AtomicStore does.
LEMMA RefinesInit == WInit => A!AInit
  BY NoneAssumption DEF WInit, A!AInit, content, asked

\* Each step maps to Ask, Put, GiveUp or a stutter of AtomicStore.
LEMMA RefinesStep == WInv /\ [WNext]_wvars => [A!ANext]_(A!avars)
  <1> SUFFICES ASSUME WInv, [WNext]_wvars PROVE [A!ANext]_(A!avars)
    OBVIOUS
  <1> USE NoneAssumption
  <1> USE DEF A!avars, content, asked
  <1>1. CASE UNCHANGED wvars
    BY <1>1 DEF wvars
  <1>2. ASSUME NEW w \in Writers, NEW n \in TempNames, NEW d \in Contents,
               NEW m \in Stamps, CreateTemp(w, n, d, m)
        PROVE  A!Ask(w, d)
    BY <1>2 DEF CreateTemp, A!Ask, WInv, FilesInv, WTypeOK
  <1>3. ASSUME NEW w \in Writers, NEW m \in Stamps, Serialize(w, m)
        PROVE  UNCHANGED A!avars
    BY <1>3 DEF Serialize, WInv, FilesInv, WTypeOK
  <1>4. ASSUME NEW w \in Writers, Install(w) PROVE A!Put(w)
    BY <1>4 DEF Install, A!Put, WInv, FilesInv, WTypeOK, StageHeld, ReadyWhole
  <1>5. ASSUME NEW w \in Writers, WriteFails(w) PROVE A!GiveUp(w)
    BY <1>5 DEF WriteFails, A!GiveUp, WInv, FilesInv, WTypeOK, StageHeld
  <1>6. ASSUME NEW w \in Writers, Return(w) PROVE UNCHANGED A!avars
    BY <1>6 DEF Return, WInv, FilesInv, WTypeOK
  <1>7. ASSUME NEW w \in Writers, ReturnUnremoved(w) \/ Crash(w)
        PROVE  A!GiveUp(w) \/ UNCHANGED A!avars
    <2>1. CASE stage[w] \in {"created", "ready"}
      BY <1>7, <2>1 DEF ReturnUnremoved, Crash, Leave, A!GiveUp, WInv,
                        FilesInv, WTypeOK, StageHeld
    <2>2. CASE stage[w] \notin {"created", "ready"}
      BY <1>7, <2>2 DEF ReturnUnremoved, Crash, Leave, WInv, FilesInv, WTypeOK
    <2> QED
      BY <2>1, <2>2
  <1> QED
    BY <1>1, <1>2, <1>3, <1>4, <1>5, <1>6, <1>7 DEF WNext, A!ANext

\* writeStore implements AtomicStore: to its readers, a save is one step.
THEOREM StoreIsAtomic == WSpec => Atomic
  <1> QED
    BY WInvariant, RefinesInit, RefinesStep, PTL DEF WSpec, Atomic, A!ASpec
=============================================================================
