---------------------------- MODULE EngineProofs ----------------------------
(* Theorems about the engine, for every set of drives, threads and bounds. *)
EXTENDS EngineProperties, TLAPS

USE ManagerAssumption, EngineAssumption

-----------------------------------------------------------------------------
(* Types *)

LEMMA IdleTypes ==
    /\ IdleWorker \in Worker
    /\ IdleCompactor \in CompactorLocals
    /\ EmptyImage \in Image
BY DEF IdleWorker, Worker, WorkerPCs, IdleCompactor, CompactorLocals,
       CompactorPCs, EmptyImage, Image

LEMMA EngineAtType ==
    ASSUME NEW pc \in EnginePCs, NEW n \in Nat \ {0}
    PROVE  EngineAt(pc, n) \in EngineLocals
BY DEF EngineAt, EngineLocals, NoInfo, JournalInfo

LEMMA PersistedType ==
    ASSUME NEW i \in Image
    PROVE  Persisted(i) \in Image
BY DEF Persisted, Image

LEMMA FoldedType ==
    ASSUME NEW i \in Image
    PROVE  Folded(i) \in Image
BY DEF Folded, Reflects, Image

LEMMA RelevantType ==
    ASSUME NEW a \in Nat, NEW b \in Int
    PROVE  Relevant(a, b) \subseteq Nat
BY DEF Relevant

LEMMA CheckedType ==
    ASSUME NEW i \in Image, NEW j \in JournalInfo
    PROVE  CheckedImage(i, j) \in Image
<1>1. Relevant(i.cursor, j.next - 1) \subseteq Nat
  BY RelevantType DEF Image, JournalInfo
<1> QED BY <1>1 DEF CheckedImage, Image, JournalInfo

LEMMA NextDriveType ==
    ASSUME TypeOK, NextDrive
    PROVE  engine' \in EngineLocals
<1>1. engine.at \in Nat \ {0}
  BY DEF TypeOK, EngineLocals
<1>2. PICK n \in Nat \ {0} : engine' = EngineAt("poll", n)
  BY <1>1 DEF NextDrive
<1> QED BY <1>2, EngineAtType DEF EnginePCs

LEMMA WorkerTypes ==
    ASSUME TypeOK, NEW t \in Threads, Build(t)
    PROVE  worker' \in [Threads -> Worker] /\ cache' \in [Drives -> SUBSET Image]
<1> DEFINE w == worker[t]
<1>0. /\ w \in Worker /\ w.pc \in WorkerPCs /\ w.drive \in Drives
      /\ w.from \in Nat /\ w.image \in Image
      /\ worker \in [Threads -> Worker]
      /\ cache \in [Drives -> SUBSET Image]
      /\ journal[w.drive] \in JournalInfo
  BY DEF TypeOK, Worker
<1>w. ASSUME NEW pc \in WorkerPCs, NEW from \in Nat, NEW image \in Image,
             NEW d \in Drives
      PROVE  [pc |-> pc, drive |-> d, from |-> from, image |-> image] \in Worker
  BY DEF Worker
<1>s. ASSUME NEW pc \in WorkerPCs, Step(t, pc)
      PROVE  worker' \in [Threads -> Worker]
  BY <1>0, <1>s DEF Step, Worker
<1>i. ASSUME NEW v \in [Threads -> Worker], NEW i \in Image
      PROVE  [v EXCEPT ![t].image = i] \in [Threads -> Worker]
  BY DEF Worker
<1>1. CASE ReadCache(t)
  <2>1. cache' \in [Drives -> SUBSET Image]
    BY <1>1, <1>0 DEF ReadCache
  <2>2. CASE Step(t, "scan")
    BY <1>s, <2>1, <2>2 DEF WorkerPCs
  <2>3. CASE \E i \in cache[w.drive] :
               worker' = [worker EXCEPT ![t].pc = "check", ![t].image = i]
    <3>1. PICK i \in cache[w.drive] :
               worker' = [worker EXCEPT ![t].pc = "check", ![t].image = i]
      BY <2>3
    <3>2. i \in Image
      BY <1>0
    <3> QED BY <1>0, <2>1, <3>1, <3>2 DEF Worker, WorkerPCs
  <2> QED BY <1>1, <2>2, <2>3 DEF ReadCache
<1>2. CASE CheckCache(t)
  <2>1. CheckedImage(w.image, journal[w.drive]) \in Image
    BY <1>0, CheckedType
  <2>2. cache' = cache
    BY <1>2 DEF CheckCache
  <2>3. CASE Step(t, "install")
    BY <1>0, <1>s, <2>2, <2>3 DEF WorkerPCs
  <2>4. CASE worker' = [worker EXCEPT ![t].pc = "install",
                 ![t].image = CheckedImage(w.image, journal[w.drive])]
    BY <1>0, <2>1, <2>2, <2>4 DEF Worker, WorkerPCs
  <2>5. CASE worker' = [worker EXCEPT ![t].pc = "scan", ![t].image = EmptyImage]
    BY <1>0, <2>2, <2>5, IdleTypes DEF Worker, WorkerPCs
  <2> QED BY <1>2, <2>3, <2>4, <2>5 DEF CheckCache
<1>3. CASE BeginScan(t)
  BY <1>3, <1>0 DEF BeginScan, JournalInfo, Worker, WorkerPCs
<1>4. CASE EndScan(t)
  <2>1. PICK seen \in SUBSET Relevant(w.from, journal[w.drive].next - 1) :
          worker' = [worker EXCEPT ![t].pc = "head",
                       ![t].image.base = Relevant(1, w.from - 1) \cup seen]
    BY <1>4 DEF EndScan
  <2> DEFINE b == Relevant(1, w.from - 1) \cup seen
  <2>2. b \subseteq Nat
    BY <1>0, RelevantType DEF JournalInfo
  <2>3. [w.image EXCEPT !.base = b] \in Image
    BY <1>0, <2>2 DEF Image
  <2>4. worker' = [worker EXCEPT ![t] = [w EXCEPT !.pc = "head",
                       !.image = [w.image EXCEPT !.base = b]]]
    BY <1>0, <2>1 DEF Worker
  <2> QED BY <1>0, <1>4, <2>3, <2>4 DEF EndScan, Worker, WorkerPCs
<1>5. CASE QueryHead(t)
  <2> DEFINE j == journal[w.drive]
             l == Relevant(1, j.next - 1) \ w.image.base
             asked == [worker EXCEPT ![t].pc = "persist", ![t].from = 0]
             placed == [asked EXCEPT ![t].image.cursor = j.next]
             named == [placed EXCEPT ![t].image.jid = j.id]
  <2>1. l \subseteq Nat /\ j.next \in Nat /\ j.id \in Nat
    BY <1>0, RelevantType DEF JournalInfo
  <2>2. asked \in [Threads -> Worker]
    BY <1>0 DEF Worker, WorkerPCs
  <2>3. placed \in [Threads -> Worker]
    <3> HIDE DEF asked
    <3>1. [asked[t].image EXCEPT !.cursor = j.next] \in Image
      BY <2>1, <2>2 DEF Worker, Image
    <3> QED BY <1>i, <3>1, <2>2
  <2>4. named \in [Threads -> Worker]
    <3> HIDE DEF placed
    <3>1. [placed[t].image EXCEPT !.jid = j.id] \in Image
      BY <2>1, <2>3 DEF Worker, Image
    <3> QED BY <1>i, <3>1, <2>3
  <2>5. [named EXCEPT ![t].image.lost = l] \in [Threads -> Worker]
    <3> HIDE DEF named, l
    <3>1. [named[t].image EXCEPT !.lost = l] \in Image
      BY <2>1, <2>4 DEF Worker, Image
    <3> QED BY <1>i, <3>1, <2>4
  <2>6. worker' = asked \/ worker' = [named EXCEPT ![t].image.lost = l]
    BY <1>5 DEF QueryHead
  <2>7. cache' = cache
    BY <1>5 DEF QueryHead
  <2> QED BY <1>0, <2>2, <2>5, <2>6, <2>7
<1>6. CASE PersistBuilt(t)
  <2>1. Persisted(w.image) \in Image
    BY <1>0, PersistedType
  <2>2. cache' \in [Drives -> SUBSET Image]
    BY <1>0, <1>6, <2>1 DEF PersistBuilt
  <2> QED BY <1>s, <1>6, <2>2 DEF PersistBuilt, WorkerPCs
<1>7. CASE InstallBuilt(t)
  BY <1>0, <1>7, IdleTypes DEF InstallBuilt, Worker, WorkerPCs
<1>8. CASE BuildFails(t)
  BY <1>0, <1>8, IdleTypes DEF BuildFails, Worker, WorkerPCs
<1> QED BY <1>1, <1>2, <1>3, <1>4, <1>5, <1>6, <1>7, <1>8 DEF Build

(* What each group of actions does to the manager's four variables.         *)
LEMMA ManagerTypes ==
    ASSUME ManagerTypeOK, NEW d \in Drives
    PROVE  /\ \A i \in Image : Install(d, i) => ManagerTypeOK'
           /\ Remove(d) => ManagerTypeOK'
           /\ \A i \in Image : CommitCompact(d, i) => ManagerTypeOK'
           /\ \A events, skipped \in SUBSET Nat : \A next, jid \in Nat :
                Apply(d, events, next, jid, skipped) => ManagerTypeOK'
<1>0. /\ index \in [Drives -> Image] /\ index[d] \in Image
      /\ revision \in [Drives -> Nat]
      /\ place \in [Drives -> Nat]
      /\ generation \in Nat
  BY DEF ManagerTypeOK
<1>1. ASSUME NEW i \in Image, Install(d, i)
      PROVE  ManagerTypeOK'
  BY <1>0, <1>1 DEF Install, BumpGeneration, ManagerTypeOK
<1>2. ASSUME Remove(d)
      PROVE  ManagerTypeOK'
  <2>1. CASE Loaded(d)
    <3>1. EmptyImage \in Image
      BY IdleTypes
    <3>2. index' = [index EXCEPT ![d] = EmptyImage]
      BY <1>2, <2>1 DEF Remove
    <3>3. revision' = [revision EXCEPT ![d] = 0] /\ place' = [place EXCEPT ![d] = 0]
      BY <1>2, <2>1 DEF Remove
    <3>4. generation' = generation + 1
      BY <1>2, <2>1 DEF Remove, BumpGeneration
    <3> QED BY <1>0, <3>1, <3>2, <3>3, <3>4 DEF ManagerTypeOK
  <2>2. CASE ~Loaded(d)
    BY <1>0, <1>2, <2>2 DEF Remove, ManagerTypeOK, managerVars
  <2> QED BY <2>1, <2>2
<1>3. ASSUME NEW i \in Image, CommitCompact(d, i)
      PROVE  ManagerTypeOK'
  BY <1>0, <1>3 DEF CommitCompact, BumpGeneration, ManagerTypeOK
<1>4. ASSUME NEW events \in SUBSET Nat, NEW skipped \in SUBSET Nat,
             NEW next \in Nat, NEW jid \in Nat,
             Apply(d, events, next, jid, skipped)
      PROVE  ManagerTypeOK'
  <2>1. CASE Loaded(d)
    <3> DEFINE n == AfterBatch(index[d], events, next, jid, skipped)
    <3>1. n \in Image
      BY <1>0 DEF AfterBatch, Image
    <3>2. index' = [index EXCEPT ![d] = n] /\ place' = place
      BY <1>0, <1>4, <2>1 DEF Apply
    <3>3. CASE events = {}
      BY <1>0, <1>4, <2>1, <3>1, <3>2, <3>3 DEF Apply, ManagerTypeOK
    <3>4. CASE events # {}
      <4>1. revision' = [revision EXCEPT ![d] = @ + 1]
            /\ generation' = generation + 1
        BY <1>4, <2>1, <3>4 DEF Apply, BumpGeneration
      <4> HIDE DEF n
      <4> QED BY <1>0, <3>1, <3>2, <4>1 DEF ManagerTypeOK
    <3> QED BY <3>3, <3>4
  <2>2. CASE ~Loaded(d)
    BY <1>0, <1>4, <2>2 DEF Apply, ManagerTypeOK, managerVars
  <2> QED BY <2>1, <2>2
<1> QED BY <1>1, <1>2, <1>3, <1>4

(* The drive being polled stays a configured one through the whole poll.    *)
PollsConfigured ==
    engine.pc \in {"query", "read", "apply", "schedule", "capture"}
        => engine.at <= Len(AutoDrives)

LEMMA EngineStepTypes ==
    ASSUME TypeOK, PollsConfigured, EngineStep
    PROVE  TypeOK' /\ PollsConfigured'
<1>0. /\ engine \in EngineLocals /\ engine.at \in Nat \ {0}
      /\ engine.start \in Nat /\ engine.from \in Nat /\ engine.next \in Nat
      /\ engine.events \in SUBSET Nat
      /\ engine.info \in JournalInfo /\ engine.info.id \in Nat
      /\ engine.info.first \in Nat /\ engine.info.next \in Nat
  BY DEF TypeOK, EngineLocals, JournalInfo
<1>1. engine.at <= Len(AutoDrives) => Polled \in Drives
  BY <1>0 DEF Polled
<1>n. NextDrive => engine' \in EngineLocals /\ PollsConfigured'
  BY NextDriveType DEF NextDrive, EngineAt, PollsConfigured
<1> USE DEF TypeOK
<1>2. CASE EngineBuildNext
  <2>1. StartWorker(AutoDrives[engine.at], "cache") \in Worker
    BY <1>0, <1>1, <1>2, IdleTypes
       DEF EngineBuildNext, Polled, StartWorker, Worker, WorkerPCs
  <2>2. worker' \in [Threads -> Worker]
    BY <1>2, <2>1 DEF EngineBuildNext
  <2>3. engine' \in EngineLocals /\ PollsConfigured'
    BY <1>2 DEF EngineBuildNext, EngineLocals, EnginePCs, PollsConfigured
  <2> QED BY <1>2, <2>2, <2>3 DEF EngineBuildNext, managerVars, ManagerTypeOK
<1>3. CASE EngineBuilt
  <2>1. engine' \in EngineLocals /\ PollsConfigured'
    BY <1>0, <1>3, EngineAtType
       DEF EngineBuilt, EnginePCs, EngineAt, PollsConfigured
  <2>2. worker' \in [Threads -> Worker]
    BY <1>3, IdleTypes DEF EngineBuilt
  <2> QED BY <1>3, <2>1, <2>2 DEF EngineBuilt, managerVars, ManagerTypeOK
<1>4. CASE EngineReady
  <2>1. engine' \in EngineLocals /\ PollsConfigured'
    BY <1>4, EngineAtType DEF EngineReady, EnginePCs, EngineAt, PollsConfigured
  <2> QED BY <1>4, <2>1 DEF EngineReady, managerVars, ManagerTypeOK
<1>5. CASE EngineStops
  <2>1. engine' \in EngineLocals /\ PollsConfigured'
    BY <1>5, EngineAtType DEF EngineStops, EnginePCs, EngineAt, PollsConfigured
  <2> QED BY <1>5, <2>1 DEF EngineStops, managerVars, ManagerTypeOK
<1>6. CASE ReadCursor
  <2>1. index[Polled].cursor \in Nat
    BY <1>1, <1>6 DEF ReadCursor, ManagerTypeOK, Image
  <2>2. engine' \in EngineLocals /\ PollsConfigured'
    BY <1>0, <1>6, <1>n, <2>1
       DEF ReadCursor, EngineLocals, EnginePCs, PollsConfigured
  <2> QED BY <1>6, <2>2 DEF ReadCursor, managerVars, ManagerTypeOK
<1>7. CASE QueryJournal
  <2>1. journal[Polled] \in JournalInfo
    BY <1>1, <1>7 DEF QueryJournal, PollsConfigured
  <2>2. engine' \in EngineLocals /\ PollsConfigured'
    BY <1>0, <1>7, <1>n, <2>1
       DEF QueryJournal, EngineLocals, EnginePCs, PollsConfigured
  <2> QED BY <1>7, <2>2 DEF QueryJournal, managerVars, ManagerTypeOK
<1>8. CASE ReadJournal
  <2>1. /\ journal[Polled] \in JournalInfo
        /\ journal[Polled].next \in Nat /\ journal[Polled].first \in Nat
    BY <1>1, <1>8 DEF ReadJournal, PollsConfigured, JournalInfo
  <2>2. ASSUME NEW from \in Nat, ReadFrom(from)
        PROVE  engine' \in EngineLocals /\ PollsConfigured'
    <3>1. Relevant(from, journal[Polled].next - 1) \in SUBSET Nat
      BY <2>1, RelevantType
    <3> QED BY <1>0, <1>8, <2>1, <2>2, <3>1
            DEF ReadFrom, ReadJournal, EngineLocals, EnginePCs, PollsConfigured
  <2>3. ASSUME engine' = [engine EXCEPT !.pc = "apply", !.from = engine.info.next,
                          !.events = {}, !.next = engine.info.next]
        PROVE  engine' \in EngineLocals /\ PollsConfigured'
    <3>1. engine' \in EngineLocals
      BY <1>0, <2>3 DEF EngineLocals, EnginePCs
    <3>2. engine'.at = engine.at
      BY <1>0, <2>3 DEF EngineLocals
    <3> QED BY <1>8, <3>1, <3>2 DEF ReadJournal, PollsConfigured
  <2>4. engine' \in EngineLocals /\ PollsConfigured'
    BY <1>0, <1>8, <1>n, <2>1, <2>2, <2>3 DEF ReadJournal
  <2> QED BY <1>8, <2>4 DEF ReadJournal, managerVars, ManagerTypeOK
<1>9. CASE ApplyPoll
  <2>1. Polled \in Drives
    BY <1>1, <1>9 DEF ApplyPoll, PollsConfigured
  <2>2. index[Polled].cursor \in Nat
    BY <2>1 DEF ManagerTypeOK, Image
  <2>3. Relevant(index[Polled].cursor, engine.from - 1)
           \ Reflects(index[Polled]) \in SUBSET Nat
    BY <1>0, <2>2, RelevantType
  <2>4. ManagerTypeOK'
    <3>1. CASE UNCHANGED managerVars
      BY <3>1 DEF managerVars, ManagerTypeOK
    <3>2. CASE Apply(Polled, engine.events, engine.next, engine.info.id,
                     Relevant(index[Polled].cursor, engine.from - 1)
                        \ Reflects(index[Polled]))
      BY <1>0, <2>1, <2>3, <3>2, ManagerTypes
    <3> QED BY <1>9, <3>1, <3>2 DEF ApplyPoll
  <2>5. engine' \in EngineLocals /\ PollsConfigured'
    BY <1>0, <1>9, <1>n, EngineAtType
       DEF ApplyPoll, EnginePCs, EngineAt, PollsConfigured
  <2> QED BY <1>9, <2>4, <2>5 DEF ApplyPoll
<1>10. CASE TakeGate
  <2>1. engine' \in EngineLocals /\ PollsConfigured'
    BY <1>0, <1>10, <1>n, EngineAtType
       DEF TakeGate, EnginePCs, EngineAt, PollsConfigured
  <2> QED BY <1>10, <2>1 DEF TakeGate, managerVars, ManagerTypeOK
<1>11. CASE Capture
  <2>1. engine' \in EngineLocals /\ PollsConfigured'
    BY <1>11, <1>n DEF Capture
  <2>2. ASSUME NEW d \in Drives,
               compactor' = [pc |-> "rebuild", drive |-> d,
                             revision |-> revision[d], place |-> place[d],
                             image |-> Folded(index[d])]
        PROVE  compactor' \in CompactorLocals
    <3>1. Folded(index[d]) \in Image
      BY FoldedType DEF ManagerTypeOK
    <3> QED BY <2>2, <3>1 DEF ManagerTypeOK, CompactorLocals, CompactorPCs
  <2>3. compactor' \in CompactorLocals
    BY <1>11, <2>2 DEF Capture
  <2> QED BY <1>11, <2>1, <2>3 DEF Capture, managerVars, ManagerTypeOK
<1> QED BY <1>2, <1>3, <1>4, <1>5, <1>6, <1>7, <1>8, <1>9, <1>10, <1>11
        DEF EngineStep

LEMMA CompactTypes ==
    ASSUME TypeOK, PollsConfigured, Compact
    PROVE  TypeOK' /\ PollsConfigured'
<1>0. /\ compactor \in CompactorLocals /\ compactor.drive \in Drives
      /\ compactor.image \in Image
      /\ index[compactor.drive] \in Image
  BY DEF TypeOK, CompactorLocals, ManagerTypeOK
<1> USE DEF TypeOK, PollsConfigured
<1>1. CASE CompactRebuild
  BY <1>0, <1>1, IdleTypes DEF CompactRebuild, CompactorEnds, CompactorLocals,
     CompactorPCs, managerVars, ManagerTypeOK
<1>2. CASE CompactCommit
  <2>1. ManagerTypeOK'
    BY <1>0, <1>2, ManagerTypes DEF CompactCommit
  <2> QED BY <1>0, <1>2, <2>1 DEF CompactCommit, CompactorLocals, CompactorPCs
<1>3. CASE CompactDiscard
  BY <1>3, IdleTypes DEF CompactDiscard, CompactorEnds, managerVars, ManagerTypeOK
<1>4. CASE CompactPersist
  <2>1. Persisted(index[compactor.drive]) \in Image
    BY <1>0, PersistedType
  <2>2. cache' \in [Drives -> SUBSET Image]
    BY <1>4, <2>1 DEF CompactPersist
  <2> QED BY <1>4, <2>2, IdleTypes
          DEF CompactPersist, CompactorEnds, managerVars, ManagerTypeOK
<1> QED BY <1>1, <1>2, <1>3, <1>4 DEF Compact

LEMMA BuildTypes ==
    ASSUME TypeOK, PollsConfigured, NEW t \in Threads, Build(t)
    PROVE  TypeOK' /\ PollsConfigured'
<1>1. worker' \in [Threads -> Worker] /\ cache' \in [Drives -> SUBSET Image]
  BY WorkerTypes
<1>2. ManagerTypeOK'
  <2>1. CASE InstallBuilt(t)
    <3>1. worker[t].drive \in Drives /\ worker[t].image \in Image
      BY DEF TypeOK, Worker
    <3> QED BY <2>1, <3>1, ManagerTypes DEF InstallBuilt, TypeOK
  <2>2. CASE UNCHANGED managerVars
    BY <2>2 DEF managerVars, ManagerTypeOK, TypeOK
  <2> QED BY <2>1, <2>2 DEF Build, ReadCache, CheckCache, BeginScan, EndScan,
             QueryHead, PersistBuilt, BuildFails
<1>3. UNCHANGED <<engine, compactor, gate, ready, shutdown, clearing, journal,
                  crashes>>
  BY DEF Build, ReadCache, CheckCache, BeginScan, EndScan, QueryHead,
         PersistBuilt, InstallBuilt, BuildFails
<1> QED BY <1>1, <1>2, <1>3 DEF TypeOK, PollsConfigured

LEMMA StartWorkerType ==
    ASSUME NEW d \in Drives, NEW pc \in WorkerPCs
    PROVE  StartWorker(d, pc) \in Worker
BY IdleTypes DEF StartWorker, Worker

LEMMA CallTypes ==
    ASSUME TypeOK, PollsConfigured,
           \/ \E d \in Drives : AddDrive(d) \/ RemoveDrive(d) \/ RebuildDrive(d)
           \/ ClearCache \/ ClearRebuild \/ Shutdown
    PROVE  TypeOK' /\ PollsConfigured'
<1> USE DEF TypeOK, PollsConfigured
<1>1. ASSUME NEW d \in Drives, StartRebuild(d)
      PROVE  ManagerTypeOK' /\ worker' \in [Threads -> Worker]
  BY <1>1, ManagerTypes, StartWorkerType DEF StartRebuild, WorkerPCs
<1>2. ASSUME NEW d \in Drives, AddDrive(d)
      PROVE  TypeOK' /\ PollsConfigured'
  BY <1>2, StartWorkerType DEF AddDrive, WorkerPCs, managerVars, ManagerTypeOK
<1>3. ASSUME NEW d \in Drives, RemoveDrive(d)
      PROVE  TypeOK' /\ PollsConfigured'
  <2>1. ManagerTypeOK'
    BY <1>3, ManagerTypes DEF RemoveDrive
  <2> QED BY <1>3, <2>1 DEF RemoveDrive, processVars
<1>4. ASSUME NEW d \in Drives, RebuildDrive(d)
      PROVE  TypeOK' /\ PollsConfigured'
  BY <1>1, <1>4 DEF RebuildDrive
<1>5. CASE ClearCache
  BY <1>5 DEF ClearCache, managerVars, ManagerTypeOK
<1>6. CASE ClearRebuild
  BY <1>1, <1>6 DEF ClearRebuild
<1>7. CASE Shutdown
  BY <1>7 DEF Shutdown, managerVars, ManagerTypeOK
<1> QED BY <1>2, <1>3, <1>4, <1>5, <1>6, <1>7

LEMMA JournalTypes ==
    ASSUME NEW j \in JournalInfo
    PROVE  /\ [j EXCEPT !.next = j.next + 1] \in JournalInfo
           /\ [j EXCEPT !.first = j.first + 1] \in JournalInfo
           /\ [j EXCEPT !.id = j.id + 1, !.first = j.next] \in JournalInfo
<1>1. j.id \in Nat /\ j.first \in Nat /\ j.next \in Nat
  BY DEF JournalInfo
<1>2. j.id + 1 \in Nat /\ j.first + 1 \in Nat /\ j.next + 1 \in Nat
  BY <1>1
<1> QED BY <1>1, <1>2 DEF JournalInfo

LEMMA OutsideTypes ==
    ASSUME TypeOK, PollsConfigured,
           \/ \E d \in Drives : Change(d) \/ Trim(d) \/ Recreate(d)
           \/ Crash
    PROVE  TypeOK' /\ PollsConfigured'
<1> USE DEF TypeOK, PollsConfigured
<1>1. ASSUME NEW d \in Drives, Change(d) \/ Trim(d) \/ Recreate(d)
      PROVE  TypeOK' /\ PollsConfigured'
  <2> DEFINE j == journal[d]
  <2>0. j \in JournalInfo
    OBVIOUS
  <2>1. journal' \in [Drives -> JournalInfo]
    <3>1. CASE Change(d)
      <4>1. [j EXCEPT !.next = j.next + 1] \in JournalInfo
        BY <2>0, JournalTypes
      <4>2. journal' = [journal EXCEPT ![d] = [j EXCEPT !.next = j.next + 1]]
        BY <3>1 DEF Change
      <4> HIDE DEF j
      <4> QED BY <4>1, <4>2
    <3>2. CASE Trim(d)
      <4>1. [j EXCEPT !.first = j.first + 1] \in JournalInfo
        BY <2>0, JournalTypes
      <4>2. journal' = [journal EXCEPT ![d] = [j EXCEPT !.first = j.first + 1]]
        BY <3>2 DEF Trim
      <4> HIDE DEF j
      <4> QED BY <4>1, <4>2
    <3>3. CASE Recreate(d)
      <4>1. [j EXCEPT !.id = j.id + 1, !.first = j.next] \in JournalInfo
        BY <2>0, JournalTypes
      <4>2. journal' = [journal EXCEPT ![d] =
                          [j EXCEPT !.id = j.id + 1, !.first = j.next]]
        BY <3>3 DEF Recreate
      <4> HIDE DEF j
      <4> QED BY <4>1, <4>2
    <3> QED BY <1>1, <3>1, <3>2, <3>3
  <2> QED BY <1>1, <2>1 DEF Change, Trim, Recreate, processVars, managerVars,
             ManagerTypeOK
<1>2. CASE Crash
  <2>1. ManagerTypeOK'
    BY <1>2, IdleTypes DEF Crash, ManagerTypeOK
  <2>2. worker' \in [Threads -> Worker] /\ compactor' \in CompactorLocals
    BY <1>2, IdleTypes DEF Crash
  <2>3. engine' \in EngineLocals /\ PollsConfigured'
    BY <1>2, EngineAtType DEF Crash, EnginePCs, EngineAt
  <2>4. gate' \in BOOLEAN /\ ready' \in BOOLEAN /\ shutdown' \in BOOLEAN
        /\ clearing' = {} /\ journal' = journal /\ cache' = cache
    BY <1>2 DEF Crash
  <2>5. crashes' = crashes + 1
    BY <1>2 DEF Crash
  <2> QED BY <2>1, <2>2, <2>3, <2>4, <2>5
<1> QED BY <1>1, <1>2

LEMMA InitTypes == Init => TypeOK /\ PollsConfigured
<1> SUFFICES ASSUME Init
             PROVE  TypeOK /\ PollsConfigured
  OBVIOUS
<1>1. ManagerTypeOK
  BY IdleTypes DEF Init, ProcessInit, ManagerInit, ManagerTypeOK
<1>2. worker \in [Threads -> Worker] /\ compactor \in CompactorLocals
  BY IdleTypes DEF Init, ProcessInit
<1>3. engine \in EngineLocals /\ PollsConfigured
  BY EngineAtType DEF Init, ProcessInit, EnginePCs, EngineAt, PollsConfigured
<1>4. gate \in BOOLEAN /\ ready \in BOOLEAN /\ shutdown \in BOOLEAN
      /\ clearing \in SUBSET Drives /\ crashes \in Nat
  BY DEF Init, ProcessInit
<1>5. journal \in [Drives -> JournalInfo]
  BY DEF Init, JournalInfo
<1>6. cache \in [Drives -> SUBSET Image]
  BY DEF Init
<1> QED BY <1>1, <1>2, <1>3, <1>4, <1>5, <1>6 DEF TypeOK

LEMMA NextTypes == TypeOK /\ PollsConfigured /\ [Next]_vars
                      => TypeOK' /\ PollsConfigured'
<1> SUFFICES ASSUME TypeOK, PollsConfigured, [Next]_vars
             PROVE  TypeOK' /\ PollsConfigured'
  OBVIOUS
<1>1. CASE UNCHANGED vars
  BY <1>1 DEF vars, processVars, managerVars, TypeOK, ManagerTypeOK,
              PollsConfigured
<1>2. CASE Next
  BY <1>2, EngineStepTypes, CompactTypes, BuildTypes, CallTypes, OutsideTypes
     DEF Next
<1> QED BY <1>1, <1>2

(* Every variable has its type in every reachable state.                    *)
THEOREM TypeCorrect == Spec => []TypeOK
BY InitTypes, NextTypes, PTL DEF Spec

-----------------------------------------------------------------------------
(* The compaction gate *)

LEMMA GateInit == Init => GateExclusive
BY DEF Init, ProcessInit, EngineAt, IdleCompactor, GateExclusive

(* Only TakeGate raises the gate, only Capture hands it to the compactor.   *)
LEMMA GateEngineStep ==
    ASSUME TypeOK, GateExclusive, EngineStep
    PROVE  GateExclusive'
<1>0. engine \in EngineLocals /\ compactor \in CompactorLocals
  BY DEF TypeOK
<1>n. NextDrive => engine'.pc = "poll"
  BY DEF NextDrive, EngineAt
<1>k. ASSUME UNCHANGED <<gate, compactor>>, engine.pc # "capture",
             engine'.pc # "capture"
      PROVE  GateExclusive'
  BY <1>k DEF GateExclusive
<1>1. CASE EngineBuildNext \/ EngineBuilt \/ EngineReady \/ EngineStops
  BY <1>0, <1>1, <1>k DEF EngineBuildNext, EngineBuilt, EngineReady, EngineStops,
     EngineAt, EngineLocals
<1>2. CASE ReadCursor
  BY <1>0, <1>2, <1>k, <1>n DEF ReadCursor, EngineLocals
<1>3. CASE QueryJournal
  BY <1>0, <1>3, <1>k, <1>n DEF QueryJournal, EngineLocals
<1>4. CASE ReadJournal
  BY <1>0, <1>4, <1>k, <1>n DEF ReadJournal, ReadFrom, EngineLocals
<1>5. CASE ApplyPoll
  BY <1>0, <1>5, <1>k, <1>n DEF ApplyPoll, EngineAt
<1>6. CASE TakeGate
  BY <1>0, <1>6, <1>n DEF TakeGate, EngineAt, GateExclusive
<1>7. CASE Capture
  <2>1. gate /\ compactor.pc = "idle" /\ engine'.pc = "poll"
    BY <1>7, <1>n DEF Capture, GateExclusive
  <2>2. CASE gate' = gate /\ \E d \in Drives :
               compactor' = [pc |-> "rebuild", drive |-> d,
                             revision |-> revision[d], place |-> place[d],
                             image |-> Folded(index[d])]
    <3>1. compactor'.pc = "rebuild"
      BY <2>2
    <3> QED BY <2>1, <2>2, <3>1 DEF GateExclusive
  <2>3. CASE gate' = FALSE /\ compactor' = compactor
    BY <2>1, <2>3 DEF GateExclusive
  <2> QED BY <1>7, <2>2, <2>3 DEF Capture
<1> QED BY <1>1, <1>2, <1>3, <1>4, <1>5, <1>6, <1>7 DEF EngineStep

LEMMA GateCompact ==
    ASSUME TypeOK, GateExclusive, Compact
    PROVE  GateExclusive'
<1>0. compactor \in CompactorLocals
  BY DEF TypeOK
<1>e. CompactorEnds => compactor'.pc = "idle" /\ gate' = FALSE
  BY DEF CompactorEnds, IdleCompactor
<1>1. compactor.pc # "idle" /\ gate /\ engine.pc # "capture" /\ engine' = engine
  BY DEF Compact, CompactRebuild, CompactCommit, CompactDiscard, CompactPersist,
         GateExclusive
<1>2. CASE CompactorEnds
  BY <1>1, <1>2, <1>e DEF GateExclusive
<1>3. CASE compactor'.pc # "idle" /\ gate' = gate
  BY <1>1, <1>3 DEF GateExclusive
<1>4. CompactorEnds \/ (compactor'.pc # "idle" /\ gate' = gate)
  BY <1>0 DEF Compact, CompactRebuild, CompactCommit, CompactDiscard,
     CompactPersist, CompactorLocals
<1> QED BY <1>2, <1>3, <1>4

LEMMA GateNext == TypeOK /\ GateExclusive /\ [Next]_vars => GateExclusive'
<1> SUFFICES ASSUME TypeOK, GateExclusive, [Next]_vars
             PROVE  GateExclusive'
  OBVIOUS
<1>k. ASSUME UNCHANGED <<gate, compactor, engine>>
      PROVE  GateExclusive'
  BY <1>k DEF GateExclusive
<1>1. CASE EngineStep
  BY <1>1, GateEngineStep
<1>2. CASE Compact
  BY <1>2, GateCompact
<1>3. CASE \E t \in Threads : Build(t)
  <2>1. PICK t \in Threads : Build(t)
    BY <1>3
  <2>2. CASE ReadCache(t) \/ CheckCache(t)
    BY <1>k, <2>2 DEF ReadCache, CheckCache
  <2>3. CASE BeginScan(t) \/ EndScan(t) \/ QueryHead(t)
    BY <1>k, <2>3 DEF BeginScan, EndScan, QueryHead
  <2>4. CASE PersistBuilt(t) \/ InstallBuilt(t) \/ BuildFails(t)
    BY <1>k, <2>4 DEF PersistBuilt, InstallBuilt, BuildFails
  <2> QED BY <2>1, <2>2, <2>3, <2>4 DEF Build
<1>4. CASE \E d \in Drives : AddDrive(d) \/ RemoveDrive(d) \/ RebuildDrive(d)
  BY <1>4, <1>k DEF AddDrive, RemoveDrive, RebuildDrive, processVars
<1>5. CASE ClearCache \/ ClearRebuild \/ Shutdown
  BY <1>5, <1>k DEF ClearCache, ClearRebuild, Shutdown
<1>6. CASE \E d \in Drives : Change(d) \/ Trim(d) \/ Recreate(d)
  BY <1>6, <1>k DEF Change, Trim, Recreate, processVars
<1>7. CASE Crash
  BY <1>7 DEF Crash, EngineAt, IdleCompactor, GateExclusive
<1>8. CASE UNCHANGED vars
  BY <1>8, <1>k DEF vars, processVars
<1> QED BY <1>1, <1>2, <1>3, <1>4, <1>5, <1>6, <1>7, <1>8 DEF Next

(* At most one compaction is in flight, and the gate is held exactly while  *)
(* it runs or is being captured (schedule_compact, CompactGate).            *)
THEOREM GateCorrect == Spec => []GateExclusive
BY GateInit, GateNext, TypeCorrect, PTL DEF Spec

-----------------------------------------------------------------------------
(* Cursors and content *)

(* A build has no cursor before it asked for the journal head, and a poll   *)
(* that is about to be applied has read everything up to its new cursor.    *)
CoveredInv ==
    /\ CursorNeverAheadOfContent
    /\ \A t \in Threads :
          worker[t].pc \in {"cache", "scan", "scanning", "head"} =>
              worker[t].image.cursor = 0
    /\ engine.pc = "apply" =>
          Relevant(engine.from, engine.next - 1) \subseteq engine.events

LEMMA NothingBeforeZero ==
    ASSUME NEW i \in Image, i.cursor = 0
    PROVE  Covers(i)
BY DEF Covers, Relevant, Image

LEMMA EmptyCovers == Covers(EmptyImage) /\ EmptyImage.cursor = 0
BY NothingBeforeZero, IdleTypes DEF EmptyImage

LEMMA IdleCovers ==
    /\ Covers(IdleWorker.image) /\ IdleWorker.image.cursor = 0
    /\ IdleWorker.pc = "idle"
    /\ Covers(IdleCompactor.image)
BY EmptyCovers DEF IdleWorker, IdleCompactor

(* Persisting forgets the overlay but says so; folding moves it.            *)
LEMMA PersistedCovers ==
    ASSUME NEW i \in Image, Covers(i)
    PROVE  Covers(Persisted(i))
<1>1. /\ Persisted(i).cursor = i.cursor /\ Persisted(i).base = i.base
      /\ Persisted(i).delta = {} /\ Persisted(i).lost = i.lost \cup i.delta
  BY DEF Persisted, Image
<1> QED
  BY <1>1 DEF Covers, Reflects

LEMMA FoldedReflects ==
    ASSUME NEW i \in Image
    PROVE  /\ Reflects(Folded(i)) = Reflects(i)
           /\ Folded(i).cursor = i.cursor /\ Folded(i).lost = i.lost
           /\ Folded(i).jid = i.jid
BY DEF Folded, Reflects, Image

LEMMA FoldedCovers ==
    ASSUME NEW i \in Image, Covers(i)
    PROVE  Covers(Folded(i))
BY FoldedReflects DEF Covers

(* What lies between two cursors is either read or given up.                *)
LEMMA RelevantSplits ==
    ASSUME NEW a \in Nat, NEW b \in Nat, NEW c \in Nat, NEW X,
           Relevant(a, b - 1) \subseteq X, Relevant(b, c - 1) \subseteq X
    PROVE  Relevant(a, c - 1) \subseteq X
<1>1. ASSUME NEW x \in Relevant(a, c - 1)
      PROVE  x \in X
  <2>1. CASE x <= b - 1
    BY <1>1, <2>1 DEF Relevant
  <2>2. CASE ~ (x <= b - 1)
    BY <1>1, <2>2 DEF Relevant
  <2> QED
    BY <2>1, <2>2
<1> QED
  BY <1>1

LEMMA CheckedCovers ==
    ASSUME NEW i \in Image, NEW j \in JournalInfo, Covers(i)
    PROVE  Covers(CheckedImage(i, j))
<1> DEFINE gap == Relevant(i.cursor, j.next - 1)
           l == i.lost \cup (gap \ Reflects(i))
           r == [i EXCEPT !.cursor = j.next, !.lost = l]
<1>1. CASE i.cursor < j.first
  <2>1. CheckedImage(i, j) = r
    BY <1>1 DEF CheckedImage
  <2>2. r.cursor = j.next /\ r.lost = l /\ Reflects(r) = Reflects(i)
    <3> HIDE DEF l
    <3> QED
      BY DEF Image, Reflects
  <2>3. /\ Relevant(1, i.cursor - 1) \subseteq Reflects(i) \cup l
        /\ Relevant(i.cursor, j.next - 1) \subseteq Reflects(i) \cup l
    BY DEF Covers
  <2>4. Relevant(1, j.next - 1) \subseteq Reflects(i) \cup l
    <3> HIDE DEF l
    <3> QED
      BY <2>3, RelevantSplits DEF Image, JournalInfo
  <2> QED
    BY <2>1, <2>2, <2>4 DEF Covers
<1>2. CASE ~ (i.cursor < j.first)
  BY <1>2 DEF CheckedImage
<1> QED
  BY <1>1, <1>2

LEMMA BatchCovers ==
    ASSUME NEW i \in Image, Covers(i), NEW events \in SUBSET Nat,
           NEW from \in Nat, NEW next \in Nat, NEW jid \in Nat,
           Relevant(from, next - 1) \subseteq events
    PROVE  Covers(AfterBatch(i, events, next, jid,
                             Relevant(i.cursor, from - 1) \ Reflects(i)))
<1> DEFINE skipped == Relevant(i.cursor, from - 1) \ Reflects(i)
           n == AfterBatch(i, events, next, jid, skipped)
           all == Reflects(i) \cup events \cup i.lost \cup skipped
<1>1. n.cursor = next /\ Reflects(n) \cup n.lost = all
  <2> HIDE DEF skipped
  <2> QED
    BY DEF AfterBatch, Image, Reflects
<1>2. /\ Relevant(1, i.cursor - 1) \subseteq all
      /\ Relevant(i.cursor, from - 1) \subseteq all
      /\ Relevant(from, next - 1) \subseteq all
  BY DEF Covers
<1>3. Relevant(1, next - 1) \subseteq all
  <2> HIDE DEF all
  <2>1. Relevant(1, from - 1) \subseteq all
    BY <1>2, RelevantSplits DEF Image
  <2> QED
    BY <1>2, <2>1, RelevantSplits
<1> QED
  BY <1>1, <1>3 DEF Covers

(* QueryHead's five assignments are one assignment of the thread's record.  *)
Asked(f, t, c, k, l) ==
    [f EXCEPT ![t].pc = "persist", ![t].from = 0, ![t].image.cursor = c,
              ![t].image.jid = k, ![t].image.lost = l]

AskedAtOnce(f, t, c, k, l) ==
    [f EXCEPT ![t] = [f[t] EXCEPT !.pc = "persist", !.from = 0,
        !.image = [f[t].image EXCEPT !.cursor = c, !.jid = k, !.lost = l]]]

LEMMA HeadWritten ==
    ASSUME NEW f \in [Threads -> Worker], NEW t \in Threads, NEW c, NEW k, NEW l
    PROVE  Asked(f, t, c, k, l) = AskedAtOnce(f, t, c, k, l)
<1> DEFINE w == f[t]
           v == [w EXCEPT !.pc = "persist", !.from = 0]
           asked == [f EXCEPT ![t] = v]
           placed == [f EXCEPT ![t] =
                        [v EXCEPT !.image = [w.image EXCEPT !.cursor = c]]]
           named == [f EXCEPT ![t] =
                       [v EXCEPT !.image = [w.image EXCEPT !.cursor = c, !.jid = k]]]
           done == [f EXCEPT ![t] =
                      [v EXCEPT !.image = [w.image EXCEPT !.cursor = c, !.jid = k,
                                                          !.lost = l]]]
<1>0. f \in [Threads -> Worker] /\ w \in Worker /\ w.image \in Image
  BY DEF Worker
<1>1. [f EXCEPT ![t].pc = "persist", ![t].from = 0] = asked
  BY <1>0 DEF Worker
<1>2. [asked EXCEPT ![t].image.cursor = c] = placed
  BY <1>0 DEF Worker, Image
<1>3. [placed EXCEPT ![t].image.jid = k] = named
  BY <1>0 DEF Worker, Image
<1>4. [named EXCEPT ![t].image.lost = l] = done
  BY <1>0 DEF Worker, Image
<1> HIDE DEF asked, placed, named, done
<1> QED
  BY <1>1, <1>2, <1>3, <1>4 DEF done, Asked, AskedAtOnce

Unplaced == {"cache", "scan", "scanning", "head"}

BuildCovered(w) == Covers(w.image) /\ (w.pc \in Unplaced => w.image.cursor = 0)

(* What each step of a build does to its own locals and to the cache.       *)
LEMMA BuildKeepsCovered ==
    ASSUME TypeOK, CoveredInv, NEW t \in Threads, Build(t)
    PROVE  /\ \A u \in Threads : BuildCovered(worker'[u])
           /\ \A d \in Drives : \A i \in cache'[d] : Covers(i)
<1> DEFINE w == worker[t]
           j == journal[w.drive]
<1>0. /\ w \in Worker /\ w.drive \in Drives /\ w.from \in Nat /\ w.image \in Image
      /\ worker \in [Threads -> Worker] /\ cache \in [Drives -> SUBSET Image]
      /\ j \in JournalInfo /\ j.next \in Nat /\ j.id \in Nat
      /\ BuildCovered(w)
  BY DEF TypeOK, Worker, CoveredInv, CursorNeverAheadOfContent, BuildCovered,
         Unplaced, JournalInfo
<1>u. \A u \in Threads : BuildCovered(worker[u])
  BY DEF CoveredInv, CursorNeverAheadOfContent, BuildCovered, Unplaced
<1>c. \A d \in Drives : \A i \in cache[d] : Covers(i)
  BY DEF CoveredInv, CursorNeverAheadOfContent
<1>t. ASSUME NEW v, BuildCovered(v), worker' = [worker EXCEPT ![t] = v]
      PROVE  \A u \in Threads : BuildCovered(worker'[u])
  BY <1>0, <1>t, <1>u
<1>s. ASSUME NEW pc, Step(t, pc), pc \in Unplaced => w.image.cursor = 0
      PROVE  \A u \in Threads : BuildCovered(worker'[u])
  <2> DEFINE v == [w EXCEPT !.pc = pc]
  <2>1. v.image = w.image /\ v.pc = pc
    BY <1>0 DEF Worker
  <2>2. worker' = [worker EXCEPT ![t] = v]
    BY <1>0, <1>s DEF Step
  <2> QED
    BY <1>0, <1>s, <1>t, <2>1, <2>2 DEF BuildCovered
<1>1. CASE ReadCache(t)
  <2>1. \A d \in Drives : cache'[d] \subseteq cache[d]
    BY <1>0, <1>1 DEF ReadCache
  <2>2. CASE Step(t, "scan")
    BY <1>0, <1>1, <1>c, <1>s, <2>1, <2>2 DEF ReadCache, BuildCovered, Unplaced
  <2>3. CASE \E i \in cache[w.drive] :
               worker' = [worker EXCEPT ![t].pc = "check", ![t].image = i]
    <3>1. PICK i \in cache[w.drive] :
               worker' = [worker EXCEPT ![t].pc = "check", ![t].image = i]
      BY <2>3
    <3> DEFINE v == [w EXCEPT !.pc = "check", !.image = i]
    <3>2. worker' = [worker EXCEPT ![t] = v] /\ v.image = i /\ v.pc = "check"
      BY <1>0, <3>1 DEF Worker
    <3>3. BuildCovered(v)
      BY <1>0, <1>c, <3>2 DEF BuildCovered, Unplaced
    <3> QED
      BY <1>c, <1>t, <2>1, <3>2, <3>3
  <2> QED
    BY <1>1, <2>2, <2>3 DEF ReadCache
<1>2. CASE CheckCache(t)
  <2>1. cache' = cache
    BY <1>2 DEF CheckCache
  <2>2. CASE Step(t, "install")
    BY <1>c, <1>s, <2>1, <2>2 DEF Unplaced
  <2>3. CASE worker' = [worker EXCEPT ![t].pc = "install",
                                      ![t].image = CheckedImage(w.image, j)]
    <3> DEFINE v == [w EXCEPT !.pc = "install", !.image = CheckedImage(w.image, j)]
    <3>1. /\ worker' = [worker EXCEPT ![t] = v]
          /\ v.image = CheckedImage(w.image, j) /\ v.pc = "install"
      BY <1>0, <2>3 DEF Worker
    <3>2. BuildCovered(v)
      BY <1>0, <3>1, CheckedCovers DEF BuildCovered, Unplaced
    <3> QED
      BY <1>c, <1>t, <2>1, <3>1, <3>2
  <2>4. CASE worker' = [worker EXCEPT ![t].pc = "scan", ![t].image = EmptyImage]
    <3> DEFINE v == [w EXCEPT !.pc = "scan", !.image = EmptyImage]
    <3>1. worker' = [worker EXCEPT ![t] = v] /\ v.image = EmptyImage
      BY <1>0, <2>4 DEF Worker
    <3>2. BuildCovered(v)
      BY <3>1, EmptyCovers DEF BuildCovered
    <3> QED
      BY <1>c, <1>t, <2>1, <3>1, <3>2
  <2> QED
    BY <1>2, <2>2, <2>3, <2>4 DEF CheckCache
<1>3. CASE BeginScan(t)
  <2> DEFINE v == [w EXCEPT !.pc = "scanning", !.from = j.next]
  <2>1. worker' = [worker EXCEPT ![t] = v] /\ v.image = w.image /\ w.pc = "scan"
    BY <1>0, <1>3 DEF BeginScan, Worker
  <2>2. BuildCovered(v)
    BY <1>0, <2>1 DEF BuildCovered, Unplaced
  <2> QED
    BY <1>3, <1>c, <1>t, <2>1, <2>2 DEF BeginScan
<1>4. CASE EndScan(t)
  <2>1. PICK seen \in SUBSET Relevant(w.from, j.next - 1) :
          worker' = [worker EXCEPT ![t].pc = "head",
                       ![t].image.base = Relevant(1, w.from - 1) \cup seen]
    BY <1>4 DEF EndScan
  <2> DEFINE b == Relevant(1, w.from - 1) \cup seen
             i == [w.image EXCEPT !.base = b]
             v == [w EXCEPT !.pc = "head", !.image = i]
  <2>2. w.image.cursor = 0
    BY <1>0, <1>4 DEF EndScan, BuildCovered, Unplaced
  <2>3. worker' = [worker EXCEPT ![t] = v] /\ v.image = i
    BY <1>0, <2>1 DEF Worker
  <2>4. i.cursor = 0 /\ i \in Image
    <3>1. b \in SUBSET Nat
      BY <1>0, RelevantType
    <3> HIDE DEF b
    <3> QED
      BY <1>0, <2>2, <3>1 DEF Image
  <2>5. BuildCovered(v)
    <3> HIDE DEF i
    <3> QED
      BY <2>3, <2>4, NothingBeforeZero DEF BuildCovered
  <2> QED
    BY <1>4, <1>c, <1>t, <2>3, <2>5 DEF EndScan
<1>5. CASE QueryHead(t)
  <2> DEFINE l == Relevant(1, j.next - 1) \ w.image.base
             i == [w.image EXCEPT !.cursor = j.next, !.jid = j.id, !.lost = l]
             v == [w EXCEPT !.pc = "persist", !.from = 0, !.image = i]
             v0 == [w EXCEPT !.pc = "persist", !.from = 0]
  <2>1. CASE worker' = [worker EXCEPT ![t].pc = "persist", ![t].from = 0]
    <3>1. worker' = [worker EXCEPT ![t] = v0] /\ v0.image = w.image /\ v0.pc = "persist"
      BY <1>0, <2>1 DEF Worker
    <3>2. BuildCovered(v0)
      BY <1>0, <3>1 DEF BuildCovered, Unplaced
    <3> QED
      BY <1>5, <1>c, <1>t, <3>1, <3>2 DEF QueryHead
  <2>2. CASE worker' = [worker EXCEPT ![t].pc = "persist", ![t].from = 0,
                       ![t].image.cursor = j.next, ![t].image.jid = j.id,
                       ![t].image.lost = l]
    <3>1. worker' = [worker EXCEPT ![t] = v]
      <4>1. worker' = Asked(worker, t, j.next, j.id, l)
        BY <2>2 DEF Asked
      <4>2. worker' = AskedAtOnce(worker, t, j.next, j.id, l)
        BY <1>0, <4>1, HeadWritten
      <4> QED
        BY <4>2 DEF AskedAtOnce
    <3>2. v.image = i /\ v.pc = "persist"
      BY <1>0 DEF Worker
    <3>3. i.cursor = j.next /\ i.base = w.image.base /\ i.lost = l
      <4> HIDE DEF l, j
      <4> QED
        BY <1>0 DEF Image
    <3>4. Covers(i)
      <4> HIDE DEF i
      <4> QED
        BY <3>3 DEF Covers, Reflects
    <3>5. BuildCovered(v)
      <4> HIDE DEF v, i
      <4> QED
        BY <3>2, <3>4 DEF BuildCovered, Unplaced
    <3> QED
      BY <1>5, <1>c, <1>t, <3>1, <3>5 DEF QueryHead
  <2> QED
    BY <1>5, <2>1, <2>2 DEF QueryHead
<1>6. CASE PersistBuilt(t)
  <2>1. \A d \in Drives : \A i \in cache'[d] : Covers(i)
    <3>1. Covers(Persisted(w.image))
      BY <1>0, PersistedCovers DEF BuildCovered
    <3> QED
      BY <1>0, <1>6, <1>c, <3>1 DEF PersistBuilt
  <2> QED
    BY <1>6, <1>s, <2>1 DEF PersistBuilt, Unplaced
<1>7. CASE InstallBuilt(t) \/ BuildFails(t)
  <2> DEFINE v == [IdleWorker EXCEPT !.pc = "done"]
  <2>1. worker' = [worker EXCEPT ![t] = v] /\ cache' = cache
    BY <1>7 DEF InstallBuilt, BuildFails
  <2>2. BuildCovered(v)
    BY EmptyCovers DEF IdleWorker, BuildCovered
  <2> QED
    BY <1>c, <1>t, <2>1, <2>2
<1> QED
  BY <1>1, <1>2, <1>3, <1>4, <1>5, <1>6, <1>7 DEF Build

(* What a step may do to the loaded images, by the manager's operations.    *)
LEMMA ManagerCovers ==
    ASSUME TypeOK, CoveredInv, NEW d \in Drives
    PROVE  /\ \A i \in Image : Install(d, i) /\ Covers(i) =>
                  \A e \in Drives : Covers(index'[e])
           /\ \A i \in Image : CommitCompact(d, i) /\ Covers(i) =>
                  \A e \in Drives : Covers(index'[e])
           /\ Remove(d) => \A e \in Drives : Covers(index'[e])
           /\ \A events \in SUBSET Nat : \A from, next, jid \in Nat :
                 /\ Relevant(from, next - 1) \subseteq events
                 /\ Apply(d, events, next, jid,
                          Relevant(index[d].cursor, from - 1) \ Reflects(index[d]))
                 => \A e \in Drives : Covers(index'[e])
<1>0. index \in [Drives -> Image] /\ \A e \in Drives : Covers(index[e])
  BY DEF TypeOK, ManagerTypeOK, CoveredInv, CursorNeverAheadOfContent
<1>i. ASSUME NEW i, Covers(i), index' = [index EXCEPT ![d] = i]
      PROVE  \A e \in Drives : Covers(index'[e])
  BY <1>0, <1>i
<1>1. ASSUME NEW i \in Image, Covers(i), Install(d, i) \/ CommitCompact(d, i)
      PROVE  \A e \in Drives : Covers(index'[e])
  BY <1>1, <1>i DEF Install, CommitCompact
<1>2. ASSUME Remove(d)
      PROVE  \A e \in Drives : Covers(index'[e])
  <2>1. CASE Loaded(d)
    BY <1>2, <1>i, <2>1, EmptyCovers DEF Remove
  <2>2. CASE ~Loaded(d)
    BY <1>0, <1>2, <2>2 DEF Remove, managerVars
  <2> QED
    BY <2>1, <2>2
<1>3. ASSUME NEW events \in SUBSET Nat, NEW from \in Nat, NEW next \in Nat,
             NEW jid \in Nat, Relevant(from, next - 1) \subseteq events,
             Apply(d, events, next, jid,
                   Relevant(index[d].cursor, from - 1) \ Reflects(index[d]))
      PROVE  \A e \in Drives : Covers(index'[e])
  <2>1. CASE Loaded(d)
    BY <1>0, <1>3, <1>i, <2>1, BatchCovers DEF Apply
  <2>2. CASE ~Loaded(d)
    BY <1>0, <1>3, <2>2 DEF Apply, managerVars
  <2> QED
    BY <2>1, <2>2
<1> QED
  BY <1>1, <1>2, <1>3

(* CoveredInv from its parts, for a step that leaves some of them alone.    *)
CacheCovered == \A d \in Drives : \A i \in cache[d] : Covers(i)
IndexCovered == \A d \in Drives : Covers(index[d])
BuildsCovered == \A t \in Threads : BuildCovered(worker[t])
PollCovered ==
    engine.pc = "apply" => Relevant(engine.from, engine.next - 1) \subseteq engine.events

LEMMA CoveredParts ==
    CoveredInv <=> /\ CacheCovered /\ IndexCovered /\ BuildsCovered /\ PollCovered
                   /\ Covers(compactor.image)
BY DEF CoveredInv, CursorNeverAheadOfContent, CacheCovered, IndexCovered,
       BuildsCovered, PollCovered, BuildCovered, Unplaced

LEMMA CoveredPartsNext ==
    ASSUME CacheCovered', IndexCovered', BuildsCovered', PollCovered',
           Covers(compactor'.image)
    PROVE  CoveredInv'
BY DEF CoveredInv, CursorNeverAheadOfContent, CacheCovered, IndexCovered,
       BuildsCovered, PollCovered, BuildCovered, Unplaced, Covers, Relevant, Reflects

LEMMA CoveredFrames ==
    ASSUME CoveredInv
    PROVE  /\ cache' = cache => CacheCovered'
           /\ UNCHANGED managerVars => IndexCovered'
           /\ worker' = worker => BuildsCovered'
           /\ engine' = engine => PollCovered'
           /\ engine'.pc # "apply" => PollCovered'
           /\ compactor' = compactor => Covers(compactor'.image)
BY CoveredParts DEF CacheCovered, IndexCovered, BuildsCovered, PollCovered,
   BuildCovered, Covers, Relevant, Reflects, managerVars

LEMMA NextDrivePolls == NextDrive => engine'.pc = "poll"
BY DEF NextDrive, EngineAt

LEMMA ReadKeepsCovered ==
    ASSUME TypeOK, PollsConfigured, ReadJournal
    PROVE  PollCovered'
<1>1. engine \in EngineLocals /\ engine.info.next \in Nat
  BY DEF TypeOK, EngineLocals, JournalInfo
<1>2. ASSUME NEW from, ReadFrom(from)
      PROVE  PollCovered'
  <2>1. /\ engine'.from = from /\ engine'.next = journal[Polled].next
        /\ engine'.events = Relevant(from, journal[Polled].next - 1)
    BY <1>1, <1>2 DEF ReadFrom, EngineLocals
  <2> QED
    BY <2>1 DEF PollCovered
<1>3. CASE engine' = [engine EXCEPT !.pc = "apply", !.from = engine.info.next,
                          !.events = {}, !.next = engine.info.next]
  <2>1. engine'.from = engine.info.next /\ engine'.next = engine.info.next
    BY <1>1, <1>3 DEF EngineLocals
  <2>2. Relevant(engine'.from, engine'.next - 1) = {}
    BY <1>1, <2>1 DEF Relevant
  <2> QED
    BY <2>2 DEF PollCovered
<1>4. CASE NextDrive
  BY <1>4, NextDrivePolls DEF PollCovered
<1> QED
  BY <1>2, <1>3, <1>4 DEF ReadJournal

LEMMA EngineKeepsCovered ==
    ASSUME TypeOK, PollsConfigured, CoveredInv, EngineStep
    PROVE  CoveredInv'
<1>0. /\ engine \in EngineLocals /\ engine.from \in Nat /\ engine.next \in Nat
      /\ engine.events \in SUBSET Nat /\ engine.info.id \in Nat /\ engine.at \in Nat \ {0}
      /\ worker \in [Threads -> Worker]
  BY DEF TypeOK, EngineLocals, JournalInfo
<1>1. CASE EngineBuildNext \/ EngineBuilt
  <2>1. PICK v : worker' = [worker EXCEPT ![EngineThread] = v] /\ BuildCovered(v)
    <3>1. CASE EngineBuildNext
      <4> DEFINE v == StartWorker(AutoDrives[engine.at], "cache")
      <4>1. v.image = IdleWorker.image
        BY DEF StartWorker, IdleWorker
      <4> QED
        BY <3>1, <4>1, IdleCovers DEF EngineBuildNext, BuildCovered
    <3>2. CASE EngineBuilt
      BY <3>2, IdleCovers DEF EngineBuilt, BuildCovered
    <3> QED
      BY <1>1, <3>1, <3>2
  <2>2. BuildsCovered'
    BY <1>0, <2>1, CoveredParts DEF BuildsCovered, BuildCovered, Covers, Relevant, Reflects
  <2>3. engine'.pc # "apply"
    BY <1>0, <1>1 DEF EngineBuildNext, EngineBuilt, EngineAt, EngineLocals
  <2>4. UNCHANGED <<managerVars, cache, compactor>>
    BY <1>1 DEF EngineBuildNext, EngineBuilt
  <2> QED
    BY <2>2, <2>3, <2>4, CoveredFrames, CoveredPartsNext
<1>2. CASE EngineReady \/ EngineStops \/ ReadCursor \/ QueryJournal \/ TakeGate
  <2>1. UNCHANGED <<managerVars, worker, compactor, cache>>
    BY <1>2 DEF EngineReady, EngineStops, ReadCursor, QueryJournal, TakeGate
  <2>2. engine'.pc # "apply"
    <3>1. CASE EngineReady \/ EngineStops
      BY <3>1 DEF EngineReady, EngineStops, EngineAt
    <3>2. CASE ReadCursor
      BY <1>0, <3>2, NextDrivePolls DEF ReadCursor, EngineLocals
    <3>3. CASE QueryJournal
      BY <1>0, <3>3, NextDrivePolls DEF QueryJournal, EngineLocals
    <3>4. CASE TakeGate
      BY <3>4, NextDrivePolls DEF TakeGate, EngineAt
    <3> QED
      BY <1>2, <3>1, <3>2, <3>3, <3>4
  <2> QED
    BY <2>1, <2>2, CoveredFrames, CoveredPartsNext
<1>3. CASE ReadJournal
  <2>1. UNCHANGED <<managerVars, worker, compactor, cache>>
    BY <1>3 DEF ReadJournal
  <2> QED
    BY <1>3, <2>1, ReadKeepsCovered, CoveredFrames, CoveredPartsNext
<1>4. CASE ApplyPoll
  <2>1. UNCHANGED <<worker, compactor, cache>> /\ engine'.pc # "apply"
    BY <1>4, NextDrivePolls DEF ApplyPoll, EngineAt
  <2>2. Polled \in Drives
    BY <1>0, <1>4 DEF ApplyPoll, PollsConfigured, Polled
  <2>3. CASE UNCHANGED managerVars
    BY <2>1, <2>3, CoveredFrames, CoveredPartsNext
  <2>4. CASE Apply(Polled, engine.events, engine.next, engine.info.id,
                   Relevant(index[Polled].cursor, engine.from - 1)
                      \ Reflects(index[Polled]))
    <3>1. Relevant(engine.from, engine.next - 1) \subseteq engine.events
      BY <1>4 DEF ApplyPoll, CoveredInv
    <3>2. \A d \in Drives : Covers(index'[d])
      BY <1>0, <2>2, <2>4, <3>1, ManagerCovers
    <3>3. IndexCovered'
      BY <3>2 DEF IndexCovered, Covers, Relevant, Reflects
    <3> QED
      BY <2>1, <3>3, CoveredFrames, CoveredPartsNext
  <2> QED
    BY <1>4, <2>3, <2>4 DEF ApplyPoll
<1>5. CASE Capture
  <2>1. UNCHANGED <<managerVars, worker, cache>> /\ engine'.pc # "apply"
    BY <1>5, NextDrivePolls DEF Capture
  <2>2. Covers(compactor'.image)
    <3>1. CASE compactor' = compactor
      BY <3>1, CoveredFrames
    <3>2. ASSUME NEW d \in Drives, compactor'.image = Folded(index[d])
          PROVE  Covers(compactor'.image)
      BY <3>2, FoldedCovers DEF TypeOK, ManagerTypeOK, CoveredInv,
         CursorNeverAheadOfContent
    <3> QED
      BY <1>5, <3>1, <3>2 DEF Capture
  <2> QED
    BY <2>1, <2>2, CoveredFrames, CoveredPartsNext
<1> QED
  BY <1>1, <1>2, <1>3, <1>4, <1>5 DEF EngineStep

LEMMA CompactKeepsCovered ==
    ASSUME TypeOK, CoveredInv, Compact
    PROVE  CoveredInv'
<1>0. /\ compactor \in CompactorLocals /\ compactor.drive \in Drives
      /\ compactor.image \in Image /\ Covers(compactor.image)
      /\ index[compactor.drive] \in Image /\ Covers(index[compactor.drive])
      /\ cache \in [Drives -> SUBSET Image]
  BY DEF TypeOK, CompactorLocals, ManagerTypeOK, CoveredInv, CursorNeverAheadOfContent
<1>1. UNCHANGED <<worker, engine>>
  BY DEF Compact, CompactRebuild, CompactCommit, CompactDiscard, CompactPersist
<1>e. CompactorEnds => Covers(compactor'.image)
  BY IdleCovers DEF CompactorEnds
<1>2. CASE CompactRebuild \/ CompactDiscard
  <2>1. UNCHANGED <<managerVars, cache>>
    BY <1>2 DEF CompactRebuild, CompactDiscard
  <2>2. Covers(compactor'.image)
    BY <1>0, <1>2, <1>e DEF CompactRebuild, CompactDiscard, CompactorLocals
  <2> QED
    BY <1>1, <2>1, <2>2, CoveredFrames, CoveredPartsNext
<1>3. CASE CompactCommit
  <2>1. \A d \in Drives : Covers(index'[d])
    BY <1>0, <1>3, ManagerCovers DEF CompactCommit
  <2>2. IndexCovered'
    BY <2>1 DEF IndexCovered, Covers, Relevant, Reflects
  <2>3. Covers(compactor'.image) /\ cache' = cache
    BY <1>0, <1>3 DEF CompactCommit, CompactorLocals
  <2> QED
    BY <1>1, <2>2, <2>3, CoveredFrames, CoveredPartsNext
<1>4. CASE CompactPersist
  <2>1. Covers(Persisted(index[compactor.drive]))
    BY <1>0, PersistedCovers
  <2>2. \A d \in Drives : \A i \in cache'[d] : Covers(i)
    BY <1>0, <1>4, <2>1 DEF CompactPersist, CoveredInv, CursorNeverAheadOfContent
  <2>3. CacheCovered'
    BY <2>2 DEF CacheCovered, Covers, Relevant, Reflects
  <2> QED
    BY <1>1, <1>4, <1>e, <2>3, CoveredFrames, CoveredPartsNext DEF CompactPersist
<1> QED
  BY <1>2, <1>3, <1>4 DEF Compact

LEMMA BuildStepKeepsCovered ==
    ASSUME TypeOK, CoveredInv, NEW t \in Threads, Build(t)
    PROVE  CoveredInv'
<1>1. UNCHANGED <<engine, compactor>>
  BY DEF Build, ReadCache, CheckCache, BeginScan, EndScan, QueryHead,
         PersistBuilt, InstallBuilt, BuildFails
<1>2. BuildsCovered' /\ CacheCovered'
  BY BuildKeepsCovered DEF BuildsCovered, CacheCovered, BuildCovered, Covers,
     Relevant, Reflects
<1>3. IndexCovered'
  <2>1. CASE InstallBuilt(t)
    <3>1. worker[t].drive \in Drives /\ worker[t].image \in Image /\ Covers(worker[t].image)
      BY DEF TypeOK, Worker, CoveredInv, CursorNeverAheadOfContent
    <3>2. \A d \in Drives : Covers(index'[d])
      BY <2>1, <3>1, ManagerCovers DEF InstallBuilt
    <3> QED
      BY <3>2 DEF IndexCovered, Covers, Relevant, Reflects
  <2>2. CASE UNCHANGED managerVars
    BY <2>2, CoveredFrames
  <2> QED
    BY <2>1, <2>2 DEF Build, ReadCache, CheckCache, BeginScan, EndScan,
       QueryHead, PersistBuilt, BuildFails
<1> QED
  BY <1>1, <1>2, <1>3, CoveredFrames, CoveredPartsNext

LEMMA StartedCovers ==
    ASSUME NEW d, NEW pc
    PROVE  BuildCovered(StartWorker(d, pc))
<1>1. StartWorker(d, pc).image = IdleWorker.image
  BY DEF StartWorker, IdleWorker
<1> QED
  BY <1>1, IdleCovers DEF BuildCovered

LEMMA CallKeepsCovered ==
    ASSUME TypeOK, CoveredInv,
           \/ \E d \in Drives : AddDrive(d) \/ RemoveDrive(d) \/ RebuildDrive(d)
           \/ ClearCache \/ ClearRebuild \/ Shutdown
    PROVE  CoveredInv'
<1>0. worker \in [Threads -> Worker] /\ HotThreads \subseteq Threads
  BY DEF TypeOK, Threads
<1>w. ASSUME NEW t \in Threads, NEW d, NEW pc,
             worker' = [worker EXCEPT ![t] = StartWorker(d, pc)]
      PROVE  BuildsCovered'
  <2>1. \A u \in Threads : BuildCovered(worker'[u])
    BY <1>0, <1>w, StartedCovers, CoveredParts DEF BuildsCovered
  <2> QED
    BY <2>1 DEF BuildsCovered, BuildCovered, Covers, Relevant, Reflects
<1>r. ASSUME NEW d \in Drives, Remove(d)
      PROVE  IndexCovered'
  <2>1. \A e \in Drives : Covers(index'[e])
    BY <1>r, ManagerCovers
  <2> QED
    BY <2>1 DEF IndexCovered, Covers, Relevant, Reflects
<1>1. ASSUME NEW d \in Drives, StartRebuild(d)
      PROVE  IndexCovered' /\ BuildsCovered'
  BY <1>0, <1>1, <1>r, <1>w DEF StartRebuild
<1>2. ASSUME NEW d \in Drives, AddDrive(d)
      PROVE  CoveredInv'
  <2>1. BuildsCovered'
    BY <1>0, <1>2, <1>w DEF AddDrive
  <2> QED
    BY <1>2, <2>1, CoveredFrames, CoveredPartsNext DEF AddDrive
<1>3. ASSUME NEW d \in Drives, RemoveDrive(d)
      PROVE  CoveredInv'
  BY <1>3, <1>r, CoveredFrames, CoveredPartsNext DEF RemoveDrive, processVars
<1>4. ASSUME NEW d \in Drives, RebuildDrive(d)
      PROVE  CoveredInv'
  BY <1>1, <1>4, CoveredFrames, CoveredPartsNext DEF RebuildDrive
<1>5. CASE ClearCache
  <2>1. \A d \in Drives : cache'[d] \subseteq cache[d]
    BY <1>5 DEF ClearCache
  <2>2. CacheCovered'
    BY <2>1, CoveredParts DEF CacheCovered, Covers, Relevant, Reflects
  <2> QED
    BY <1>5, <2>2, CoveredFrames, CoveredPartsNext DEF ClearCache
<1>6. CASE ClearRebuild
  BY <1>1, <1>6, CoveredFrames, CoveredPartsNext DEF ClearRebuild, TypeOK
<1>7. CASE Shutdown
  BY <1>7, CoveredFrames, CoveredPartsNext DEF Shutdown
<1> QED
  BY <1>2, <1>3, <1>4, <1>5, <1>6, <1>7

LEMMA OutsideKeepsCovered ==
    ASSUME TypeOK, CoveredInv,
           \/ \E d \in Drives : Change(d) \/ Trim(d) \/ Recreate(d)
           \/ Crash
           \/ UNCHANGED vars
    PROVE  CoveredInv'
<1>1. CASE UNCHANGED <<managerVars, processVars, cache>>
  BY <1>1, CoveredFrames, CoveredPartsNext DEF processVars
<1>2. CASE Crash
  <2>1. \A d \in Drives : Covers(index'[d])
    BY <1>2, EmptyCovers DEF Crash
  <2>2. \A t \in Threads : BuildCovered(worker'[t])
    BY <1>2, IdleCovers DEF Crash, BuildCovered
  <2>3. Covers(compactor'.image) /\ engine'.pc # "apply" /\ cache' = cache
    BY <1>2, IdleCovers DEF Crash, EngineAt
  <2>4. IndexCovered' /\ BuildsCovered'
    BY <2>1, <2>2 DEF IndexCovered, BuildsCovered, BuildCovered, Covers,
       Relevant, Reflects
  <2> QED
    BY <2>3, <2>4, CoveredFrames, CoveredPartsNext
<1> QED
  BY <1>1, <1>2 DEF Change, Trim, Recreate, vars

LEMMA CoveredInit == Init => CoveredInv
<1> SUFFICES ASSUME Init
             PROVE  CoveredInv
  OBVIOUS
<1>1. \A d \in Drives : Covers(index[d]) /\ cache[d] = {}
  BY EmptyCovers DEF Init, ProcessInit, ManagerInit
<1>2. \A t \in Threads : Covers(worker[t].image) /\ worker[t].pc = "idle"
  BY IdleCovers DEF Init, ProcessInit
<1>3. Covers(compactor.image) /\ engine.pc = "build"
  BY IdleCovers DEF Init, ProcessInit, EngineAt
<1> QED
  BY <1>1, <1>2, <1>3 DEF CoveredInv, CursorNeverAheadOfContent

LEMMA CoveredNext ==
    TypeOK /\ PollsConfigured /\ CoveredInv /\ [Next]_vars => CoveredInv'
BY EngineKeepsCovered, CompactKeepsCovered, BuildStepKeepsCovered,
   CallKeepsCovered, OutsideKeepsCovered DEF Next

LEMMA CoveredInductive == Spec => [](TypeOK /\ PollsConfigured /\ CoveredInv)
BY InitTypes, NextTypes, CoveredInit, CoveredNext, PTL DEF Spec

(* No image of a drive, loaded, cached, being built or being compacted, has *)
(* a cursor that jumped over a change it neither shows nor gave up, in any  *)
(* order of builds, polls, compactions, removals and crashes.               *)
THEOREM CursorNeverAhead == Spec => []CursorNeverAheadOfContent
BY CoveredInductive, PTL DEF CoveredInv

-----------------------------------------------------------------------------
(* Generations and compactions *)

(* The five ways in which the loaded indexes change.                        *)
LEMMA ManagerSteps ==
    ASSUME TypeOK, PollsConfigured, Next
    PROVE  \/ UNCHANGED managerVars
           \/ \E d \in Drives : Remove(d)
           \/ \E d \in Drives : \E i \in Image : Install(d, i)
           \/ /\ engine.pc = "apply" /\ Polled \in Drives
              /\ Apply(Polled, engine.events, engine.next, engine.info.id,
                       Relevant(index[Polled].cursor, engine.from - 1)
                          \ Reflects(index[Polled]))
           \/ CompactCommit
           \/ Crash
<1>1. CASE EngineStep
  <2>1. CASE ApplyPoll
    <3>1. Polled \in Drives
      BY <2>1 DEF ApplyPoll, PollsConfigured, Polled, TypeOK, EngineLocals
    <3> QED
      BY <2>1, <3>1 DEF ApplyPoll
  <2>2. CASE EngineBuildNext \/ EngineBuilt \/ EngineReady \/ EngineStops
    BY <2>2 DEF EngineBuildNext, EngineBuilt, EngineReady, EngineStops
  <2>3. CASE ReadCursor \/ QueryJournal \/ ReadJournal \/ TakeGate \/ Capture
    BY <2>3 DEF ReadCursor, QueryJournal, ReadJournal, TakeGate, Capture
  <2> QED
    BY <1>1, <2>1, <2>2, <2>3 DEF EngineStep
<1>2. CASE Compact
  BY <1>2 DEF Compact, CompactRebuild, CompactDiscard, CompactPersist
<1>3. ASSUME NEW t \in Threads, Build(t)
      PROVE  \/ UNCHANGED managerVars
             \/ \E d \in Drives : \E i \in Image : Install(d, i)
  <2>1. CASE InstallBuilt(t)
    BY <2>1 DEF InstallBuilt, TypeOK, Worker
  <2>2. CASE UNCHANGED managerVars
    BY <2>2
  <2> QED
    BY <1>3, <2>1, <2>2 DEF Build, ReadCache, CheckCache, BeginScan, EndScan,
       QueryHead, PersistBuilt, BuildFails
<1>4. ASSUME NEW d \in Drives, AddDrive(d) \/ RemoveDrive(d) \/ RebuildDrive(d)
      PROVE  UNCHANGED managerVars \/ Remove(d)
  BY <1>4 DEF AddDrive, RemoveDrive, RebuildDrive, StartRebuild
<1>5. CASE ClearCache \/ Shutdown
  BY <1>5 DEF ClearCache, Shutdown
<1>6. CASE ClearRebuild
  BY <1>6 DEF ClearRebuild, StartRebuild, TypeOK
<1>7. ASSUME NEW d \in Drives, Change(d) \/ Trim(d) \/ Recreate(d)
      PROVE  UNCHANGED managerVars
  BY <1>7 DEF Change, Trim, Recreate
<1> QED
  BY <1>1, <1>2, <1>3, <1>4, <1>5, <1>6, <1>7 DEF Next

LEMMA SameIndexesSameVisible ==
    ASSUME UNCHANGED managerVars
    PROVE  Visible' = Visible
BY DEF managerVars, Visible, Loaded, Reflects

(* An empty batch moves the cursor and shows nothing new.                   *)
LEMMA BatchTracked ==
    ASSUME TypeOK, NEW d \in Drives, NEW events, NEW next, NEW jid, NEW skipped,
           Apply(d, events, next, jid, skipped)
    PROVE  Visible' = Visible \/ generation' = generation + 1
<1>0. index \in [Drives -> Image] /\ index[d] \in Image
  BY DEF TypeOK, ManagerTypeOK
<1>1. CASE Loaded(d) /\ events = {}
  <2> DEFINE n == AfterBatch(index[d], events, next, jid, skipped)
  <2>1. n.base = index[d].base /\ n.delta = index[d].delta \cup events
    BY <1>0 DEF AfterBatch, Image
  <2>2. Reflects(n) = Reflects(index[d])
    BY <1>1, <2>1 DEF Reflects
  <2>3. index' = [index EXCEPT ![d] = n] /\ place' = place
    BY <1>1 DEF Apply
  <2>4. \A e \in Drives : Reflects(index'[e]) = Reflects(index[e])
    <3> HIDE DEF n
    <3> QED
      BY <1>0, <2>2, <2>3
  <2> QED
    BY <2>3, <2>4 DEF Visible, Loaded, Reflects
<1>2. CASE Loaded(d) /\ events # {}
  BY <1>2 DEF Apply, BumpGeneration
<1>3. CASE ~Loaded(d)
  BY <1>3, SameIndexesSameVisible DEF Apply
<1> QED
  BY <1>1, <1>2, <1>3

LEMMA GenerationStep ==
    ASSUME TypeOK, PollsConfigured, Next, crashes' = crashes, Visible' # Visible
    PROVE  generation' > generation
<1>0. generation \in Nat /\ crashes \in Nat
  BY DEF TypeOK, ManagerTypeOK
<1>1. ~Crash
  BY <1>0 DEF Crash
<1>2. CASE UNCHANGED managerVars
  BY <1>2, SameIndexesSameVisible
<1>3. ASSUME NEW d \in Drives, Remove(d)
      PROVE  generation' = generation + 1
  BY <1>3, SameIndexesSameVisible DEF Remove, BumpGeneration
<1>4. ASSUME NEW d \in Drives, NEW i \in Image, Install(d, i)
      PROVE  generation' = generation + 1
  BY <1>4 DEF Install, BumpGeneration
<1>5. CASE /\ Polled \in Drives
           /\ Apply(Polled, engine.events, engine.next, engine.info.id,
                    Relevant(index[Polled].cursor, engine.from - 1)
                       \ Reflects(index[Polled]))
  BY <1>0, <1>5, BatchTracked
<1>6. CASE CompactCommit
  BY <1>0, <1>6 DEF CompactCommit, CommitCompact, BumpGeneration
<1> QED
  BY <1>0, <1>1, <1>2, <1>3, <1>4, <1>5, <1>6, ManagerSteps

(* While the process lives, nothing a search can see changes without the    *)
(* generation, by which the search sessions throw their candidates away.    *)
THEOREM GenerationAlwaysTracks == Spec => GenerationTracksContent
<1>1. TypeOK /\ PollsConfigured /\ [Next]_vars =>
         [crashes' = crashes /\ Visible' # Visible => generation' > generation]_vars
  BY GenerationStep
<1>2. Spec => [](TypeOK /\ PollsConfigured)
  BY InitTypes, NextTypes, PTL DEF Spec
<1> QED
  BY <1>1, <1>2, PTL DEF Spec, GenerationTracksContent

(* While an image is being compacted, its drive holds what was captured, or *)
(* was installed anew (a later place), or took a batch (a later revision).  *)
CaptureInv ==
    /\ \A d \in Drives : place[d] <= generation
    /\ compactor.pc \in {"rebuild", "commit"} =>
          /\ compactor.place \in 1 .. generation
          /\ place[compactor.drive] = compactor.place =>
                /\ compactor.revision <= revision[compactor.drive]
                /\ revision[compactor.drive] = compactor.revision =>
                      Reflects(index[compactor.drive]) = Reflects(compactor.image)

(* A drive changes under the compactor: unless its instance and revision    *)
(* stay, either moves past what the capture holds.                          *)
LEMMA CaptureAway ==
    ASSUME TypeOK, CaptureInv, compactor' = compactor, NEW d \in Drives,
           generation' \in Nat, generation \leq generation',
           place'[d] \in Nat, place'[d] \leq generation', revision'[d] \in Nat,
           \A e \in Drives \ {d} : /\ place'[e] = place[e] /\ revision'[e] = revision[e]
                                 /\ index'[e] = index[e],
           \/ place'[d] = 0 \/ place'[d] > generation
           \/ place'[d] = place[d] /\ revision'[d] > revision[d]
           \/ /\ place'[d] = place[d] /\ revision'[d] = revision[d]
              /\ Reflects(index'[d]) = Reflects(index[d])
    PROVE  CaptureInv'
<1>0. /\ index \in [Drives -> Image] /\ revision \in [Drives -> Nat]
      /\ place \in [Drives -> Nat] /\ generation \in Nat
      /\ compactor.drive \in Drives /\ compactor.revision \in Nat
      /\ compactor.place \in Nat
  BY DEF TypeOK, ManagerTypeOK, CompactorLocals
<1> DEFINE n == place'[d]
           u == revision'[d]
           i == index'[d]
<1>1. /\ \A e \in Drives \ {d} : /\ place'[e] = place[e] /\ revision'[e] = revision[e]
                                 /\ index'[e] = index[e]
      /\ n \in Nat /\ u \in Nat /\ n \leq generation'
  OBVIOUS
<1> DEFINE c == compactor.drive
           cp == compactor.place
           cr == compactor.revision
<1>2. \A e \in Drives : place'[e] \leq generation'
  <2>1. ASSUME NEW e \in Drives \ {d} PROVE place'[e] \leq generation'
    <3>1. place'[e] = place[e] /\ place[e] \leq generation /\ place[e] \in Nat
      BY <1>0, <1>1 DEF CaptureInv
    <3> QED
      BY <1>0, <3>1
  <2>2. place'[d] \leq generation'
    BY <1>1
  <2> QED
    BY <2>1, <2>2
<1>3. ASSUME compactor.pc \in {"rebuild", "commit"}
      PROVE  /\ cp \in 1 .. generation'
             /\ place'[c] = cp =>
                   /\ cr \leq revision'[c]
                   /\ revision'[c] = cr => Reflects(index'[c]) = Reflects(compactor.image)
  <2>1. /\ cp \in 1 .. generation
        /\ place[c] = cp =>
              /\ cr \leq revision[c]
              /\ revision[c] = cr => Reflects(index[c]) = Reflects(compactor.image)
    BY <1>3 DEF CaptureInv
  <2>2. CASE c # d
    <3>1. place'[c] = place[c] /\ revision'[c] = revision[c] /\ index'[c] = index[c]
      BY <1>0, <1>1, <2>2
    <3>2. cp \in 1 .. generation'
      BY <1>0, <2>1
    <3> QED
      BY <2>1, <3>1, <3>2
  <2>3. CASE c = d
    <3>1. cp \in 1 .. generation'
      BY <1>0, <2>1
    <3>2. CASE n = 0 \/ n > generation
      <4>1. place'[c] # cp
        BY <1>0, <1>1, <2>1, <2>3, <3>2
      <4> QED
        BY <3>1, <4>1
    <3>3. CASE n = place[d] /\ u > revision[d]
      <4>1. place'[c] = cp => cr \leq revision[c]
        BY <1>1, <2>1, <2>3, <3>3
      <4>2. place'[c] = cp => cr < u
        BY <1>0, <2>3, <3>3, <4>1
      <4> QED
        BY <1>0, <1>1, <2>3, <3>1, <4>2
    <3>4. CASE n = place[d] /\ u = revision[d] /\ Reflects(i) = Reflects(index[d])
      BY <1>1, <2>1, <2>3, <3>1, <3>4
    <3> QED
      BY <3>2, <3>3, <3>4
  <2> QED
    BY <2>2, <2>3
<1> HIDE DEF Reflects
<1>4. Reflects(index[compactor.drive])' = Reflects(index'[compactor.drive])
      /\ Reflects(compactor.image)' = Reflects(compactor.image)
  BY DEF Reflects
<1> QED
  BY <1>2, <1>3, <1>4 DEF CaptureInv

LEMMA CaptureManager ==
    ASSUME TypeOK, CaptureInv, compactor' = compactor, NEW d \in Drives,
           \/ UNCHANGED managerVars
           \/ Remove(d)
           \/ \E i \in Image : Install(d, i)
           \/ \E events, next, jid, skipped : Apply(d, events, next, jid, skipped)
    PROVE  CaptureInv'
<1>0. /\ index \in [Drives -> Image] /\ revision \in [Drives -> Nat]
      /\ place \in [Drives -> Nat] /\ generation \in Nat
      /\ compactor.drive \in Drives /\ compactor.revision \in Nat
      /\ compactor.place \in Nat
  BY DEF TypeOK, ManagerTypeOK, CompactorLocals
<1>1. CASE UNCHANGED managerVars
  BY <1>1 DEF managerVars, CaptureInv, Reflects
<1>2. CASE generation' = generation + 1 /\ place' = [place EXCEPT ![d] = 0]
           /\ index' = [index EXCEPT ![d] = EmptyImage]
           /\ revision' = [revision EXCEPT ![d] = 0]
  <2>1. generation + 1 \in Nat /\ generation \leq generation + 1
    BY <1>0
  <2>2. /\ place'[d] = 0 /\ revision'[d] = 0
        /\ \A e \in Drives \ {d} : /\ place'[e] = place[e] /\ revision'[e] = revision[e]
                                   /\ index'[e] = index[e]
    BY <1>0, <1>2
  <2> QED
    BY <1>0, <1>2, <2>1, <2>2, CaptureAway
<1>3. ASSUME NEW i \in Image, Install(d, i)
      PROVE  CaptureInv'
  <2>1. /\ generation + 1 \in Nat /\ generation \leq generation + 1
        /\ generation + 1 > generation
    BY <1>0
  <2>2. /\ place'[d] = generation + 1 /\ revision'[d] = 0 /\ generation' = generation + 1
        /\ \A e \in Drives \ {d} : /\ place'[e] = place[e] /\ revision'[e] = revision[e]
                                   /\ index'[e] = index[e]
    BY <1>0, <1>3 DEF Install, BumpGeneration
  <2> QED
    BY <2>1, <2>2, CaptureAway
<1>4. ASSUME NEW events, NEW next, NEW jid, NEW skipped,
             Apply(d, events, next, jid, skipped), Loaded(d)
      PROVE  CaptureInv'
  <2> DEFINE n == AfterBatch(index[d], events, next, jid, skipped)
  <2>1. index' = [index EXCEPT ![d] = n] /\ place' = place
    BY <1>4 DEF Apply
  <2>2. /\ place'[d] = place[d] /\ place[d] \in Nat /\ revision[d] \in Nat
        /\ place[d] \leq generation /\ index'[d] = n
        /\ \A e \in Drives \ {d} : place'[e] = place[e] /\ index'[e] = index[e]
    <3> HIDE DEF n
    <3> QED
      BY <1>0, <2>1 DEF CaptureInv
  <2>3. CASE events = {}
    <3>1. n.base = index[d].base /\ n.delta = index[d].delta \cup events
      BY <1>0 DEF AfterBatch, Image
    <3>2. Reflects(n) = Reflects(index[d])
      BY <2>3, <3>1 DEF Reflects
    <3>3. generation' = generation /\ revision' = revision
      BY <1>4, <2>3 DEF Apply
    <3> HIDE DEF n
    <3> QED
      <4>1. /\ generation' \in Nat /\ generation \leq generation'
            /\ place'[d] \in Nat /\ place'[d] \leq generation' /\ revision'[d] \in Nat
        BY <1>0, <2>2, <3>3
      <4>2. \A e \in Drives \ {d} : /\ place'[e] = place[e] /\ revision'[e] = revision[e]
                                  /\ index'[e] = index[e]
        BY <2>2, <3>3
      <4>3. /\ place'[d] = place[d] /\ revision'[d] = revision[d]
            /\ Reflects(index'[d]) = Reflects(index[d])
        BY <2>2, <3>2, <3>3
      <4> QED
        BY <4>1, <4>2, <4>3, CaptureAway
  <2>4. CASE events # {}
    <3>1. revision' = [revision EXCEPT ![d] = revision[d] + 1]
          /\ generation' = generation + 1
      BY <1>4, <2>4 DEF Apply, BumpGeneration
    <3>2. /\ generation + 1 \in Nat /\ generation \leq generation + 1
          /\ place[d] \leq generation + 1
          /\ revision[d] + 1 \in Nat /\ revision[d] + 1 > revision[d]
      <4> DEFINE x == place[d]
                 u == revision[d]
      <4>1. x \in Nat /\ u \in Nat /\ generation \in Nat /\ x \leq generation
        BY <1>0, <2>2
      <4> HIDE DEF x, u
      <4>2. /\ generation + 1 \in Nat /\ generation \leq generation + 1
            /\ x \leq generation + 1 /\ u + 1 \in Nat /\ u + 1 > u
        BY ONLY <4>1
      <4> QED
        BY <4>2 DEF x, u
    <3>3. /\ revision'[d] = revision[d] + 1
          /\ \A e \in Drives \ {d} : revision'[e] = revision[e]
      BY <1>0, <3>1
    <3> HIDE DEF n
    <3> QED
      <4>1. /\ generation' \in Nat /\ generation \leq generation'
            /\ place'[d] \in Nat /\ place'[d] \leq generation' /\ revision'[d] \in Nat
        BY <1>0, <2>2, <3>1, <3>2, <3>3
      <4>2. \A e \in Drives \ {d} : /\ place'[e] = place[e] /\ revision'[e] = revision[e]
                                  /\ index'[e] = index[e]
        BY <2>2, <3>3
      <4>3. place'[d] = place[d] /\ revision'[d] > revision[d]
        BY <2>2, <3>2, <3>3
      <4> QED
        BY <4>1, <4>2, <4>3, CaptureAway
  <2> QED
    BY <2>3, <2>4
<1> QED
  BY <1>1, <1>2, <1>3, <1>4 DEF Remove, BumpGeneration, Apply

LEMMA CaptureCompact ==
    ASSUME TypeOK, CaptureInv, Compact
    PROVE  CaptureInv'
<1>0. /\ index \in [Drives -> Image] /\ revision \in [Drives -> Nat]
      /\ place \in [Drives -> Nat] /\ generation \in Nat
      /\ compactor \in CompactorLocals
  BY DEF TypeOK, ManagerTypeOK
<1>e. CompactorEnds => compactor'.pc = "idle"
  BY DEF CompactorEnds, IdleCompactor
<1>1. CASE CompactRebuild \/ CompactDiscard \/ CompactPersist
  <2>1. UNCHANGED managerVars
    BY <1>1 DEF CompactRebuild, CompactDiscard, CompactPersist
  <2>2. \/ compactor'.pc = "idle"
        \/ /\ compactor.pc = "rebuild" /\ compactor'.drive = compactor.drive
           /\ compactor'.place = compactor.place
           /\ compactor'.revision = compactor.revision
           /\ compactor'.image = compactor.image
    BY <1>0, <1>1, <1>e DEF CompactRebuild, CompactDiscard, CompactPersist,
       CompactorLocals
  <2> QED
    BY <2>1, <2>2 DEF CaptureInv, managerVars, Reflects
<1>2. CASE CompactCommit
  <2>1. compactor'.pc = "persist" /\ place' = place /\ generation' = generation + 1
    BY <1>0, <1>2 DEF CompactCommit, CommitCompact, BumpGeneration, CompactorLocals
  <2> QED
    BY <1>0, <2>1 DEF CaptureInv
<1> QED
  BY <1>1, <1>2 DEF Compact

LEMMA CaptureCapture ==
    ASSUME TypeOK, CaptureInv, Capture
    PROVE  CaptureInv'
<1>0. /\ index \in [Drives -> Image] /\ revision \in [Drives -> Nat]
      /\ place \in [Drives -> Nat] /\ generation \in Nat
  BY DEF TypeOK, ManagerTypeOK
<1>1. UNCHANGED managerVars
  BY DEF Capture
<1>2. CASE compactor' = compactor
  BY <1>1, <1>2, CaptureManager
<1>3. ASSUME NEW d \in Drives, IsCompactCandidate(d),
             compactor' = [pc |-> "rebuild", drive |-> d,
                           revision |-> revision[d], place |-> place[d],
                           image |-> Folded(index[d])]
      PROVE  CaptureInv'
  <2>1. place[d] \in 1 .. generation
    BY <1>0, <1>3 DEF IsCompactCandidate, ShouldCompact, Loaded, CaptureInv
  <2>2. Reflects(compactor'.image) = Reflects(index[d])
    BY <1>0, <1>3, FoldedReflects
  <2> QED
    BY <1>0, <1>1, <1>3, <2>1, <2>2 DEF CaptureInv, managerVars, Reflects
<1> QED
  BY <1>2, <1>3 DEF Capture

(* Who else may touch the compaction thread's locals.                       *)
LEMMA CompactorFrame ==
    ASSUME Next
    PROVE  compactor' = compactor \/ Capture \/ Compact \/ Crash
<1>1. CASE EngineStep
  BY <1>1 DEF EngineStep, EngineBuildNext, EngineBuilt, EngineReady, EngineStops,
     ReadCursor, QueryJournal, ReadJournal, ApplyPoll, TakeGate
<1>2. ASSUME NEW t \in Threads, Build(t)
      PROVE  compactor' = compactor
  BY <1>2 DEF Build, ReadCache, CheckCache, BeginScan, EndScan, QueryHead,
     PersistBuilt, InstallBuilt, BuildFails
<1> QED
  BY <1>1, <1>2 DEF Next, AddDrive, RemoveDrive, RebuildDrive, ClearCache,
     ClearRebuild, Shutdown, Change, Trim, Recreate, processVars

LEMMA CaptureNext ==
    TypeOK /\ PollsConfigured /\ CaptureInv /\ [Next]_vars => CaptureInv'
<1> SUFFICES ASSUME TypeOK, PollsConfigured, CaptureInv, [Next]_vars
             PROVE  CaptureInv'
  OBVIOUS
<1>1. CASE UNCHANGED vars
  BY <1>1 DEF vars, processVars, managerVars, CaptureInv, Reflects
<1>2. CASE Compact \/ Capture
  BY <1>2, CaptureCompact, CaptureCapture
<1>3. CASE Crash
  BY <1>3 DEF Crash, CaptureInv, IdleCompactor
<1>4. CASE Next /\ compactor' = compactor /\ ~Crash /\ ~CompactCommit
  <2> DEFINE Reads(d) == \E events, next, jid, skipped :
                            Apply(d, events, next, jid, skipped)
  <2>1. \E d \in Drives : \/ UNCHANGED managerVars
                          \/ Remove(d)
                          \/ \E i \in Image : Install(d, i)
                          \/ Reads(d)
    BY <1>4, ManagerSteps
  <2> QED
    BY <1>4, <2>1, CaptureManager
<1> QED
  BY <1>1, <1>2, <1>3, <1>4, CompactorFrame DEF Compact

LEMMA CaptureInit == Init => CaptureInv
BY DEF Init, ProcessInit, ManagerInit, IdleCompactor, CaptureInv

(* Only CompactCommit goes from commit to persist, and the revision it      *)
(* checks says that nothing was applied since the capture.                  *)
LEMMA CommitStep ==
    ASSUME TypeOK, CaptureInv, Next, CompactCommits,
           place[compactor.drive] = compactor.place
    PROVE  Reflects(index'[compactor.drive]) = Reflects(index[compactor.drive])
<1>0. /\ index \in [Drives -> Image] /\ compactor.drive \in Drives
      /\ compactor.pc = "commit" /\ compactor'.pc = "persist"
  BY DEF TypeOK, ManagerTypeOK, CompactorLocals, CompactCommits
<1>1. CompactCommit
  <2>1. CompactorEnds => compactor'.pc = "idle"
    BY DEF CompactorEnds, IdleCompactor
  <2>2. ~Crash /\ compactor' # compactor
    BY <1>0 DEF Crash, IdleCompactor
  <2>3. ~Capture
    BY <1>0 DEF Capture
  <2> QED
    BY <1>0, <2>1, <2>2, <2>3, CompactorFrame DEF Compact, CompactRebuild,
       CompactDiscard, CompactPersist
<1>2. /\ revision[compactor.drive] = compactor.revision
      /\ index'[compactor.drive] = compactor.image
  BY <1>0, <1>1 DEF CompactCommit, RevisionMatches, CommitCompact
<1> QED
  BY <1>0, <1>2 DEF CaptureInv

(* A compaction that commits over the installation it was captured from     *)
(* changes nothing a search can see, whatever was polled in between.        *)
THEOREM CommitAlwaysKeeps == Spec => CommitKeepsContent
<1>1. TypeOK /\ CaptureInv /\ [Next]_vars =>
         [CompactCommits /\ place[compactor.drive] = compactor.place
            => Reflects(index'[compactor.drive]) = Reflects(index[compactor.drive])]_vars
  BY CommitStep
<1>2. Spec => [](TypeOK /\ PollsConfigured /\ CaptureInv)
  BY InitTypes, NextTypes, CaptureInit, CaptureNext, PTL DEF Spec
<1> QED
  BY <1>1, <1>2, PTL DEF Spec, CommitKeepsContent

-----------------------------------------------------------------------------
(* Nothing is lost without a reason *)

(* What the theorem needs of the instance: the start-up builds are the only *)
(* ones, and nothing changes under an MFT read.                             *)
Undriven == HotThreads = {} /\ "busyscan" \notin Env

Undisturbed(d) == journal[d].first = 1 /\ journal[d].id = 1 /\ crashes = 0

(* An image that gave up nothing; one that names a journal has a cursor.    *)
Intact(i) == i.lost = {} /\ (i.jid # 0 => i.cursor # 0)

IndexSteady(d) == Intact(index[d])

CaptureSteady(d) == compactor.drive = d => Intact(compactor.image)

Building == engine.pc \in {"build", "building"}

(* Until the first poll no compaction has written a cache.                  *)
CacheSteady(d) == Building => \A i \in cache[d] : Intact(i) /\ i.delta = {}

SteadyBuild(w, next) ==
    /\ Intact(w.image) /\ w.image.delta = {}
    /\ w.pc \in Unplaced => w.image.cursor = 0 /\ w.image.jid = 0
    /\ w.pc \in {"scanning", "head"} => w.from = next
    /\ w.pc = "head" => Relevant(1, w.from - 1) \subseteq w.image.base

BuildSteady(d) ==
    worker[EngineThread].drive = d => SteadyBuild(worker[EngineThread], journal[d].next)

(* What is read from the journal joins what the index shows by then.        *)
PollSteady(d) ==
    Polled = d /\ Loaded(d) =>
        /\ engine.pc \in {"query", "read"} =>
              Relevant(1, engine.start - 1) \subseteq Reflects(index[d])
        /\ engine.pc = "apply" =>
              Relevant(1, engine.from - 1) \subseteq Reflects(index[d]) /\ engine.next # 0

Steady(d) == /\ IndexSteady(d) /\ CaptureSteady(d) /\ CacheSteady(d)
             /\ BuildSteady(d) /\ PollSteady(d)

(* The builds come before the compactions, and a compaction finds its drive *)
(* as it was installed or not at all.                                       *)
PhaseInv ==
    /\ \A d \in Drives : journal[d].first > 0 /\ journal[d].id > 0 /\ journal[d].next > 0
    /\ engine.pc # "building" => worker[EngineThread] = IdleWorker
    /\ Building => compactor.pc = "idle"
    /\ compactor.pc \in {"rebuild", "commit"} =>
          place[compactor.drive] \in {0, compactor.place}

SteadyInv == PhaseInv /\ \A d \in Drives : Undisturbed(d) => Steady(d)

EngineInv == TypeOK /\ PollsConfigured /\ CoveredInv /\ CaptureInv

LEMMA EngineInvInductive == Spec => []EngineInv
BY InitTypes, NextTypes, CoveredInit, CoveredNext, CaptureInit, CaptureNext, PTL
   DEF Spec, EngineInv

LEMMA OnlyEngineBuilds ==
    ASSUME Undriven, PhaseInv, NEW t \in Threads, Build(t)
    PROVE  t = EngineThread /\ engine.pc = "building" /\ compactor.pc = "idle"
<1>1. t = EngineThread
  BY DEF Threads, Undriven
<1>2. worker[t].pc # "idle"
  BY DEF Build, ReadCache, CheckCache, BeginScan, EndScan, QueryHead,
     PersistBuilt, InstallBuilt, BuildFails
<1> QED
  BY <1>1, <1>2, IdleCovers DEF PhaseInv, Building

(* A build changes no journal.                                              *)
LEMMA BuildLeaves ==
    ASSUME NEW t \in Threads, Build(t)
    PROVE  journal' = journal /\ crashes' = crashes
<1>1. ReadCache(t) => journal' = journal /\ crashes' = crashes
  BY DEF ReadCache
<1>2. CheckCache(t) => journal' = journal /\ crashes' = crashes
  BY DEF CheckCache
<1>3. BeginScan(t) => journal' = journal /\ crashes' = crashes
  BY DEF BeginScan
<1>4. EndScan(t) => journal' = journal /\ crashes' = crashes
  BY DEF EndScan
<1>5. QueryHead(t) => journal' = journal /\ crashes' = crashes
  BY DEF QueryHead
<1>6. PersistBuilt(t) => journal' = journal /\ crashes' = crashes
  BY DEF PersistBuilt
<1>7. InstallBuilt(t) => journal' = journal /\ crashes' = crashes
  BY DEF InstallBuilt
<1>8. BuildFails(t) => journal' = journal /\ crashes' = crashes
  BY DEF BuildFails
<1> QED
  BY <1>1, <1>2, <1>3, <1>4, <1>5, <1>6, <1>7, <1>8 DEF Build

(* Journals only lose their first records or start anew.                    *)
LEMMA JournalStep ==
    ASSUME TypeOK, PhaseInv, Next
    PROVE  /\ \A d \in Drives : /\ journal'[d].first > 0 /\ journal'[d].id > 0
                                /\ journal'[d].next > 0
           /\ \A d \in Drives : Undisturbed(d)' => Undisturbed(d)
           /\ journal' = journal \/ \E d \in Drives : Change(d) \/ Trim(d) \/ Recreate(d)
<1>0. \A d \in Drives : /\ journal[d] \in JournalInfo
                        /\ journal[d].first \in Nat /\ journal[d].first > 0
                        /\ journal[d].id \in Nat /\ journal[d].id > 0
                        /\ journal[d].next \in Nat /\ journal[d].next > 0
  BY DEF TypeOK, JournalInfo, PhaseInv
<1>1. journal \in [Drives -> JournalInfo] /\ crashes \in Nat
  BY DEF TypeOK
<1>2. CASE journal' = journal
  <2>1. crashes' = 0 => crashes = 0
    <3>1. CASE Crash
      BY <1>1, <3>1 DEF Crash
    <3>2. CASE crashes' = crashes
      BY <3>2
    <3>3. Next => Crash \/ crashes' = crashes
      <4>1. Compact => crashes' = crashes
        BY DEF Compact, CompactRebuild, CompactCommit, CompactDiscard, CompactPersist
      <4>2. EngineStep => crashes' = crashes
        BY DEF EngineStep, EngineBuildNext, EngineBuilt, EngineReady, EngineStops,
           ReadCursor, QueryJournal, ReadJournal, ApplyPoll, TakeGate, Capture
      <4>3. \A t \in Threads : Build(t) => crashes' = crashes
        BY BuildLeaves
      <4> QED
        BY <4>1, <4>2, <4>3 DEF Next, AddDrive, RemoveDrive, RebuildDrive, ClearCache,
           ClearRebuild, Shutdown, Change, Trim, Recreate
    <3> QED
      BY <3>1, <3>2, <3>3
  <2> QED
    BY <1>0, <1>2, <2>1 DEF Undisturbed
<1>3. ASSUME NEW e \in Drives, Change(e) \/ Trim(e) \/ Recreate(e)
      PROVE  \A d \in Drives : /\ journal'[d].first > 0 /\ journal'[d].id > 0
                               /\ journal'[d].next > 0
                               /\ Undisturbed(d)' => Undisturbed(d)
  <2>1. crashes' = crashes
    BY <1>3 DEF Change, Trim, Recreate
  <2>2. ASSUME NEW d \in Drives, d # e
        PROVE  journal'[d] = journal[d]
    BY <1>1, <1>3, <2>2 DEF Change, Trim, Recreate
  <2> DEFINE j == journal[e]
  <2>3. CASE Change(e)
    <3>1. journal' = [journal EXCEPT ![e] = [j EXCEPT !.next = j.next + 1]]
      BY <2>3 DEF Change
    <3>2. /\ journal'[e].first = j.first /\ journal'[e].id = j.id
          /\ journal'[e].next = j.next + 1
      BY <1>0, <1>1, <3>1 DEF JournalInfo
    <3> QED
      BY <1>0, <2>1, <2>2, <3>2 DEF Undisturbed
  <2>4. CASE Trim(e)
    <3>1. journal' = [journal EXCEPT ![e] = [j EXCEPT !.first = j.first + 1]]
      BY <2>4 DEF Trim
    <3>2. /\ journal'[e].first = j.first + 1 /\ journal'[e].id = j.id
          /\ journal'[e].next = j.next
      BY <1>0, <1>1, <3>1 DEF JournalInfo
    <3> QED
      BY <1>0, <2>1, <2>2, <3>2 DEF Undisturbed
  <2>5. CASE Recreate(e)
    <3>1. journal' = [journal EXCEPT ![e] = [j EXCEPT !.id = j.id + 1, !.first = j.next]]
      BY <2>5 DEF Recreate
    <3>2. /\ journal'[e].first = j.next /\ journal'[e].id = j.id + 1
          /\ journal'[e].next = j.next
      BY <1>0, <1>1, <3>1 DEF JournalInfo
    <3> QED
      BY <1>0, <2>1, <2>2, <3>2 DEF Undisturbed
  <2> QED
    BY <1>3, <2>3, <2>4, <2>5
<1>4. journal' = journal \/ \E d \in Drives : Change(d) \/ Trim(d) \/ Recreate(d)
  <2>1. Compact => journal' = journal
    BY DEF Compact, CompactRebuild, CompactCommit, CompactDiscard, CompactPersist
  <2>2. EngineStep => journal' = journal
    BY DEF EngineStep, EngineBuildNext, EngineBuilt, EngineReady, EngineStops,
       ReadCursor, QueryJournal, ReadJournal, ApplyPoll, TakeGate, Capture
  <2>3. \A t \in Threads : Build(t) => journal' = journal
    BY BuildLeaves
  <2> QED
    BY <2>1, <2>2, <2>3 DEF Next, AddDrive, RemoveDrive, RebuildDrive, ClearCache,
       ClearRebuild, Shutdown, Crash
<1> QED
  BY <1>2, <1>3, <1>4

(* The phases: an engine step, a compaction step, a build step.             *)
LEMMA PhaseNext ==
    ASSUME Undriven, EngineInv, PhaseInv, Next
    PROVE  PhaseInv'
<1>0. /\ engine \in EngineLocals /\ compactor \in CompactorLocals
      /\ worker \in [Threads -> Worker] /\ place \in [Drives -> Nat]
      /\ EngineThread \in Threads /\ generation \in Nat
      /\ compactor.drive \in Drives
  BY DEF EngineInv, TypeOK, ManagerTypeOK, Threads, CompactorLocals
<1>j. \A d \in Drives : /\ journal'[d].first > 0 /\ journal'[d].id > 0
                        /\ journal'[d].next > 0
  BY JournalStep DEF EngineInv
<1> DEFINE Thread == engine.pc # "building" => worker[EngineThread] = IdleWorker
           Order == Building => compactor.pc = "idle"
           Found == compactor.pc \in {"rebuild", "commit"} =>
                       place[compactor.drive] \in {0, compactor.place}
<1>p. Thread /\ Order /\ Found
  BY DEF PhaseInv
<1>f. /\ UNCHANGED <<worker, engine>> => Thread'
      /\ UNCHANGED <<engine, compactor>> => Order'
      /\ UNCHANGED <<compactor, managerVars>> => Found'
  BY <1>p DEF Building, managerVars
<1>1. CASE EngineStep /\ ~Capture
  <2>1. compactor' = compactor
    BY <1>1 DEF EngineStep, EngineBuildNext, EngineBuilt, EngineReady, EngineStops,
       ReadCursor, QueryJournal, ReadJournal, ApplyPoll, TakeGate
  <2>2. Thread' /\ Order'
    <3>1. CASE EngineBuildNext
      BY <1>0, <1>p, <2>1, <3>1 DEF EngineBuildNext, Building, EngineLocals
    <3>2. CASE EngineBuilt
      BY <1>0, <1>p, <2>1, <3>2 DEF EngineBuilt, Building, EngineAt
    <3>3. CASE worker' = worker /\ engine.pc # "building" /\ ~Building'
      BY <1>p, <3>3 DEF Building
    <3>4. CASE EngineReady \/ EngineStops \/ TakeGate
      BY <3>3, <3>4, NextDrivePolls DEF EngineReady, EngineStops, TakeGate, EngineAt,
         Building
    <3>5. CASE ReadCursor
      BY <1>0, <3>3, <3>5, NextDrivePolls DEF ReadCursor, EngineLocals, Building
    <3>6. CASE QueryJournal
      BY <1>0, <3>3, <3>6, NextDrivePolls DEF QueryJournal, EngineLocals, Building
    <3>7. CASE ReadJournal
      BY <1>0, <3>3, <3>7, NextDrivePolls DEF ReadJournal, ReadFrom, EngineLocals, Building
    <3>8. CASE ApplyPoll
      BY <1>0, <3>3, <3>8, NextDrivePolls DEF ApplyPoll, EngineAt, Building
    <3> QED
      BY <1>1, <3>1, <3>2, <3>4, <3>5, <3>6, <3>7, <3>8 DEF EngineStep
  <2>3. Found'
    <3>1. place' = place
      <4>1. CASE ApplyPoll
        BY <4>1 DEF ApplyPoll, Apply, managerVars
      <4>2. CASE ~ApplyPoll
        BY <1>1, <4>2 DEF EngineStep, EngineBuildNext, EngineBuilt, EngineReady,
           EngineStops, ReadCursor, QueryJournal, ReadJournal, TakeGate, managerVars
      <4> QED
        BY <4>1, <4>2
    <3> QED
      BY <1>p, <2>1, <3>1
  <2> QED
    BY <1>j, <2>2, <2>3 DEF PhaseInv
<1>2. CASE Capture
  <2>1. engine'.pc = "poll" /\ engine.pc = "capture" /\ worker' = worker
        /\ UNCHANGED managerVars
    BY <1>2, NextDrivePolls DEF Capture
  <2>2. compactor' = compactor \/ place[compactor'.drive] = compactor'.place
    BY <1>2 DEF Capture
  <2> QED
    BY <1>j, <1>p, <2>1, <2>2 DEF PhaseInv, Building, managerVars
<1>3. CASE Compact
  <2>1. engine' = engine /\ worker' = worker /\ place' = place /\ compactor.pc # "idle"
    BY <1>3 DEF Compact, CompactRebuild, CompactCommit, CompactDiscard,
       CompactPersist, CommitCompact, managerVars
  <2>2. ~Building'
    BY <1>p, <2>1 DEF Building
  <2>3. Found'
    <3>1. \/ compactor'.pc \notin {"rebuild", "commit"}
          \/ /\ compactor.pc = "rebuild" /\ compactor'.drive = compactor.drive
             /\ compactor'.place = compactor.place
      BY <1>0, <1>3 DEF Compact, CompactRebuild, CompactCommit, CompactDiscard,
         CompactPersist, CompactorEnds, IdleCompactor, CompactorLocals
    <3> QED
      BY <1>p, <2>1, <3>1
  <2> QED
    BY <1>f, <1>j, <1>p, <2>1, <2>2, <2>3 DEF PhaseInv, Building
<1>4. ASSUME NEW t \in Threads, Build(t)
      PROVE  PhaseInv'
  <2>1. engine.pc = "building" /\ compactor.pc = "idle"
    BY <1>4, OnlyEngineBuilds
  <2>2. UNCHANGED <<engine, compactor>>
    BY <1>4 DEF Build, ReadCache, CheckCache, BeginScan, EndScan, QueryHead,
       PersistBuilt, InstallBuilt, BuildFails
  <2> QED
    BY <1>f, <1>j, <2>1, <2>2 DEF PhaseInv, Building
<1>5. CASE \E d \in Drives : AddDrive(d) \/ RebuildDrive(d)
  BY <1>5 DEF AddDrive, RebuildDrive, StartRebuild, Undriven
<1>6. CASE ClearRebuild
  BY <1>6 DEF ClearRebuild, StartRebuild, Undriven
<1>7. ASSUME NEW d \in Drives, RemoveDrive(d)
      PROVE  PhaseInv'
  <2>1. UNCHANGED <<worker, engine, compactor>>
    BY <1>7 DEF RemoveDrive, processVars
  <2>2. place' = [place EXCEPT ![d] = 0]
    BY <1>7 DEF RemoveDrive, Remove
  <2>3. Found'
    BY <1>0, <1>p, <2>1, <2>2
  <2> QED
    BY <1>f, <1>j, <2>1, <2>3 DEF PhaseInv, Building
<1>8. CASE Crash
  BY <1>0, <1>8, <1>j DEF Crash, PhaseInv, IdleCompactor, EngineAt, Building
<1>9. CASE UNCHANGED <<managerVars, worker, engine, compactor>>
  BY <1>9, <1>f, <1>j DEF PhaseInv, Building
<1> QED
  BY <1>1, <1>2, <1>3, <1>4, <1>5, <1>6, <1>7, <1>8, <1>9 DEF Next, ClearCache,
     Shutdown, Change, Trim, Recreate, processVars

LEMMA IntactEmpty == Intact(EmptyImage) /\ EmptyImage.delta = {} /\ EmptyImage.jid = 0
BY DEF Intact, EmptyImage

LEMMA IdleSteady ==
    ASSUME NEW next, NEW w \in {IdleWorker, [IdleWorker EXCEPT !.pc = "done"]}
    PROVE  SteadyBuild(w, next)
<1>1. CASE w = IdleWorker
  BY <1>1, IntactEmpty DEF IdleWorker, SteadyBuild, Unplaced
<1>2. CASE w = [IdleWorker EXCEPT !.pc = "done"]
  <2>1. w.image = EmptyImage /\ w.pc = "done"
    BY <1>2 DEF IdleWorker
  <2> QED
    BY <2>1, IntactEmpty DEF SteadyBuild, Unplaced
<1> QED
  BY <1>1, <1>2

LEMMA SteadyFrames ==
    ASSUME NEW d \in Drives, Steady(d)
    PROVE  /\ index'[d] = index[d] => IndexSteady(d)'
           /\ compactor' = compactor => CaptureSteady(d)'
           /\ UNCHANGED <<engine, cache>> => CacheSteady(d)'
           /\ UNCHANGED <<worker, journal>> => BuildSteady(d)'
           /\ UNCHANGED <<engine, place>> /\ index'[d] = index[d] => PollSteady(d)'
           /\ engine'.pc \notin {"query", "read", "apply"} => PollSteady(d)'
BY DEF Steady, IndexSteady, CaptureSteady, CacheSteady, BuildSteady, PollSteady,
   Building, SteadyBuild, Intact, Reflects, Loaded, Polled

(* A build of an undisturbed drive reads all that its head will cover.      *)
LEMMA BuildStaysSteady ==
    ASSUME Undriven, EngineInv, PhaseInv, NEW d \in Drives, Undisturbed(d), Steady(d),
           Build(EngineThread)
    PROVE  BuildSteady(d)' /\ CacheSteady(d)'
<1> DEFINE w == worker[EngineThread]
           j == journal[w.drive]
<1>0. /\ EngineThread \in Threads /\ engine.pc = "building"
      /\ w \in Worker /\ w.drive \in Drives /\ w.from \in Nat /\ w.image \in Image
      /\ worker \in [Threads -> Worker] /\ cache \in [Drives -> SUBSET Image]
      /\ j \in JournalInfo /\ j.next \in Nat /\ j.id \in Nat /\ j.next > 0
  BY OnlyEngineBuilds DEF EngineInv, TypeOK, Worker, JournalInfo, PhaseInv, Threads
<1>1. UNCHANGED <<engine, journal>>
  BY DEF Build, ReadCache, CheckCache, BeginScan, EndScan, QueryHead,
         PersistBuilt, InstallBuilt, BuildFails
<1>c. \A i \in cache[d] : Intact(i) /\ i.delta = {}
  BY <1>0 DEF Steady, CacheSteady, Building
<1>b. w.drive = d => SteadyBuild(w, j.next) /\ j.first = 1
  BY DEF Steady, BuildSteady, Undisturbed
<1>t. ASSUME NEW v, worker' = [worker EXCEPT ![EngineThread] = v],
             v.drive = d => SteadyBuild(v, journal[d].next)
      PROVE  BuildSteady(d)'
  <2>1. worker'[EngineThread] = v
    BY <1>0, <1>t
  <2> QED
    BY <1>1, <1>t, <2>1 DEF BuildSteady, SteadyBuild, Intact, Relevant
<1>k. ASSUME cache'[d] \subseteq cache[d]
      PROVE  CacheSteady(d)'
  BY <1>c, <1>k DEF CacheSteady, Intact
<1>2. CASE ReadCache(EngineThread)
  <2>1. cache'[d] \subseteq cache[d]
    BY <1>0, <1>2 DEF ReadCache
  <2>2. CASE Step(EngineThread, "scan")
    <3> DEFINE v == [w EXCEPT !.pc = "scan"]
    <3>1. /\ worker' = [worker EXCEPT ![EngineThread] = v] /\ v.image = w.image
          /\ v.pc = "scan" /\ v.drive = w.drive /\ w.pc = "cache"
      BY <1>0, <1>2, <2>2 DEF Step, Worker, ReadCache
    <3>2. v.drive = d => SteadyBuild(v, journal[d].next)
      BY <1>b, <3>1 DEF SteadyBuild, Unplaced
    <3> HIDE DEF v
    <3> QED
      BY <1>k, <1>t, <2>1, <3>1, <3>2
  <2>3. CASE \E i \in cache[w.drive] :
               worker' = [worker EXCEPT ![EngineThread].pc = "check",
                                        ![EngineThread].image = i]
    <3>1. PICK i \in cache[w.drive] :
               worker' = [worker EXCEPT ![EngineThread].pc = "check",
                                        ![EngineThread].image = i]
      BY <2>3
    <3> DEFINE v == [w EXCEPT !.pc = "check", !.image = i]
    <3>2. /\ worker' = [worker EXCEPT ![EngineThread] = v] /\ v.image = i
          /\ v.pc = "check" /\ v.drive = w.drive
      BY <1>0, <3>1 DEF Worker
    <3>3. v.drive = d => SteadyBuild(v, journal[d].next)
      BY <1>c, <3>1, <3>2 DEF SteadyBuild, Unplaced
    <3> HIDE DEF v
    <3> QED
      BY <1>k, <1>t, <2>1, <3>2, <3>3
  <2> QED
    BY <1>2, <2>2, <2>3 DEF ReadCache
<1>3. CASE CheckCache(EngineThread)
  <2>1. cache' = cache /\ w.pc = "check"
    BY <1>3 DEF CheckCache
  <2>2. CASE Step(EngineThread, "install")
    <3> DEFINE v == [w EXCEPT !.pc = "install"]
    <3>1. /\ worker' = [worker EXCEPT ![EngineThread] = v] /\ v.image = w.image
          /\ v.pc = "install" /\ v.drive = w.drive
      BY <1>0, <2>2 DEF Step, Worker
    <3>2. v.drive = d => SteadyBuild(v, journal[d].next)
      BY <1>b, <3>1 DEF SteadyBuild, Unplaced
    <3> HIDE DEF v
    <3> QED
      BY <1>k, <1>t, <2>1, <3>1, <3>2
  <2>3. CASE /\ w.image.jid # 0
             /\ worker' = [worker EXCEPT ![EngineThread].pc = "install",
                             ![EngineThread].image = CheckedImage(w.image, j)]
    <3> DEFINE v == [w EXCEPT !.pc = "install", !.image = CheckedImage(w.image, j)]
    <3>1. /\ worker' = [worker EXCEPT ![EngineThread] = v]
          /\ v.image = CheckedImage(w.image, j)
          /\ v.pc = "install" /\ v.drive = w.drive
      BY <1>0, <2>3 DEF Worker
    <3>2. w.drive = d => CheckedImage(w.image, j) = w.image
      <4>1. w.drive = d => w.image.cursor # 0 /\ j.first = 1 /\ w.image.cursor \in Nat
        BY <1>0, <1>b, <2>3 DEF SteadyBuild, Intact, Image
      <4> QED
        BY <4>1 DEF CheckedImage
    <3>3. v.drive = d => SteadyBuild(v, journal[d].next)
      BY <1>b, <3>1, <3>2 DEF SteadyBuild, Unplaced
    <3> HIDE DEF v
    <3> QED
      BY <1>k, <1>t, <2>1, <3>1, <3>3
  <2>4. CASE worker' = [worker EXCEPT ![EngineThread].pc = "scan",
                                      ![EngineThread].image = EmptyImage]
    <3> DEFINE v == [w EXCEPT !.pc = "scan", !.image = EmptyImage]
    <3>1. /\ worker' = [worker EXCEPT ![EngineThread] = v] /\ v.image = EmptyImage
          /\ v.pc = "scan" /\ v.drive = w.drive
      BY <1>0, <2>4 DEF Worker
    <3>2. SteadyBuild(v, journal[d].next)
      BY <3>1, IntactEmpty, EmptyCovers DEF SteadyBuild, Unplaced
    <3> HIDE DEF v
    <3> QED
      BY <1>k, <1>t, <2>1, <3>1, <3>2
  <2> QED
    BY <1>3, <2>2, <2>3, <2>4 DEF CheckCache
<1>4. CASE BeginScan(EngineThread)
  <2> DEFINE v == [w EXCEPT !.pc = "scanning", !.from = j.next]
  <2>1. /\ worker' = [worker EXCEPT ![EngineThread] = v] /\ v.image = w.image
        /\ v.pc = "scanning" /\ v.drive = w.drive /\ v.from = j.next
        /\ w.pc = "scan" /\ cache' = cache
    BY <1>0, <1>4 DEF BeginScan, Worker
  <2>2. v.drive = d => SteadyBuild(v, journal[d].next)
    BY <1>b, <2>1 DEF SteadyBuild, Unplaced
  <2> HIDE DEF v
  <2> QED
    BY <1>k, <1>t, <2>1, <2>2
<1>5. CASE EndScan(EngineThread)
  <2>1. PICK seen \in SUBSET Relevant(w.from, j.next - 1) :
          worker' = [worker EXCEPT ![EngineThread].pc = "head",
             ![EngineThread].image.base = Relevant(1, w.from - 1) \cup seen]
    BY <1>5 DEF EndScan
  <2> DEFINE b == Relevant(1, w.from - 1) \cup seen
             i == [w.image EXCEPT !.base = b]
             v == [w EXCEPT !.pc = "head", !.image = i]
  <2>2. /\ worker' = [worker EXCEPT ![EngineThread] = v] /\ v.image = i
        /\ v.pc = "head" /\ v.drive = w.drive /\ v.from = w.from
        /\ w.pc = "scanning" /\ cache' = cache
    BY <1>0, <1>5, <2>1 DEF EndScan, Worker
  <2>3. /\ i.base = b /\ i.cursor = w.image.cursor /\ i.jid = w.image.jid
        /\ i.lost = w.image.lost /\ i.delta = w.image.delta
    <3> HIDE DEF b
    <3> QED
      BY <1>0 DEF Image
  <2>4. v.drive = d => SteadyBuild(v, journal[d].next)
    <3> HIDE DEF i, v
    <3> QED
      BY <1>b, <2>2, <2>3 DEF SteadyBuild, Unplaced, Intact
  <2> HIDE DEF v
  <2> QED
    BY <1>k, <1>t, <2>2, <2>4
<1>6. CASE QueryHead(EngineThread)
  <2> DEFINE l == Relevant(1, j.next - 1) \ w.image.base
             i == [w.image EXCEPT !.cursor = j.next, !.jid = j.id, !.lost = l]
             v0 == [w EXCEPT !.pc = "persist", !.from = 0]
             v == [w EXCEPT !.pc = "persist", !.from = 0, !.image = i]
  <2>1. cache' = cache /\ w.pc = "head"
    BY <1>6 DEF QueryHead
  <2>2. CASE worker' = [worker EXCEPT ![EngineThread].pc = "persist",
                                      ![EngineThread].from = 0]
    <3>1. /\ worker' = [worker EXCEPT ![EngineThread] = v0]
          /\ v0.image = w.image /\ v0.pc = "persist" /\ v0.drive = w.drive
      BY <1>0, <2>2 DEF Worker
    <3>2. v0.drive = d => SteadyBuild(v0, journal[d].next)
      BY <1>b, <3>1 DEF SteadyBuild, Unplaced
    <3> HIDE DEF v0
    <3> QED
      BY <1>k, <1>t, <2>1, <3>1, <3>2
  <2>3. CASE worker' = [worker EXCEPT ![EngineThread].pc = "persist",
                       ![EngineThread].from = 0,
                       ![EngineThread].image.cursor = j.next,
                       ![EngineThread].image.jid = j.id,
                       ![EngineThread].image.lost = l]
    <3>1. worker' = [worker EXCEPT ![EngineThread] = v]
      <4>1. worker' = Asked(worker, EngineThread, j.next, j.id, l)
        BY <2>3 DEF Asked
      <4>2. worker' = AskedAtOnce(worker, EngineThread, j.next, j.id, l)
        BY <1>0, <4>1, HeadWritten
      <4> QED
        BY <4>2 DEF AskedAtOnce
    <3>2. v.image = i /\ v.pc = "persist" /\ v.drive = w.drive
      BY <1>0 DEF Worker
    <3>3. /\ i.cursor = j.next /\ i.lost = l /\ i.delta = w.image.delta
      <4> HIDE DEF l, j
      <4> QED
        BY <1>0 DEF Image
    <3>4. w.drive = d => l = {}
      BY <1>b, <2>1 DEF SteadyBuild
    <3>5. v.drive = d => SteadyBuild(v, journal[d].next)
      <4> HIDE DEF v, i, l
      <4> QED
        BY <1>0, <1>b, <3>2, <3>3, <3>4 DEF SteadyBuild, Unplaced, Intact
    <3> HIDE DEF v
    <3> QED
      BY <1>k, <1>t, <2>1, <3>1, <3>5
  <2> QED
    BY <1>6, <2>2, <2>3 DEF QueryHead
<1>7. CASE PersistBuilt(EngineThread)
  <2> DEFINE v == [w EXCEPT !.pc = "install"]
  <2>1. /\ worker' = [worker EXCEPT ![EngineThread] = v] /\ v.image = w.image
        /\ v.pc = "install" /\ v.drive = w.drive
    BY <1>0, <1>7 DEF PersistBuilt, Step, Worker
  <2>2. v.drive = d => SteadyBuild(v, journal[d].next)
    BY <1>b, <2>1 DEF SteadyBuild, Unplaced
  <2>3. CacheSteady(d)'
    <3>1. CASE cache' = cache
      BY <1>k, <3>1
    <3>2. CASE cache' = [cache EXCEPT ![w.drive] = {Persisted(w.image)}]
      <4> DEFINE q == Persisted(w.image)
      <4>1. /\ q.delta = {} /\ q.lost = w.image.lost \cup w.image.delta
            /\ q.cursor = w.image.cursor /\ q.jid = w.image.jid
        BY <1>0 DEF Persisted, Image
      <4>2. w.drive = d => Intact(q) /\ q.delta = {}
        <5> HIDE DEF q
        <5> QED
          BY <1>b, <4>1 DEF SteadyBuild, Intact
      <4>3. ASSUME NEW i \in cache'[d]
            PROVE  Intact(i) /\ i.delta = {}
        <5>1. CASE w.drive = d
          BY <1>0, <3>2, <4>2, <5>1
        <5>2. CASE w.drive # d
          BY <1>0, <1>c, <3>2, <5>2
        <5> QED
          BY <5>1, <5>2
      <4> QED
        BY <4>3 DEF CacheSteady, Intact
    <3> QED
      BY <1>7, <3>1, <3>2 DEF PersistBuilt
  <2> HIDE DEF v
  <2> QED
    BY <1>t, <2>1, <2>2, <2>3
<1>8. CASE InstallBuilt(EngineThread) \/ BuildFails(EngineThread)
  <2> DEFINE v == [IdleWorker EXCEPT !.pc = "done"]
  <2>1. worker' = [worker EXCEPT ![EngineThread] = v] /\ cache' = cache
    BY <1>8 DEF InstallBuilt, BuildFails
  <2>2. SteadyBuild(v, journal[d].next)
    BY IdleSteady
  <2> HIDE DEF v
  <2> QED
    BY <1>k, <1>t, <2>1, <2>2
<1> QED
  BY <1>2, <1>3, <1>4, <1>5, <1>6, <1>7, <1>8 DEF Build

(* The cursor a poll starts from stands for everything before it.           *)
LEMMA CursorStands ==
    ASSUME EngineInv, NEW d \in Drives, IndexSteady(d)
    PROVE  Relevant(1, index[d].cursor - 1) \subseteq Reflects(index[d])
BY DEF EngineInv, CoveredInv, CursorNeverAheadOfContent, Covers, IndexSteady, Intact

LEMMA ReadStaysSteady ==
    ASSUME EngineInv, NEW d \in Drives, Undisturbed(d), PhaseInv, Steady(d), ReadJournal
    PROVE  PollSteady(d)'
<1>0. /\ engine \in EngineLocals /\ engine.start \in Nat
      /\ journal[d].next \in Nat /\ journal[d].next > 0
  BY DEF EngineInv, TypeOK, EngineLocals, JournalInfo, PhaseInv
<1>1. UNCHANGED managerVars
  BY DEF ReadJournal
<1>2. CASE NextDrive
  BY <1>2, NextDrivePolls DEF PollSteady
<1>3. ASSUME Polled = d, Loaded(d), ~NextDrive
      PROVE  PollSteady(d)'
  <2>1. ~ (engine.start # 0 /\ engine.start < journal[Polled].first)
    BY <1>0, <1>3 DEF Undisturbed
  <2>2. ReadFrom(IF engine.start = 0 THEN journal[Polled].first ELSE engine.start)
    BY <1>3, <2>1 DEF ReadJournal
  <2>3. PICK from \in Nat : /\ ReadFrom(from)
                            /\ Relevant(1, from - 1) \subseteq Reflects(index[d])
    <3>1. CASE engine.start = 0
      <4>1. ReadFrom(1)
        BY <1>3, <2>2, <3>1 DEF Undisturbed
      <4>2. Relevant(1, 1 - 1) = {}
        BY DEF Relevant
      <4> QED
        BY <4>1, <4>2
    <3>2. CASE engine.start # 0
      <4>1. engine.pc = "read"
        BY DEF ReadJournal
      <4> QED
        BY <1>0, <1>3, <2>2, <3>2, <4>1 DEF Steady, PollSteady
    <3> QED
      BY <3>1, <3>2
  <2>4. /\ engine'.from = from /\ engine'.pc = "apply"
        /\ engine'.next = journal[d].next
    BY <1>0, <1>3, <2>3 DEF ReadFrom, EngineLocals
  <2> QED
    BY <1>0, <1>1, <2>3, <2>4 DEF PollSteady, managerVars, Reflects, Relevant
<1>4. ASSUME ~NextDrive
      PROVE  engine'.at = engine.at
  BY <1>0, <1>4 DEF ReadJournal, ReadFrom, EngineLocals
<1>5. CASE ~NextDrive /\ ~ (Polled = d /\ Loaded(d))
  BY <1>1, <1>4, <1>5 DEF PollSteady, Polled, Loaded, managerVars
<1> QED
  BY <1>2, <1>3, <1>5

LEMMA ApplyStaysSteady ==
    ASSUME EngineInv, NEW d \in Drives, Steady(d), ApplyPoll
    PROVE  IndexSteady(d)'
<1> DEFINE skipped == Relevant(index[Polled].cursor, engine.from - 1)
                         \ Reflects(index[Polled])
           n == AfterBatch(index[Polled], engine.events, engine.next, engine.info.id,
                           skipped)
<1>0. /\ index \in [Drives -> Image] /\ engine.from \in Nat /\ index[d] \in Image
      /\ index[d].cursor \in Nat /\ engine.pc = "apply"
  BY DEF EngineInv, TypeOK, ManagerTypeOK, EngineLocals, Image, ApplyPoll
<1>1. CASE index'[d] = index[d]
  BY <1>1, SteadyFrames
<1>2. CASE Polled = d /\ Loaded(d) /\ index'[d] = n
  <2>1. /\ Relevant(1, engine.from - 1) \subseteq Reflects(index[d])
        /\ engine.next # 0
    BY <1>0, <1>2 DEF Steady, PollSteady
  <2>2. skipped = {}
    <3>1. Relevant(index[d].cursor, engine.from - 1) \subseteq Relevant(1, engine.from - 1)
      BY <1>0 DEF Relevant
    <3> QED
      BY <1>2, <2>1, <3>1
  <2>3. n.lost = index[d].lost \cup skipped /\ n.cursor = engine.next
    <3> HIDE DEF skipped
    <3> QED
      BY <1>0, <1>2 DEF AfterBatch, Image
  <2>4. Intact(n)
    <3> HIDE DEF skipped, n
    <3> QED
      BY <2>1, <2>2, <2>3 DEF Steady, IndexSteady, Intact
  <2> HIDE DEF n
  <2> QED
    BY <1>2, <2>4 DEF IndexSteady, Intact
<1>3. \/ index' = index
      \/ Loaded(Polled) /\ index' = [index EXCEPT ![Polled] = n]
  BY DEF ApplyPoll, Apply, managerVars
<1> HIDE DEF n
<1> QED
  BY <1>0, <1>1, <1>2, <1>3

LEMMA EngineStaysSteady ==
    ASSUME Undriven, EngineInv, PhaseInv, NEW d \in Drives, Undisturbed(d), Steady(d),
           EngineStep
    PROVE  Steady(d)'
<1>0. /\ engine \in EngineLocals /\ worker \in [Threads -> Worker]
      /\ EngineThread \in Threads /\ index \in [Drives -> Image]
  BY DEF EngineInv, TypeOK, ManagerTypeOK, Threads
<1>1. UNCHANGED <<cache, journal>>
  BY DEF EngineStep, EngineBuildNext, EngineBuilt, EngineReady, EngineStops,
     ReadCursor, QueryJournal, ReadJournal, ApplyPoll, TakeGate, Capture
<1>k. ASSUME Building' => Building
      PROVE  CacheSteady(d)'
  BY <1>1, <1>k DEF Steady, CacheSteady, Intact
<1>2. CASE EngineBuildNext
  <2> DEFINE v == StartWorker(AutoDrives[engine.at], "cache")
  <2>1. UNCHANGED <<managerVars, compactor>> /\ engine'.pc = "building" /\ Building
    BY <1>0, <1>2 DEF EngineBuildNext, EngineLocals, Building
  <2>2. worker'[EngineThread] = v
    BY <1>0, <1>2 DEF EngineBuildNext
  <2>3. v.image = EmptyImage /\ v.pc = "cache"
    BY DEF StartWorker, IdleWorker
  <2>4. SteadyBuild(v, journal[d].next)
    BY <2>3, IntactEmpty, EmptyCovers DEF SteadyBuild, Unplaced
  <2>5. BuildSteady(d)'
    <3> HIDE DEF v
    <3> QED
      BY <1>1, <2>2, <2>4 DEF BuildSteady, SteadyBuild, Intact, Relevant
  <2> QED
    BY <1>k, <2>1, <2>5, SteadyFrames DEF Steady, managerVars
<1>3. CASE EngineBuilt
  <2>1. UNCHANGED <<managerVars, compactor>> /\ engine'.pc = "build" /\ Building
    BY <1>3 DEF EngineBuilt, EngineAt, Building
  <2>2. worker'[EngineThread] = IdleWorker
    BY <1>0, <1>3 DEF EngineBuilt
  <2>3. SteadyBuild(IdleWorker, journal[d].next)
    BY IdleSteady
  <2>4. BuildSteady(d)'
    BY <1>1, <2>2, <2>3 DEF BuildSteady, SteadyBuild, Intact, Relevant
  <2> QED
    BY <1>k, <2>1, <2>4, SteadyFrames DEF Steady, managerVars
<1>4. CASE EngineReady \/ EngineStops \/ TakeGate
  <2>1. UNCHANGED <<managerVars, worker, compactor>>
    BY <1>4 DEF EngineReady, EngineStops, TakeGate
  <2>2. engine'.pc \in {"poll", "stopped", "capture"}
    BY <1>4, NextDrivePolls DEF EngineReady, EngineStops, TakeGate, EngineAt
  <2> QED
    BY <1>1, <1>k, <2>1, <2>2, SteadyFrames DEF Steady, managerVars, Building
<1>5. CASE ReadCursor
  <2>1. UNCHANGED <<managerVars, worker, compactor>>
    BY <1>5 DEF ReadCursor
  <2>2. ~Building'
    BY <1>0, <1>5, NextDrivePolls DEF ReadCursor, EngineLocals, Building
  <2>3. PollSteady(d)'
    <3>1. CASE NextDrive
      BY <3>1, NextDrivePolls DEF PollSteady
    <3>2. CASE engine' = [engine EXCEPT !.pc = "query", !.start = index[Polled].cursor]
      <4>1. /\ engine'.pc = "query" /\ engine'.start = index[Polled].cursor
            /\ engine'.at = engine.at
        BY <1>0, <3>2 DEF EngineLocals
      <4>2. Relevant(1, index[d].cursor - 1) \subseteq Reflects(index[d])
        BY CursorStands DEF Steady
      <4> QED
        BY <2>1, <4>1, <4>2 DEF PollSteady, Polled, managerVars, Reflects, Relevant
    <3> QED
      BY <1>5, <3>1, <3>2 DEF ReadCursor
  <2> QED
    BY <1>1, <1>k, <2>1, <2>2, <2>3, SteadyFrames DEF Steady, managerVars
<1>6. CASE QueryJournal
  <2>1. UNCHANGED <<managerVars, worker, compactor>>
    BY <1>6 DEF QueryJournal
  <2>2. ~Building'
    BY <1>0, <1>6, NextDrivePolls DEF QueryJournal, EngineLocals, Building
  <2>3. PollSteady(d)'
    <3>1. CASE NextDrive
      BY <3>1, NextDrivePolls DEF PollSteady
    <3>2. CASE engine' = [engine EXCEPT !.pc = "read", !.info = journal[Polled]]
      <4>1. /\ engine'.pc = "read" /\ engine'.start = engine.start
            /\ engine'.at = engine.at /\ engine.pc = "query"
        BY <1>0, <1>6, <3>2 DEF EngineLocals, QueryJournal
      <4> QED
        BY <2>1, <4>1 DEF Steady, PollSteady, Polled, managerVars, Reflects, Relevant,
           Loaded
    <3> QED
      BY <1>6, <3>1, <3>2 DEF QueryJournal
  <2> QED
    BY <1>1, <1>k, <2>1, <2>2, <2>3, SteadyFrames DEF Steady, managerVars
<1>7. CASE ReadJournal
  <2>1. UNCHANGED <<managerVars, worker, compactor>>
    BY <1>7 DEF ReadJournal
  <2>2. ~Building'
    BY <1>0, <1>7, NextDrivePolls DEF ReadJournal, ReadFrom, EngineLocals, Building
  <2> QED
    BY <1>1, <1>7, <1>k, <2>1, <2>2, ReadStaysSteady, SteadyFrames
       DEF Steady, managerVars
<1>8. CASE ApplyPoll
  <2>1. UNCHANGED <<worker, compactor>>
    BY <1>8 DEF ApplyPoll
  <2>2. engine'.pc \in {"poll", "schedule"}
    BY <1>8, NextDrivePolls DEF ApplyPoll, EngineAt
  <2> QED
    BY <1>1, <1>8, <1>k, <2>1, <2>2, ApplyStaysSteady, SteadyFrames DEF Steady, Building
<1>9. CASE Capture
  <2>1. UNCHANGED <<managerVars, worker>> /\ engine'.pc = "poll"
    BY <1>9, NextDrivePolls DEF Capture
  <2>2. CaptureSteady(d)'
    <3>1. CASE compactor' = compactor
      BY <3>1, SteadyFrames
    <3>2. ASSUME NEW e \in Drives, compactor'.drive = e,
                 compactor'.image = Folded(index[e])
          PROVE  CaptureSteady(d)'
      <4>1. Intact(index[d]) /\ index[d] \in Image
        BY <1>0 DEF Steady, IndexSteady
      <4>2. Intact(Folded(index[d]))
        BY <4>1, FoldedReflects DEF Intact
      <4> QED
        BY <3>2, <4>2 DEF CaptureSteady, Intact
    <3> QED
      BY <1>9, <3>1, <3>2 DEF Capture
  <2> QED
    BY <1>1, <1>k, <2>1, <2>2, SteadyFrames DEF Steady, managerVars, Building
<1> QED
  BY <1>2, <1>3, <1>4, <1>5, <1>6, <1>7, <1>8, <1>9 DEF EngineStep

LEMMA CompactStaysSteady ==
    ASSUME EngineInv, PhaseInv, NEW d \in Drives, Steady(d), Compact
    PROVE  Steady(d)'
<1>0. /\ index \in [Drives -> Image] /\ compactor \in CompactorLocals
      /\ place \in [Drives -> Nat] /\ compactor.drive \in Drives
  BY DEF EngineInv, TypeOK, ManagerTypeOK, CompactorLocals
<1>1. UNCHANGED <<engine, worker, journal>> /\ compactor.pc # "idle"
  BY DEF Compact, CompactRebuild, CompactCommit, CompactDiscard, CompactPersist
<1>2. CacheSteady(d)' /\ BuildSteady(d)'
  BY <1>1, SteadyFrames DEF CacheSteady, Building, PhaseInv
<1>e. CompactorEnds => CaptureSteady(d)'
  <2>1. IdleCompactor.image = EmptyImage
    BY DEF IdleCompactor
  <2> QED
    BY <2>1, IntactEmpty DEF CompactorEnds, CaptureSteady, Intact
<1>3. CASE CompactRebuild \/ CompactDiscard \/ CompactPersist
  <2>1. UNCHANGED managerVars
    BY <1>3 DEF CompactRebuild, CompactDiscard, CompactPersist
  <2>2. \/ CompactorEnds
        \/ compactor'.drive = compactor.drive /\ compactor'.image = compactor.image
    BY <1>0, <1>3 DEF CompactRebuild, CompactDiscard, CompactPersist, CompactorLocals
  <2>3. CaptureSteady(d)'
    BY <1>e, <2>2 DEF Steady, CaptureSteady, Intact
  <2> QED
    BY <1>1, <1>2, <2>1, <2>3, SteadyFrames DEF Steady, managerVars
<1>4. CASE CompactCommit
  <2>1. /\ compactor'.drive = compactor.drive /\ compactor'.image = compactor.image
        /\ place' = place
        /\ index' = [index EXCEPT ![compactor.drive] = compactor.image]
        /\ Loaded(compactor.drive)
        /\ revision[compactor.drive] = compactor.revision /\ compactor.pc = "commit"
    BY <1>0, <1>4 DEF CompactCommit, CommitCompact, RevisionMatches, CompactorLocals
  <2>2. place[compactor.drive] = compactor.place
    BY <2>1 DEF PhaseInv, Loaded
  <2>3. Reflects(index'[compactor.drive]) = Reflects(index[compactor.drive])
    BY <1>0, <2>1, <2>2 DEF EngineInv, CaptureInv
  <2>4. Reflects(index'[d]) = Reflects(index[d])
    BY <1>0, <2>1, <2>3
  <2>5. PollSteady(d)'
    BY <1>1, <2>1, <2>4 DEF Steady, PollSteady, Loaded, Polled, Reflects, Relevant
  <2>6. IndexSteady(d)' /\ CaptureSteady(d)'
    BY <1>0, <2>1 DEF Steady, IndexSteady, CaptureSteady, Intact
  <2> QED
    BY <1>2, <2>5, <2>6 DEF Steady
<1> QED
  BY <1>3, <1>4 DEF Compact

LEMMA RestStaysSteady ==
    ASSUME Undriven, EngineInv, PhaseInv, NEW d \in Drives, Undisturbed(d), Steady(d),
           \/ \E t \in Threads : Build(t)
           \/ \E e \in Drives : AddDrive(e) \/ RemoveDrive(e) \/ RebuildDrive(e)
           \/ ClearCache \/ ClearRebuild \/ Shutdown
           \/ \E e \in Drives : Change(e) \/ Trim(e) \/ Recreate(e)
    PROVE  Steady(d)'
<1>0. /\ index \in [Drives -> Image] /\ place \in [Drives -> Nat]
      /\ journal \in [Drives -> JournalInfo] /\ EngineThread \in Threads
  BY DEF EngineInv, TypeOK, ManagerTypeOK, Threads
<1>1. ASSUME NEW t \in Threads, Build(t)
      PROVE  Steady(d)'
  <2>1. t = EngineThread /\ engine.pc = "building"
    BY <1>1, OnlyEngineBuilds
  <2>2. UNCHANGED <<engine, compactor>>
    BY <1>1 DEF Build, ReadCache, CheckCache, BeginScan, EndScan, QueryHead,
       PersistBuilt, InstallBuilt, BuildFails
  <2>3. BuildSteady(d)' /\ CacheSteady(d)'
    BY <1>1, <2>1, BuildStaysSteady
  <2>4. IndexSteady(d)'
    <3>1. CASE InstallBuilt(t)
      <4>1. index' = [index EXCEPT ![worker[t].drive] = worker[t].image]
        BY <3>1 DEF InstallBuilt, Install
      <4>2. worker[t].drive = d => Intact(worker[t].image)
        BY <2>1 DEF Steady, BuildSteady, SteadyBuild
      <4> QED
        BY <1>0, <4>1, <4>2 DEF Steady, IndexSteady, Intact
    <3>2. CASE UNCHANGED managerVars
      BY <3>2, SteadyFrames DEF managerVars
    <3> QED
      BY <1>1, <3>1, <3>2 DEF Build, ReadCache, CheckCache, BeginScan, EndScan,
         QueryHead, PersistBuilt, BuildFails
  <2> QED
    BY <2>1, <2>2, <2>3, <2>4, SteadyFrames DEF Steady
<1>2. CASE \E e \in Drives : AddDrive(e) \/ RebuildDrive(e)
  BY <1>2 DEF AddDrive, RebuildDrive, StartRebuild, Undriven
<1>3. CASE ClearRebuild
  BY <1>3 DEF ClearRebuild, StartRebuild, Undriven
<1>4. ASSUME NEW e \in Drives, RemoveDrive(e)
      PROVE  Steady(d)'
  <2>1. /\ index' = [index EXCEPT ![e] = EmptyImage] /\ place' = [place EXCEPT ![e] = 0]
        /\ UNCHANGED <<engine, compactor, cache, worker, journal>>
    BY <1>4 DEF RemoveDrive, Remove, processVars
  <2>2. IndexSteady(d)' /\ PollSteady(d)'
    <3>1. CASE e = d
      BY <1>0, <2>1, <3>1, IntactEmpty DEF IndexSteady, PollSteady, Loaded, Intact
    <3>2. CASE e # d
      BY <1>0, <2>1, <3>2 DEF Steady, IndexSteady, PollSteady, Loaded, Intact,
         Polled, Reflects, Relevant
    <3> QED
      BY <3>1, <3>2
  <2> QED
    BY <2>1, <2>2, SteadyFrames DEF Steady
<1>5. CASE ClearCache
  <2>1. UNCHANGED <<managerVars, engine, compactor, worker, journal>>
    BY <1>5 DEF ClearCache
  <2>2. cache'[d] \subseteq cache[d]
    BY <1>5 DEF ClearCache
  <2>3. CacheSteady(d)'
    BY <2>1, <2>2 DEF Steady, CacheSteady, Building, Intact
  <2> QED
    BY <2>1, <2>3, SteadyFrames DEF Steady, managerVars
<1>6. CASE Shutdown
  BY <1>6, SteadyFrames DEF Shutdown, Steady, managerVars
<1>7. ASSUME NEW e \in Drives, Change(e) \/ Trim(e) \/ Recreate(e)
      PROVE  Steady(d)'
  <2>1. UNCHANGED <<managerVars, engine, compactor, worker, cache>>
    BY <1>7 DEF Change, Trim, Recreate, processVars
  <2>2. BuildSteady(d)'
    <3> DEFINE w == worker[EngineThread]
    <3>1. CASE journal'[d].next = journal[d].next
      BY <2>1, <3>1 DEF Steady, BuildSteady, SteadyBuild, Intact, Relevant
    <3>2. CASE w.drive # d \/ w.pc \notin {"scanning", "head"}
      BY <2>1, <3>2 DEF Steady, BuildSteady, SteadyBuild, Intact, Relevant
    <3>3. CASE Change(e) /\ e = d
      BY <1>0, <3>2, <3>3 DEF Change, Scanning, Undriven
    <3>4. CASE Trim(e) \/ Recreate(e) \/ e # d
      <4>1. journal[d] \in JournalInfo /\ journal[e] \in JournalInfo
            /\ journal \in [Drives -> JournalInfo]
        BY <1>0
      <4>2. journal'[d].next = journal[d].next
        <5>1. CASE Trim(e)
          BY <4>1, <5>1 DEF Trim, JournalInfo
        <5>2. CASE Recreate(e)
          BY <4>1, <5>2 DEF Recreate, JournalInfo
        <5>3. CASE Change(e) /\ e # d
          BY <4>1, <5>3 DEF Change
        <5> QED
          BY <1>7, <3>4, <5>1, <5>2, <5>3
      <4> QED
        BY <3>1, <4>2
    <3> QED
      BY <1>7, <3>3, <3>4
  <2> QED
    BY <2>1, <2>2, SteadyFrames DEF Steady, managerVars
<1> QED
  BY <1>1, <1>2, <1>3, <1>4, <1>5, <1>6, <1>7

LEMMA SteadyNext ==
    ASSUME Undriven, EngineInv, SteadyInv, [Next]_vars
    PROVE  SteadyInv'
<1>1. CASE UNCHANGED vars
  <2>1. UNCHANGED <<managerVars, worker, engine, compactor, journal, cache, crashes>>
    BY <1>1 DEF vars, processVars
  <2>2. PhaseInv'
    BY <2>1 DEF SteadyInv, PhaseInv, Building, managerVars
  <2>3. ASSUME NEW d \in Drives, Undisturbed(d)'
        PROVE  Steady(d)'
    <3>1. Steady(d)
      BY <2>1, <2>3 DEF SteadyInv, Undisturbed
    <3> QED
      BY <2>1, <3>1, SteadyFrames DEF Steady, managerVars
  <2> QED
    BY <2>2, <2>3 DEF SteadyInv
<1>2. CASE Next
  <2>1. PhaseInv'
    BY <1>2, PhaseNext DEF SteadyInv
  <2>2. ASSUME NEW d \in Drives, Undisturbed(d)'
        PROVE  Steady(d)'
    <3>1. Undisturbed(d) /\ Steady(d)
      BY <1>2, <2>2, JournalStep DEF SteadyInv, EngineInv
    <3>2. ~Crash
      BY <2>2, <3>1 DEF Crash, Undisturbed
    <3> QED
      BY <1>2, <3>1, <3>2, EngineStaysSteady, CompactStaysSteady, RestStaysSteady
         DEF Next, SteadyInv
  <2> QED
    BY <2>1, <2>2 DEF SteadyInv
<1> QED
  BY <1>1, <1>2

LEMMA SteadyInit == Init => SteadyInv
<1> SUFFICES ASSUME Init
             PROVE  SteadyInv
  OBVIOUS
<1>1. /\ index = [d \in Drives |-> EmptyImage] /\ place = [d \in Drives |-> 0]
      /\ worker[EngineThread] = IdleWorker /\ compactor = IdleCompactor
      /\ engine.pc = "build" /\ cache = [d \in Drives |-> {}]
      /\ \A d \in Drives : journal[d] = [id |-> 1, first |-> 1, next |-> 1]
  BY DEF Init, ProcessInit, ManagerInit, EngineAt, Threads
<1>2. IdleCompactor.image = EmptyImage /\ IdleCompactor.pc = "idle"
  BY DEF IdleCompactor
<1>3. PhaseInv
  BY <1>1, <1>2 DEF PhaseInv, Building
<1>4. ASSUME NEW d \in Drives
      PROVE  Steady(d)
  <2>1. SteadyBuild(IdleWorker, journal[d].next)
    BY IdleSteady
  <2> QED
    BY <1>1, <1>2, <2>1, IntactEmpty DEF Steady, IndexSteady, CaptureSteady,
       CacheSteady, BuildSteady, PollSteady, Loaded
<1> QED
  BY <1>3, <1>4 DEF SteadyInv

(* With the start-up builds only and volumes that are quiet during an MFT   *)
(* read, a change is given up on only where the journal dropped records or  *)
(* was made anew, or after a crash: never by a failure of I/O or by the     *)
(* order of polls and compactions.                                          *)
THEOREM LostAlwaysForAReason ==
    ASSUME Undriven
    PROVE  Spec => []LostForAReason
<1>1. EngineInv /\ SteadyInv /\ [Next]_vars => SteadyInv'
  BY SteadyNext
<1>2. TypeOK /\ SteadyInv => LostForAReason
  <2> SUFFICES ASSUME TypeOK, SteadyInv, NEW d \in Drives, index[d].lost # {}
               PROVE  journal[d].first > 1 \/ journal[d].id > 1 \/ crashes > 0
    BY DEF LostForAReason
  <2>1. ~Undisturbed(d)
    BY DEF SteadyInv, Steady, IndexSteady, Intact
  <2>2. /\ journal[d].first \in Nat /\ journal[d].first > 0
        /\ journal[d].id \in Nat /\ journal[d].id > 0 /\ crashes \in Nat
    BY DEF TypeOK, JournalInfo, SteadyInv, PhaseInv
  <2> QED
    BY <2>1, <2>2 DEF Undisturbed
<1> QED
  BY <1>1, <1>2, SteadyInit, EngineInvInductive, TypeCorrect, PTL DEF Spec

=============================================================================
