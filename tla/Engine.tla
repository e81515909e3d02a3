------------------------------- MODULE Engine -------------------------------
(***************************************************************************)
(* The background threads of crates/engine/src/lib.rs around one           *)
(* DriveManager: the engine-index thread (start-up builds, then the USN    *)
(* poll loop), the threads of add_drive and rebuild_drive, the compaction  *)
(* thread with its gate, the .flowcache file of every drive, and process   *)
(* crashes.  Outside the process: the NTFS volumes and change journals.    *)
(***************************************************************************)
EXTENDS DriveManager, Sequences

CONSTANTS
    AutoDrives,   \* EngineConfig::auto_index_drives, in order
    HotThreads,   \* engine-add-X and engine-rebuild-X threads of one process
    EngineThread, \* the engine-index thread
    Quiet,        \* positions whose record makes no event (reason mask)
    Env,          \* which environment steps this instance takes
    MaxUsn, MaxJournals, MaxCrashes   \* bounds

EnvSteps == {"io", "trim", "recreate", "busyscan", "crash", "shutdown",
             "add", "remove", "rebuild", "clear"}

ASSUME EngineAssumption ==
    /\ AutoDrives \in Seq(Drives)
    /\ EngineThread \notin HotThreads
    /\ Quiet \subseteq Nat
    /\ Env \subseteq EnvSteps

VARIABLES
    journal,    \* drive -> [id, first, next] of its change journal
    cache,      \* drive -> the images in its .flowcache file: none or one
    worker,     \* thread -> the build it is running
    engine,     \* program counter and locals of the engine-index thread
    compactor,  \* program counter and locals of the compaction thread
    gate,       \* SearchEngine::compact_in_flight
    ready, shutdown,
    clearing,   \* drives clear_cache_and_rebuild has still to rebuild
    crashes

processVars == <<worker, engine, compactor, gate, ready, shutdown, clearing>>
vars == <<managerVars, processVars, journal, cache, crashes>>

Threads == HotThreads \cup {EngineThread}

(* Positions from a to b that carry a change of the name index.  USNs begin *)
(* at 1 here: 0 is Usn::ZERO, "read from the oldest record".                *)
Relevant(a, b) == (a .. b) \ ({0} \cup Quiet)

(* write_flow_cache stores the base snapshot, not the overlay.              *)
Persisted(i) == [i EXCEPT !.delta = {}, !.lost = @ \cup i.delta]

-----------------------------------------------------------------------------
IdleWorker == [pc |-> "idle", drive |-> CHOOSE d \in Drives : TRUE,
               from |-> 0, image |-> EmptyImage]
StartWorker(d, pc) == [IdleWorker EXCEPT !.pc = pc, !.drive = d]

NoInfo == [id |-> 0, first |-> 0, next |-> 0]
EngineAt(pc, n) == [pc |-> pc, at |-> n, start |-> 0, info |-> NoInfo,
                    from |-> 0, events |-> {}, next |-> 0]

IdleCompactor == [pc |-> "idle", drive |-> CHOOSE d \in Drives : TRUE,
                  revision |-> 0, place |-> 0, image |-> EmptyImage]

ProcessInit ==
    /\ ManagerInit
    /\ worker = [t \in Threads |-> IdleWorker]
    /\ engine = EngineAt("build", 1)
    /\ compactor = IdleCompactor
    /\ gate = FALSE
    /\ ready = FALSE
    /\ shutdown = FALSE
    /\ clearing = {}

Init ==
    /\ ProcessInit
    /\ journal = [d \in Drives |-> [id |-> 1, first |-> 1, next |-> 1]]
    /\ cache = [d \in Drives |-> {}]
    /\ crashes = 0

-----------------------------------------------------------------------------
(* build_index, one thread at a time; shared by all three callers.          *)

Step(t, pc) == worker' = [worker EXCEPT ![t].pc = pc]

(* read_flow_cache.  A file that does not decrypt is removed.               *)
ReadCache(t) ==
    LET d == worker[t].drive IN
    /\ worker[t].pc = "cache"
    /\ \/ /\ \E i \in cache[d] :
                worker' = [worker EXCEPT ![t].pc = "check", ![t].image = i]
          /\ cache' = cache
       \/ /\ cache[d] = {} \/ "io" \in Env
          /\ Step(t, "scan")
          /\ cache' \in {cache, [cache EXCEPT ![d] = {}]}
    /\ UNCHANGED <<managerVars, engine, compactor, gate, ready, shutdown,
                   clearing, journal, crashes>>

(* The cached cursor against the live journal; a cursor that points before  *)
(* first_usn jumps to next_usn.  An unreachable journal keeps the cache.    *)
CheckedImage(i, j) ==
    IF i.cursor < j.first
    THEN [i EXCEPT !.cursor = j.next,
                   !.lost = @ \cup (Relevant(i.cursor, j.next - 1) \ Reflects(i))]
    ELSE i

CheckCache(t) ==
    LET i == worker[t].image
        j == journal[worker[t].drive] IN
    /\ worker[t].pc = "check"
    /\ \/ /\ i.jid # 0 /\ i.jid = j.id
          /\ worker' = [worker EXCEPT ![t].pc = "install",
                                      ![t].image = CheckedImage(i, j)]
       \/ /\ i.jid = 0 \/ i.jid # j.id
          /\ worker' = [worker EXCEPT ![t].pc = "scan", ![t].image = EmptyImage]
       \/ /\ "io" \in Env
          /\ Step(t, "install")
    /\ UNCHANGED <<managerVars, engine, compactor, gate, ready, shutdown,
                   clearing, journal, cache, crashes>>

BeginScan(t) ==
    /\ worker[t].pc = "scan"
    /\ worker' = [worker EXCEPT ![t].pc = "scanning",
                                ![t].from = journal[worker[t].drive].next]
    /\ UNCHANGED <<managerVars, engine, compactor, gate, ready, shutdown,
                   clearing, journal, cache, crashes>>

(* The MFT read shows every change made before it began and some of those   *)
(* made while it ran.                                                       *)
EndScan(t) ==
    LET from == worker[t].from
        now == journal[worker[t].drive].next IN
    /\ worker[t].pc = "scanning"
    /\ \E seen \in SUBSET Relevant(from, now - 1) :
          worker' = [worker EXCEPT ![t].pc = "head",
                       ![t].image.base = Relevant(1, from - 1) \cup seen]
    /\ UNCHANGED <<managerVars, engine, compactor, gate, ready, shutdown,
                   clearing, journal, cache, crashes>>

(* The journal head becomes the cursor; if the query fails both stay 0.     *)
QueryHead(t) ==
    LET j == journal[worker[t].drive] IN
    /\ worker[t].pc = "head"
    /\ \/ worker' = [worker EXCEPT ![t].pc = "persist", ![t].from = 0,
                       ![t].image.cursor = j.next, ![t].image.jid = j.id,
                       ![t].image.lost = Relevant(1, j.next - 1)
                                            \ worker[t].image.base]
       \/ /\ "io" \in Env
          /\ worker' = [worker EXCEPT ![t].pc = "persist", ![t].from = 0]
    /\ UNCHANGED <<managerVars, engine, compactor, gate, ready, shutdown,
                   clearing, journal, cache, crashes>>

(* Best-effort cache write of the fresh build.                              *)
PersistBuilt(t) ==
    /\ worker[t].pc = "persist"
    /\ Step(t, "install")
    /\ \/ cache' = [cache EXCEPT ![worker[t].drive] = {Persisted(worker[t].image)}]
       \/ "io" \in Env /\ cache' = cache
    /\ UNCHANGED <<managerVars, engine, compactor, gate, ready, shutdown,
                   clearing, journal, crashes>>

InstallBuilt(t) ==
    /\ worker[t].pc = "install"
    /\ Install(worker[t].drive, worker[t].image)
    /\ worker' = [worker EXCEPT ![t] = [IdleWorker EXCEPT !.pc = "done"]]
    /\ UNCHANGED <<engine, compactor, gate, ready, shutdown, clearing,
                   journal, cache, crashes>>

(* The MFT cannot be opened or read: DriveError, nothing is installed.      *)
BuildFails(t) ==
    /\ "io" \in Env
    /\ worker[t].pc \in {"scan", "scanning"}
    /\ worker' = [worker EXCEPT ![t] = [IdleWorker EXCEPT !.pc = "done"]]
    /\ UNCHANGED <<managerVars, engine, compactor, gate, ready, shutdown,
                   clearing, journal, cache, crashes>>

Build(t) ==
    \/ ReadCache(t) \/ CheckCache(t) \/ BeginScan(t) \/ EndScan(t)
    \/ QueryHead(t) \/ PersistBuilt(t) \/ InstallBuilt(t) \/ BuildFails(t)

-----------------------------------------------------------------------------
(* The engine-index thread: start-up builds in the order of AutoDrives.     *)

EngineBuildNext ==
    /\ engine.pc = "build"
    /\ engine.at <= Len(AutoDrives)
    /\ ~shutdown
    /\ worker' = [worker EXCEPT ![EngineThread] =
                    StartWorker(AutoDrives[engine.at], "cache")]
    /\ engine' = [engine EXCEPT !.pc = "building"]
    /\ UNCHANGED <<managerVars, compactor, gate, ready, shutdown, clearing,
                   journal, cache, crashes>>

EngineBuilt ==
    /\ engine.pc = "building"
    /\ worker[EngineThread].pc = "done"
    /\ worker' = [worker EXCEPT ![EngineThread] = IdleWorker]
    /\ engine' = EngineAt("build", engine.at + 1)
    /\ UNCHANGED <<managerVars, compactor, gate, ready, shutdown, clearing,
                   journal, cache, crashes>>

(* All drives tried, or shut down: ready either way, then the poll loop.    *)
EngineReady ==
    /\ engine.pc = "build"
    /\ engine.at > Len(AutoDrives) \/ shutdown
    /\ ready' = TRUE
    /\ engine' = EngineAt("poll", 1)
    /\ UNCHANGED <<managerVars, worker, compactor, gate, shutdown, clearing,
                   journal, cache, crashes>>

(* The next drive of the cycle; an empty configuration only sleeps.         *)
NextDrive == engine' = EngineAt("poll", IF engine.at < Len(AutoDrives)
                                        THEN engine.at + 1 ELSE 1)
Polled == AutoDrives[engine.at]

EngineStops ==
    /\ engine.pc = "poll"
    /\ shutdown
    /\ engine' = EngineAt("stopped", 1)
    /\ UNCHANGED <<managerVars, worker, compactor, gate, ready, shutdown,
                   clearing, journal, cache, crashes>>

(* DriveManager::cursor under the read lock, which is then released.        *)
ReadCursor ==
    /\ engine.pc = "poll"
    /\ ~shutdown
    /\ engine.at <= Len(AutoDrives)
    /\ IF Loaded(Polled)
       THEN engine' = [engine EXCEPT !.pc = "query", !.start = index[Polled].cursor]
       ELSE NextDrive
    /\ UNCHANGED <<managerVars, worker, compactor, gate, ready, shutdown,
                   clearing, journal, cache, crashes>>

(* poll_drive: query_usn_journal ...                                        *)
QueryJournal ==
    /\ engine.pc = "query"
    /\ \/ engine' = [engine EXCEPT !.pc = "read", !.info = journal[Polled]]
       \/ "io" \in Env /\ NextDrive
    /\ UNCHANGED <<managerVars, worker, compactor, gate, ready, shutdown,
                   clearing, journal, cache, crashes>>

(* ... then read_usn_journal, with a second read from first_usn when the    *)
(* cursor's record is gone (error 1181), or next_usn without events when    *)
(* that fails too.  A read from 0 begins at the oldest record.              *)
ReadFrom(from) ==
    LET j == journal[Polled] IN
    engine' = [engine EXCEPT !.pc = "apply", !.from = from,
                 !.events = Relevant(from, j.next - 1), !.next = j.next]

(* Mutant: error 1181 is treated like any other.                            *)
ReadJournalNoRecovery ==
    LET j == journal[Polled]
        sameId == engine.info.id = j.id
        gone == engine.start # 0 /\ engine.start < j.first IN
    /\ engine.pc = "read"
    /\ \/ sameId /\ ~gone
          /\ ReadFrom(IF engine.start = 0 THEN j.first ELSE engine.start)
       \/ (~sameId \/ gone) /\ NextDrive
    /\ UNCHANGED <<managerVars, worker, compactor, gate, ready, shutdown,
                   clearing, journal, cache, crashes>>

ReadJournal ==
    LET j == journal[Polled]
        sameId == engine.info.id = j.id
        gone == engine.start # 0 /\ engine.start < j.first IN
    /\ engine.pc = "read"
    /\ \/ sameId /\ ~gone
          /\ ReadFrom(IF engine.start = 0 THEN j.first ELSE engine.start)
       \/ sameId /\ gone /\ engine.info.first >= j.first
          /\ ReadFrom(engine.info.first)
       \/ sameId /\ gone /\ (engine.info.first < j.first \/ "io" \in Env)
          /\ engine' = [engine EXCEPT !.pc = "apply", !.from = engine.info.next,
                          !.events = {}, !.next = engine.info.next]
       \/ (~sameId \/ "io" \in Env) /\ NextDrive
    /\ UNCHANGED <<managerVars, worker, compactor, gate, ready, shutdown,
                   clearing, journal, cache, crashes>>

(* The batch lands on whatever index the drive has by now.  What its cursor *)
(* jumps over is lost.                                                      *)
ApplyPoll ==
    LET d == Polled
        skipped == Relevant(index[d].cursor, engine.from - 1) \ Reflects(index[d]) IN
    /\ engine.pc = "apply"
    /\ IF engine.events = {} /\ engine.next = engine.start
       THEN UNCHANGED managerVars
       ELSE Apply(d, engine.events, engine.next, engine.info.id, skipped)
    /\ IF engine.events = {}
       THEN NextDrive
       ELSE engine' = EngineAt("schedule", engine.at)
    /\ UNCHANGED <<worker, compactor, gate, ready, shutdown, clearing,
                   journal, cache, crashes>>

(* Mutant: the gate is taken whoever holds it.                              *)
TakeGateAnyway ==
    /\ engine.pc = "schedule"
    /\ engine' = EngineAt("capture", engine.at) /\ gate' = TRUE
    /\ UNCHANGED <<managerVars, worker, compactor, ready, shutdown, clearing,
                   journal, cache, crashes>>

(* schedule_compact: the gate ...                                           *)
TakeGate ==
    /\ engine.pc = "schedule"
    /\ IF gate
       THEN NextDrive /\ gate' = gate
       ELSE engine' = EngineAt("capture", engine.at) /\ gate' = TRUE
    /\ UNCHANGED <<managerVars, worker, compactor, ready, shutdown, clearing,
                   journal, cache, crashes>>

(* ... then the candidate under the read lock, and a thread for it.         *)
Capture ==
    /\ engine.pc = "capture"
    /\ NextDrive
    /\ \/ \E d \in Drives :
             /\ IsCompactCandidate(d)
             /\ compactor' = [pc |-> "rebuild", drive |-> d,
                              revision |-> revision[d], place |-> place[d],
                              image |-> Folded(index[d])]
             /\ gate' = gate
       \/ /\ (\A d \in Drives : ~ShouldCompact(d)) \/ "io" \in Env
          /\ gate' = FALSE
          /\ compactor' = compactor
    /\ UNCHANGED <<managerVars, worker, ready, shutdown, clearing, journal,
                   cache, crashes>>

EngineStep ==
    \/ EngineBuildNext \/ EngineBuilt \/ EngineReady \/ EngineStops
    \/ ReadCursor \/ QueryJournal \/ ReadJournal \/ ApplyPoll
    \/ TakeGate \/ Capture

-----------------------------------------------------------------------------
(* The compaction thread.  CompactGate releases the gate when it ends.      *)

CompactorEnds == compactor' = IdleCompactor /\ gate' = FALSE

(* Mutant: a rebuild that fails ends the thread with the gate still taken.  *)
CompactRebuildLeaks ==
    /\ compactor.pc = "rebuild"
    /\ \/ compactor' = [compactor EXCEPT !.pc = "commit"]
       \/ "io" \in Env /\ compactor' = IdleCompactor
    /\ UNCHANGED <<managerVars, worker, engine, gate, ready, shutdown, clearing,
                   journal, cache, crashes>>

CompactRebuild ==
    /\ compactor.pc = "rebuild"
    /\ \/ compactor' = [compactor EXCEPT !.pc = "commit"] /\ gate' = gate
       \/ "io" \in Env /\ CompactorEnds
    /\ UNCHANGED <<managerVars, worker, engine, ready, shutdown, clearing,
                   journal, cache, crashes>>

CompactCommit ==
    /\ compactor.pc = "commit"
    /\ RevisionMatches(compactor.drive, compactor.revision)
    /\ CommitCompact(compactor.drive, compactor.image)
    /\ compactor' = [compactor EXCEPT !.pc = "persist"]
    /\ UNCHANGED <<worker, engine, gate, ready, shutdown, clearing, journal,
                   cache, crashes>>

CompactDiscard ==
    /\ compactor.pc = "commit"
    /\ ~RevisionMatches(compactor.drive, compactor.revision)
    /\ CompactorEnds
    /\ UNCHANGED <<managerVars, worker, engine, ready, shutdown, clearing,
                   journal, cache, crashes>>

(* A second lock acquisition: the index persisted is the one loaded now.    *)
CompactPersist ==
    LET d == compactor.drive IN
    /\ compactor.pc = "persist"
    /\ CompactorEnds
    /\ \/ Loaded(d) /\ cache' = [cache EXCEPT ![d] = {Persisted(index[d])}]
       \/ (~Loaded(d) \/ "io" \in Env) /\ cache' = cache
    /\ UNCHANGED <<managerVars, worker, engine, ready, shutdown, clearing,
                   journal, crashes>>

Compact == CompactRebuild \/ CompactCommit \/ CompactDiscard \/ CompactPersist

-----------------------------------------------------------------------------
(* The public operations of SearchEngine that change drives.                *)

AddDrive(d) ==
    /\ "add" \in Env
    /\ \E t \in HotThreads :
          /\ worker[t].pc = "idle"
          /\ worker' = [worker EXCEPT ![t] = StartWorker(d, "cache")]
    /\ UNCHANGED <<managerVars, engine, compactor, gate, ready, shutdown,
                   clearing, journal, cache, crashes>>

RemoveDrive(d) ==
    /\ "remove" \in Env
    /\ Loaded(d)
    /\ Remove(d)
    /\ UNCHANGED <<processVars, journal, cache, crashes>>

(* rebuild_drive: the index goes at once, the build skips the cache.        *)
StartRebuild(d) ==
    /\ Remove(d)
    /\ \E t \in HotThreads :
          /\ worker[t].pc = "idle"
          /\ worker' = [worker EXCEPT ![t] = StartWorker(d, "scan")]

RebuildDrive(d) ==
    /\ "rebuild" \in Env
    /\ StartRebuild(d)
    /\ UNCHANGED <<engine, compactor, gate, ready, shutdown, clearing, journal,
                   cache, crashes>>

(* clear_cache_and_rebuild: delete every cache file, then rebuild the       *)
(* drives loaded at that moment.  A file that cannot be removed ends it.    *)
ClearCache ==
    /\ "clear" \in Env
    /\ clearing = {}
    /\ \/ /\ cache' = [d \in Drives |-> {}]
          /\ clearing' = {d \in Drives : Loaded(d)}
       \/ /\ "io" \in Env
          /\ \E kept \in SUBSET Drives \ {{}} :
                cache' = [d \in Drives |-> IF d \in kept THEN cache[d] ELSE {}]
          /\ clearing' = {}
    /\ UNCHANGED <<managerVars, worker, engine, compactor, gate, ready,
                   shutdown, journal, crashes>>

ClearRebuild ==
    /\ \E d \in clearing : StartRebuild(d) /\ clearing' = clearing \ {d}
    /\ UNCHANGED <<engine, compactor, gate, ready, shutdown, journal, cache,
                   crashes>>

Shutdown ==
    /\ "shutdown" \in Env
    /\ ~shutdown
    /\ shutdown' = TRUE
    /\ UNCHANGED <<managerVars, worker, engine, compactor, gate, ready,
                   clearing, journal, cache, crashes>>

-----------------------------------------------------------------------------
(* The volumes, and the end of the process.                                 *)

Scanning(d) == \E t \in Threads :
    worker[t].drive = d /\ worker[t].pc \in {"scanning", "head"}

(* Some file of d changes; "busyscan" lets that happen under an MFT read.   *)
Change(d) ==
    /\ journal[d].next <= MaxUsn
    /\ "busyscan" \in Env \/ ~Scanning(d)
    /\ journal' = [journal EXCEPT ![d].next = @ + 1]
    /\ UNCHANGED <<managerVars, processVars, cache, crashes>>

(* NTFS reclaims the oldest record.                                         *)
Trim(d) ==
    /\ "trim" \in Env
    /\ journal[d].first < journal[d].next
    /\ journal' = [journal EXCEPT ![d].first = @ + 1]
    /\ UNCHANGED <<managerVars, processVars, cache, crashes>>

(* The journal is deleted and created anew; numbering goes on.              *)
Recreate(d) ==
    /\ "recreate" \in Env
    /\ journal[d].id < MaxJournals
    /\ journal' = [journal EXCEPT ![d].id = @ + 1, ![d].first = journal[d].next]
    /\ UNCHANGED <<managerVars, processVars, cache, crashes>>

(* The process ends at any point and starts again.                          *)
Crash ==
    /\ "crash" \in Env
    /\ crashes < MaxCrashes
    /\ crashes' = crashes + 1
    /\ index' = [d \in Drives |-> EmptyImage]
    /\ revision' = [d \in Drives |-> 0]
    /\ place' = [d \in Drives |-> 0]
    /\ generation' = 0
    /\ worker' = [t \in Threads |-> IdleWorker]
    /\ engine' = EngineAt("build", 1)
    /\ compactor' = IdleCompactor
    /\ gate' = FALSE
    /\ ready' = FALSE
    /\ shutdown' = FALSE
    /\ clearing' = {}
    /\ UNCHANGED <<journal, cache>>

-----------------------------------------------------------------------------
Next ==
    \/ EngineStep
    \/ Compact
    \/ \E t \in Threads : Build(t)
    \/ \E d \in Drives : AddDrive(d) \/ RemoveDrive(d) \/ RebuildDrive(d)
    \/ ClearCache \/ ClearRebuild \/ Shutdown
    \/ \E d \in Drives : Change(d) \/ Trim(d) \/ Recreate(d)
    \/ Crash

Spec == Init /\ [][Next]_vars

(* The operating system schedules every thread of the process; nobody is    *)
(* obliged to change files, call the API or crash.                          *)
Fairness ==
    /\ WF_vars(EngineStep)
    /\ WF_vars(Compact)
    /\ \A t \in Threads : WF_vars(Build(t))

FairSpec == Spec /\ Fairness
=============================================================================
