-------------------------- MODULE EngineProperties --------------------------
(* What the engine's threads promise together.                             *)
EXTENDS Engine

WorkerPCs == {"idle", "cache", "check", "scan", "scanning", "head", "persist",
              "install", "done"}
EnginePCs == {"build", "building", "poll", "query", "read", "apply",
              "schedule", "capture", "stopped"}
CompactorPCs == {"idle", "rebuild", "commit", "persist"}

Worker == [pc : WorkerPCs, drive : Drives, from : Nat, image : Image]
JournalInfo == [id : Nat, first : Nat, next : Nat]
EngineLocals == [pc : EnginePCs, at : Nat \ {0}, start : Nat,
                 info : JournalInfo, from : Nat, events : SUBSET Nat, next : Nat]
CompactorLocals == [pc : CompactorPCs, drive : Drives, revision : Nat,
                    place : Nat, image : Image]

(* Every variable has its type (all modules of the engine).                 *)
TypeOK ==
    /\ ManagerTypeOK
    /\ worker \in [Threads -> Worker]
    /\ engine \in EngineLocals
    /\ compactor \in CompactorLocals
    /\ gate \in BOOLEAN /\ ready \in BOOLEAN /\ shutdown \in BOOLEAN
    /\ clearing \in SUBSET Drives
    /\ journal \in [Drives -> JournalInfo]
    /\ cache \in [Drives -> SUBSET Image]
    /\ crashes \in Nat

-----------------------------------------------------------------------------
(* The compaction gate is held exactly while somebody is between taking and *)
(* releasing it, so at most one compaction is in flight and a failed one    *)
(* does not keep the gate (schedule_compact, CompactGate::drop).            *)
GateExclusive ==
    /\ gate <=> (compactor.pc # "idle" \/ engine.pc = "capture")
    /\ engine.pc = "capture" => compactor.pc = "idle"

Covers(i) == Relevant(1, i.cursor - 1) \subseteq Reflects(i) \cup i.lost

(* Every image of a drive, loaded, persisted, being built or being          *)
(* compacted, shows every change below its own cursor except those a named  *)
(* step gave up on: installing, polling, compacting and persisting in any   *)
(* order never lose a change without moving the cursor back before it.      *)
CursorNeverAheadOfContent ==
    /\ \A d \in Drives : Covers(index[d])
    /\ \A d \in Drives : \A i \in cache[d] : Covers(i)
    /\ \A t \in Threads : Covers(worker[t].image)
    /\ Covers(compactor.image)

CompactCommits == compactor.pc = "commit" /\ compactor'.pc = "persist"

(* A compaction that commits over the installation it was captured from     *)
(* leaves the logical content as it was: the revision check notices every   *)
(* batch applied in between (commit_compact).                               *)
CommitKeepsContent ==
    [][CompactCommits /\ place[compactor.drive] = compactor.place
         => Reflects(index'[compactor.drive]) = Reflects(index[compactor.drive])]_vars

Visible == [d \in Drives |-> IF Loaded(d) THEN {Reflects(index[d])} ELSE {}]

(* While the process lives, what searches can see changes only together     *)
(* with the generation (the search session keys its candidate cache on it). *)
GenerationTracksContent ==
    [][crashes' = crashes /\ Visible' # Visible => generation' > generation]_vars

(* While a process lives, a change is given up on only where the journal    *)
(* has dropped records or was made anew: failures of I/O never cost one,    *)
(* however builds, polls and compactions interleave.  It needs a volume     *)
(* that is quiet during MFT reads and no index replaced between a poll and  *)
(* its apply; a restart may lose what a compaction's cache left out.        *)
LostForAReason ==
    \A d \in Drives :
        index[d].lost # {} => journal[d].first > 1 \/ journal[d].id > 1 \/ crashes > 0

(* The compaction gate is always released again, whichever way the attempt  *)
(* ends: no candidate, a snapshot or a thread that fails, a rebuild that    *)
(* fails, a revision that moved on, or the cache write.                     *)
GateReleased == gate ~> ~gate

CaughtUp(d) == /\ index[d].cursor = journal[d].next
               /\ Relevant(1, journal[d].next - 1) \subseteq
                     Reflects(index[d]) \cup index[d].lost

(* A drive the poll loop covers ends up showing every change, or having     *)
(* given it up at a named step, once the volume falls silent.               *)
PolledDrivesCatchUp ==
    \A n \in DOMAIN AutoDrives :
        <>[](Loaded(AutoDrives[n]) => CaughtUp(AutoDrives[n]))

-----------------------------------------------------------------------------
(* Statements of the source that the code does not keep; each is the        *)
(* property of a run that expects a violation.                              *)

(* lib.rs: "Index is ready and being kept up to date via USN": an index     *)
(* whose cursor reached the journal head shows every change.                *)
ReadyIsUpToDate ==
    \A d \in Drives :
        Loaded(d) /\ index[d].cursor = journal[d].next
            => Relevant(1, journal[d].next - 1) \subseteq Reflects(index[d])

=============================================================================
